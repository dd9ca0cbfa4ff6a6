----------------------------- MODULE ChainProofs ------------------------------
(***************************************************************************)
(* Recovery by replay reaches the state the marker names; executing a block*)
(* keeps a chain state well formed and uses up the nonces of its           *)
(* transactions; and no method of the engine gives up a transaction that it*)
(* holds, unless a finalized block has used the nonce.                     *)
(***************************************************************************)
EXTENDS LedgerProofs

\* Opening replays the stored blocks, and arrives at the state the marker names.
LEMMA ReplayReachesMarker ==
    ASSUME FiniteLaws, NEW dk, Recoverable(dk), dk.marker.height = height(Tip(dk)), Tip(dk) \in ChainState
    PROVE  replay(dk, recovery_base(dk)) = Tip(dk)
<1> DEFINE base == recovery_base(dk)
           low == height(base)
           top == dk.marker.height
           hs == low .. MaxHeight
           step(st, h) == IF h = low THEN base
                          ELSE IF st = None \/ dk.blocks[h] = None THEN None
                               ELSE IF valid_proposal(st, dk.blocks[h])
                                    THEN execute(st, dk.blocks[h].body) ELSE None
           at == CHOOSE f : f = [h \in hs |-> step(f[h - 1], h)]
           good(h) == IF h <= top THEN StateAt(dk, h) ELSE None
           g == [h \in hs |-> good(h)]
<1>1. /\ base \in ChainState /\ low \in Nat /\ top \in Nat /\ MaxHeight \in Nat
      /\ low <= top /\ top <= MaxHeight
  <2>1. base \in ChainState /\ low <= top /\ top <= MaxHeight /\ MaxHeight \in Nat
    BY EngineAssumption, Zenon DEF Recoverable
  <2>2. low \in Nat /\ height(Tip(dk)) \in Nat
    BY <2>1, ChainFacts, Zenon DEF ChainState, height
  <2> QED
    BY <2>1, <2>2, Zenon
<1>2. /\ StateAt(dk, low) = base /\ StateAt(dk, top) = Tip(dk)
      /\ \A h \in Height : IF low < h /\ h <= top THEN Replays(dk, h) ELSE dk.blocks[h] = None
  BY Zenon DEF Recoverable, Tip
<1>3. replay(dk, base) = at[top]
  BY Zenon DEF replay
<1>4. ASSUME NEW h \in hs, h # low, h <= top
      PROVE  /\ StateAt(dk, h - 1) # None /\ dk.blocks[h] # None
             /\ valid_proposal(StateAt(dk, h - 1), dk.blocks[h])
             /\ execute(StateAt(dk, h - 1), dk.blocks[h].body) = StateAt(dk, h)
  <2>1. h \in Height /\ low < h /\ h - 1 \in low .. top
    BY <1>1, <1>4 DEF Height
  <2>2. Replays(dk, h)
    BY <1>2, <1>4, <2>1, Zenon
  <2>3. dk.blocks[h] # None
    BY <2>2, NoneAssumption, Zenon DEF Replays
  <2>4. StateAt(dk, h - 1) \in ChainState
    BY <1>1, <2>1, StateAtTyped, Zenon
  <2> QED
    BY <2>2, <2>3, <2>4, NoneAssumption, Zenon DEF Replays
<1>5. ASSUME NEW h \in hs, h # low, ~(h <= top) PROVE dk.blocks[h] = None
  <2>1. h \in Height
    BY <1>1, <1>5 DEF Height
  <2> QED
    BY <1>2, <1>5, <2>1, Zenon
<1>6. good(low) = base /\ good(top) = Tip(dk)
  BY <1>1, <1>2
<1>7. ASSUME NEW h \in hs, NEW st, h # low => st = good(h - 1) PROVE step(st, h) = good(h)
  <2>1. CASE h = low
    BY <1>6, <2>1, Zenon
  <2>2. CASE h # low /\ h <= top
    <3>1. h - 1 <= top
      BY <1>1, <2>2
    <3>2. st = StateAt(dk, h - 1)
      BY <1>7, <2>2, <3>1, Zenon
    <3> QED
      BY <1>4, <2>2, <3>2, Zenon
  <2>3. CASE h # low /\ ~(h <= top)
    BY <1>5, <2>3, Zenon
  <2> QED
    BY <2>1, <2>2, <2>3, Zenon
<1> HIDE DEF step, good, base
<1>8. g = [h \in hs |-> step(g[h - 1], h)]
  <2>1. ASSUME NEW h \in hs PROVE g[h] = step(g[h - 1], h)
    <3>1. h # low => h - 1 \in hs
      BY <1>1
    <3>2. h # low => g[h - 1] = good(h - 1)
      BY <3>1, Zenon
    <3> QED
      BY <1>7, <3>2, Zenon
  <2> QED
    BY <2>1, Zenon
<1>9. at = [h \in hs |-> step(at[h - 1], h)]
  BY <1>8, Zenon
<1> HIDE DEF at
<1> DEFINE T == {n \in Nat : low + n \in hs => at[low + n] = good(low + n)}
<1>10. T = Nat
  <2>1. 0 \in T
    <3>1. low \in hs /\ low + 0 = low
      BY <1>1
    <3>2. at[low] = step(at[low - 1], low)
      BY <1>9, <3>1, Zenon
    <3>3. step(at[low - 1], low) = good(low)
      BY <1>7, <3>1, Zenon
    <3> QED
      BY <3>1, <3>2, <3>3, Zenon
  <2>2. ASSUME NEW n \in T PROVE n + 1 \in T
    <3>1. n \in Nat /\ n + 1 \in Nat
      OBVIOUS
    <3>2. ASSUME low + (n + 1) \in hs PROVE at[low + (n + 1)] = good(low + (n + 1))
      <4>1. /\ low + n \in hs /\ low + (n + 1) # low /\ (low + (n + 1)) - 1 = low + n
        BY <1>1, <3>1, <3>2
      <4>2. at[low + n] = good(low + n)
        BY <4>1, Zenon
      <4>3. at[low + (n + 1)] = step(at[(low + (n + 1)) - 1], low + (n + 1))
        BY <1>9, <3>2, Zenon
      <4> QED
        BY <1>7, <3>2, <4>1, <4>2, <4>3, Zenon
    <3> QED
      BY <3>1, <3>2, Zenon
  <2> HIDE DEF T
  <2>3. T \in SUBSET Nat
    BY Zenon DEF T
  <2> QED
    BY <2>1, <2>2, <2>3, Zenon DEF FiniteLaws
<1>11. at[top] = good(top)
  <2>1. top - low \in Nat /\ low + (top - low) = top /\ top \in hs
    BY <1>1
  <2>2. top - low \in T
    BY <1>10, <2>1, Zenon
  <2> QED
    BY <2>1, <2>2, Zenon
<1> QED
  BY <1>3, <1>6, <1>11, Zenon DEF base

\* What open_with_history recovers is the state the marker names; it can be refused only
\* when retention has pruned a state of the checkpoint.
LEMMA RecoveredIsTip ==
    ASSUME FiniteLaws, NEW dk, Recoverable(dk), dk.marker \in Marker,
           dk.marker.height = height(Tip(dk)), Tip(dk) \in ChainState
    PROVE  /\ recovered(dk) \in {Tip(dk), None}
           /\ History = 0 \/ dk.checkpoint = None => recovered(dk) = Tip(dk)
<1> DEFINE base == recovery_base(dk)
           st == replay(dk, base)
<1>1. st = Tip(dk)
  BY ReplayReachesMarker, Zenon
<1>2. st # None
  BY <1>1, NoneAssumption, Zenon
<1>3. /\ height(base) <= dk.marker.height /\ height(base) \in Nat /\ dk.marker.height \in Nat
  <2>1. base \in ChainState /\ height(base) <= dk.marker.height
    BY Zenon DEF Recoverable
  <2> QED
    BY <2>1, ChainFacts DEF ChainState, height
<1>4. verify_recovered(dk, st)
  <2>1. dk.marker = marker_of(Tip(dk))
    BY Zenon DEF marker_of, Tip, Marker, domain_heads_root
  <2>2. dk.wal = dk.marker /\ \A d \in Live(Tip(dk)) : dk.heads[d] = head_of(Tip(dk).domains[d])
    BY Zenon DEF Recoverable, Live, Tip
  <2> QED
    BY <1>1, <2>1, <2>2, Zenon DEF verify_recovered
<1>5. recovered(dk) = IF dk.checkpoint # None /\ ~checkpoint_readable(dk) THEN None ELSE st
  <2>1. ~(height(base) > dk.marker.height)
    BY <1>3
  <2> HIDE DEF base, st
  <2>2. recovered(dk) = IF dk.checkpoint # None /\ ~checkpoint_readable(dk) THEN None
                        ELSE IF height(base) > dk.marker.height THEN None
                        ELSE IF st # None /\ verify_recovered(dk, st) THEN st ELSE None
    BY Zenon DEF recovered, base, st
  <2> QED
    BY <1>2, <1>4, <2>1, <2>2, Zenon
<1>6. History = 0 /\ dk.checkpoint # None => checkpoint_readable(dk)
  BY Zenon DEF Recoverable
<1> QED
  BY <1>1, <1>5, <1>6, Zenon

-----------------------------------------------------------------------------
\* Two disjoint sets and one more element fit in a set only if it is larger than both
\* together.
LEMMA LargerThanBoth ==
    ASSUME FiniteLaws, NEW A, NEW B, NEW x, NEW C, IsFiniteSet(C),
           A \subseteq C, B \subseteq C, x \in C, A \cap B = {}, x \notin A, x \notin B
    PROVE  /\ Cardinality(A) \in Nat /\ Cardinality(B) \in Nat /\ Cardinality(C) \in Nat
           /\ Cardinality(A) + Cardinality(B) < Cardinality(C)
<1>1. /\ IsFiniteSet(A) /\ Cardinality(A) \in Nat /\ IsFiniteSet(B) /\ Cardinality(B) \in Nat
      /\ Cardinality(C) \in Nat
  BY SubsetFinite, Zenon
<1>2. /\ IsFiniteSet(A \cup B)
      /\ Cardinality(A \cup B) = Cardinality(A) + Cardinality(B)
  BY <1>1, Zenon DEF FiniteLaws
<1>3. Cardinality((A \cup B) \cup {x}) = Cardinality(A \cup B) + 1
  <2>1. x \notin A \cup B
    BY Zenon
  <2> QED
    BY <1>2, <2>1, CountOneMore, Zenon
<1>4. Cardinality((A \cup B) \cup {x}) <= Cardinality(C)
  <2>1. (A \cup B) \cup {x} \in SUBSET C
    BY Zenon
  <2> QED
    BY <2>1, SubsetFinite, Zenon
<1> QED
  BY <1>1, <1>2, <1>3, <1>4

\* The transactions of a sender in a domain are finitely many, and more of them can
\* only raise the nonce.
LEMMA NonceBounds ==
    ASSUME FiniteLaws, NEW st \in ChainState, NEW d \in Domain, NEW s
    PROVE  /\ IsFiniteSet({t \in st.domains[d].state : t.sender = s})
           /\ nonce(st, d, s) \in Nat
           /\ \A q \in ChainState : st.domains[d].state \subseteq q.domains[d].state =>
                 nonce(st, d, s) <= nonce(q, d, s)
<1>1. st.domains[d].state \in SUBSET Transaction
  BY Zenon DEF ChainState, FinalizedDomain
<1> DEFINE A == {t \in st.domains[d].state : t.sender = s}
<1>2. IsFiniteSet(Transaction) /\ A \in SUBSET Transaction
  BY <1>1, EngineAssumption, Zenon
<1>3. IsFiniteSet(A) /\ Cardinality(A) \in Nat
  <2> HIDE DEF A
  <2> QED
    BY <1>2, SubsetFinite, Zenon
<1>4. ASSUME NEW q \in ChainState, st.domains[d].state \subseteq q.domains[d].state
      PROVE  nonce(st, d, s) <= nonce(q, d, s)
  <2> DEFINE C == {t \in q.domains[d].state : t.sender = s}
  <2>1. q.domains[d].state \in SUBSET Transaction
    BY Zenon DEF ChainState, FinalizedDomain
  <2>2. C \in SUBSET Transaction /\ A \in SUBSET C
    BY <1>4, <2>1, Zenon
  <2>3. IsFiniteSet(C)
    <3> HIDE DEF C
    <3> QED
      BY <1>2, <2>2, SubsetFinite, Zenon
  <2>4. Cardinality(A) <= Cardinality(C)
    <3> HIDE DEF A, C
    <3> QED
      BY <2>2, <2>3, SubsetFinite, Zenon
  <2> QED
    BY <2>4, Zenon DEF nonce
<1> QED
  BY <1>3, <1>4, Zenon DEF nonce

\* After a block, the nonce of a sender has passed those of its transactions: the ones
\* the block executes are above the ones executed before, and without gaps.
LEMMA ExecutedNonces ==
    ASSUME FiniteLaws, NEW st, WellFormed(st), NEW body \in SUBSET Transaction, executable(st, body),
           NEW d \in Live(st), NEW t \in resulting_domains(st, body)[d].state
    PROVE  t.nonce < nonce(execute(st, body), d, t.sender)
<1> DEFINE q == execute(st, body)
           B == batch(st, body, d)
           old == st.domains[d].state
           A == {x \in old : x.sender = t.sender}
           L == {x \in B : x.sender = t.sender /\ x.nonce < t.nonce}
           C == {x \in q.domains[d].state : x.sender = t.sender}
<1>1. st \in ChainState /\ d \in Domain
  BY Zenon DEF WellFormed, Live
<1>2. q \in ChainState /\ q.domains = resulting_domains(st, body)
  BY <1>1, ExecuteTyped, Zenon
<1>3. q.domains[d].state = old \cup B
  BY <1>1, <1>2, ResultingDomain
<1>4. /\ old \in SUBSET Transaction /\ B \in SUBSET Transaction
      /\ t \in Transaction /\ t.nonce \in Nat
  <2>1. old \in SUBSET Transaction /\ B \in SUBSET Transaction
    BY <1>1, Zenon DEF ChainState, FinalizedDomain, batch
  <2>2. t \in old \cup B
    BY <1>2, <1>3, Zenon
  <2> QED
    BY <2>1, <2>2, TransactionAssumption DEF Nonce
<1>5. \A x \in old : x.nonce < nonce(st, d, x.sender)
  BY <1>1, Zenon DEF WellFormed
<1>6. nonce(st, d, t.sender) \in Nat /\ nonce(q, d, t.sender) \in Nat
  BY <1>1, <1>2, NonceBounds, Zenon
<1>7. CASE t \in old
  <2>1. nonce(st, d, t.sender) <= nonce(q, d, t.sender)
    BY <1>1, <1>2, <1>3, NonceBounds, Zenon
  <2>2. t.nonce < nonce(st, d, t.sender)
    BY <1>5, <1>7, Zenon
  <2> HIDE DEF q
  <2>3. t.nonce < nonce(q, d, t.sender)
    BY <1>4, <1>6, <2>1, <2>2
  <2> QED
    BY <2>3, Zenon DEF q
<1>8. CASE t \in B
  <2>1. ASSUME NEW x \in B, x.sender = t.sender
        PROVE  x.nonce >= nonce(st, d, t.sender) /\ x.nonce \in Nat
    <3> DEFINE M == {u \in B : u.sender = x.sender /\ u.nonce < x.nonce}
    <3>1. x.nonce = nonce(st, d, x.sender) + Cardinality(M)
      BY Zenon DEF executable
    <3>2. M \in SUBSET Transaction /\ IsFiniteSet(Transaction)
      BY <1>4, EngineAssumption, Zenon
    <3>3. Cardinality(M) \in Nat
      <4> HIDE DEF M
      <4> QED
        BY <3>2, SubsetFinite, Zenon
    <3> HIDE DEF M, B
    <3> QED
      BY <1>6, <2>1, <3>1, <3>3
  <2>2. ASSUME NEW x \in A PROVE x.nonce < nonce(st, d, t.sender) /\ x.nonce \in Nat
    BY <1>4, <1>5, TransactionAssumption DEF Nonce
  <2>3. A \cap L = {} /\ t \notin A /\ t \notin L
    <3>1. ASSUME NEW x \in B, x \in A, x.sender = t.sender PROVE FALSE
      <4>1. x.nonce >= nonce(st, d, t.sender) /\ x.nonce < nonce(st, d, t.sender)
            /\ x.nonce \in Nat
        BY <2>1, <2>2, <3>1, Zenon
      <4> QED
        BY <1>6, <4>1
    <3>2. t \notin A
      BY <1>8, <3>1, Zenon
    <3>3. t \notin L
      BY <1>4
    <3> QED
      BY <3>1, <3>2, <3>3, Zenon
  <2>4. A \subseteq C /\ L \subseteq C /\ t \in C
    BY <1>3, <1>8, Zenon
  <2>5. IsFiniteSet(C) /\ nonce(q, d, t.sender) = Cardinality(C)
    BY <1>1, <1>2, NonceBounds, ZenonT(40) DEF nonce
  <2>6. t.nonce = Cardinality(A) + Cardinality(L)
    BY <1>8, Zenon DEF executable, nonce
  <2> HIDE DEF A, L, C, q
  <2>7. Cardinality(A) + Cardinality(L) < Cardinality(C)
    BY <2>3, <2>4, <2>5, LargerThanBoth, Zenon
  <2>8. t.nonce < nonce(q, d, t.sender)
    BY <2>5, <2>6, <2>7, Zenon
  <2> QED
    BY <2>8, Zenon DEF q
<1> QED
  BY <1>2, <1>3, <1>7, <1>8, Zenon

\* Executing a block keeps a chain state well formed.
LEMMA ExecuteWellFormed ==
    ASSUME FiniteLaws, NEW st, WellFormed(st), NEW body \in SUBSET Transaction, executable(st, body)
    PROVE  WellFormed(execute(st, body))
<1> DEFINE q == execute(st, body)
<1>1. /\ st \in ChainState /\ RootDomain \in Live(st)
      /\ \A d \in Domain : st.domains[d].consensus_height <= height(st)
      /\ \A d \in Domain : d \notin Live(st) => st.domains[d].state = {}
      /\ \A d \in Domain : \A t \in st.domains[d].state : t.chain_id = st.domains[d].chain_id
  BY Zenon DEF WellFormed
<1>2. /\ q \in ChainState /\ q.domains = resulting_domains(st, body)
      /\ height(q) = height(st) + 1 /\ height(st) \in Nat
  BY <1>1, ExecuteTyped, Zenon
<1>3. /\ Live(st) \subseteq Live(q)
      /\ \A d, e \in Live(q) : q.domains[d].chain_id = q.domains[e].chain_id => d = e
  BY ExecutedIds, Zenon
<1>4. ASSUME NEW d \in Domain PROVE q.domains[d].consensus_height <= height(q)
  <2>1. \/ q.domains[d] = st.domains[d]
        \/ q.domains[d].consensus_height = height(st) + 1
    BY <1>1, <1>2, ResultingDomain
  <2>2. st.domains[d].consensus_height <= height(st) /\ st.domains[d].consensus_height \in Nat
    BY <1>1, Zenon DEF ChainState, FinalizedDomain
  <2> HIDE DEF q
  <2> QED
    BY <1>2, <2>1, <2>2
<1>5. ASSUME NEW d \in Domain, d \notin Live(st) PROVE q.domains[d].state = {}
  BY <1>1, <1>2, <1>5, ResultingDomain
<1>6. ASSUME NEW d \in Domain, NEW t \in q.domains[d].state
      PROVE  t.chain_id = q.domains[d].chain_id /\ t.nonce < nonce(q, d, t.sender)
  <2>1. d \in Live(st)
    BY <1>5, <1>6, Zenon
  <2>2. /\ q.domains[d].chain_id = st.domains[d].chain_id
        /\ q.domains[d].state = st.domains[d].state \cup batch(st, body, d)
    BY <1>1, <1>2, <2>1, ResultingDomain
  <2>3. t.chain_id = q.domains[d].chain_id
    BY <1>1, <2>2, Zenon DEF batch
  <2>4. t.nonce < nonce(q, d, t.sender)
    BY <1>2, <2>1, ExecutedNonces, Zenon
  <2> QED
    BY <2>3, <2>4, Zenon
<1>7. \A d \in Domain : d \notin Live(q) => q.domains[d].state = {}
  BY <1>3, <1>5, Zenon
<1> HIDE DEF q
<1>8. WellFormed(q)
  BY <1>1, <1>2, <1>3, <1>4, <1>6, <1>7, Zenon DEF WellFormed
<1> QED
  BY <1>8, Zenon DEF q

\* A transaction a block executes is new: it is in no state the block builds on.
LEMMA ExecutedOnce ==
    ASSUME FiniteLaws, NEW st, WellFormed(st), NEW body \in SUBSET Transaction, executable(st, body),
           NEW t \in body, NEW d \in Live(st)
    PROVE  t \notin st.domains[d].state
<1> SUFFICES ASSUME t \in st.domains[d].state PROVE FALSE
  BY Zenon
<1>1. st \in ChainState /\ d \in Domain
  BY Zenon DEF WellFormed, Live
<1>2. t.chain_id = st.domains[d].chain_id /\ t.nonce < nonce(st, d, t.sender)
  BY <1>1, Zenon DEF WellFormed
<1> DEFINE M == {u \in batch(st, body, d) : u.sender = t.sender /\ u.nonce < t.nonce}
<1>3. t.nonce = nonce(st, d, t.sender) + Cardinality(M)
  BY <1>2, Zenon DEF executable, batch
<1>4. M \in SUBSET Transaction /\ IsFiniteSet(Transaction)
  BY EngineAssumption, Zenon DEF batch
<1> HIDE DEF M
<1>5. Cardinality(M) \in Nat
  BY <1>4, SubsetFinite, Zenon
<1>6. nonce(st, d, t.sender) \in Nat
  BY <1>1, NonceBounds, Zenon
<1> QED
  BY <1>2, <1>3, <1>5, <1>6

LEMMA ExecutionIsSound == FiniteLaws => ExecutionSound
  BY ExecuteWellFormed, ExecutedOnce, Zenon DEF ExecutionSound

-----------------------------------------------------------------------------
\* An engine value between two methods: well typed, every pooled and reserved entry in
\* its place, and the proposal's block made of exactly the entries reserved for it.
Sound(e) ==
    /\ e.finalized \in ChainState /\ e.pool \in Pool /\ e.cursor \in Nat
    /\ ExactCounts(e.pool) /\ Placed(e.pool, e.pool.entries)
    /\ e.pending # None =>
          /\ e.pending \in Proposal /\ Placed(e.pool, e.pending.reserved)
          /\ e.pending.block.body
                = {e.pending.reserved[k] : k \in Held(e.pending.reserved)}
          /\ height(e.finalized) < MaxHeight

\* What AdmittedKept says of a step.
Keeps(e, f) ==
    \A k \in HeldBy(e) : k \in HeldBy(f) \/ k[3] < nonce(f.finalized, k[1], k[2])

\* Registering the domains of a state that register_domain accepts changes no route of
\* an entry.
LEMMA RegisteredKeeps ==
    ASSUME NEW p \in Pool, NEW st \in ChainState, ExactCounts(p),
           \A d \in Live(st) : register_ok(p, d, st.domains[d].chain_id)
    PROVE  LET q == registered(p, st)
           IN  /\ q \in Pool /\ ExactCounts(q) /\ q.entries = p.entries
               /\ \A e : Placed(p, e) => Placed(q, e)
               /\ \A d \in Domain : q.chain_ids[d] = IF d \in Live(st)
                                                     THEN st.domains[d].chain_id
                                                     ELSE p.chain_ids[d]
<1> DEFINE q == registered(p, st)
           ids == [d \in Domain |-> IF d \in Live(st) THEN st.domains[d].chain_id
                                    ELSE p.chain_ids[d]]
           used == p.used_chain_ids \cup {st.domains[d].chain_id : d \in Live(st)}
<1>1. q = [p EXCEPT !.chain_ids = ids, !.used_chain_ids = used]
  BY Zenon DEF registered
<1>2. /\ p.chain_ids \in [Domain -> Nat] /\ p.used_chain_ids \in SUBSET Nat
      /\ \A d \in Domain : st.domains[d].chain_id \in Nat
  BY Zenon DEF Pool, ChainState, FinalizedDomain
<1>3. ids \in [Domain -> Nat] /\ used \in SUBSET Nat
  BY <1>2, Zenon DEF Live
<1>4. \A d \in Domain : ids[d] = IF d \in Live(st) THEN st.domains[d].chain_id ELSE p.chain_ids[d]
  BY Zenon
<1>5. \A d \in Domain : Registered(p, d) => ids[d] = p.chain_ids[d]
  BY <1>4, Zenon DEF register_ok
<1> HIDE DEF ids, used, q
<1>6. /\ q.chain_ids = ids /\ q.used_chain_ids = used /\ q.entries = p.entries
      /\ q.sender_counts = p.sender_counts /\ q \in Pool
  BY <1>1, <1>3, Zenon DEF Pool
<1>7. ExactCounts(q)
  BY <1>6, Zenon DEF ExactCounts
<1>8. ASSUME NEW e, Placed(p, e) PROVE Placed(q, e)
  BY <1>5, <1>6, <1>8 DEF Placed, Registered
<1> QED
  BY <1>4, <1>6, <1>7, <1>8, Zenon DEF q

\* SubmitRaw: insert never gives up a place.
LEMMA SubmitKeeps ==
    ASSUME FiniteLaws, NEW e, Sound(e), EngineFields(e), NEW d \in Domain, NEW t \in Transaction, NEW n,
           NEW f, f = [e EXCEPT !.pool = insert(@, d, t, n)]
    PROVE  Sound(f) /\ Keeps(e, f)
<1> DEFINE p == e.pool
           q == insert(p, d, t, n)
<1>1. /\ p \in Pool /\ ExactCounts(p) /\ Placed(p, p.entries)
  BY Zenon DEF Sound
<1>2. /\ q \in Pool /\ ExactCounts(q) /\ Placed(p, q.entries) /\ q.chain_ids = p.chain_ids
  BY <1>1, InsertExact
<1>3. \A k \in Key : p.entries[k] # NoTx => q.entries[k] # NoTx
  <2> DEFINE key == <<d, t.sender, t.nonce>>
  <2>1. \/ q = p
        \/ q = overwritten(p, d, t)
        \/ q = extended(p, d, t)
    BY <1>1, InsertCases, Zenon
  <2>2. p.entries \in [Key -> Transaction \cup {NoTx}] /\ NoTx # t
    BY <1>1, TransactionAssumption, Zenon DEF Pool, Entries
  <2>3. q = overwritten(p, d, t) \/ q = extended(p, d, t)
          => q.entries = [p.entries EXCEPT ![key] = t]
    BY <1>1, Zenon DEF overwritten, extended, Pool
  <2> HIDE DEF q, p, key
  <2> QED
    BY <2>1, <2>2, <2>3, Zenon
<1>4. f = [e EXCEPT !.pool = q]
  BY Zenon
<1> HIDE DEF p, q
<1>5. /\ f.pool = q /\ f.finalized = e.finalized /\ f.pending = e.pending /\ f.cursor = e.cursor
  BY <1>4, Zenon DEF EngineFields
<1>6. Placed(q, q.entries) /\ \A x : Placed(p, x) => Placed(q, x)
  BY <1>2, SameRegistrations, Zenon
<1>7. Sound(f)
  BY <1>2, <1>5, <1>6 DEF Sound, p
<1>8. HeldBy(e) \subseteq HeldBy(f)
  BY <1>3, <1>5, Zenon DEF HeldBy, Held, p
<1> QED
  BY <1>7, <1>8, Zenon DEF Keeps

\* build_proposal: what it reserves leaves the pool for the proposal, or goes back.
LEMMA BuiltKeeps ==
    ASSUME FiniteLaws, NEW e, Sound(e), EngineFields(e), e.pending = None, NEW timely,
           height(e.finalized) < MaxHeight
    PROVE  Sound(built(e, timely)) /\ HeldBy(e) \subseteq HeldBy(built(e, timely))
<1> DEFINE selected == select_transactions(ready_entries(e.pool, e.finalized), e.cursor)
           p        == e.pool
           held     == reserved_by(p, selected)
           rest     == reserve_hashes(p, selected)
           body     == {held[k] : k \in Held(held)}
           proposal == [block    |-> block_of(e.finalized, body),
                        result   |-> execute(e.finalized, body),
                        reserved |-> held]
           restored == restore_reserved(rest, held)
           q        == built(e, timely)
<1>1. \/ executable(e.finalized, body) /\ q = [e EXCEPT !.pool = rest, !.pending = proposal]
      \/ q = [e EXCEPT !.pool = restored]
  BY Zenon DEF built
<1> HIDE DEF selected
<1>2. p \in Pool /\ ExactCounts(p) /\ Placed(p, p.entries)
  BY Zenon DEF Sound
<1>3. /\ held \in Entries /\ Placed(p, held)
      /\ \A k \in Key : held[k] # NoTx => p.entries[k] # NoTx
  BY <1>2, ReservedTyped, Zenon
<1>4. /\ rest \in Pool /\ ExactCounts(rest) /\ Placed(p, rest.entries)
      /\ rest.chain_ids = p.chain_ids
      /\ rest.entries = [k \in Key |-> IF held[k] # NoTx THEN NoTx ELSE p.entries[k]]
  <2> HIDE DEF held
  <2>1. LET r == without(p, held)
        IN  /\ r \in Pool /\ ExactCounts(r) /\ Placed(p, r.entries) /\ r.chain_ids = p.chain_ids
            /\ r.entries = [k \in Key |-> IF held[k] # NoTx THEN NoTx ELSE p.entries[k]]
    BY <1>2, <1>3, WithoutInv, WithoutExact, Zenon
  <2> QED
    BY <2>1, Zenon DEF reserve_hashes, held
<1>5. Placed(rest, rest.entries) /\ Placed(rest, held)
  BY <1>3, <1>4, SameRegistrations
<1>6. body \in SUBSET Transaction /\ block_of(e.finalized, body).body = body
  BY <1>3, Zenon DEF Entries, Held, block_of
<1> HIDE DEF held, rest, body
<1>7. CASE executable(e.finalized, body) /\ q = [e EXCEPT !.pool = rest, !.pending = proposal]
  <2>1. /\ proposal \in Proposal /\ proposal # None
        /\ proposal.reserved = held /\ proposal.block.body = body
    <3>1. block_of(e.finalized, body) \in Block /\ execute(e.finalized, body) \in ChainState
      BY <1>6, ExecuteTyped, Zenon DEF Sound
    <3> QED
      BY <1>3, <1>6, <3>1, NoneAssumption DEF Proposal
  <2> HIDE DEF proposal, q
  <2>2. q.pool = rest /\ q.pending = proposal /\ q.finalized = e.finalized /\ q.cursor = e.cursor
    BY <1>7, Zenon DEF EngineFields
  <2>3. Sound(q)
    BY <1>3, <1>4, <1>5, <2>1, <2>2 DEF Sound, body
  <2>4. ASSUME NEW k \in HeldBy(e) PROVE k \in HeldBy(q)
    <3>1. k \in Key /\ p.entries[k] # NoTx
      BY Zenon DEF HeldBy, Held
    <3>2. held[k] # NoTx \/ rest.entries[k] # NoTx
      BY <1>4, <3>1, Zenon
    <3>3. k \in Held(held) \/ k \in Held(rest.entries)
      BY <3>1, <3>2, Zenon DEF Held
    <3> QED
      BY <2>1, <2>2, <3>3, Zenon DEF HeldBy
  <2> QED
    BY <2>3, <2>4, Zenon DEF q
<1>8. CASE q = [e EXCEPT !.pool = restored]
  <2>1. /\ restored \in Pool /\ ExactCounts(restored) /\ restored.chain_ids = rest.chain_ids
        /\ restored.entries = [k \in Key |-> IF restorable(rest, held)[k] # NoTx
                                             THEN restorable(rest, held)[k] ELSE rest.entries[k]]
        /\ Placed(rest, restored.entries)
    BY <1>3, <1>4, <1>5, RestoreExact, RestoreRouted, Zenon
  <2>2. Placed(restored, restored.entries)
    BY <2>1, SameRegistrations, Zenon
  <2> HIDE DEF restored, q
  <2>3. q.pool = restored /\ q.pending = None /\ q.finalized = e.finalized /\ q.cursor = e.cursor
    BY <1>8, Zenon DEF EngineFields
  <2>4. Sound(q)
    BY <2>1, <2>2, <2>3, Zenon DEF Sound
  <2>5. ASSUME NEW k \in HeldBy(e) PROVE k \in HeldBy(q)
    <3>1. k \in Key /\ p.entries[k] # NoTx
      BY Zenon DEF HeldBy, Held
    <3>2. held[k] # NoTx => rest.entries[k] = NoTx /\ Registered(rest, k[1])
      <4> SUFFICES ASSUME held[k] # NoTx PROVE Registered(rest, k[1])
        BY <1>4, <3>1, Zenon
      <4>1. PICK d \in Domain, s \in Sender, n \in Nonce : k = <<d, s, n>>
        BY <3>1 DEF Key
      <4> QED
        BY <1>5, <4>1 DEF Placed
    <3>3. restorable(rest, held)[k] = IF rest.entries[k] = NoTx /\ Registered(rest, k[1])
                                      THEN held[k] ELSE NoTx
      BY <3>1, Zenon DEF restorable
    <3>4. restored.entries[k] # NoTx
      BY <1>4, <2>1, <3>1, <3>2, <3>3
    <3> QED
      BY <2>3, <3>1, <3>4, Zenon DEF HeldBy, Held
  <2> QED
    BY <2>4, <2>5, Zenon DEF q
<1> QED
  BY <1>1, <1>7, <1>8, Zenon

\* abandon_proposal: every reserved entry goes back, or its place was taken meanwhile.
LEMMA AbandonedKeeps ==
    ASSUME FiniteLaws, NEW e, Sound(e), EngineFields(e), e.pending # None
    PROVE  Sound(abandoned(e)) /\ Keeps(e, abandoned(e))
<1> DEFINE p == e.pool
           held == e.pending.reserved
           restored == restore_reserved(p, held)
           q == abandoned(e)
<1>1. q = [e EXCEPT !.pool = restored, !.pending = None]
  BY Zenon DEF abandoned
<1>2. /\ p \in Pool /\ ExactCounts(p) /\ Placed(p, p.entries)
      /\ held \in Entries /\ Placed(p, held)
  BY Zenon DEF Sound, Proposal
<1> HIDE DEF p, held
<1>3. /\ restored \in Pool /\ ExactCounts(restored) /\ restored.chain_ids = p.chain_ids
      /\ restored.entries = [k \in Key |-> IF restorable(p, held)[k] # NoTx
                                           THEN restorable(p, held)[k] ELSE p.entries[k]]
      /\ Placed(p, restored.entries)
  BY <1>2, RestoreExact, RestoreRouted, Zenon
<1>4. Placed(restored, restored.entries)
  BY <1>3, SameRegistrations, Zenon
<1> HIDE DEF restored, q
<1>5. q.pool = restored /\ q.pending = None /\ q.finalized = e.finalized /\ q.cursor = e.cursor
  BY <1>1, Zenon DEF EngineFields
<1>6. Sound(q)
  BY <1>3, <1>4, <1>5, Zenon DEF Sound
<1>7. ASSUME NEW k \in HeldBy(e) PROVE k \in HeldBy(q)
  <2>1. k \in Key /\ (p.entries[k] # NoTx \/ held[k] # NoTx)
    BY Zenon DEF HeldBy, Held, p, held
  <2>2. held[k] # NoTx => Registered(p, k[1])
    <3> SUFFICES ASSUME held[k] # NoTx PROVE Registered(p, k[1])
      BY Zenon
    <3>1. PICK d \in Domain, s \in Sender, n \in Nonce : k = <<d, s, n>>
      BY <2>1 DEF Key
    <3> QED
      BY <1>2, <3>1 DEF Placed
  <2>3. restorable(p, held)[k] = IF p.entries[k] = NoTx /\ Registered(p, k[1])
                                 THEN held[k] ELSE NoTx
    BY <2>1, Zenon DEF restorable
  <2>4. restored.entries[k] # NoTx
    BY <1>3, <2>1, <2>2, <2>3, Zenon
  <2> QED
    BY <1>5, <2>1, <2>4, Zenon DEF HeldBy, Held
<1> QED
  BY <1>6, <1>7, Zenon DEF q, Keeps

\* A state has finitely many domains, and at least the root.
LEMMA LiveCount ==
    ASSUME FiniteLaws, NEW st, RootDomain \in Live(st)
    PROVE  Cardinality(Live(st)) \in Nat \ {0}
<1>1. Live(st) \in SUBSET Domain /\ IsFiniteSet(Domain)
  BY EngineAssumption, Zenon DEF Live
<1>2. IsFiniteSet(Live(st))
  BY <1>1, SubsetFinite, Zenon
<1>3. Cardinality(Live(st)) \in Nat /\ Cardinality(Live(st)) # 0
  BY <1>1, <1>2, SubsetFinite, Zenon DEF FiniteLaws
<1> QED
  BY <1>3, Zenon

\* A transaction that sits in its place in the pool and is in an executed block has used
\* up its nonce.
LEMMA IncludedIsPast ==
    ASSUME FiniteLaws, NEW p, NEW st, Routed(p, st), WellFormed(st),
           NEW body \in SUBSET Transaction, executable(st, body),
           NEW r, Placed(p, r), NEW k \in Key, r[k] # NoTx, r[k] \in body
    PROVE  k[3] < nonce(execute(st, body), k[1], k[2])
<1>1. PICK d \in Domain, s \in Sender, n \in Nonce : k = <<d, s, n>>
  BY DEF Key
<1>2. PICK t : t = r[k]
  BY Zenon
<1>3. PICK q : q = execute(st, body)
  BY Zenon
<1>4. t.sender = s /\ t.nonce = n /\ p.chain_ids[d] # 0 /\ t.chain_id = p.chain_ids[d]
  BY <1>1, <1>2 DEF Placed, Registered
<1>5. d \in Live(st) /\ t \in batch(st, body, d)
  BY <1>2, <1>4, Zenon DEF Routed, Live, batch
<1>6. st \in ChainState
  BY Zenon DEF WellFormed
<1>7. q.domains = resulting_domains(st, body)
  BY <1>3, <1>6, ExecuteTyped, Zenon
<1>8. resulting_domains(st, body)[d].state = st.domains[d].state \cup batch(st, body, d)
  BY <1>5, <1>6, ResultingDomain, Zenon
<1>9. t \in q.domains[d].state
  BY <1>5, <1>7, <1>8, Zenon
<1>10. WellFormed(q)
  BY <1>3, ExecuteWellFormed, Zenon
<1>11. n < nonce(q, d, s)
  BY <1>4, <1>9, <1>10, Zenon DEF WellFormed
<1> QED
  BY <1>1, <1>3, <1>11, Zenon

\* What commit_validated leaves in the pool is in its place, and what it takes is in the block.
LEMMA PublishedPool ==
    ASSUME FiniteLaws, NEW p \in Pool, ExactCounts(p), Placed(p, p.entries),
           NEW st \in ChainState, NEW body,
           \A d \in Live(st) : register_ok(p, d, st.domains[d].chain_id),
           NEW rest, rest = reserve_hashes(registered(p, st), body)
    PROVE  /\ rest \in Pool /\ ExactCounts(rest) /\ Placed(rest, rest.entries)
           /\ \A k \in Key : p.entries[k] # NoTx => rest.entries[k] # NoTx \/ p.entries[k] \in body
<1>1. PICK r : r = registered(p, st)
  BY Zenon
<1>2. PICK gone : gone = reserved_by(r, body)
  BY Zenon
<1>3. r \in Pool /\ ExactCounts(r) /\ r.entries = p.entries /\ Placed(r, r.entries)
  BY <1>1, RegisteredKeeps, Zenon
<1>4. /\ gone \in Entries /\ Placed(r, gone)
      /\ \A k \in Key : gone[k] # NoTx => r.entries[k] # NoTx
  BY <1>2, <1>3, ReservedTyped, Zenon
<1>5. \A k \in Key : gone[k] # NoTx => gone[k] = p.entries[k] /\ gone[k] \in body
  BY <1>2, <1>3, Zenon DEF reserved_by
<1>6. rest = without(r, gone)
  BY <1>1, <1>2, Zenon DEF reserve_hashes
<1>7. rest \in Pool /\ ExactCounts(rest) /\ Placed(r, rest.entries) /\ rest.chain_ids = r.chain_ids
  BY <1>3, <1>4, <1>6, WithoutInv, Zenon
<1>8. rest.entries = [k \in Key |-> IF gone[k] # NoTx THEN NoTx ELSE r.entries[k]]
  BY <1>3, <1>4, <1>6, WithoutExact
<1>9. Placed(rest, rest.entries)
  BY <1>7, SameRegistrations, Zenon
<1>10. \A k \in Key : p.entries[k] # NoTx => rest.entries[k] # NoTx \/ p.entries[k] \in body
  BY <1>3, <1>5, <1>8
<1> QED
  BY <1>7, <1>9, <1>10, Zenon

\* commit_validated: what a block takes from the pool or the proposal, it has executed.
LEMMA PublishedKeeps ==
    ASSUME FiniteLaws, NEW e, Sound(e), WellFormed(e.finalized),
           Routed(e.pool, e.finalized),
           NEW block \in Block, executable(e.finalized, block.body),
           e.pending = None \/ e.pending.block = block,
           NEW st, st = execute(e.finalized, block.body),
           \A d \in Live(st) : register_ok(e.pool, d, st.domains[d].chain_id),
           NEW q, q = published(e, block, st)
    PROVE  Sound(q) /\ Keeps(e, q)
<1>1. /\ e.pool \in Pool /\ ExactCounts(e.pool) /\ Placed(e.pool, e.pool.entries)
      /\ e.finalized \in ChainState /\ block.body \in SUBSET Transaction /\ e.cursor \in Nat
  BY Zenon DEF Sound, Block
<1>2. WellFormed(st)
  BY <1>1, ExecuteWellFormed, Zenon
<1>3. st \in ChainState /\ Cardinality(Live(st)) \in Nat \ {0}
  BY <1>2, LiveCount, Zenon DEF WellFormed
<1>4. /\ q.finalized = st /\ q.pending = None
      /\ q.pool = reserve_hashes(registered(e.pool, st), block.body)
      /\ q.cursor = (e.cursor + 1) % Cardinality(Live(st))
  BY Zenon DEF published
<1>5. q.cursor \in Nat
  BY <1>1, <1>3, <1>4
<1>6. /\ q.pool \in Pool /\ ExactCounts(q.pool) /\ Placed(q.pool, q.pool.entries)
      /\ \A k \in Key : e.pool.entries[k] # NoTx =>
            q.pool.entries[k] # NoTx \/ e.pool.entries[k] \in block.body
  <2>1. PICK p, rest : p = e.pool /\ rest = q.pool
    BY Zenon
  <2>2. /\ p \in Pool /\ ExactCounts(p) /\ Placed(p, p.entries) /\ st \in ChainState
        /\ \A d \in Live(st) : register_ok(p, d, st.domains[d].chain_id)
        /\ rest = reserve_hashes(registered(p, st), block.body)
    BY <1>1, <1>3, <1>4, <2>1, Zenon
  <2>3. /\ rest \in Pool /\ ExactCounts(rest) /\ Placed(rest, rest.entries)
        /\ \A k \in Key : p.entries[k] # NoTx => rest.entries[k] # NoTx \/ p.entries[k] \in block.body
    BY <2>2, PublishedPool, Zenon
  <2> QED
    BY <2>1, <2>3, Zenon
<1>7. Sound(q)
  BY <1>3, <1>4, <1>5, <1>6, Zenon DEF Sound
<1>8. ASSUME NEW r, Placed(e.pool, r), NEW k \in Key, r[k] # NoTx, r[k] \in block.body
      PROVE  k[3] < nonce(q.finalized, k[1], k[2])
  <2>1. k[3] < nonce(st, k[1], k[2])
    BY <1>1, <1>8, IncludedIsPast, Zenon
  <2> QED
    BY <1>4, <2>1, Zenon
<1>9. ASSUME NEW k \in HeldBy(e)
      PROVE  k \in HeldBy(q) \/ k[3] < nonce(q.finalized, k[1], k[2])
  <2>1. CASE e.pool.entries[k] # NoTx /\ k \in Key
    <3>1. CASE q.pool.entries[k] # NoTx
      BY <2>1, <3>1, Zenon DEF HeldBy, Held
    <3>2. CASE e.pool.entries[k] \in block.body
      BY <1>1, <1>8, <2>1, <3>2, Zenon
    <3> QED
      BY <1>6, <2>1, <3>1, <3>2, Zenon
  <2>2. CASE e.pending # None /\ k \in Held(e.pending.reserved)
    <3>1. Placed(e.pool, e.pending.reserved)
      BY <2>2, Zenon DEF Sound
    <3>2. /\ e.pending.reserved[k] # NoTx /\ k \in Key
          /\ e.pending.reserved[k] \in e.pending.block.body
      BY <2>2, Zenon DEF Sound, Held
    <3>3. e.pending.reserved[k] \in block.body
      BY <2>2, <3>2, Zenon
    <3> QED
      BY <1>8, <3>1, <3>2, <3>3, Zenon
  <2> QED
    BY <2>1, <2>2, Zenon DEF HeldBy, Held
<1> QED
  BY <1>7, <1>9, Zenon DEF Keeps

\* import_development_checkpoint: the entries stay.
LEMMA CheckpointKeeps ==
    ASSUME NEW e, Sound(e), EngineFields(e), e.pending = None, NEW st \in ChainState,
           \A d \in Live(st) : register_ok(e.pool, d, st.domains[d].chain_id),
           NEW q, q = [e EXCEPT !.finalized = st, !.pool = registered(@, st), !.cursor = 0]
    PROVE  Sound(q) /\ Keeps(e, q)
<1> DEFINE p == e.pool
           r == registered(p, st)
<1>1. p \in Pool /\ ExactCounts(p) /\ Placed(p, p.entries)
  BY Zenon DEF Sound
<1>2. r \in Pool /\ ExactCounts(r) /\ r.entries = p.entries /\ Placed(r, r.entries)
  BY <1>1, RegisteredKeeps, Zenon
<1>3. q = [e EXCEPT !.finalized = st, !.pool = r, !.cursor = 0]
  BY Zenon
<1> HIDE DEF r
<1>4. q.finalized = st /\ q.pool = r /\ q.cursor = 0 /\ q.pending = None
  BY <1>3, Zenon DEF EngineFields
<1>5. Sound(q)
  BY <1>2, <1>4 DEF Sound
<1>6. HeldBy(e) = HeldBy(q)
  BY <1>2, <1>4, Zenon DEF HeldBy
<1> QED
  BY <1>5, <1>6, Zenon DEF Keeps

\* A restarted engine has an empty pool and no proposal.
LEMMA OpenedSound ==
    ASSUME FiniteLaws, NEW st \in ChainState
    PROVE  Sound(opened(st))
<1> DEFINE p == EmptyPool
           r == registered(p, st)
<1>1. /\ p \in Pool /\ p.entries = NoEntries
      /\ \A d \in Domain : p.chain_ids[d] = 0
      /\ p.used_chain_ids = {} /\ p.sender_counts = [sk \in SenderKey |-> 0]
  BY EmptyRouted, Zenon DEF EmptyPool, Pool
<1>2. ExactCounts(p)
  <2>1. ASSUME NEW d \in Domain, NEW s \in Sender
        PROVE  HeldNonces(NoEntries, d, s) = {} /\ p.sender_counts[<<d, s>>] = 0
    BY <1>1, Keys DEF HeldNonces, NoEntries
  <2> QED
    BY <1>1, <2>1, Zenon DEF FiniteLaws, ExactCounts
<1>3. \A d \in Live(st) : register_ok(p, d, st.domains[d].chain_id)
  BY <1>1, Zenon DEF Live, register_ok, Registered
<1>4. r \in Pool /\ ExactCounts(r) /\ r.entries = NoEntries
  BY <1>1, <1>2, <1>3, RegisteredKeeps, Zenon
<1>5. Placed(r, r.entries)
  BY <1>4, EmptyRouted, Zenon
<1>6. /\ opened(st).finalized = st /\ opened(st).pool = r /\ opened(st).pending = None
      /\ opened(st).cursor = 0
  BY Zenon DEF opened
<1> HIDE DEF r
<1> QED
  BY <1>4, <1>5, <1>6 DEF Sound
=============================================================================
