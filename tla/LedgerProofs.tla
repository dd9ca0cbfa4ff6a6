----------------------------- MODULE LedgerProofs -----------------------------
(***************************************************************************)
(* The two stores of the engine.  The database: what a block does to a     *)
(* chain state, and what a storage commit makes of the database, which is  *)
(* recoverable after the first initialization, a block or a checkpoint, and*)
(* whose transaction locations are exact.  The mempool, for every set of   *)
(* domains, senders and transactions and every quota: its counters are     *)
(* exact and a transaction hash has one place.                             *)
(***************************************************************************)
EXTENDS EngineOps, Mempool, TLAPS

\* Sequences of blocks.
LEMMA ChainFacts ==
    ASSUME NEW S, NEW s \in Seq(S)
    PROVE  Len(s) \in Nat /\ \A i \in 1 .. Len(s) : s[i] \in S
  OBVIOUS

LEMMA AppendFacts ==
    ASSUME NEW S, NEW s \in Seq(S), NEW b \in S
    PROVE  /\ Append(s, b) \in Seq(S) /\ Len(Append(s, b)) = Len(s) + 1
           /\ \A i \in 1 .. Len(s) : Append(s, b)[i] = s[i]
           /\ Append(s, b)[Len(s) + 1] = b
  OBVIOUS

LEMMA WholeChain ==
    ASSUME NEW S, NEW s \in Seq(S)
    PROVE  SubSeq(s, 1, Len(s)) = s
  OBVIOUS

LEMMA NoBlocks ==
    ASSUME NEW S
    PROVE  <<>> \in Seq(S) /\ Len(<<>>) = 0 /\ SubSeq(<<>>, 1, 0) = <<>>
  OBVIOUS

\* The first h blocks of a chain, which one more block leaves as they were.
LEMMA PrefixFacts ==
    ASSUME NEW S, NEW s \in Seq(S), NEW h \in 0 .. Len(s)
    PROVE  /\ SubSeq(s, 1, h) \in Seq(S)
           /\ Len(SubSeq(s, 1, h)) = h
           /\ \A i \in 1 .. h : SubSeq(s, 1, h)[i] = s[i]
  OBVIOUS

LEMMA PrefixOfAppend ==
    ASSUME NEW S, NEW s \in Seq(S), NEW b \in S, NEW h \in 0 .. Len(s)
    PROVE  SubSeq(Append(s, b), 1, h) = SubSeq(s, 1, h)
  OBVIOUS

-----------------------------------------------------------------------------
\* What ChainMachine::execute does to a domain.
LEMMA ResultingDomain ==
    ASSUME NEW st \in ChainState, NEW body \in SUBSET Transaction, NEW d \in Domain
    PROVE  LET new == resulting_domains(st, body)[d]
               old == st.domains[d]
           IN  /\ new \in FinalizedDomain
               /\ d \in Live(st) =>
                     /\ new.chain_id = old.chain_id
                     /\ new.state = old.state \cup batch(st, body, d)
                     /\ new = old \/ new.consensus_height = height(st) + 1
               /\ d \notin Live(st) =>
                     \/ new = old
                     \/ /\ new.consensus_height = height(st) + 1 /\ new.state = {}
                        /\ \E t \in creations(st, body) :
                              t.creates = d /\ new.chain_id = t.new_chain_id
<1> DEFINE new == resulting_domains(st, body)[d]
           old == st.domains[d]
           h == height(st) + 1
           B == batch(st, body, d)
           made == creations(st, body)
<1>1. old \in FinalizedDomain /\ h \in Nat /\ B \in SUBSET Transaction
  BY ChainFacts DEF ChainState, height, batch
<1>2. new = IF d \in Live(st) THEN IF B = {} THEN old ELSE execute_domain(old, B, h)
            ELSE IF \E t \in made : t.creates = d
                 THEN created_domain(CHOOSE t \in made : t.creates = d, h)
                 ELSE old
  BY Zenon DEF resulting_domains
<1>3. made \in SUBSET Transaction
  BY Zenon DEF creations, batch
<1> HIDE DEF new, B, h, made, old
<1>4. CASE d \in Live(st)
  <2>1. CASE B = {}
    BY <1>1, <1>2, <1>4, <2>1, Zenon DEF new, B, old
  <2>2. CASE B # {}
    <3>1. new = [old EXCEPT !.number = @ + 1, !.consensus_height = h, !.state = @ \cup B]
      BY <1>2, <1>4, <2>2, Zenon DEF execute_domain
    <3>2. /\ new \in FinalizedDomain /\ new.chain_id = old.chain_id
          /\ new.state = old.state \cup B /\ new.consensus_height = h
      <4>1. /\ new.chain_id = old.chain_id /\ new.number = old.number + 1
            /\ new.consensus_height = h /\ new.state = old.state \cup B
            /\ new = [chain_id |-> new.chain_id, number |-> new.number,
                      consensus_height |-> new.consensus_height, state |-> new.state]
        BY <1>1, <3>1, Zenon DEF FinalizedDomain
      <4>2. /\ old.chain_id \in Nat /\ old.number + 1 \in Nat
            /\ old.state \cup B \in SUBSET Transaction
        BY <1>1 DEF FinalizedDomain
      <4> QED
        BY <1>1, <4>1, <4>2, Zenon DEF FinalizedDomain
    <3> QED
      BY <1>4, <3>2, Zenon DEF new, B, old, h
  <2> QED
    BY <2>1, <2>2, Zenon
<1>5. CASE d \notin Live(st)
  <2>1. CASE \E t \in made : t.creates = d
    <3> DEFINE t == CHOOSE x \in made : x.creates = d
    <3>1. t \in made /\ t.creates = d
      BY <2>1, Zenon
    <3>2. t.new_chain_id \in Nat
      BY <1>3, <3>1, ChainAssumption, Zenon
    <3>3. new = created_domain(t, h)
      BY <1>2, <1>5, <2>1, Zenon
    <3> HIDE DEF t
    <3>4. /\ new \in FinalizedDomain /\ new.state = {} /\ new.chain_id = t.new_chain_id
          /\ new.consensus_height = h
      BY <1>1, <3>2, <3>3, Zenon DEF created_domain, AbsentDomain, FinalizedDomain
    <3> QED
      BY <1>5, <3>1, <3>4, Zenon DEF new, h, made, old
  <2>2. CASE ~ \E t \in made : t.creates = d
    BY <1>1, <1>2, <1>5, <2>2, Zenon DEF new, old
  <2> QED
    BY <2>1, <2>2, Zenon
<1> QED
  BY <1>4, <1>5, Zenon

\* A block leads from a chain state to a chain state, one block higher.
LEMMA ExecuteTyped ==
    ASSUME NEW st \in ChainState, NEW body \in SUBSET Transaction
    PROVE  /\ resulting_domains(st, body) \in [Domain -> FinalizedDomain]
           /\ execute(st, body) \in ChainState
           /\ block_of(st, body) \in Block
           /\ [body |-> body, heads |-> resulting_domains(st, body)] \in BlockRecord
           /\ execute(st, body).hash
                 = Append(st.hash, [body |-> body, heads |-> resulting_domains(st, body)])
           /\ execute(st, body).domains = resulting_domains(st, body)
           /\ height(execute(st, body)) = height(st) + 1 /\ height(st) \in Nat
<1> DEFINE r == resulting_domains(st, body)
           b == [body |-> body, heads |-> r]
<1>1. r \in [Domain -> FinalizedDomain]
  <2>1. \A d \in Domain : r[d] \in FinalizedDomain
    BY ResultingDomain, Zenon
  <2>2. r = [d \in Domain |-> r[d]]
    BY Zenon DEF resulting_domains
  <2> HIDE DEF r
  <2> QED
    BY <2>1, <2>2, Zenon
<1>2. execute(st, body) = [hash |-> Append(st.hash, b), domains |-> r]
  BY Zenon DEF execute, block_hash, block_of
<1>3. block_of(st, body) = [parent_hash |-> st.hash, body |-> body, heads |-> r]
  BY Zenon DEF block_of
<1> HIDE DEF r
<1>4. b \in BlockRecord
  BY <1>1, Zenon DEF BlockRecord
<1>5. st.hash \in Seq(BlockRecord)
  BY Zenon DEF ChainState
<1>6. /\ Append(st.hash, b) \in Seq(BlockRecord)
      /\ Len(Append(st.hash, b)) = Len(st.hash) + 1 /\ Len(st.hash) \in Nat
  BY <1>4, <1>5, AppendFacts, ChainFacts
<1>7. block_of(st, body) \in Block
  BY <1>1, <1>3, <1>5 DEF Block
<1>8. execute(st, body) \in ChainState
  BY <1>1, <1>2, <1>6 DEF ChainState
<1> QED
  BY <1>1, <1>2, <1>4, <1>6, <1>7, <1>8 DEF height, r

\* The development genesis: the root domain alone, with nothing executed.
LEMMA GenesisWellFormed ==
    /\ genesis \in ChainState /\ height(genesis) = 0 /\ Live(genesis) = {RootDomain}
    /\ WellFormed(genesis)
<1> DEFINE root == [AbsentDomain EXCEPT !.chain_id = RootChainId]
<1>1. /\ AbsentDomain \in FinalizedDomain /\ root \in FinalizedDomain
      /\ root.chain_id = RootChainId /\ root.state = {} /\ root.consensus_height = 0
      /\ AbsentDomain.state = {} /\ AbsentDomain.consensus_height = 0
      /\ AbsentDomain.chain_id = 0
  BY ChainAssumption, Zenon DEF AbsentDomain, FinalizedDomain
<1>2. /\ genesis.hash = <<>>
      /\ genesis.domains = [d \in Domain |-> IF d = RootDomain THEN root ELSE AbsentDomain]
      /\ genesis = [hash |-> genesis.hash, domains |-> genesis.domains]
  BY Zenon DEF genesis
<1> HIDE DEF root
<1>3. genesis.domains \in [Domain -> FinalizedDomain]
  BY <1>1, <1>2, Zenon
<1>4. /\ genesis.domains[RootDomain] = root /\ RootDomain \in Domain
      /\ \A d \in Domain \ {RootDomain} : genesis.domains[d] = AbsentDomain
  BY <1>2, ChainAssumption, Zenon
<1>5. genesis \in ChainState
  BY <1>2, <1>3, NoBlocks, Zenon DEF ChainState
<1>6. height(genesis) = 0
  BY <1>2, NoBlocks, Zenon DEF height
<1>7. Live(genesis) = {RootDomain}
  BY <1>1, <1>4, ChainAssumption, Zenon DEF Live
<1>8. \A d \in Domain : genesis.domains[d].state = {} /\ genesis.domains[d].consensus_height = 0
  BY <1>1, <1>4, Zenon
<1> QED
  BY <1>5, <1>6, <1>7, <1>8 DEF WellFormed

\* What a block creates, and what it leaves of the chain IDs: no two domains get the same.
LEMMA ExecutedIds ==
    ASSUME NEW st, WellFormed(st), NEW body \in SUBSET Transaction, executable(st, body)
    PROVE  LET q == execute(st, body)
           IN  /\ Live(st) \subseteq Live(q)
               /\ \A d, e \in Live(q) : q.domains[d].chain_id = q.domains[e].chain_id => d = e
<1> DEFINE q == execute(st, body)
           made == creations(st, body)
           id(d) == q.domains[d].chain_id
<1>1. st \in ChainState /\ RootDomain \in Live(st)
  BY Zenon DEF WellFormed
<1>2. q.domains = resulting_domains(st, body)
  BY <1>1, ExecuteTyped, Zenon
<1>3. /\ \A d \in Live(st) : id(d) = st.domains[d].chain_id
      /\ \A d \in Live(q) \ Live(st) : \E t \in made : t.creates = d /\ id(d) = t.new_chain_id
  <2>1. ASSUME NEW d \in Live(st) PROVE id(d) = st.domains[d].chain_id
    BY <1>1, <1>2, ResultingDomain DEF Live
  <2>2. ASSUME NEW d \in Live(q) \ Live(st)
        PROVE  \E t \in made : t.creates = d /\ id(d) = t.new_chain_id
    <3>1. d \in Domain /\ q.domains[d] # st.domains[d]
      BY Zenon DEF Live
    <3> QED
      BY <1>1, <1>2, <3>1, ResultingDomain
  <2> QED
    BY <2>1, <2>2, Zenon
<1>4. Live(st) \subseteq Live(q)
  BY <1>3, Zenon DEF Live
<1>5. \A t \in made : /\ t \in batch(st, body, RootDomain)
                      /\ \A e \in Live(st) : st.domains[e].chain_id # t.new_chain_id
  BY Zenon DEF creations
<1>6. ASSUME NEW t \in made, NEW u \in made, t.new_chain_id = u.new_chain_id PROVE t = u
  <2>1. /\ ~Precedes(u, t) /\ ~Precedes(t, u)
        /\ t \in batch(st, body, RootDomain) /\ u \in batch(st, body, RootDomain)
    BY <1>6, Zenon DEF creations
  <2>2. t \in Transaction /\ u \in Transaction
    BY <2>1, Zenon DEF batch
  <2>3. t.sender \in Nat /\ u.sender \in Nat /\ t.nonce \in Nat /\ u.nonce \in Nat
    <3>1. t.sender \in Sender /\ u.sender \in Sender /\ Sender \subseteq Nat
      BY <2>2, TransactionAssumption, ChainAssumption, Zenon
    <3>2. t.nonce \in Nat /\ u.nonce \in Nat
      BY <2>2, TransactionAssumption DEF Nonce
    <3> QED
      BY <3>1, <3>2, Zenon
  <2>4. t.sender = u.sender /\ t.nonce = u.nonce
    BY <2>1, <2>3 DEF Precedes
  <2> QED
    BY <1>1, <2>1, <2>4, Zenon DEF executable
<1>7. \A d, e \in Live(st) : st.domains[d].chain_id = st.domains[e].chain_id => d = e
  BY Zenon DEF WellFormed
<1> HIDE DEF q, made
<1>8. ASSUME NEW d \in Live(q), NEW e \in Live(q), id(d) = id(e) PROVE d = e
  <2>1. CASE d \in Live(st) /\ e \in Live(st)
    BY <1>3, <1>7, <1>8, <2>1, Zenon
  <2>2. CASE d \in Live(st) /\ e \notin Live(st)
    BY <1>3, <1>5, <1>8, <2>2
  <2>3. CASE d \notin Live(st) /\ e \in Live(st)
    BY <1>3, <1>5, <1>8, <2>3
  <2>4. CASE d \notin Live(st) /\ e \notin Live(st)
    BY <1>3, <1>6, <1>8, <2>4
  <2> QED
    BY <2>1, <2>2, <2>3, <2>4, Zenon
<1> QED
  BY <1>4, <1>8, Zenon DEF q

LEMMA StateAtTyped ==
    ASSUME NEW dk, Tip(dk) \in ChainState, recovery_base(dk) \in ChainState,
           NEW h \in height(recovery_base(dk)) .. height(Tip(dk))
    PROVE  StateAt(dk, h) \in ChainState /\ height(StateAt(dk, h)) = h
<1> DEFINE base == recovery_base(dk)
           s == dk.marker.hash
<1>1. s \in Seq(BlockRecord) /\ base.domains \in [Domain -> FinalizedDomain]
  BY Zenon DEF Tip, ChainState
<1>2. height(base) \in Nat /\ height(Tip(dk)) = Len(s) /\ Len(s) \in Nat
  BY <1>1, ChainFacts, Zenon DEF ChainState, height, Tip
<1>3. h \in 0 .. Len(s)
  BY <1>2
<1>4. SubSeq(s, 1, h) \in Seq(BlockRecord) /\ Len(SubSeq(s, 1, h)) = h
  BY <1>1, <1>3, PrefixFacts, Zenon
<1>5. ASSUME h # height(base) PROVE s[h].heads \in [Domain -> FinalizedDomain]
  <2>1. h \in 1 .. Len(s)
    BY <1>2, <1>5
  <2>2. s[h] \in BlockRecord
    BY <1>1, <2>1, ChainFacts, Zenon
  <2> QED
    BY <2>2, Zenon DEF BlockRecord
<1>6. StateAt(dk, h) = [hash |-> SubSeq(s, 1, h),
                        domains |-> IF h = height(base) THEN base.domains ELSE s[h].heads]
  BY Zenon DEF StateAt
<1> HIDE DEF base, s
<1> QED
  BY <1>1, <1>4, <1>5, <1>6 DEF ChainState, height

-----------------------------------------------------------------------------
\* The fields a commit writes, and those it leaves.
LEMMA CommitFields ==
    ASSUME NEW dk, NEW st, NEW S, DiskFields(dk)
    PROVE  LET c == commit(dk, st, S)
           IN  /\ DiskFields(c) /\ c.marker = marker_of(st) /\ c.wal = marker_of(st)
               /\ c.heads = new_heads(dk, st, S) /\ c.blocks = dk.blocks
               /\ c.roots = retained(dk.roots \cup new_roots(st, S), new_heads(dk, st, S),
                                     S, height(st))
               /\ c.checkpoint = dk.checkpoint /\ c.locations = dk.locations
<1> DEFINE m == marker_of(st)
           x == new_heads(dk, st, S)
           y == retained(dk.roots \cup new_roots(st, S), x, S, height(st))
<1>1. commit(dk, st, S) = [dk EXCEPT !.marker = m, !.wal = m, !.heads = x, !.roots = y]
  BY Zenon DEF commit
<1> HIDE DEF m, x, y
<1>2. commit(dk, st, S) =
        [marker |-> m, wal |-> m, blocks |-> dk.blocks, heads |-> x, roots |-> y,
         checkpoint |-> dk.checkpoint, locations |-> dk.locations]
  BY <1>1, Zenon DEF DiskFields
<1>3. DiskFields(commit(dk, st, S))
  BY <1>2, Zenon DEF DiskFields
<1> QED
  BY <1>2, <1>3 DEF m, x, y

\* A block adds its body and its locations, a checkpoint its record.
BlockStored(dk, block, st, c) ==
    /\ c.marker = marker_of(st) /\ c.wal = marker_of(st)
    /\ c.heads = new_heads(dk, st, written(st))
    /\ DOMAIN c.blocks = DOMAIN dk.blocks
    /\ height(st) \in DOMAIN dk.blocks => c.blocks[height(st)] = block
    /\ \A h \in DOMAIN dk.blocks : h # height(st) => c.blocks[h] = dk.blocks[h]
    /\ c.roots = retained(dk.roots \cup new_roots(st, written(st)),
                          new_heads(dk, st, written(st)), written(st), height(st))
    /\ c.checkpoint = dk.checkpoint
    /\ c.locations = dk.locations \cup located(block, st)

LEMMA BlockFields ==
    ASSUME NEW dk, NEW block, NEW st, DiskFields(dk)
    PROVE  BlockStored(dk, block, st, commit_block(dk, block, st))
<1> DEFINE c == commit(dk, st, written(st))
           n == height(st)
           l == located(block, st)
<1>1. /\ DiskFields(c) /\ c.marker = marker_of(st) /\ c.wal = marker_of(st)
      /\ c.heads = new_heads(dk, st, written(st)) /\ c.blocks = dk.blocks
      /\ c.roots = retained(dk.roots \cup new_roots(st, written(st)),
                            new_heads(dk, st, written(st)), written(st), height(st))
      /\ c.checkpoint = dk.checkpoint /\ c.locations = dk.locations
  BY CommitFields
<1>2. commit_block(dk, block, st) = [c EXCEPT !.blocks[n] = block, !.locations = @ \cup l]
  BY Zenon DEF commit_block
<1> HIDE DEF c, n, l
<1>3. LET q == [c EXCEPT !.blocks[n] = block, !.locations = @ \cup l]
      IN  /\ q.marker = c.marker /\ q.wal = c.wal /\ q.heads = c.heads /\ q.roots = c.roots
          /\ q.checkpoint = c.checkpoint /\ q.blocks = [c.blocks EXCEPT ![n] = block]
          /\ q.locations = c.locations \cup l
  BY <1>1, Zenon DEF DiskFields
<1> QED
  BY <1>1, <1>2, <1>3 DEF BlockStored, n, l

CheckpointWritten(dk, st, c) ==
    /\ c.marker = marker_of(st) /\ c.wal = marker_of(st)
    /\ c.heads = new_heads(dk, st, Live(st)) /\ c.blocks = dk.blocks
    /\ c.roots = retained(dk.roots \cup new_roots(st, Live(st)),
                          new_heads(dk, st, Live(st)), Live(st), height(st))
    /\ c.checkpoint = st /\ c.locations = dk.locations

LEMMA CheckpointFields ==
    ASSUME NEW dk, NEW st, DiskFields(dk)
    PROVE  CheckpointWritten(dk, st, commit_checkpoint(dk, st))
<1> DEFINE c == commit(dk, st, Live(st))
<1>1. /\ DiskFields(c) /\ c.marker = marker_of(st) /\ c.wal = marker_of(st)
      /\ c.heads = new_heads(dk, st, Live(st)) /\ c.blocks = dk.blocks
      /\ c.roots = retained(dk.roots \cup new_roots(st, Live(st)),
                            new_heads(dk, st, Live(st)), Live(st), height(st))
      /\ c.checkpoint = dk.checkpoint /\ c.locations = dk.locations
  BY CommitFields
<1>2. commit_checkpoint(dk, st) = [c EXCEPT !.checkpoint = st]
  BY Zenon DEF commit_checkpoint
<1> HIDE DEF c
<1>3. LET q == [c EXCEPT !.checkpoint = st]
      IN  /\ q.marker = c.marker /\ q.wal = c.wal /\ q.heads = c.heads /\ q.roots = c.roots
          /\ q.checkpoint = st /\ q.blocks = c.blocks /\ q.locations = c.locations
  BY <1>1, Zenon DEF DiskFields
<1> QED
  BY <1>1, <1>2, <1>3, Zenon DEF CheckpointWritten

\* The database a fresh node writes: the genesis state and no blocks.
LEMMA InitializedFields ==
    LET dk == initialize_database
    IN  /\ dk.marker = marker_of(genesis) /\ dk.wal = dk.marker
        /\ dk.blocks = [h \in Height |-> None] /\ dk.checkpoint = None /\ dk.locations = {}
        /\ \A d \in Domain : dk.heads[d] = IF d = RootDomain THEN head_of(genesis.domains[d])
                                           ELSE None
        /\ dk.roots \subseteq new_roots(genesis, {RootDomain})
        /\ DiskFields(EmptyDisk) /\ ~initialized(EmptyDisk) /\ EmptyDisk.roots = {}
<1>1. /\ DiskFields(EmptyDisk) /\ EmptyDisk.roots = {} /\ EmptyDisk.checkpoint = None
      /\ EmptyDisk.blocks = [h \in Height |-> None] /\ EmptyDisk.locations = {}
      /\ EmptyDisk.heads = [d \in Domain |-> None] /\ EmptyDisk.marker.height = -1
  BY Zenon DEF EmptyDisk, DiskFields, NoMarker
<1> DEFINE heads == new_heads(EmptyDisk, genesis, {RootDomain})
           roots == new_roots(genesis, {RootDomain})
<1>2. LET c == initialize_database
      IN  /\ c.marker = marker_of(genesis) /\ c.wal = c.marker
          /\ c.heads = heads /\ c.blocks = EmptyDisk.blocks
          /\ c.roots = retained(EmptyDisk.roots \cup roots, heads, {RootDomain}, height(genesis))
          /\ c.checkpoint = None /\ c.locations = {}
  <2> DEFINE S == {RootDomain}
             c == commit(EmptyDisk, genesis, S)
  <2>1. /\ c.marker = marker_of(genesis) /\ c.wal = marker_of(genesis)
        /\ c.heads = new_heads(EmptyDisk, genesis, S) /\ c.blocks = EmptyDisk.blocks
        /\ c.roots = retained(EmptyDisk.roots \cup new_roots(genesis, S),
                              new_heads(EmptyDisk, genesis, S), S, height(genesis))
        /\ c.checkpoint = EmptyDisk.checkpoint /\ c.locations = EmptyDisk.locations
    <3> HIDE DEF S
    <3> QED
      BY <1>1, CommitFields
  <2> QED
    BY <1>1, <2>1, Zenon DEF initialize_database
<1>3. \A d \in Domain : heads[d] = IF d = RootDomain THEN head_of(genesis.domains[d]) ELSE None
  BY <1>1, Zenon DEF new_heads
<1>4. \A x, y, z, h : retained(x, y, z, h) \subseteq x
  BY Zenon DEF retained
<1> HIDE DEF heads, roots
<1>5. initialize_database.roots \subseteq roots
  BY <1>1, <1>2, <1>4
<1> QED
  BY <1>1, <1>2, <1>3, <1>5, Zenon DEF initialized, roots

-----------------------------------------------------------------------------
\* Rows of retained state roots; an archive node keeps every one of them.
Root == [domain : Domain, height : Nat, root : SUBSET Transaction]

LEMMA RootsKept ==
    ASSUME NEW st \in ChainState, NEW S \in SUBSET Domain, NEW roots \in SUBSET Root, NEW heads,
           NEW new, new = retained(roots \cup new_roots(st, S), heads, S, height(st))
    PROVE  /\ new \subseteq Root
           /\ History = 0 => new = roots \cup new_roots(st, S)
<1> DEFINE R == roots \cup new_roots(st, S)
<1>1. new_roots(st, S) \subseteq Root
  <2>1. \A d \in Domain : st.domains[d] \in FinalizedDomain
    BY Zenon DEF ChainState
  <2>2. ASSUME NEW d \in S
        PROVE  [domain |-> d, height |-> st.domains[d].consensus_height,
                root |-> st.domains[d].state] \in Root
    BY <2>1, Zenon DEF FinalizedDomain, Root
  <2> QED
    BY <2>2, Zenon DEF new_roots
<1>2. R \in SUBSET Root
  BY <1>1, Zenon
<1> HIDE DEF R
<1>3. retained(R, heads, S, height(st)) \subseteq R
  BY Zenon DEF retained
<1>4. ASSUME History = 0 PROVE retained(R, heads, S, height(st)) = R
  <2>1. cutoff(height(st)) = 0
    BY <1>4, Zenon DEF cutoff
  <2>2. \A r \in R : r.height >= cutoff(height(st))
    BY <1>2, <2>1 DEF Root
  <2> QED
    BY <2>2, Zenon DEF retained
<1> QED
  BY <1>2, <1>3, <1>4, Zenon DEF R

\* A fresh database opens at genesis.
LEMMA FreshRecoverable ==
    LET dk == initialize_database
    IN  /\ Recoverable(dk) /\ Tip(dk) = genesis /\ dk.marker.height = height(genesis)
        /\ dk.roots \subseteq Root
<1> DEFINE dk == initialize_database
<1>1. /\ dk.marker = marker_of(genesis) /\ dk.wal = dk.marker
      /\ dk.blocks = [h \in Height |-> None] /\ dk.checkpoint = None
      /\ \A d \in Domain : dk.heads[d] = IF d = RootDomain THEN head_of(genesis.domains[d])
                                         ELSE None
      /\ dk.roots \subseteq new_roots(genesis, {RootDomain})
  BY InitializedFields, Zenon
<1>2. /\ genesis \in ChainState /\ height(genesis) = 0 /\ Live(genesis) = {RootDomain}
  BY GenesisWellFormed, Zenon
<1>3. /\ dk.marker.height = 0 /\ dk.marker.hash = genesis.hash
      /\ dk.marker.heads = genesis.domains
  BY <1>1, <1>2 DEF marker_of, domain_heads_root
<1> HIDE DEF dk
<1>4. recovery_base(dk) = genesis
  BY <1>1, Zenon DEF recovery_base
<1>5. /\ genesis = [hash |-> genesis.hash, domains |-> genesis.domains]
      /\ genesis.hash = <<>>
  BY Zenon DEF genesis
<1>6. SubSeq(<<>>, 1, 0) = <<>>
  BY NoBlocks, Zenon
<1>7. Tip(dk) = genesis /\ StateAt(dk, 0) = genesis
  BY <1>2, <1>3, <1>4, <1>5, <1>6, Zenon DEF Tip, StateAt
<1>8. \A d \in Domain : dk.marker.heads[d].chain_id # 0 => dk.heads[d] = head_of(dk.marker.heads[d])
  BY <1>1, <1>2, <1>3 DEF Live
<1>9. \A h \in Height : ~(0 < h /\ h <= 0) /\ dk.blocks[h] = None
  BY <1>1, EngineAssumption DEF Height
<1>10. Recoverable(dk)
  BY <1>1, <1>2, <1>3, <1>4, <1>5, <1>7, <1>8, <1>9, EngineAssumption DEF Recoverable
<1>11. dk.roots \subseteq Root
  <2>1. \A d \in Domain : genesis.domains[d] \in FinalizedDomain
    BY <1>2, Zenon DEF ChainState
  <2>2. RootDomain \in Domain
    BY ChainAssumption, Zenon
  <2>3. new_roots(genesis, {RootDomain}) \subseteq Root
    BY <2>1, <2>2 DEF new_roots, Root, FinalizedDomain
  <2> QED
    BY <1>1, <2>3, Zenon
<1> QED
  BY <1>2, <1>3, <1>7, <1>10, <1>11, Zenon DEF dk

\* One block more: the chain below it is as it was.
OneMore(old, body, st) ==
    /\ st \in ChainState /\ height(st) = height(old) + 1 /\ height(old) \in Nat
    /\ st.domains = resulting_domains(old, body)
    /\ \A h \in 0 .. height(old) : SubSeq(st.hash, 1, h) = SubSeq(old.hash, 1, h)
    /\ \A h \in 1 .. height(old) : st.hash[h] = old.hash[h]
    /\ SubSeq(st.hash, 1, height(st)) = st.hash
    /\ st.hash[height(st)].body = body /\ st.hash[height(st)].heads = st.domains

LEMMA Successor ==
    ASSUME NEW old \in ChainState, NEW body \in SUBSET Transaction
    PROVE  OneMore(old, body, execute(old, body))
<1>1. PICK rec, st : /\ rec = [body |-> body, heads |-> resulting_domains(old, body)]
                     /\ st = execute(old, body)
  BY Zenon
<1>2. /\ st \in ChainState /\ rec \in BlockRecord /\ st.hash = Append(old.hash, rec)
      /\ st.domains = resulting_domains(old, body)
      /\ height(st) = height(old) + 1 /\ height(old) \in Nat
  BY <1>1, ExecuteTyped, Zenon
<1>3. old.hash \in Seq(BlockRecord) /\ st.hash \in Seq(BlockRecord)
  BY <1>2, Zenon DEF ChainState
<1>4. /\ \A h \in 0 .. height(old) : SubSeq(st.hash, 1, h) = SubSeq(old.hash, 1, h)
      /\ \A h \in 1 .. height(old) : st.hash[h] = old.hash[h]
      /\ st.hash[height(old) + 1] = rec
  BY <1>2, <1>3, PrefixOfAppend, AppendFacts DEF height
<1>5. SubSeq(st.hash, 1, height(st)) = st.hash
  BY <1>3, WholeChain, Zenon DEF height
<1>6. OneMore(old, body, st)
  BY <1>1, <1>2, <1>4, <1>5 DEF OneMore
<1> QED
  BY <1>1, <1>6, Zenon

\* Committing a block that is valid on the tip leaves a database that replays to the
\* state after it: the chain below is as it was, and the heads it does not write are the
\* ones it does not change.
LEMMA BlockRecoverable ==
    ASSUME NEW dk, Recoverable(dk), dk.roots \in SUBSET Root,
           NEW old \in ChainState, old = Tip(dk), dk.marker.height = height(old),
           height(old) < MaxHeight, NEW block \in Block, valid_proposal(old, block),
           NEW st, st = execute(old, block.body), NEW new, BlockStored(dk, block, st, new)
    PROVE  /\ Recoverable(new) /\ Tip(new) = st /\ new.marker.height = height(st)
           /\ new.roots \subseteq Root
<1>1. PICK n, base, low : n = height(old) /\ base = recovery_base(dk) /\ low = height(base)
  BY Zenon
<1>2. block.body \in SUBSET Transaction /\ OneMore(old, block.body, st)
  <2>1. block.body \in SUBSET Transaction
    BY Zenon DEF Block
  <2> QED
    BY <2>1, Successor, Zenon
<1>3. /\ st \in ChainState /\ height(st) = n + 1 /\ st.domains = resulting_domains(old, block.body)
  BY <1>1, <1>2, Zenon DEF OneMore
<1>4. /\ \A h \in 0 .. n : SubSeq(st.hash, 1, h) = SubSeq(old.hash, 1, h)
      /\ \A h \in 1 .. n : st.hash[h] = old.hash[h]
      /\ SubSeq(st.hash, 1, n + 1) = st.hash /\ st.hash[n + 1].heads = st.domains
  BY <1>1, <1>2, Zenon DEF OneMore
<1>5. base \in ChainState /\ StateAt(dk, low) = base /\ low <= n /\ StateAt(dk, n) = old
  BY <1>1, Zenon DEF Recoverable
<1>6. low \in Nat /\ n \in Nat /\ MaxHeight \in Nat /\ n + 1 \in Height
  BY <1>1, <1>5, ChainFacts, EngineAssumption DEF ChainState, height, Height
<1>7. \A h \in Height : IF low < h /\ h <= n THEN Replays(dk, h) ELSE dk.blocks[h] = None
  BY <1>1, Zenon DEF Recoverable
<1>8. /\ new.marker = marker_of(st) /\ new.wal = new.marker /\ new.checkpoint = dk.checkpoint
      /\ new.heads = new_heads(dk, st, written(st))
  BY Zenon DEF BlockStored
<1>9. /\ new.blocks[n + 1] = block /\ DOMAIN new.blocks = Height
      /\ \A h \in Height : h # n + 1 => new.blocks[h] = dk.blocks[h]
  <2>1. DOMAIN dk.blocks = Height
    BY Zenon DEF Recoverable
  <2> QED
    BY <1>3, <1>6, <2>1, Zenon DEF BlockStored
<1>10. /\ new.marker.height = n + 1 /\ new.marker.hash = st.hash /\ new.marker.heads = st.domains
       /\ recovery_base(new) = base /\ old.hash = dk.marker.hash
       /\ \A d \in Domain : old.domains[d].chain_id # 0 => dk.heads[d] = head_of(old.domains[d])
  <2>1. new.marker.height = n + 1 /\ new.marker.hash = st.hash /\ new.marker.heads = st.domains
    BY <1>3, <1>8 DEF marker_of, domain_heads_root
  <2>2. recovery_base(new) = base
    BY <1>1, <1>8, Zenon DEF recovery_base
  <2>3. old.hash = dk.marker.hash /\ old.domains = dk.marker.heads
    BY DEF Tip
  <2>4. \A d \in Domain : old.domains[d].chain_id # 0 => dk.heads[d] = head_of(old.domains[d])
    BY <2>3, Zenon DEF Recoverable
  <2> QED
    BY <2>1, <2>2, <2>3, <2>4, Zenon
<1>11. ASSUME NEW h \in low .. n PROVE StateAt(new, h) = StateAt(dk, h)
  <2>1. h \in 0 .. n /\ (h # low => h \in 1 .. n)
    BY <1>6
  <2>2. SubSeq(st.hash, 1, h) = SubSeq(old.hash, 1, h) /\ (h # low => st.hash[h] = old.hash[h])
    BY <1>4, <2>1, Zenon
  <2> QED
    BY <1>1, <1>10, <2>2, Zenon DEF StateAt
<1>12. StateAt(new, n + 1) = st /\ Tip(new) = st
  <2>1. n + 1 # low
    BY <1>5, <1>6
  <2>2. st = [hash |-> st.hash, domains |-> st.domains]
    BY <1>3, Zenon DEF ChainState
  <2> QED
    BY <1>1, <1>4, <1>10, <2>1, <2>2, Zenon DEF StateAt, Tip
<1>13. ASSUME NEW h \in Height
       PROVE  IF low < h /\ h <= n + 1 THEN Replays(new, h) ELSE new.blocks[h] = None
  <2>1. CASE h = n + 1
    <3>1. n \in low .. n /\ h - 1 = n /\ low < h /\ h <= n + 1
      BY <1>5, <1>6, <2>1
    <3>2. StateAt(new, h - 1) = old /\ StateAt(new, h) = st
      BY <1>5, <1>11, <1>12, <2>1, <3>1, Zenon
    <3>3. Replays(new, h)
      BY <1>9, <2>1, <3>2, Zenon DEF Replays
    <3> QED
      BY <3>1, <3>3, Zenon
  <2>2. CASE h # n + 1 /\ low < h /\ h <= n
    <3>1. h \in low .. n /\ h - 1 \in low .. n /\ h <= n + 1
      BY <1>6, <2>2 DEF Height
    <3>2. StateAt(new, h) = StateAt(dk, h) /\ StateAt(new, h - 1) = StateAt(dk, h - 1)
      BY <1>11, <3>1, Zenon
    <3>3. Replays(dk, h) /\ new.blocks[h] = dk.blocks[h]
      BY <1>7, <1>9, <2>2, Zenon
    <3>4. Replays(new, h)
      BY <3>2, <3>3, Zenon DEF Replays
    <3> QED
      BY <2>2, <3>1, <3>4, Zenon
  <2>3. CASE h # n + 1 /\ ~(low < h /\ h <= n)
    <3>1. ~(low < h /\ h <= n + 1)
      BY <1>6, <2>3 DEF Height
    <3> QED
      BY <1>7, <1>9, <2>3, <3>1, Zenon
  <2> QED
    BY <2>1, <2>2, <2>3, Zenon
<1>14. ASSUME NEW d \in Domain, st.domains[d].chain_id # 0
       PROVE  new.heads[d] = head_of(st.domains[d])
  <2>1. new.heads[d] = IF d \in written(st) THEN head_of(st.domains[d]) ELSE dk.heads[d]
    BY <1>8, Zenon DEF new_heads
  <2>2. d \notin written(st) => st.domains[d].consensus_height # n + 1
    BY <1>3, <1>14, Zenon DEF written, Live
  <2>3. st.domains[d] = old.domains[d] \/ st.domains[d].consensus_height = n + 1
    BY <1>1, <1>2, <1>3, ResultingDomain
  <2> QED
    BY <1>10, <1>14, <2>1, <2>2, <2>3, Zenon
<1>15. /\ new.roots \subseteq Root
       /\ History = 0 => new.roots = dk.roots \cup new_roots(st, written(st))
  <2>1. PICK S, heads : S = written(st) /\ heads = new_heads(dk, st, S)
    BY Zenon
  <2>2. S \in SUBSET Domain
    BY <2>1, Zenon DEF written, Live
  <2>3. PICK kept : kept = retained(dk.roots \cup new_roots(st, S), heads, S, height(st))
    BY Zenon
  <2>4. kept \subseteq Root /\ (History = 0 => kept = dk.roots \cup new_roots(st, S))
    BY <1>3, <2>2, <2>3, RootsKept
  <2>5. new.roots = kept
    BY <2>1, <2>3, Zenon DEF BlockStored
  <2> QED
    BY <2>1, <2>4, <2>5, Zenon
<1>16. History = 0 /\ new.checkpoint # None => checkpoint_readable(new)
  <2>1. History = 0 /\ dk.checkpoint # None => checkpoint_readable(dk)
    BY Zenon DEF Recoverable
  <2> QED
    BY <1>8, <1>15, <2>1, Zenon DEF checkpoint_readable
<1>17. low <= n + 1 /\ n + 1 <= MaxHeight /\ low \in low .. n
  BY <1>1, <1>5, <1>6
<1>18. StateAt(new, low) = base
  BY <1>5, <1>11, <1>17, Zenon
<1>19. Recoverable(new)
  BY <1>1, <1>5, <1>8, <1>9, <1>10, <1>12, <1>13, <1>14, <1>16, <1>17, <1>18, Zenon DEF Recoverable
<1> QED
  BY <1>3, <1>10, <1>12, <1>15, <1>19, Zenon

\* A checkpoint imported at genesis becomes the base that replay starts from.
LEMMA CheckpointRecoverable ==
    ASSUME NEW dk, DiskFields(dk), Recoverable(dk), dk.roots \in SUBSET Root,
           dk.marker.height = 0, NEW st \in ChainState, height(st) <= MaxHeight
    PROVE  LET new == commit_checkpoint(dk, st)
           IN  /\ Recoverable(new) /\ Tip(new) = st /\ new.marker.height = height(st)
               /\ new.roots \subseteq Root
<1> DEFINE new == commit_checkpoint(dk, st)
           n == height(st)
<1>1. /\ new.marker = marker_of(st) /\ new.wal = marker_of(st)
      /\ new.heads = new_heads(dk, st, Live(st)) /\ new.blocks = dk.blocks
      /\ new.roots = retained(dk.roots \cup new_roots(st, Live(st)),
                              new_heads(dk, st, Live(st)), Live(st), n)
      /\ new.checkpoint = st
  <2>1. CheckpointWritten(dk, st, new)
    BY CheckpointFields, Zenon
  <2> QED
    BY <2>1, Zenon DEF CheckpointWritten
<1>2. /\ st.hash \in Seq(BlockRecord) /\ Len(st.hash) = n /\ n \in Nat /\ st # None
      /\ st = [hash |-> st.hash, domains |-> st.domains]
  BY ChainFacts, NoneAssumption, Zenon DEF ChainState, height
<1>3. /\ DOMAIN dk.blocks = Height /\ \A h \in Height : dk.blocks[h] = None
  <2>1. \A h \in Height : ~(h <= 0)
    BY EngineAssumption DEF Height
  <2> QED
    BY <2>1, Zenon DEF Recoverable
<1> HIDE DEF new
<1>4. /\ new.marker.height = n /\ new.marker.hash = st.hash /\ new.marker.heads = st.domains
      /\ recovery_base(new) = st
  BY <1>1, <1>2 DEF marker_of, domain_heads_root, recovery_base
<1>5. SubSeq(st.hash, 1, n) = st.hash
  BY <1>2, WholeChain, Zenon
<1>6. StateAt(new, n) = st /\ Tip(new) = st
  BY <1>2, <1>4, <1>5, Zenon DEF StateAt, Tip
<1>7. Live(st) \in SUBSET Domain
  BY Zenon DEF Live
<1>8. /\ new.roots \subseteq Root
      /\ History = 0 => new.roots = dk.roots \cup new_roots(st, Live(st))
  BY <1>1, <1>7, RootsKept
<1>9. History = 0 => checkpoint_readable(new)
  <2>1. ASSUME NEW d \in Live(st)
        PROVE  \E r \in new_roots(st, Live(st)) : r.root = st.domains[d].state
    <3> DEFINE r == [domain |-> d, height |-> st.domains[d].consensus_height,
                     root |-> st.domains[d].state]
    <3>1. r \in new_roots(st, Live(st)) /\ r.root = st.domains[d].state
      BY Zenon DEF new_roots
    <3> QED
      BY <3>1, Zenon
  <2> QED
    BY <1>1, <1>8, <2>1, Zenon DEF checkpoint_readable
<1>10. \A d \in Domain : st.domains[d].chain_id # 0 => new.heads[d] = head_of(st.domains[d])
  BY <1>1, Zenon DEF new_heads, Live
<1>11. \A h \in Height : IF n < h /\ h <= n THEN Replays(new, h) ELSE new.blocks[h] = None
  BY <1>1, <1>2, <1>3 DEF Height
<1>12. Recoverable(new)
  BY <1>1, <1>2, <1>3, <1>4, <1>6, <1>9, <1>10, <1>11 DEF Recoverable
<1> QED
  BY <1>4, <1>6, <1>8, <1>12, Zenon DEF new

-----------------------------------------------------------------------------
\* Nothing is located before there is a block above the base.
LEMMA NothingLocated ==
    ASSUME NEW dk, height(recovery_base(dk)) \in Nat, dk.marker.height \in Nat,
           dk.marker.height <= height(recovery_base(dk))
    PROVE  Located(dk) <=> dk.locations = {}
<1>1. height(recovery_base(dk)) + 1 .. dk.marker.height = {}
  OBVIOUS
<1>2. UNION {locations_of(Tip(dk), Tip(dk).hash[h].body, h) : h \in {}} = {}
  BY Zenon
<1> QED
  BY <1>1, <1>2, Zenon DEF Located, LocatedIn

\* st has the domains of old, with what old executed and more, and tells them apart.
Grown(old, st) ==
    /\ \A d \in Live(old) : /\ d \in Live(st)
                            /\ st.domains[d].chain_id = old.domains[d].chain_id
                            /\ \A t \in old.domains[d].state : t \in st.domains[d].state
    /\ \A d \in Live(st) : \A t \in st.domains[d].state : t.chain_id = st.domains[d].chain_id
    /\ \A x, y \in Live(st) : st.domains[x].chain_id = st.domains[y].chain_id => x = y

LEMMA Locations ==
    ASSUME NEW st, NEW body, NEW h, NEW d \in RetainedDomain \cap Live(st), NEW t \in batch(st, body, d)
    PROVE  [tx |-> t, height |-> h, domain |-> d] \in locations_of(st, body, h)
  BY DEF locations_of

\* A block adds the locations of its own transactions; the earlier ones stay right.
LEMMA LocatedExtended ==
    ASSUME NEW old, NEW st, Grown(old, st), NEW block, NEW hs, NEW all, NEW n, n \notin hs,
           \A h : h \in all <=> (h \in hs \/ h = n),
           \A h \in hs : st.hash[h].body = old.hash[h].body, st.hash[n].body = block.body,
           \A t \in block.body : /\ \A d \in Live(old) : t \notin old.domains[d].state
                                 /\ \E d \in Live(st) : t \in st.domains[d].state,
           NEW ls, LocatedIn(old, hs, ls)
    PROVE  LocatedIn(st, all, ls \cup locations_of(st, block.body, n))
<1>1. /\ \A g, h \in hs : \A t \in old.hash[g].body \cap old.hash[h].body : g = h
      /\ ls = UNION {locations_of(old, old.hash[h].body, h) : h \in hs}
  BY Zenon DEF LocatedIn
<1>2. \A h \in hs : \A t \in st.hash[h].body :
         \E d \in Live(old) : d \in Live(st) /\ t \in old.domains[d].state /\ t \in st.domains[d].state
  BY Zenon DEF LocatedIn, Grown
<1>3. \A g, h \in all : \A t \in st.hash[g].body \cap st.hash[h].body : g = h
  BY <1>1, <1>2, Zenon
<1>4. \A h \in all : \A t \in st.hash[h].body : \E d \in Live(st) : t \in st.domains[d].state
  BY <1>2, Zenon
<1>5. ASSUME NEW h \in hs PROVE locations_of(st, st.hash[h].body, h) = locations_of(old, old.hash[h].body, h)
  <2>1. ASSUME NEW d \in Live(st), NEW t \in batch(st, st.hash[h].body, d)
        PROVE  d \in Live(old) /\ t \in batch(old, old.hash[h].body, d)
    <3>1. t \in st.hash[h].body /\ t.chain_id = st.domains[d].chain_id
      BY Zenon DEF batch
    <3>2. PICK x \in Live(old) : x \in Live(st) /\ t \in st.domains[x].state
      BY <1>2, <3>1, Zenon
    <3>3. x = d
      BY <3>1, <3>2, Zenon DEF Grown
    <3>4. d \in Live(old) /\ t.chain_id = old.domains[d].chain_id /\ t \in old.hash[h].body
      BY <3>1, <3>2, <3>3, Zenon DEF Grown
    <3> QED
      BY <3>4, Zenon DEF batch
  <2>2. ASSUME NEW d \in Live(old), NEW t \in batch(old, old.hash[h].body, d)
        PROVE  d \in Live(st) /\ t \in batch(st, st.hash[h].body, d)
    BY Zenon DEF batch, Grown
  <2>3. ASSUME NEW l \in locations_of(st, st.hash[h].body, h)
        PROVE  l \in locations_of(old, old.hash[h].body, h)
    <3>1. PICK d \in RetainedDomain \cap Live(st) :
             l \in {[tx |-> t, height |-> h, domain |-> d] : t \in batch(st, st.hash[h].body, d)}
      BY Zenon DEF locations_of
    <3>2. PICK t \in batch(st, st.hash[h].body, d) : l = [tx |-> t, height |-> h, domain |-> d]
      BY <3>1, Zenon
    <3>3. d \in RetainedDomain \cap Live(old) /\ t \in batch(old, old.hash[h].body, d)
      BY <2>1, <3>1, <3>2, Zenon
    <3> QED
      BY <3>2, <3>3, Locations, Zenon
  <2>4. ASSUME NEW l \in locations_of(old, old.hash[h].body, h)
        PROVE  l \in locations_of(st, st.hash[h].body, h)
    <3>1. PICK d \in RetainedDomain \cap Live(old) :
             l \in {[tx |-> t, height |-> h, domain |-> d] : t \in batch(old, old.hash[h].body, d)}
      BY Zenon DEF locations_of
    <3>2. PICK t \in batch(old, old.hash[h].body, d) : l = [tx |-> t, height |-> h, domain |-> d]
      BY <3>1, Zenon
    <3>3. d \in RetainedDomain \cap Live(st) /\ t \in batch(st, st.hash[h].body, d)
      BY <2>2, <3>1, <3>2, Zenon
    <3> QED
      BY <3>2, <3>3, Locations, Zenon
  <2> QED
    BY <2>3, <2>4, Zenon
<1>6. UNION {locations_of(st, st.hash[h].body, h) : h \in all} = ls \cup locations_of(st, block.body, n)
  BY <1>1, <1>5
<1> QED
  BY <1>3, <1>4, <1>6, Zenon DEF LocatedIn

LEMMA BlockGrows ==
    ASSUME NEW old, WellFormed(old), NEW body \in SUBSET Transaction, executable(old, body),
           NEW st, st = execute(old, body), WellFormed(st)
    PROVE  /\ Grown(old, st)
           /\ \A t \in body : \E d \in Live(st) : t \in st.domains[d].state
<1>1. old \in ChainState
  BY Zenon DEF WellFormed
<1>2. st.domains = resulting_domains(old, body)
  BY <1>1, ExecuteTyped, Zenon
<1>3. ASSUME NEW d \in Live(old)
      PROVE  /\ d \in Live(st) /\ st.domains[d].chain_id = old.domains[d].chain_id
             /\ st.domains[d].state = old.domains[d].state \cup batch(old, body, d)
  <2>1. d \in Domain /\ old.domains[d].chain_id # 0
    BY Zenon DEF Live
  <2>2. /\ st.domains[d].chain_id = old.domains[d].chain_id
        /\ st.domains[d].state = old.domains[d].state \cup batch(old, body, d)
    <3>1. /\ resulting_domains(old, body)[d].chain_id = old.domains[d].chain_id
          /\ resulting_domains(old, body)[d].state
                = old.domains[d].state \cup batch(old, body, d)
      BY <1>1, <2>1, ResultingDomain
    <3> QED
      BY <1>2, <3>1, Zenon
  <2> QED
    BY <2>1, <2>2, Zenon DEF Live
<1>4. Grown(old, st)
  <2>1. /\ \A d \in Live(st) : \A t \in st.domains[d].state : t.chain_id = st.domains[d].chain_id
        /\ \A x, y \in Live(st) : st.domains[x].chain_id = st.domains[y].chain_id => x = y
    BY Zenon DEF WellFormed, Live
  <2> QED
    BY <1>3, <2>1, Zenon DEF Grown
<1>5. ASSUME NEW t \in body PROVE \E d \in Live(st) : t \in st.domains[d].state
  <2>1. PICK d \in Live(old) : t \in batch(old, body, d)
    BY Zenon DEF executable
  <2> QED
    BY <1>3, <2>1, Zenon
<1> QED
  BY <1>4, <1>5, Zenon

LEMMA BlockLocated ==
    ASSUME NEW dk, Located(dk), NEW low \in Nat, low = height(recovery_base(dk)),
           NEW old, old = Tip(dk), WellFormed(old), dk.marker.height = height(old),
           low <= height(old), NEW block, block.body \in SUBSET Transaction,
           executable(old, block.body), NEW st, st = execute(old, block.body), WellFormed(st),
           \A t \in block.body, d \in Live(old) : t \notin old.domains[d].state,
           NEW new, BlockStored(dk, block, st, new)
    PROVE  Located(new)
<1>1. old \in ChainState
  BY Zenon DEF WellFormed
<1>2. PICK n : n = height(old)
  BY Zenon
<1>3. OneMore(old, block.body, st)
  BY <1>1, Successor, Zenon
<1>4. /\ height(st) = n + 1 /\ n \in Nat /\ st \in ChainState
      /\ st.hash[n + 1].body = block.body /\ \A h \in 1 .. n : st.hash[h] = old.hash[h]
  BY <1>2, <1>3, Zenon DEF OneMore
<1>5. PICK hs, all : hs = low + 1 .. n /\ all = low + 1 .. n + 1
  BY Zenon
<1>6. /\ n + 1 \notin hs /\ \A h : h \in all <=> (h \in hs \/ h = n + 1)
      /\ \A h \in hs : h \in 1 .. n
  BY <1>2, <1>4, <1>5
<1>7. LocatedIn(old, hs, dk.locations)
  BY <1>2, <1>5, Zenon DEF Located
<1>8. Grown(old, st) /\ \A t \in block.body : \E d \in Live(st) : t \in st.domains[d].state
  BY BlockGrows
<1>9. LocatedIn(st, all, dk.locations \cup locations_of(st, block.body, n + 1))
  <2>1. \A h \in hs : st.hash[h].body = old.hash[h].body
    BY <1>4, <1>6, Zenon
  <2> QED
    BY <1>4, <1>6, <1>7, <1>8, <2>1, LocatedExtended, ZenonT(40)
<1>10. locations_of(st, block.body, n + 1) = located(block, st)
  BY <1>4, Zenon DEF located
<1>11. /\ new.marker = marker_of(st) /\ new.checkpoint = dk.checkpoint
       /\ new.locations = dk.locations \cup located(block, st)
  BY Zenon DEF BlockStored
<1>12. Tip(new) = st /\ recovery_base(new) = recovery_base(dk) /\ new.marker.height = n + 1
  <2>1. st = [hash |-> st.hash, domains |-> st.domains]
    BY <1>4, Zenon DEF ChainState
  <2>2. /\ new.marker.height = height(st) /\ new.marker.hash = st.hash
        /\ new.marker.heads = st.domains
    BY <1>11 DEF marker_of, domain_heads_root
  <2> QED
    BY <1>4, <1>11, <2>1, <2>2, Zenon DEF Tip, recovery_base
<1> QED
  BY <1>5, <1>9, <1>10, <1>11, <1>12, Zenon DEF Located

-----------------------------------------------------------------------------
\* A database between two operations: empty, or replaying to the well-formed state its
\* marker names, with a location for every transaction that has one.
Stored(dk) ==
    /\ dk.marker \in Marker /\ dk.roots \in SUBSET Root
    /\ ~initialized(dk) => dk = EmptyDisk
    /\ initialized(dk) =>
          /\ Recoverable(dk) /\ WellFormed(Tip(dk)) /\ Located(dk)
          /\ dk.marker.height = height(Tip(dk))

\* What the stored chain needs of execution; ChainProofs proves it.
ExecutionSound ==
    \A st, body : WellFormed(st) /\ body \in SUBSET Transaction /\ executable(st, body) =>
        /\ WellFormed(execute(st, body))
        /\ \A t \in body, d \in Live(st) : t \notin st.domains[d].state

LEMMA MarkerStored ==
    ASSUME NEW dk, NEW st, WellFormed(st), dk.marker = marker_of(st)
    PROVE  dk.marker \in Marker /\ initialized(dk)
<1>1. st \in ChainState
  BY Zenon DEF WellFormed
<1>2. Len(st.hash) \in Nat
  BY <1>1, ChainFacts, Zenon DEF ChainState
<1> QED
  BY <1>1, <1>2 DEF ChainState, Marker, marker_of, height, domain_heads_root, initialized

\* Database::create.
LEMMA FreshStored == Stored(initialize_database)
<1>1. PICK dk : dk = initialize_database
  BY Zenon
<1>2. /\ dk.marker = marker_of(genesis) /\ dk.checkpoint = None /\ dk.locations = {}
  BY <1>1, InitializedFields, Zenon
<1>3. /\ Recoverable(dk) /\ Tip(dk) = genesis /\ dk.marker.height = height(genesis)
      /\ dk.roots \subseteq Root
  BY <1>1, FreshRecoverable, Zenon
<1>4. WellFormed(genesis) /\ height(genesis) = 0
  BY GenesisWellFormed, Zenon
<1>5. dk.marker \in Marker /\ initialized(dk)
  BY <1>2, <1>4, MarkerStored, Zenon
<1>6. recovery_base(dk) = genesis
  BY <1>2, Zenon DEF recovery_base
<1>7. Located(dk)
  BY <1>2, <1>3, <1>4, <1>6, NothingLocated
<1>8. Stored(dk)
  BY <1>3, <1>4, <1>5, <1>7, Zenon DEF Stored
<1> QED
  BY <1>1, <1>8, Zenon

\* commit_block on the tip.
LEMMA CommitStored ==
    ASSUME ExecutionSound, NEW dk, DiskFields(dk), Stored(dk), initialized(dk),
           NEW block \in Block, valid_proposal(Tip(dk), block), height(Tip(dk)) < MaxHeight
    PROVE  Stored(commit_block(dk, block, execute(Tip(dk), block.body)))
<1>1. /\ Recoverable(dk) /\ WellFormed(Tip(dk)) /\ Located(dk)
      /\ dk.marker.height = height(Tip(dk)) /\ dk.roots \in SUBSET Root
  BY Zenon DEF Stored
<1>2. block.body \in SUBSET Transaction /\ executable(Tip(dk), block.body)
  BY Zenon DEF Block, valid_proposal
<1>3. PICK st : st = execute(Tip(dk), block.body)
  BY Zenon
<1>4. WellFormed(st) /\ \A t \in block.body, d \in Live(Tip(dk)) : t \notin Tip(dk).domains[d].state
  BY <1>1, <1>2, <1>3, Zenon DEF ExecutionSound
<1>5. PICK new : new = commit_block(dk, block, st)
  BY Zenon
<1>6. BlockStored(dk, block, st, new)
  BY <1>5, BlockFields, Zenon
<1>7. /\ Recoverable(new) /\ Tip(new) = st /\ new.marker.height = height(st)
      /\ new.roots \subseteq Root /\ new.marker = marker_of(st)
  <2>1. Tip(dk) \in ChainState
    BY <1>1, Zenon DEF WellFormed
  <2>2. /\ Recoverable(new) /\ Tip(new) = st /\ new.marker.height = height(st)
        /\ new.roots \subseteq Root
    BY <1>1, <1>3, <1>6, <2>1, BlockRecoverable
  <2> QED
    BY <1>6, <2>2, Zenon DEF BlockStored
<1>8. new.marker \in Marker /\ initialized(new)
  BY <1>4, <1>7, MarkerStored, Zenon
<1>9. Located(new)
  <2>1. height(recovery_base(dk)) \in Nat /\ height(recovery_base(dk)) <= height(Tip(dk))
    BY <1>1, ChainFacts, Zenon DEF Recoverable, ChainState, height
  <2> QED
    BY <1>1, <1>2, <1>3, <1>4, <1>6, <2>1, BlockLocated, Zenon
<1>10. Stored(new)
  BY <1>4, <1>7, <1>8, <1>9, Zenon DEF Stored
<1> QED
  BY <1>3, <1>5, <1>10, Zenon

\* commit_checkpoint on a database at genesis.
LEMMA CheckpointStored ==
    ASSUME NEW dk, DiskFields(dk), Stored(dk), initialized(dk), dk.marker.height = 0,
           NEW st, WellFormed(st), height(st) <= MaxHeight
    PROVE  Stored(commit_checkpoint(dk, st))
<1>1. /\ Recoverable(dk) /\ Located(dk) /\ dk.roots \in SUBSET Root
  BY Zenon DEF Stored
<1>2. st \in ChainState
  BY Zenon DEF WellFormed
<1>3. PICK new : new = commit_checkpoint(dk, st)
  BY Zenon
<1>4. new.marker = marker_of(st) /\ new.checkpoint = st /\ new.locations = dk.locations
  <2>1. CheckpointWritten(dk, st, new)
    BY <1>3, CheckpointFields, Zenon
  <2> QED
    BY <2>1, Zenon DEF CheckpointWritten
<1>5. /\ Recoverable(new) /\ Tip(new) = st /\ new.marker.height = height(st)
      /\ new.roots \subseteq Root
  BY <1>1, <1>2, <1>3, CheckpointRecoverable, Zenon
<1>6. new.marker \in Marker /\ initialized(new)
  BY <1>4, MarkerStored, Zenon
<1>7. dk.locations = {}
  <2>1. recovery_base(dk) \in ChainState /\ height(recovery_base(dk)) <= 0
    BY <1>1, Zenon DEF Recoverable
  <2>2. height(recovery_base(dk)) \in Nat
    BY <2>1, ChainFacts, Zenon DEF ChainState, height
  <2> QED
    BY <1>1, <2>1, <2>2, NothingLocated
<1>8. recovery_base(new) = st /\ height(st) \in Nat
  BY <1>2, <1>4, NoneAssumption, ChainFacts, Zenon DEF recovery_base, ChainState, height
<1>9. Located(new)
  BY <1>4, <1>5, <1>7, <1>8, NothingLocated
<1>10. Stored(new)
  BY <1>5, <1>6, <1>9, Zenon DEF Stored
<1> QED
  BY <1>3, <1>10, Zenon

-----------------------------------------------------------------------------
\* What a stored chain serves: every block above the checkpoint as it was finalized, and
\* the location of every retained transaction above it.
LEMMA BlocksServed ==
    ASSUME NEW dk, Stored(dk), initialized(dk),
           NEW h \in height(recovery_base(dk)) + 1 .. height(Tip(dk))
    PROVE  /\ dk.blocks[h] # None
           /\ block_hash(dk.blocks[h]) = SubSeq(dk.marker.hash, 1, h)
           /\ h \in 1 .. Len(dk.marker.hash) /\ dk.marker.hash \in Seq(BlockRecord)
<1>1. Recoverable(dk) /\ Tip(dk) \in ChainState /\ dk.marker.height = height(Tip(dk))
  BY Zenon DEF Stored, WellFormed
<1>2. /\ recovery_base(dk) \in ChainState /\ dk.marker.height <= MaxHeight /\ MaxHeight \in Nat
  BY <1>1, EngineAssumption, Zenon DEF Recoverable
<1>3. /\ dk.marker.hash \in Seq(BlockRecord) /\ height(recovery_base(dk)) \in Nat
      /\ height(Tip(dk)) = Len(dk.marker.hash) /\ Len(dk.marker.hash) \in Nat
  <2>1. Tip(dk).hash = dk.marker.hash
    BY Zenon DEF Tip
  <2>2. recovery_base(dk).hash \in Seq(BlockRecord) /\ dk.marker.hash \in Seq(BlockRecord)
    BY <1>1, <1>2, <2>1, Zenon DEF ChainState
  <2> QED
    BY <2>1, <2>2, ChainFacts, Zenon DEF height
<1>4. h \in Height /\ height(recovery_base(dk)) < h /\ h <= dk.marker.height
  BY <1>1, <1>2, <1>3 DEF Height
<1>5. Replays(dk, h)
  BY <1>1, <1>4, Zenon DEF Recoverable
<1>6. PICK b, below : b = dk.blocks[h] /\ below = StateAt(dk, h - 1)
  BY Zenon
<1>7. b \in Block /\ b = block_of(below, b.body) /\ execute(below, b.body) = StateAt(dk, h)
  BY <1>5, <1>6, Zenon DEF Replays, valid_proposal, compare_candidate
<1>8. execute(below, b.body).hash = block_hash(block_of(below, b.body))
  BY Zenon DEF execute
<1>9. StateAt(dk, h).hash = SubSeq(dk.marker.hash, 1, h)
  BY Zenon DEF StateAt
<1>10. h \in 1 .. Len(dk.marker.hash)
  BY <1>3
<1> QED
  BY <1>3, <1>6, <1>7, <1>8, <1>9, <1>10, NoneAssumption, Zenon

LocatedOnce(dk, st, hs) ==
    \A h \in hs : \A d \in RetainedDomain \cap Live(st), t \in st.hash[h].body :
        t \in batch(st, st.hash[h].body, d) =>
            {l \in dk.locations : l.tx = t} = {[tx |-> t, height |-> h, domain |-> d]}

LEMMA OneLocation ==
    ASSUME NEW dk, Stored(dk), initialized(dk), NEW st, st = Tip(dk),
           NEW hs, hs = height(recovery_base(dk)) + 1 .. height(st)
    PROVE  LocatedOnce(dk, st, hs)
<1>1. /\ LocatedIn(st, hs, dk.locations)
      /\ \A x, y \in Live(st) : st.domains[x].chain_id = st.domains[y].chain_id => x = y
  BY Zenon DEF Stored, Located, WellFormed
<1>2. SUFFICES ASSUME NEW h \in hs, NEW d \in RetainedDomain \cap Live(st),
                      NEW t \in st.hash[h].body, t \in batch(st, st.hash[h].body, d)
               PROVE  {l \in dk.locations : l.tx = t} = {[tx |-> t, height |-> h, domain |-> d]}
  BY Zenon DEF LocatedOnce
<1>3. [tx |-> t, height |-> h, domain |-> d] \in dk.locations
  <2>1. [tx |-> t, height |-> h, domain |-> d] \in locations_of(st, st.hash[h].body, h)
    BY <1>2 DEF locations_of
  <2> QED
    BY <1>1, <2>1 DEF LocatedIn
<1>4. ASSUME NEW l \in dk.locations, l.tx = t
      PROVE  l = [tx |-> t, height |-> h, domain |-> d]
  <2>1. PICK g \in hs : l \in locations_of(st, st.hash[g].body, g)
    BY <1>1 DEF LocatedIn
  <2>2. PICK e, u : /\ e \in RetainedDomain \cap Live(st)
                     /\ u \in batch(st, st.hash[g].body, e)
                     /\ l = [tx |-> u, height |-> g, domain |-> e]
    BY <2>1, Zenon DEF locations_of
  <2>3. u = t
    BY <1>4, <2>2, Zenon
  <2>4. g = h /\ e = d
    <3>1. /\ t \in st.hash[g].body /\ t.chain_id = st.domains[e].chain_id
          /\ t.chain_id = st.domains[d].chain_id
      BY <1>2, <2>2, <2>3, Zenon DEF batch
    <3>2. g = h
      BY <1>1, <3>1, Zenon DEF LocatedIn
    <3> QED
      BY <1>1, <2>2, <3>1, <3>2, Zenon
  <2> QED
    BY <2>2, <2>3, <2>4, Zenon
<1> QED
  BY <1>3, <1>4

-----------------------------------------------------------------------------
\* What the proofs use of finite sets, cardinalities and the naturals.  It is proved
\* from the library in RecoveryProofs; the lemmas below have it as a hypothesis, which
\* keeps the library out of the modules that hold the long proofs.
FiniteLaws ==
    /\ \A a, b \in Int : IsFiniteSet(a .. b)
    /\ IsFiniteSet({}) /\ Cardinality({}) = 0
    /\ \A S : IsFiniteSet(S) /\ Cardinality(S) = 0 => S = {}
    /\ \A S : IsFiniteSet(S) => \A T \in SUBSET S :
          IsFiniteSet(T) /\ Cardinality(T) \in Nat /\ Cardinality(T) <= Cardinality(S)
    /\ \A S : IsFiniteSet(S) => \A x :
          x \notin S => IsFiniteSet(S \cup {x}) /\ Cardinality(S \cup {x}) = Cardinality(S) + 1
    /\ \A S, T : IsFiniteSet(S) /\ IsFiniteSet(T) /\ S \cap T = {} =>
          IsFiniteSet(S \cup T) /\ Cardinality(S \cup T) = Cardinality(S) + Cardinality(T)
    /\ \A T \in SUBSET Nat : 0 \in T /\ (\A n \in T : n + 1 \in T) => T = Nat

\* A subset of a finite set is finite and not larger.
LEMMA SubsetFinite ==
    ASSUME FiniteLaws, NEW S, IsFiniteSet(S), NEW T \in SUBSET S
    PROVE  /\ IsFiniteSet(T) /\ Cardinality(T) \in Nat /\ Cardinality(S) \in Nat
           /\ Cardinality(T) <= Cardinality(S)
  <1>1. /\ IsFiniteSet(T) /\ Cardinality(T) \in Nat /\ Cardinality(T) <= Cardinality(S)
    BY Zenon DEF FiniteLaws
  <1>2. Cardinality(S) \in Nat
    <2>1. S \in SUBSET S
      BY Zenon
    <2>. QED
      BY <2>1, Zenon DEF FiniteLaws
  <1>. QED
    BY <1>1, <1>2, Zenon

\* One element more is one more.
LEMMA CountOneMore ==
    ASSUME FiniteLaws, NEW S, IsFiniteSet(S), NEW x, x \notin S
    PROVE  IsFiniteSet(S \cup {x}) /\ Cardinality(S \cup {x}) = Cardinality(S) + 1
  BY Zenon DEF FiniteLaws

\* What an entry set holds for one sender is finite, so it can be counted.
LEMMA HeldFinite ==
    ASSUME FiniteLaws, NEW e, NEW d, NEW s
    PROVE  /\ IsFiniteSet(HeldNonces(e, d, s))
           /\ Cardinality(HeldNonces(e, d, s)) \in Nat
  <1>1. IsFiniteSet(Nonce)
    <2>1. 0 \in Int /\ MaxNonce \in Int
      BY TransactionAssumption
    <2>. QED
      BY <2>1, Zenon DEF FiniteLaws, Nonce
  <1>2. HeldNonces(e, d, s) \in SUBSET Nonce
    BY Zenon DEF HeldNonces
  <1>. QED
    BY <1>1, <1>2, SubsetFinite, Zenon

\* The two kinds of bulk change of a counter, on the sets it counts.
LEMMA CountAdded ==
    ASSUME FiniteLaws, NEW S, IsFiniteSet(S), NEW T, IsFiniteSet(T), S \cap T = {}
    PROVE  Cardinality(S \cup T) = Cardinality(S) + Cardinality(T)
  BY Zenon DEF FiniteLaws

LEMMA CountRemoved ==
    ASSUME FiniteLaws, NEW S, IsFiniteSet(S), NEW T \in SUBSET S
    PROVE  Cardinality(S \ T) = decremented(Cardinality(S), Cardinality(T))
  <1>1. /\ IsFiniteSet(T) /\ Cardinality(T) \in Nat /\ Cardinality(S) \in Nat
        /\ Cardinality(T) <= Cardinality(S)
    BY SubsetFinite, Zenon
  <1>2. IsFiniteSet(S \ T) /\ Cardinality(S \ T) \in Nat
    BY SubsetFinite, Zenon
  <1>3. (S \ T) \cap T = {} /\ (S \ T) \cup T = S
    BY Zenon
  <1>4. Cardinality(S) = Cardinality(S \ T) + Cardinality(T)
    BY <1>1, <1>2, <1>3, CountAdded, Zenon
  <1>. QED
    BY <1>1, <1>2, <1>4 DEF decremented

-----------------------------------------------------------------------------
\* The place of one sender's entries in the domain of the pool's functions.
LEMMA Keys ==
    ASSUME NEW d \in Domain, NEW s \in Sender
    PROVE  /\ \A n \in Nonce : <<d, s, n>> \in Key
           /\ <<d, s>> \in SenderKey /\ <<d, s>>[1] = d /\ <<d, s>>[2] = s
  BY Zenon DEF Key, SenderKey

\* Taking out entries the pool holds keeps the pool typed and its counters exact:
\* reserve_hashes and advance_nonce are both of this form.
LEMMA WithoutExact ==
    ASSUME FiniteLaws, NEW p \in Pool, NEW r \in Entries, ExactCounts(p),
           \A k \in Key : r[k] # NoTx => p.entries[k] # NoTx
    PROVE  LET q == without(p, r)
           IN  /\ q \in Pool /\ ExactCounts(q)
               /\ q.entries = [k \in Key |-> IF r[k] # NoTx THEN NoTx ELSE p.entries[k]]
               /\ q.chain_ids = p.chain_ids /\ q.used_chain_ids = p.used_chain_ids
  <1>. DEFINE e == [k \in Key |-> IF r[k] # NoTx THEN NoTx ELSE p.entries[k]]
              c == [sk \in SenderKey |->
                       decremented(p.sender_counts[sk],
                                   Cardinality(HeldNonces(r, sk[1], sk[2])))]
              q == without(p, r)
  <1>1. e \in Entries
    BY Zenon DEF Entries, Pool
  <1>2. c \in [SenderKey -> Nat]
    <2>1. \A sk \in SenderKey : p.sender_counts[sk] \in Nat
      BY Zenon DEF Pool
    <2>. QED
      BY <2>1, HeldFinite DEF decremented
  <1>3. /\ q \in Pool /\ q.entries = e /\ q.sender_counts = c
        /\ q.chain_ids = p.chain_ids /\ q.used_chain_ids = p.used_chain_ids
    <2>1. q = [p EXCEPT !.entries = e, !.sender_counts = c]
      BY Zenon DEF without
    <2>. HIDE DEF q, e, c
    <2>. QED
      BY <1>1, <1>2, <2>1, Zenon DEF Pool
  <1>4. ExactCounts(q)
    <2>. HIDE DEF q, e, c
    <2>. SUFFICES ASSUME NEW d \in Domain, NEW s \in Sender
                  PROVE  c[<<d, s>>] = Cardinality(HeldNonces(e, d, s))
      BY <1>3, Zenon DEF ExactCounts
    <2>. DEFINE S == HeldNonces(p.entries, d, s)
                T == HeldNonces(r, d, s)
    <2>1. T \in SUBSET S
      BY Keys, Zenon DEF HeldNonces
    <2>2. HeldNonces(e, d, s) = S \ T
      BY Keys, Zenon DEF HeldNonces, e
    <2>3. c[<<d, s>>] = decremented(Cardinality(S), Cardinality(T))
      BY Keys, Zenon DEF ExactCounts, c
    <2>4. IsFiniteSet(S)
      BY HeldFinite, Zenon
    <2>. QED
      BY <2>1, <2>2, <2>3, <2>4, CountRemoved, Zenon
  <1>. QED
    BY <1>3, <1>4, Zenon

\* Putting reserved entries back counts exactly the ones that found their place free.
LEMMA RestoreExact ==
    ASSUME FiniteLaws, NEW p \in Pool, NEW r \in Entries, ExactCounts(p)
    PROVE  LET q    == restore_reserved(p, r)
               back == restorable(p, r)
           IN  /\ q \in Pool /\ ExactCounts(q)
               /\ q.entries = [k \in Key |-> IF back[k] # NoTx THEN back[k] ELSE p.entries[k]]
               /\ q.chain_ids = p.chain_ids /\ q.used_chain_ids = p.used_chain_ids
  <1>. DEFINE back == restorable(p, r)
              e == [k \in Key |-> IF back[k] # NoTx THEN back[k] ELSE p.entries[k]]
              c == [sk \in SenderKey |->
                       p.sender_counts[sk] + Cardinality(HeldNonces(back, sk[1], sk[2]))]
              q == restore_reserved(p, r)
  <1>1. back \in Entries
    BY Zenon DEF restorable, Entries
  <1>2. e \in Entries
    <2>. HIDE DEF back
    <2>. QED
      BY <1>1, Zenon DEF Entries, Pool
  <1>3. c \in [SenderKey -> Nat]
    <2>. HIDE DEF back
    <2>1. \A sk \in SenderKey : p.sender_counts[sk] \in Nat
      BY Zenon DEF Pool
    <2>. QED
      BY <2>1, HeldFinite
  <1>4. /\ q \in Pool /\ q.entries = e /\ q.sender_counts = c
        /\ q.chain_ids = p.chain_ids /\ q.used_chain_ids = p.used_chain_ids
    <2>1. q = [p EXCEPT !.entries = e, !.sender_counts = c]
      BY Zenon DEF restore_reserved
    <2>. HIDE DEF q, e, c
    <2>. QED
      BY <1>2, <1>3, <2>1, Zenon DEF Pool
  <1>5. ExactCounts(q)
    <2>. SUFFICES ASSUME NEW d \in Domain, NEW s \in Sender
                  PROVE  c[<<d, s>>] = Cardinality(HeldNonces(e, d, s))
      BY <1>4, Zenon DEF ExactCounts
    <2>. DEFINE S == HeldNonces(p.entries, d, s)
                T == HeldNonces(back, d, s)
    <2>1. S \cap T = {}
      BY Keys, Zenon DEF HeldNonces, restorable
    <2>2. HeldNonces(e, d, s) = S \cup T
      <3>. HIDE DEF back
      <3>. QED
        BY Keys, Zenon DEF HeldNonces
    <2>3. c[<<d, s>>] = Cardinality(S) + Cardinality(T)
      <3>. HIDE DEF back
      <3>. QED
        BY Keys, Zenon DEF ExactCounts
    <2>4. IsFiniteSet(S) /\ IsFiniteSet(T)
      BY HeldFinite, Zenon
    <2>. QED
      BY <2>1, <2>2, <2>3, <2>4, CountAdded, Zenon
  <1>. QED
    BY <1>4, <1>5, Zenon

\* Mempool::insert leaves the pool alone, overwrites the entry of a key that is taken,
\* or fills a free key and counts it.
LEMMA InsertCases ==
    ASSUME NEW p \in Pool, NEW d \in Domain, NEW t \in Transaction, NEW sn
    PROVE  \/ insert(p, d, t, sn) = p
           \/ /\ Registered(p, d) /\ t.chain_id = p.chain_ids[d]
              /\ \/ /\ p.entries[<<d, t.sender, t.nonce>>] # NoTx
                    /\ replacement_priced(p.entries[<<d, t.sender, t.nonce>>], t)
                    /\ insert(p, d, t, sn) = overwritten(p, d, t)
                 \/ /\ p.entries[<<d, t.sender, t.nonce>>] = NoTx
                    /\ insert(p, d, t, sn) = extended(p, d, t)
  <1>. DEFINE k == <<d, t.sender, t.nonce>>
  <1>1. insert_result(p, d, t, sn) = "Replaced" =>
          /\ Registered(p, d) /\ t.chain_id = p.chain_ids[d]
          /\ p.entries[k] # NoTx /\ replacement_priced(p.entries[k], t)
    BY Zenon DEF insert_result
  <1>2. insert_result(p, d, t, sn) \in {"Pending", "Queued"} =>
          /\ Registered(p, d) /\ t.chain_id = p.chain_ids[d]
          /\ p.entries[k] = NoTx
    BY Zenon DEF insert_result
  <1>3. CASE insert_result(p, d, t, sn) = "Replaced"
    BY <1>1, <1>3, Zenon DEF insert
  <1>4. CASE insert_result(p, d, t, sn) \in {"Pending", "Queued"}
    BY <1>2, <1>4, Zenon DEF insert
  <1>5. CASE insert_result(p, d, t, sn) \notin {"Replaced", "Pending", "Queued"}
    BY <1>5, Zenon DEF insert
  <1>. QED
    BY <1>3, <1>4, <1>5, Zenon

\* So it keeps the counters exact and every entry where its envelope routes it.
LEMMA InsertExact ==
    ASSUME FiniteLaws, NEW p \in Pool, NEW d \in Domain, NEW t \in Transaction, NEW sn,
           ExactCounts(p), Placed(p, p.entries)
    PROVE  LET q == insert(p, d, t, sn)
           IN  /\ q \in Pool /\ ExactCounts(q) /\ Placed(p, q.entries)
               /\ q.chain_ids = p.chain_ids /\ q.used_chain_ids = p.used_chain_ids
  <1>. DEFINE k == <<d, t.sender, t.nonce>>
              q == insert(p, d, t, sn)
              e == [p.entries EXCEPT ![k] = t]
              c == [p.sender_counts EXCEPT ![<<d, t.sender>>] = @ + 1]
  <1>1. t.sender \in Sender /\ t.nonce \in Nonce /\ t # NoTx
    BY TransactionAssumption, Zenon
  <1>2. k \in Key /\ <<d, t.sender>> \in SenderKey
    BY <1>1, Keys, Zenon
  <1>3. /\ e \in Entries /\ c \in [SenderKey -> Nat]
        /\ e[k] = t /\ \A l \in Key : l # k => e[l] = p.entries[l]
    BY <1>2 DEF Pool, Entries
  <1>4. ASSUME Registered(p, d), t.chain_id = p.chain_ids[d]
        PROVE  Placed(p, e)
    <2>. SUFFICES ASSUME NEW x \in Domain, NEW s \in Sender, NEW n \in Nonce,
                         e[<<x, s, n>>] # NoTx
                  PROVE  /\ e[<<x, s, n>>].sender = s /\ e[<<x, s, n>>].nonce = n
                         /\ Registered(p, x) /\ e[<<x, s, n>>].chain_id = p.chain_ids[x]
      BY Zenon DEF Placed
    <2>1. CASE <<x, s, n>> = k
      BY <1>3, <1>4, <2>1, Zenon
    <2>2. CASE <<x, s, n>> # k
      <3>1. e[<<x, s, n>>] = p.entries[<<x, s, n>>]
        BY <1>3, <2>2, Keys, Zenon
      <3>. QED
        BY <3>1 DEF Placed
    <2>. QED
      BY <2>1, <2>2, Zenon
  <1>5. CASE q = p
    BY <1>5, Zenon
  <1>6. CASE /\ Registered(p, d) /\ t.chain_id = p.chain_ids[d]
             /\ p.entries[k] # NoTx /\ q = overwritten(p, d, t)
    <2>1. /\ q \in Pool /\ q.entries = e /\ q.sender_counts = p.sender_counts
          /\ q.chain_ids = p.chain_ids /\ q.used_chain_ids = p.used_chain_ids
      <3>1. q = [p EXCEPT !.entries = e]
        BY <1>6, Zenon DEF Pool, overwritten
      <3>. HIDE DEF q, e
      <3>. QED
        BY <3>1, <1>3, Zenon DEF Pool
    <2>2. ASSUME NEW x \in Domain, NEW s \in Sender
          PROVE  HeldNonces(e, x, s) = HeldNonces(p.entries, x, s)
      <3>1. \A n \in Nonce : e[<<x, s, n>>] # NoTx <=> p.entries[<<x, s, n>>] # NoTx
        BY <1>1, <1>3, <1>6, Keys, Zenon
      <3>. QED
        BY <3>1, Zenon DEF HeldNonces
    <2>. QED
      BY <1>4, <1>6, <2>1, <2>2, ZenonT(40) DEF ExactCounts
  <1>7. CASE /\ Registered(p, d) /\ t.chain_id = p.chain_ids[d] /\ p.entries[k] = NoTx
             /\ q = extended(p, d, t)
    <2>1. /\ q \in Pool /\ q.entries = e /\ q.sender_counts = c
          /\ q.chain_ids = p.chain_ids /\ q.used_chain_ids = p.used_chain_ids
      <3>1. q = [p EXCEPT !.entries = e, !.sender_counts = c]
        BY <1>7, Zenon DEF Pool, extended
      <3>. HIDE DEF q, e, c
      <3>. QED
        BY <3>1, <1>3, Zenon DEF Pool
    <2>2. ASSUME NEW x \in Domain, NEW s \in Sender
          PROVE  c[<<x, s>>] = Cardinality(HeldNonces(e, x, s))
      <3>. DEFINE S == HeldNonces(p.entries, x, s)
      <3>1. p.sender_counts[<<x, s>>] = Cardinality(S) /\ IsFiniteSet(S)
        BY HeldFinite, Zenon DEF ExactCounts
      <3>2. CASE x = d /\ s = t.sender
        <4>1. HeldNonces(e, x, s) = S \cup {t.nonce} /\ t.nonce \notin S
          <5>1. /\ e[<<x, s, t.nonce>>] = t /\ p.entries[<<x, s, t.nonce>>] = NoTx
                /\ \A n \in Nonce : n # t.nonce => e[<<x, s, n>>] = p.entries[<<x, s, n>>]
            BY <1>1, <1>3, <1>7, <3>2, Keys, Zenon
          <5>. HIDE DEF e
          <5>. QED
            BY <1>1, <5>1, Zenon DEF HeldNonces
        <4>2. c[<<x, s>>] = p.sender_counts[<<x, s>>] + 1
          BY <1>2, <3>2, Zenon DEF Pool
        <4>. QED
          BY <3>1, <4>1, <4>2, CountOneMore, Zenon
      <3>3. CASE ~(x = d /\ s = t.sender)
        <4>1. HeldNonces(e, x, s) = S
          <5>1. \A n \in Nonce : e[<<x, s, n>>] = p.entries[<<x, s, n>>]
            BY <1>3, <3>3, Keys, Zenon
          <5>. QED
            BY <5>1, Zenon DEF HeldNonces
        <4>2. c[<<x, s>>] = p.sender_counts[<<x, s>>]
          BY <3>3, Keys, Zenon DEF Pool
        <4>. QED
          BY <3>1, <4>1, <4>2, Zenon
      <3>. QED
        BY <3>2, <3>3, Zenon
    <2>. QED
      <3>1. ExactCounts(q)
        <4>. HIDE DEF q, e, c
        <4>. QED
          BY <2>1, <2>2, Zenon DEF ExactCounts
      <3>. QED
        BY <1>4, <1>7, <2>1, <3>1, Zenon
  <1>8. /\ q \in Pool /\ ExactCounts(q) /\ Placed(p, q.entries)
        /\ q.chain_ids = p.chain_ids /\ q.used_chain_ids = p.used_chain_ids
    <2>1. \/ q = p
          \/ /\ Registered(p, d) /\ t.chain_id = p.chain_ids[d]
             /\ \/ p.entries[k] # NoTx /\ q = overwritten(p, d, t)
                \/ p.entries[k] = NoTx /\ q = extended(p, d, t)
      BY InsertCases, ZenonT(40)
    <2>. QED
      BY <1>5, <1>6, <1>7, <2>1, Zenon
  <1>. QED
    BY <1>8, Zenon

-----------------------------------------------------------------------------
\* What an operation that leaves the registrations alone must keep.
LEMMA SameRegistrations ==
    ASSUME NEW p, NEW q, q.chain_ids = p.chain_ids, NEW e, Placed(p, e)
    PROVE  Placed(q, e)
  BY DEF Placed, Registered

\* What a registration must keep.
LEMMA MoreRegistrations ==
    ASSUME NEW p, NEW q, NEW e, Placed(p, e),
           \A d \in Domain : Registered(p, d) => Registered(q, d) /\ q.chain_ids[d] = p.chain_ids[d]
    PROVE  Placed(q, e)
  BY DEF Placed

\* Entries drawn from routed ones are routed.
LEMMA RoutedFrom ==
    ASSUME NEW p, NEW e, NEW f, NEW g, Placed(p, e), Placed(p, g),
           \A k \in Key : f[k] = NoTx \/ f[k] = e[k] \/ f[k] = g[k]
    PROVE  Placed(p, f)
  <1>. SUFFICES ASSUME NEW d \in Domain, NEW s \in Sender, NEW n \in Nonce,
                       f[<<d, s, n>>] # NoTx
                PROVE  /\ f[<<d, s, n>>].sender = s /\ f[<<d, s, n>>].nonce = n
                       /\ Registered(p, d) /\ f[<<d, s, n>>].chain_id = p.chain_ids[d]
    BY Zenon DEF Placed
  <1>1. f[<<d, s, n>>] = e[<<d, s, n>>] \/ f[<<d, s, n>>] = g[<<d, s, n>>]
    BY Keys, Zenon
  <1>. QED
    BY <1>1 DEF Placed

\* Entries found by hash, and stale entries, are entries of the pool.
LEMMA ReservedTyped ==
    ASSUME NEW p \in Pool, NEW hashes, Placed(p, p.entries)
    PROVE  /\ reserved_by(p, hashes) \in Entries
           /\ \A k \in Key : reserved_by(p, hashes)[k] # NoTx => p.entries[k] # NoTx
           /\ Placed(p, reserved_by(p, hashes))
  <1>1. \A k \in Key : \/ reserved_by(p, hashes)[k] = NoTx
                       \/ reserved_by(p, hashes)[k] = p.entries[k]
    BY Zenon DEF reserved_by
  <1>2. reserved_by(p, hashes) \in Entries
    BY Zenon DEF reserved_by, Entries, Pool
  <1>3. Placed(p, reserved_by(p, hashes))
    BY <1>1, RoutedFrom, Zenon
  <1>. QED
    BY <1>1, <1>2, <1>3, Zenon

\* The entries advance_nonce drops are entries of the pool.
LEMMA StaleTyped ==
    ASSUME NEW p \in Pool, NEW d, NEW s, NEW sn
    PROVE  /\ stale_entries(p, d, s, sn) \in Entries
           /\ \A k \in Key : stale_entries(p, d, s, sn)[k] # NoTx => p.entries[k] # NoTx
  BY Zenon DEF stale_entries, Entries, Pool

\* `without` keeps the counters exact and the entries it leaves where they were.
LEMMA WithoutInv ==
    ASSUME FiniteLaws, NEW p \in Pool, NEW r \in Entries, Placed(p, p.entries), ExactCounts(p),
           \A k \in Key : r[k] # NoTx => p.entries[k] # NoTx
    PROVE  /\ without(p, r) \in Pool /\ ExactCounts(without(p, r))
           /\ Placed(p, without(p, r).entries)
           /\ without(p, r).chain_ids = p.chain_ids
           /\ without(p, r).used_chain_ids = p.used_chain_ids
  <1>1. /\ without(p, r) \in Pool /\ ExactCounts(without(p, r))
        /\ without(p, r).entries = [k \in Key |-> IF r[k] # NoTx THEN NoTx ELSE p.entries[k]]
        /\ without(p, r).chain_ids = p.chain_ids
        /\ without(p, r).used_chain_ids = p.used_chain_ids
    BY WithoutExact, Zenon
  <1>2. \A k \in Key : \/ without(p, r).entries[k] = NoTx
                       \/ without(p, r).entries[k] = p.entries[k]
    BY <1>1, Zenon
  <1>. QED
    BY <1>1, <1>2, RoutedFrom

\* restore_reserved keeps every entry where its transaction belongs.
LEMMA RestoreRouted ==
    ASSUME FiniteLaws, NEW p \in Pool, NEW r \in Entries, Placed(p, p.entries), Placed(p, r),
           ExactCounts(p)
    PROVE  Placed(p, restore_reserved(p, r).entries)
  <1>1. restore_reserved(p, r).entries =
          [k \in Key |-> IF restorable(p, r)[k] # NoTx THEN restorable(p, r)[k] ELSE p.entries[k]]
    BY RestoreExact, Zenon
  <1>2. \A k \in Key : restorable(p, r)[k] = NoTx \/ restorable(p, r)[k] = r[k]
    BY Zenon DEF restorable
  <1>3. \A k \in Key : \/ restore_reserved(p, r).entries[k] = r[k]
                       \/ restore_reserved(p, r).entries[k] = p.entries[k]
    BY <1>1, <1>2, Zenon
  <1>. QED
    BY <1>3, RoutedFrom

-----------------------------------------------------------------------------
\* Nothing is misplaced in an empty pool.
LEMMA EmptyRouted ==
    ASSUME NEW p
    PROVE  NoEntries \in Entries /\ Placed(p, NoEntries)
  <1>1. ASSUME NEW d \in Domain, NEW s \in Sender, NEW n \in Nonce
        PROVE  NoEntries[<<d, s, n>>] = NoTx
    BY Keys, Zenon DEF NoEntries
  <1>. QED
    BY <1>1, Zenon DEF NoEntries, Entries, Placed

\* MempoolIndex::new establishes the invariant.
LEMMA PoolInitInv ==
    ASSUME FiniteLaws
    PROVE  PoolInit => PoolInv
  <1>. SUFFICES ASSUME PoolInit PROVE PoolInv
    BY Zenon
  <1>1. /\ pool.chain_ids = [d \in Domain |-> 0] /\ pool.used_chain_ids = {}
        /\ pool.entries = NoEntries /\ pool.sender_counts = [sk \in SenderKey |-> 0]
    BY Zenon DEF PoolInit, EmptyPool
  <1>2. NoEntries \in Entries
    BY EmptyRouted, Zenon
  <1>3. PoolTypeOK
    BY <1>1, <1>2, Zenon DEF PoolInit, EmptyPool, PoolTypeOK, Pool
  <1>4. \A d \in Domain, s \in Sender : HeldNonces(NoEntries, d, s) = {}
    BY Keys, Zenon DEF HeldNonces, NoEntries
  <1>5. CountsExact
    <2>1. ASSUME NEW d \in Domain, NEW s \in Sender
          PROVE  pool.sender_counts[<<d, s>>] = 0
      BY <1>1, Keys, Zenon
    <2>. QED
      BY <1>1, <1>4, <2>1, Zenon DEF CountsExact, ExactCounts, FiniteLaws
  <1>6. ChainIdsDistinct
    BY <1>1, Zenon DEF ChainIdsDistinct, Registered
  <1>7. Placed(pool, pool.entries) /\ Placed(pool, reserved)
    BY <1>1, EmptyRouted, Zenon DEF PoolInit
  <1>. QED
    BY <1>3, <1>5, <1>6, <1>7, Zenon DEF PoolInv

\* One case for each method of the pool.
LEMMA PoolStepInv ==
    ASSUME FiniteLaws
    PROVE  PoolInv /\ [PoolNext]_pool_vars => PoolInv'
  <1>. SUFFICES ASSUME PoolInv, [PoolNext]_pool_vars PROVE PoolInv'
    BY Zenon
  <1>. USE DEF PoolInv, PoolTypeOK, CountsExact
  <1>1. ASSUME NEW d \in Domain, NEW c \in ChainId, RegisterDomain(d, c)
        PROVE  PoolInv'
    <2>1. c \in Nat
      BY ChainIdAssumption, Zenon
    <2>2. /\ pool' \in Pool /\ pool'.entries = pool.entries
          /\ pool'.sender_counts = pool.sender_counts
          /\ pool'.chain_ids = [pool.chain_ids EXCEPT ![d] = c]
          /\ pool'.used_chain_ids = pool.used_chain_ids \cup {c}
      BY <1>1, <2>1, Zenon DEF RegisterDomain, register_domain, Pool
    <2>3. /\ pool.chain_ids \in [Domain -> Nat] /\ c # 0
          /\ IF pool.chain_ids[d] # 0 THEN pool.chain_ids[d] = c
             ELSE c \notin pool.used_chain_ids
      BY <1>1, Zenon DEF RegisterDomain, register_ok, Registered, Pool
    <2>4. \A e \in Domain : pool'.chain_ids[e] = IF e = d THEN c ELSE pool.chain_ids[e]
      BY <2>2, <2>3, Zenon
    <2>5. ChainIdsDistinct'
      BY <2>2, <2>3, <2>4 DEF ChainIdsDistinct, Registered
    <2>6. \A e \in Domain : Registered(pool, e) =>
             Registered(pool', e) /\ pool'.chain_ids[e] = pool.chain_ids[e]
      BY <2>3, <2>4, Zenon DEF Registered
    <2>7. Placed(pool', pool.entries) /\ Placed(pool', reserved)
      <3>. HIDE DEF PoolTypeOK, CountsExact
      <3>. QED
        BY <2>6, MoreRegistrations
    <2>. QED
      <3>1. Placed(pool', pool'.entries) /\ Placed(pool', reserved')
        BY <1>1, <2>2, <2>7, Zenon DEF RegisterDomain
      <3>. QED
        BY <1>1, <2>2, <2>5, <3>1, Zenon DEF RegisterDomain, ExactCounts
  <1>2. ASSUME NEW d \in Domain, NEW t \in Transaction, Insert(d, t)
        PROVE  PoolInv'
    <2>1. /\ pool' \in Pool /\ ExactCounts(pool') /\ Placed(pool, pool'.entries)
          /\ pool'.chain_ids = pool.chain_ids /\ pool'.used_chain_ids = pool.used_chain_ids
      BY <1>2, InsertExact DEF Insert
    <2>2. Placed(pool', pool'.entries) /\ Placed(pool', reserved')
      BY <1>2, <2>1, SameRegistrations, Zenon DEF Insert
    <2>. QED
      BY <1>2, <2>1, <2>2, ZenonT(40) DEF Insert, ChainIdsDistinct, Registered
  <1>3. ASSUME NEW hashes, pool' = reserve_hashes(pool, hashes)
        PROVE  /\ pool' \in Pool /\ ExactCounts(pool') /\ Placed(pool, pool'.entries)
               /\ pool'.chain_ids = pool.chain_ids
               /\ pool'.used_chain_ids = pool.used_chain_ids
    <2>1. /\ reserved_by(pool, hashes) \in Entries
          /\ \A k \in Key : reserved_by(pool, hashes)[k] # NoTx => pool.entries[k] # NoTx
      BY ReservedTyped, Zenon
    <2>. QED
      BY <1>3, <2>1, WithoutInv, Zenon DEF reserve_hashes
  <1>4. ASSUME NEW hashes \in SUBSET Transaction, Reserve(hashes)
        PROVE  PoolInv'
    <2>1. pool' = reserve_hashes(pool, hashes) /\ reserved' = reserved_by(pool, hashes)
      BY <1>4, Zenon DEF Reserve
    <2>2. reserved' \in Entries /\ Placed(pool, reserved')
      BY <2>1, ReservedTyped, Zenon
    <2>3. Placed(pool', pool'.entries) /\ Placed(pool', reserved')
      BY <1>3, <2>1, <2>2, SameRegistrations, Zenon
    <2>. QED
      BY <1>3, <1>4, <2>1, <2>2, <2>3, Zenon DEF Reserve, ChainIdsDistinct, Registered
  <1>5. CASE Restore
    <2>1. pool' = restore_reserved(pool, reserved) /\ reserved' = NoEntries
      BY <1>5, Zenon DEF Restore
    <2>2. /\ pool' \in Pool /\ ExactCounts(pool') /\ Placed(pool, pool'.entries)
          /\ pool'.chain_ids = pool.chain_ids /\ pool'.used_chain_ids = pool.used_chain_ids
      BY <2>1, RestoreExact, RestoreRouted, Zenon
    <2>3. reserved' \in Entries /\ Placed(pool, reserved')
      BY <2>1, EmptyRouted, Zenon
    <2>4. Placed(pool', pool'.entries) /\ Placed(pool', reserved')
      BY <2>2, <2>3, SameRegistrations, Zenon
    <2>. QED
      BY <1>5, <2>2, <2>3, <2>4 DEF Restore, ChainIdsDistinct, Registered
  <1>6. CASE Finalize
    <2>1. PICK hashes : pool' = reserve_hashes(pool, hashes)
      BY <1>6, Zenon DEF Finalize
    <2>2. reserved' \in Entries /\ Placed(pool, reserved')
      BY <1>6, EmptyRouted, Zenon DEF Finalize
    <2>3. Placed(pool', pool'.entries) /\ Placed(pool', reserved')
      BY <1>3, <2>1, <2>2, SameRegistrations, Zenon
    <2>4. state_nonce' \in [SenderKey -> Nat]
      BY <1>6, HeldFinite DEF Finalize
    <2>. QED
      BY <1>3, <2>1, <2>2, <2>3, <2>4 DEF ChainIdsDistinct, Registered
  <1>7. ASSUME NEW d \in Domain, NEW s \in Sender, AdvanceNonce(d, s)
        PROVE  PoolInv'
    <2>1. pool' = without(pool, stale_entries(pool, d, s, state_nonce[<<d, s>>]))
      BY <1>7, Zenon DEF AdvanceNonce, advance_nonce
    <2>2. /\ pool' \in Pool /\ ExactCounts(pool') /\ Placed(pool, pool'.entries)
          /\ pool'.chain_ids = pool.chain_ids /\ pool'.used_chain_ids = pool.used_chain_ids
      BY <2>1, StaleTyped, WithoutInv
    <2>3. Placed(pool', pool'.entries) /\ Placed(pool', reserved')
      BY <1>7, <2>2, SameRegistrations, Zenon DEF AdvanceNonce
    <2>. QED
      BY <1>7, <2>2, <2>3, ZenonT(40) DEF AdvanceNonce, ChainIdsDistinct, Registered
  <1>8. CASE UNCHANGED pool_vars
    BY <1>8, ZenonT(40) DEF pool_vars, ChainIdsDistinct
  <1>. QED
    BY <1>1, <1>2, <1>4, <1>5, <1>6, <1>7, <1>8, Zenon DEF PoolNext

-----------------------------------------------------------------------------
\* What `without` and restore_reserved do to a place that is taken.
LEMMA TakenPlace ==
    ASSUME FiniteLaws, NEW p \in Pool, NEW r \in Entries, ExactCounts(p),
           NEW k \in Key, p.entries[k] # NoTx
    PROVE  restore_reserved(p, r).entries[k] = p.entries[k]
  <1>1. restore_reserved(p, r).entries =
          [l \in Key |-> IF restorable(p, r)[l] # NoTx THEN restorable(p, r)[l] ELSE p.entries[l]]
    BY RestoreExact, Zenon
  <1>. QED
    BY <1>1, Zenon DEF restorable

\* What `without` leaves in a place is what was there.
LEMMA LeftPlace ==
    ASSUME FiniteLaws, NEW p \in Pool, NEW r \in Entries, ExactCounts(p),
           \A k \in Key : r[k] # NoTx => p.entries[k] # NoTx,
           NEW l \in Key, without(p, r).entries[l] # NoTx
    PROVE  without(p, r).entries[l] = p.entries[l]
  <1>1. without(p, r).entries = [k \in Key |-> IF r[k] # NoTx THEN NoTx ELSE p.entries[k]]
    BY WithoutExact, Zenon
  <1>. QED
    BY <1>1, Zenon

\* An overwritten entry gives way to one that bumps both fee caps; in particular
\* restore_reserved never overwrites what was admitted meanwhile.
Bumped ==
    \A k \in Held(pool.entries) \cap Held(pool'.entries) :
        pool'.entries[k] # pool.entries[k]
           => replacement_priced(pool.entries[k], pool'.entries[k])

LEMMA BumpedStep ==
    ASSUME FiniteLaws
    PROVE  PoolInv /\ [PoolNext]_pool_vars => [Bumped]_pool_vars
  <1>. SUFFICES ASSUME PoolInv, PoolNext,
                       NEW k \in Key, pool.entries[k] # NoTx, pool'.entries[k] # NoTx,
                       pool'.entries[k] # pool.entries[k]
                PROVE  replacement_priced(pool.entries[k], pool'.entries[k])
    BY Zenon DEF Held, Bumped
  <1>. USE DEF PoolInv, PoolTypeOK, CountsExact
  <1>1. ASSUME NEW d \in Domain, NEW c \in ChainId, RegisterDomain(d, c)
        PROVE  FALSE
    BY <1>1, Zenon DEF RegisterDomain, register_domain, Pool
  <1>2. ASSUME NEW d \in Domain, NEW t \in Transaction, Insert(d, t)
        PROVE  replacement_priced(pool.entries[k], pool'.entries[k])
    <2>. DEFINE i == <<d, t.sender, t.nonce>>
    <2>1. pool.entries \in [Key -> Transaction \cup {NoTx}]
      BY Zenon DEF Pool, Entries
    <2>2. pool' # pool /\ pool' = insert(pool, d, t, state_nonce[<<d, t.sender>>])
      BY <1>2, Zenon DEF Insert
    <2>3. CASE /\ pool' = overwritten(pool, d, t)
               /\ replacement_priced(pool.entries[i], t)
      <3>1. pool'.entries = [pool.entries EXCEPT ![i] = t]
        BY <2>3, Zenon DEF overwritten, Pool
      <3>. QED
        BY <2>1, <2>3, <3>1, Zenon
    <2>4. CASE pool' = extended(pool, d, t) /\ pool.entries[i] = NoTx
      <3>1. pool'.entries = [pool.entries EXCEPT ![i] = t]
        BY <2>4, Zenon DEF extended, Pool
      <3>. QED
        BY <2>1, <2>4, <3>1, Zenon
    <2>. QED
      <3>1. \/ pool' = overwritten(pool, d, t) /\ replacement_priced(pool.entries[i], t)
            \/ pool' = extended(pool, d, t) /\ pool.entries[i] = NoTx
        BY <1>2, <2>2, InsertCases, ZenonT(40) DEF Pool
      <3>. QED
        BY <2>3, <2>4, <3>1, Zenon
  <1>3. ASSUME NEW hashes, pool' = reserve_hashes(pool, hashes)
        PROVE  FALSE
    <2>1. /\ reserved_by(pool, hashes) \in Entries
          /\ \A l \in Key : reserved_by(pool, hashes)[l] # NoTx => pool.entries[l] # NoTx
      BY ReservedTyped, Zenon
    <2>. QED
      BY <1>3, <2>1, LeftPlace, Zenon DEF reserve_hashes
  <1>4. ASSUME NEW hashes \in SUBSET Transaction, Reserve(hashes)
        PROVE  FALSE
    BY <1>3, <1>4, Zenon DEF Reserve
  <1>5. ASSUME Restore PROVE FALSE
    BY <1>5, TakenPlace, Zenon DEF Restore
  <1>6. ASSUME Finalize PROVE FALSE
    BY <1>3, <1>6, Zenon DEF Finalize
  <1>7. ASSUME NEW d \in Domain, NEW s \in Sender, AdvanceNonce(d, s)
        PROVE  FALSE
    <2>1. PICK stale : /\ stale \in Entries /\ pool' = without(pool, stale)
                       /\ \A l \in Key : stale[l] # NoTx => pool.entries[l] # NoTx
      <3>1. PICK sn : pool' = without(pool, stale_entries(pool, d, s, sn))
        BY <1>7, Zenon DEF AdvanceNonce, advance_nonce
      <3>2. pool \in Pool
        BY Zenon
      <3>. HIDE DEF PoolInv, PoolTypeOK, CountsExact
      <3>. QED
        BY <3>1, <3>2, StaleTyped
    <2>2. pool'.entries[k] = pool.entries[k]
      <3>1. pool \in Pool /\ ExactCounts(pool)
        BY Zenon
      <3>2. without(pool, stale).entries[k] # NoTx
        BY <2>1, Zenon
      <3>. HIDE DEF PoolInv, PoolTypeOK, CountsExact
      <3>. QED
        BY <2>1, <3>1, <3>2, LeftPlace
    <2>. QED
      BY <2>2, Zenon
  <1>. QED
    BY <1>1, <1>2, <1>4, <1>5, <1>6, <1>7, Zenon DEF PoolNext

\* A transaction hash has one place: its envelope names the sender and the nonce, and
\* its chain ID the domain.
LEMMA OnePlaceFollows == PoolInv => OnePlacePerHash
  <1>. SUFFICES ASSUME PoolInv, NEW e \in {pool.entries, reserved},
                       NEW k \in Held(e), NEW l \in Held(e), e[k] = e[l]
                PROVE  k = l
    BY Zenon DEF OnePlacePerHash
  <1>1. Placed(pool, e)
    BY Zenon DEF PoolInv
  <1>2. PICK d \in Domain, s \in Sender, n \in Nonce : k = <<d, s, n>>
    BY DEF Held, Key
  <1>3. PICK x \in Domain, u \in Sender, m \in Nonce : l = <<x, u, m>>
    BY DEF Held, Key
  <1>4. s = u /\ n = m /\ Registered(pool, d) /\ pool.chain_ids[d] = pool.chain_ids[x]
    BY <1>1, <1>2, <1>3 DEF Held, Placed
  <1>. QED
    BY <1>2, <1>3, <1>4, Zenon DEF PoolInv, ChainIdsDistinct
=============================================================================
