----------------------------- MODULE EngineProofs -----------------------------
(***************************************************************************)
(* The engine implements FinalizedLog, for every set of domains, senders   *)
(* and transactions, every retention policy and every height.              *)
(***************************************************************************)
EXTENDS Engine, TLAPS

\* A chain with one more block extends the chain without it.
LEMMA AppendExtends ==
    ASSUME NEW s, NEW b, IsSequence(s)
    PROVE  /\ IsSequence(Append(s, b))
           /\ Len(Append(s, b)) = Len(s) + 1
           /\ Log!Extends(s, Append(s, b))
           /\ Append(s, b) # <<>>
<1> DEFINE S == {s[i] : i \in 1 .. Len(s)} \cup {b}
<1>1. s \in Seq(S)
  BY DEF IsSequence
<1>2. /\ Append(s, b) \in Seq(S)
      /\ Len(Append(s, b)) = Len(s) + 1
      /\ \A i \in 1 .. Len(s) : Append(s, b)[i] = s[i]
  BY <1>1
<1>3. Len(s) \in Nat
  BY <1>1
<1>4. IsSequence(Append(s, b))
  BY <1>2, <1>3 DEF IsSequence
<1>5. Append(s, b) # <<>>
  BY <1>2, <1>3
<1>6. Log!Extends(s, Append(s, b))
  BY <1>2, <1>3 DEF Log!Extends
<1> QED
  BY <1>2, <1>4, <1>5, <1>6, Zenon

\* FinalizedLog's OneLonger is the append of one block.
LEMMA OneLongerAppends ==
    ASSUME NEW s, NEW t, IsSequence(s)
    PROVE  OneLonger(s, t) <=> \E b : t = Append(s, b)
<1>1. ASSUME NEW b, t = Append(s, b) PROVE OneLonger(s, t)
  <2>1. s \in Seq({s[i] : i \in 1 .. Len(s)} \cup {b}) /\ Len(s) \in Nat
    BY DEF IsSequence
  <2>2. Len(t) = Len(s) + 1 /\ t[Len(s) + 1] = b
    BY <1>1, <2>1
  <2> QED
    BY <1>1, <2>1, <2>2 DEF OneLonger
<1> QED
  BY <1>1, Zenon DEF OneLonger

\* Extending a chain is transitive.
LEMMA ExtendsTransitive ==
    ASSUME NEW r, NEW s, NEW t, IsSequence(r), IsSequence(s), IsSequence(t),
           Log!Extends(r, s), Log!Extends(s, t)
    PROVE  Log!Extends(r, t)
<1>1. Len(r) \in Nat /\ Len(s) \in Nat /\ Len(t) \in Nat
  BY DEF IsSequence
<1> QED
  BY <1>1 DEF Log!Extends

\* Every chain extends the empty one and itself.
LEMMA EmptyExtends ==
    ASSUME NEW s, IsSequence(s)
    PROVE  Log!Extends(<<>>, s) /\ Log!Extends(s, s) /\ IsSequence(<<>>)
<1>1. Len(s) \in Nat
  BY DEF IsSequence
<1> QED
  BY <1>1 DEF Log!Extends, IsSequence

\* abandon_proposal leaves the finalized state alone.
LEMMA WithoutProposal ==
    ASSUME NEW e, NEW x, EngineFields(e)
    PROVE  LET q == [e EXCEPT !.pool = x, !.pending = None]
           IN  EngineFields(q) /\ q.finalized = e.finalized /\ q.pending = None
  BY Zenon DEF EngineFields

\* Importing a checkpoint replaces the finalized state and keeps what is pending.
LEMMA WithFinalized ==
    ASSUME NEW e, NEW x, NEW st, EngineFields(e)
    PROVE  LET q == [e EXCEPT !.finalized = st, !.pool = x, !.cursor = 0]
           IN  EngineFields(q) /\ q.finalized = st /\ q.pending = e.pending
  BY Zenon DEF EngineFields

\* Executing a block appends it to the chain its state stands for.
LEMMA ExecuteAppends ==
    ASSUME NEW st, NEW body
    PROVE  \E b : execute(st, body).hash = Append(st.hash, b)
  BY Zenon DEF execute, block_hash, block_of

\* The transaction of a commit: the marker of the new state, on the same records.
LEMMA CommitMarker ==
    ASSUME NEW dk, NEW st, NEW S, DiskFields(dk)
    PROVE  DiskFields(commit(dk, st, S)) /\ commit(dk, st, S).marker = marker_of(st)
<1> DEFINE m == marker_of(st)
           x == new_heads(dk, st, S)
           y == retained(dk.roots \cup new_roots(st, S), x, S, height(st))
<1>1. commit(dk, st, S) = [dk EXCEPT !.marker = m, !.wal = m, !.heads = x, !.roots = y]
  BY Zenon DEF commit
<1> HIDE DEF m, x, y
<1>2. commit(dk, st, S) =
        [marker |-> m, wal |-> m, blocks |-> dk.blocks, heads |-> x, roots |-> y,
         checkpoint |-> dk.checkpoint, locations |-> dk.locations]
  BY <1>1, Zenon DEF DiskFields
<1> QED
  BY <1>2 DEF DiskFields, m

\* The transaction of a block writes the marker of the block's state.
LEMMA BlockMarker ==
    ASSUME NEW dk, NEW block, NEW st, DiskFields(dk)
    PROVE  /\ DiskFields(commit_block(dk, block, st))
           /\ commit_block(dk, block, st).marker = marker_of(st)
<1> DEFINE c == commit(dk, st, written(st))
<1>1. DiskFields(c) /\ c.marker = marker_of(st)
  BY CommitMarker, Zenon
<1>2. commit_block(dk, block, st) =
        [c EXCEPT !.blocks[height(st)] = block, !.locations = @ \cup located(block, st)]
  BY Zenon DEF commit_block
<1> HIDE DEF c
<1> QED
  BY <1>1, <1>2, Zenon DEF DiskFields

\* The transaction of a checkpoint writes the marker of the checkpoint's state.
LEMMA CheckpointMarker ==
    ASSUME NEW dk, NEW st, DiskFields(dk)
    PROVE  /\ DiskFields(commit_checkpoint(dk, st))
           /\ commit_checkpoint(dk, st).marker = marker_of(st)
<1> DEFINE c == commit(dk, st, Live(st))
<1>1. DiskFields(c) /\ c.marker = marker_of(st)
  BY CommitMarker, Zenon
<1> HIDE DEF c
<1>2. \A x : DiskFields([c EXCEPT !.checkpoint = x]) /\ [c EXCEPT !.checkpoint = x].marker = c.marker
  BY <1>1 DEF DiskFields
<1> QED
  BY <1>1, <1>2, Zenon DEF commit_checkpoint, c

\* What open_with_history recovers is the chain of the durable marker.
LEMMA RecoveredMarker ==
    ASSUME NEW dk, recovered(dk) # None
    PROVE  recovered(dk).hash = dk.marker.hash
<1> DEFINE st == replay(dk, recovery_base(dk))
<1>1. recovered(dk) = st /\ verify_recovered(dk, st)
  BY Zenon DEF recovered
<1> HIDE DEF st
<1> QED
  BY <1>1 DEF verify_recovered, marker_of

\* ... and its domains are the ones whose heads the marker commits to.
LEMMA RecoveredDomains ==
    ASSUME NEW dk, recovered(dk) # None
    PROVE  recovered(dk).domains = dk.marker.heads
<1> DEFINE st == replay(dk, recovery_base(dk))
<1>1. recovered(dk) = st /\ verify_recovered(dk, st)
  BY Zenon DEF recovered
<1> HIDE DEF st
<1> QED
  BY <1>1 DEF verify_recovered, marker_of, domain_heads_root

-----------------------------------------------------------------------------
\* Whatever a method commits: if its state extends the durable chain by one block, or
\* replaces the empty one, then the step is a Finalize step and keeps the invariant.
LEMMA DurableStep ==
    ASSUME LogInv, engine # Down, NEW dk, NEW e, Durable(dk, e),
           DiskFields(dk), dk.marker = marker_of(e.finalized),
           EngineFields(e), e.pending = None,
           IsSequence(e.finalized.hash),
           Log!Extends(DurableLog, e.finalized.hash),
           \/ Len(e.finalized.hash) = Len(DurableLog) + 1
           \/ DurableLog = <<>> /\ e.finalized.hash # <<>>
    PROVE  LogInv' /\ Log!Finalize
<1> DEFINE h == e.finalized.hash
<1>1. disk' = dk /\ DurableLog' = h /\ disk'.marker.height = Len(h) /\ peer' = peer
  BY DEF Durable, DurableLog, marker_of, height
<1>2. Len(h) \in Nat
  BY DEF IsSequence
<1>3. initialized(disk)'
  BY <1>1, <1>2 DEF initialized
<1>4. IsSequence(DurableLog) /\ IsSequence(announced) /\ Log!Extends(announced, DurableLog)
  BY Zenon DEF LogInv, AnnouncedDurable
<1>5. Log!Extends(announced, h) /\ Log!Extends(h, h)
  BY <1>4, ExtendsTransitive, EmptyExtends, Zenon
<1>6. ExposedLog = DurableLog
  BY Zenon DEF LogInv, ExposedLog, DurableLog
<1>7. /\ DiskFields(disk)' /\ IsSequence(DurableLog)' /\ IsSequence(peer.hash)'
      /\ disk'.marker.height = Len(disk'.marker.hash)
  BY <1>1, Zenon DEF LogInv, DurableLog
<1>8. h \in Seq({h[i] : i \in 1 .. Len(h)})
  BY Zenon DEF IsSequence
<1> HIDE DEF h
<1>9. CASE engine' = e /\ announced' = h
  <2>1. IsSequence(announced)' /\ AnnouncedDurable'
    BY <1>1, <1>5, <1>9, Zenon DEF AnnouncedDurable, h
  <2>2. engine' # Down => EngineFields(engine)' /\ engine'.finalized.hash = disk'.marker.hash
                          /\ engine'.pending = None
    BY <1>1, <1>9, Zenon DEF DurableLog, h
  <2>3. LogInv'
    BY <1>3, <1>7, <2>1, <2>2, Zenon DEF LogInv
  <2>4. (ExposedLog' = h \/ ExposedLog' = Down) /\ announced' = h
    BY <1>9, Zenon DEF ExposedLog, h
  <2>5. Log!Finalize
    BY <1>1, <1>6, <1>8, <2>4, Zenon DEF Log!Finalize, h
  <2> QED
    BY <2>3, <2>5, Zenon
<1>10. CASE engine' = Down /\ UNCHANGED announced
  <2>1. LogInv'
    BY <1>1, <1>3, <1>4, <1>5, <1>7, <1>10, Zenon DEF LogInv, AnnouncedDurable
  <2>2. ExposedLog' = Down
    BY <1>10, Zenon DEF ExposedLog
  <2>3. Log!Finalize
    BY <1>1, <1>6, <1>8, <1>10, <2>2, Zenon DEF Log!Finalize, h
  <2> QED
    BY <2>1, <2>3, Zenon
<1> QED
  BY <1>9, <1>10, Zenon DEF Durable, h

\* commit_validated, for a proposal as for an imported block, is a Finalize step.
LEMMA CommitStep ==
    ASSUME LogInv, engine # Down, NEW e, NEW block, NEW st, NEW b,
           e.finalized = engine.finalized,
           st.hash = Append(e.finalized.hash, b),
           commit_validated(e, block, st)
    PROVE  LogInv' /\ Log!Finalize
<1> DEFINE p == published(e, block, st)
           dk == commit_block(disk, block, st)
<1>1. IsSequence(DurableLog) /\ DurableLog = engine.finalized.hash
  BY Zenon DEF LogInv, DurableLog
<1>2. /\ IsSequence(st.hash) /\ Log!Extends(DurableLog, st.hash)
      /\ Len(st.hash) = Len(DurableLog) + 1
  BY <1>1, AppendExtends, Zenon
<1>3. EngineFields(p) /\ p.finalized = st /\ p.pending = None
  BY Zenon DEF published, EngineFields
<1>4. DiskFields(dk) /\ dk.marker = marker_of(st)
  BY BlockMarker, Zenon DEF LogInv
<1>5. Durable(dk, p)
  BY Zenon DEF commit_validated
<1> HIDE DEF p, dk
<1> QED
  BY <1>2, <1>3, <1>4, <1>5, DurableStep, Zenon

\* build_proposal changes the pool, and the pending proposal adds one block.
LEMMA BuiltProposal ==
    ASSUME NEW e, EngineFields(e), e.pending = None, NEW timely
    PROVE  /\ EngineFields(built(e, timely))
           /\ built(e, timely).finalized = e.finalized
           /\ built(e, timely).pending # None =>
                 \E b : built(e, timely).pending.result.hash = Append(e.finalized.hash, b)
<1> DEFINE selected == select_transactions(ready_entries(e.pool, e.finalized), e.cursor)
           held     == reserved_by(e.pool, selected)
           rest     == reserve_hashes(e.pool, selected)
           body     == {held[k] : k \in Held(held)}
           proposal == [block    |-> block_of(e.finalized, body),
                        result   |-> execute(e.finalized, body),
                        reserved |-> held]
           restored == restore_reserved(rest, held)
           q        == built(e, timely)
<1>1. \/ q = [e EXCEPT !.pool = rest, !.pending = proposal]
      \/ q = [e EXCEPT !.pool = restored]
  BY Zenon DEF built
<1>2. proposal.result = execute(e.finalized, body)
  BY Zenon
<1>3. \E b : execute(e.finalized, body).hash = Append(e.finalized.hash, b)
  BY ExecuteAppends, Zenon
<1> HIDE DEF rest, restored, proposal, q, body
<1>4. CASE q = [e EXCEPT !.pool = rest, !.pending = proposal]
  <2>1. q = [finalized |-> e.finalized, pool |-> rest, pending |-> proposal, cursor |-> e.cursor]
    BY <1>4, Zenon DEF EngineFields
  <2>2. EngineFields(q) /\ q.finalized = e.finalized /\ q.pending = proposal
    BY <2>1, Zenon DEF EngineFields
  <2>3. \E b : q.pending.result.hash = Append(e.finalized.hash, b)
    BY <1>2, <1>3, <2>2, Zenon
  <2> QED
    BY <2>2, <2>3, Zenon DEF q
<1>5. CASE q = [e EXCEPT !.pool = restored]
  <2>1. q = [finalized |-> e.finalized, pool |-> restored, pending |-> e.pending, cursor |-> e.cursor]
    BY <1>5, Zenon DEF EngineFields
  <2>2. EngineFields(q) /\ q.finalized = e.finalized /\ q.pending = None
    BY <2>1, Zenon DEF EngineFields
  <2> QED
    BY <2>2, Zenon DEF q
<1> QED
  BY <1>1, <1>4, <1>5, Zenon

\* The empty directory is an empty log.
LEMMA InitInv == Init => LogInv /\ Log!Init
<1> SUFFICES ASSUME Init PROVE LogInv /\ Log!Init
  BY Zenon
<1>1. IsSequence(<<>>)
  BY DEF IsSequence
<1>3. Log!Extends(<<>>, <<>>)
  BY <1>1, EmptyExtends, Zenon
<1>2. DurableLog = <<>> /\ peer.hash = <<>> /\ DiskFields(disk) /\ ~initialized(disk)
  BY Zenon DEF Init, DurableLog, EmptyDisk, NoMarker, genesis, DiskFields, initialized
<1> QED
  BY <1>1, <1>3, <1>2, Zenon DEF Init, LogInv, AnnouncedDurable, Log!Init, ExposedLog

\* Every step of the engine is a step of FinalizedLog or leaves its variables alone.
LEMMA StepRefines ==
    ASSUME LogInv, Next
    PROVE  LogInv' /\ (Log!Next \/ UNCHANGED <<DurableLog, ExposedLog, announced>>)
<1> DEFINE Stutter == UNCHANGED <<DurableLog, ExposedLog, announced>>
<1>1. CASE Open
  <2>1. announced' = announced /\ peer' = peer /\ ExposedLog = Down
    BY <1>1, Zenon DEF Open, ExposedLog
  <2>2. CASE ~initialized(disk) /\ disk' = initialize_database /\ engine' \in {opened(genesis), Down}
    <3>1. DiskFields(EmptyDisk)
      BY Zenon DEF DiskFields, EmptyDisk
    <3>2. DiskFields(disk') /\ disk'.marker = marker_of(genesis)
      BY <2>2, <3>1, CommitMarker, Zenon DEF initialize_database
    <3>3. DurableLog = <<>> /\ DurableLog' = <<>> /\ initialized(disk)' /\ disk'.marker.height = 0
      BY <2>2, <3>2 DEF LogInv, DurableLog, marker_of, genesis, height, initialized
    <3>4. engine' # Down =>
            EngineFields(engine)' /\ engine'.finalized.hash = <<>> /\ engine'.pending = None
      BY <2>2 DEF opened, EngineFields, genesis
    <3>5. LogInv'
      BY <2>1, <3>2, <3>3, <3>4, Zenon DEF LogInv, AnnouncedDurable, DurableLog
    <3>6. ExposedLog' \in {Down, DurableLog}
      BY <3>3, <3>4, Zenon DEF ExposedLog
    <3> QED
      BY <2>1, <3>3, <3>5, <3>6, Zenon DEF Log!Next, Log!Start
  <2>3. CASE /\ initialized(disk) /\ recovered(disk) # None
             /\ engine' = opened(recovered(disk)) /\ UNCHANGED disk
    <3>1. recovered(disk).hash = DurableLog
      BY <2>3, RecoveredMarker, Zenon DEF DurableLog
    <3>2. /\ EngineFields(engine)' /\ engine'.finalized.hash = DurableLog
          /\ engine'.pending = None
      BY <2>3, <3>1, Zenon DEF opened, EngineFields
    <3>3. LogInv'
      BY <2>1, <2>3, <3>2, Zenon DEF LogInv, AnnouncedDurable, DurableLog, initialized
    <3>4. ExposedLog' \in {Down, DurableLog} /\ DurableLog' = DurableLog
      BY <2>3, <3>2, Zenon DEF ExposedLog, DurableLog
    <3> QED
      BY <2>1, <3>3, <3>4, Zenon DEF Log!Next, Log!Start
  <2> QED
    BY <1>1, <2>2, <2>3, Zenon DEF Open
<1>2. ASSUME engine # Down, NEW q, engine' = q, EngineFields(q),
             q.finalized = engine.finalized,
             q.pending # None => \E b : q.pending.result.hash = Append(q.finalized.hash, b),
             UNCHANGED <<disk, announced, peer>>
      PROVE  LogInv' /\ (Log!Next \/ Stutter)
  <2>0. q.pending # None => OneLonger(q.finalized.hash, q.pending.result.hash)
    BY <1>2, OneLongerAppends, Zenon DEF LogInv, DurableLog
  <2>1. LogInv'
    BY <1>2, <2>0, Zenon DEF LogInv, AnnouncedDurable, DurableLog, initialized, DiskFields, EngineFields
  <2>2. DurableLog' = DurableLog /\ ExposedLog' \in {Down, ExposedLog} /\ announced' = announced
    BY <1>2, Zenon DEF DurableLog, ExposedLog
  <2> QED
    BY <2>1, <2>2, Zenon DEF Log!Next, Log!Stop
<1>3. ASSUME NEW d \in Domain, NEW t \in Transaction, SubmitRaw(d, t)
      PROVE  LogInv' /\ (Log!Next \/ Stutter)
  <2> DEFINE x == insert(engine.pool, d, t, nonce(engine.finalized, d, t.sender))
             q == [engine EXCEPT !.pool = x]
  <2>1. engine # Down /\ engine' = q /\ UNCHANGED <<disk, announced, peer>>
    BY <1>3, Zenon DEF SubmitRaw
  <2> HIDE DEF x
  <2>2. EngineFields(q) /\ q.finalized = engine.finalized /\ q.pending = engine.pending
    BY <2>1, Zenon DEF LogInv, EngineFields
  <2>3. engine.pending # None =>
          \E b : engine.pending.result.hash = Append(engine.finalized.hash, b)
    BY <2>1, OneLongerAppends, Zenon DEF LogInv, DurableLog
  <2> HIDE DEF q
  <2> QED
    BY <1>2, <2>1, <2>2, <2>3, Zenon
<1>4. ASSUME NEW timely \in BOOLEAN, BuildProposal(timely)
      PROVE  LogInv' /\ (Log!Next \/ Stutter)
  <2>1. /\ engine # Down /\ engine.pending = None /\ engine' = built(engine, timely)
        /\ UNCHANGED <<disk, announced, peer>>
    BY <1>4, Zenon DEF BuildProposal
  <2>2. EngineFields(engine)
    BY <2>1, Zenon DEF LogInv
  <2> QED
    BY <1>2, <2>1, <2>2, BuiltProposal, Zenon
<1>5. ASSUME NEW timely \in BOOLEAN, ProduceBlock(timely)
      PROVE  LogInv' /\ (Log!Next \/ Stutter)
  <2> DEFINE e == built(engine, timely)
  <2>1. engine # Down /\ engine.pending = None /\ EngineFields(engine)
    BY <1>5, Zenon DEF ProduceBlock, LogInv
  <2>2. /\ EngineFields(e) /\ e.finalized = engine.finalized
        /\ e.pending # None => \E b : e.pending.result.hash = Append(engine.finalized.hash, b)
    BY <2>1, BuiltProposal, Zenon
  <2>3. \/ e.pending = None /\ engine' = e /\ UNCHANGED <<disk, announced, peer>>
        \/ e.pending # None /\ commit_validated(e, e.pending.block, e.pending.result)
    BY <1>5, Zenon DEF ProduceBlock
  <2> HIDE DEF e
  <2>4. CASE e.pending = None /\ engine' = e /\ UNCHANGED <<disk, announced, peer>>
    BY <1>2, <2>1, <2>2, <2>4, Zenon
  <2>5. CASE e.pending # None /\ commit_validated(e, e.pending.block, e.pending.result)
    <3>1. PICK b : e.pending.result.hash = Append(e.finalized.hash, b)
      BY <2>2, <2>5, Zenon
    <3> QED
      BY <2>1, <2>2, <2>5, <3>1, CommitStep, Zenon DEF Log!Next
  <2> QED
    BY <2>3, <2>4, <2>5, Zenon
<1>6. CASE AbandonProposal
  <2> DEFINE x == restore_reserved(engine.pool, engine.pending.reserved)
             q == [engine EXCEPT !.pool = x, !.pending = None]
  <2>1. engine # Down /\ engine' = q /\ UNCHANGED <<disk, announced, peer>>
    BY <1>6, Zenon DEF AbandonProposal, abandoned
  <2> HIDE DEF x
  <2>2. EngineFields(engine)
    BY <2>1, Zenon DEF LogInv
  <2>3. EngineFields(q) /\ q.finalized = engine.finalized /\ q.pending = None
    BY <2>2, WithoutProposal, Zenon
  <2> HIDE DEF q
  <2> QED
    BY <1>2, <2>1, <2>3, Zenon
<1>7. CASE CommitProposal
  <2>1. /\ engine # Down /\ engine.pending # None
        /\ commit_validated(engine, engine.pending.block, engine.pending.result)
    BY <1>7, Zenon DEF CommitProposal
  <2>2. PICK b : engine.pending.result.hash = Append(engine.finalized.hash, b)
    BY <2>1, OneLongerAppends, Zenon DEF LogInv, DurableLog
  <2> QED
    BY <2>1, <2>2, CommitStep, Zenon DEF Log!Next
<1>8. ASSUME NEW block \in served_blocks, ImportBlock(block)
      PROVE  LogInv' /\ (Log!Next \/ Stutter)
  <2>1. /\ engine # Down
        /\ commit_validated(engine, block, execute(engine.finalized, block.body))
    BY <1>8, Zenon DEF ImportBlock
  <2>2. PICK b : execute(engine.finalized, block.body).hash = Append(engine.finalized.hash, b)
    BY ExecuteAppends, Zenon
  <2> QED
    BY <2>1, <2>2, CommitStep, Zenon DEF Log!Next
<1>9. CASE ImportCheckpoint(peer)
  <2> DEFINE x == registered(engine.pool, peer)
             q == [engine EXCEPT !.finalized = peer, !.pool = x, !.cursor = 0]
             dk == commit_checkpoint(disk, peer)
  <2>1. /\ engine # Down /\ engine.pending = None /\ Durable(dk, q)
        /\ Len(engine.finalized.hash) = 0 /\ Len(peer.hash) # 0
    BY <1>9, Zenon DEF ImportCheckpoint, height, checkpoint_ok
  <2> HIDE DEF x
  <2>2. EngineFields(q) /\ q.finalized = peer /\ q.pending = None
    <3>1. EngineFields(engine)
      BY <2>1, Zenon DEF LogInv
    <3>2. EngineFields(q) /\ q.finalized = peer /\ q.pending = engine.pending
      BY <3>1, WithFinalized, Zenon
    <3> HIDE DEF q
    <3> QED
      BY <2>1, <3>2, Zenon
  <2>3. DiskFields(dk) /\ dk.marker = marker_of(peer)
    BY CheckpointMarker, Zenon DEF LogInv
  <2>4. IsSequence(peer.hash) /\ IsSequence(DurableLog) /\ DurableLog = engine.finalized.hash
    BY <2>1, Zenon DEF LogInv, DurableLog
  <2>5. DurableLog = <<>> /\ peer.hash # <<>>
    BY <2>1, <2>4 DEF IsSequence
  <2>6. Log!Extends(DurableLog, peer.hash)
    BY <2>4, <2>5, EmptyExtends, Zenon
  <2> HIDE DEF q, dk
  <2> QED
    BY <2>1, <2>2, <2>3, <2>4, <2>5, <2>6, DurableStep, Zenon DEF Log!Next
<1>10. CASE Crash
  <2>1. LogInv'
    BY <1>10, Zenon DEF Crash, LogInv, AnnouncedDurable, DurableLog, initialized, DiskFields
  <2>2. DurableLog' = DurableLog /\ ExposedLog' = Down /\ announced' = announced
    BY <1>10, Zenon DEF Crash, DurableLog, ExposedLog
  <2> QED
    BY <2>1, <2>2, Zenon DEF Log!Next, Log!Stop
<1>11. ASSUME NEW body \in PeerBody, PeerFinalizes(body)
       PROVE  LogInv' /\ (Log!Next \/ Stutter)
  <2>1. IsSequence(peer.hash)'
    <3>1. IsSequence(peer.hash) /\ peer' = execute(peer, body)
      BY <1>11, Zenon DEF PeerFinalizes, LogInv
    <3>2. PICK b : execute(peer, body).hash = Append(peer.hash, b)
      BY ExecuteAppends, Zenon
    <3> QED
      BY <3>1, <3>2, AppendExtends, Zenon
  <2>2. UNCHANGED <<engine, disk, announced>>
    BY <1>11, Zenon DEF PeerFinalizes
  <2>3. LogInv' /\ Stutter
    BY <2>1, <2>2, Zenon DEF LogInv, AnnouncedDurable, DurableLog, ExposedLog, initialized,
                      DiskFields, EngineFields
  <2> QED
    BY <2>3, Zenon
<1> QED
  BY <1>1, <1>3, <1>4, <1>5, <1>6, <1>7, <1>8, <1>9, <1>10, <1>11, Zenon DEF Next

-----------------------------------------------------------------------------
\* The invariant and the refinement, step by step, stuttering included.
LEMMA StepInv == LogInv /\ [Next]_vars => LogInv' /\ [Log!Next]_(Log!logVars)
<1> SUFFICES ASSUME LogInv, [Next]_vars PROVE LogInv' /\ [Log!Next]_(Log!logVars)
  BY Zenon
<1>1. CASE Next
  BY <1>1, StepRefines, Zenon DEF Log!logVars
<1>2. CASE UNCHANGED vars
  BY <1>2, Zenon DEF vars, LogInv, AnnouncedDurable, DurableLog, ExposedLog, initialized,
              DiskFields, EngineFields, Log!logVars
<1> QED
  BY <1>1, <1>2, Zenon

\* The engine implements the append-only finalized log: commits, imports, checkpoints,
\* crashes between the durable transaction and its publication, and recovery by replay
\* are all steps of FinalizedLog.
THEOREM ImplementsFinalizedLog == Spec => FinalizedLogSpec
<1>1. Init => LogInv /\ Log!Init
  BY InitInv, Zenon
<1>2. LogInv /\ [Next]_vars => LogInv' /\ [Log!Next]_(Log!logVars)
  BY StepInv, Zenon
<1> QED
  BY <1>1, <1>2, PTL DEF Spec, FinalizedLogSpec, Log!Spec

\* A CommitEvent names a block that is durable when it is sent and stays a prefix of the
\* durable chain forever, over any crashes and restarts.
THEOREM AnnouncementsAreFinal == Spec => []AnnouncedDurable
<1>1. LogInv => AnnouncedDurable
  BY Zenon DEF LogInv
<1> QED
  BY <1>1, InitInv, StepInv, PTL DEF Spec

-----------------------------------------------------------------------------
\* Executing a batch keeps a domain's chain ID; a created domain has the one asked for.
LEMMA DomainSteps ==
    ASSUME NEW dom, NEW h, NEW B, NEW t
    PROVE  /\ DomainFields(dom) =>
                 /\ DomainFields(execute_domain(dom, B, h))
                 /\ execute_domain(dom, B, h).chain_id = dom.chain_id
           /\ DomainFields(created_domain(t, h))
           /\ created_domain(t, h).chain_id = t.new_chain_id
<1>1. DomainFields(dom) =>
        /\ DomainFields(execute_domain(dom, B, h))
        /\ execute_domain(dom, B, h).chain_id = dom.chain_id
  BY Zenon DEF DomainFields, execute_domain
<1>2. DomainFields(created_domain(t, h)) /\ created_domain(t, h).chain_id = t.new_chain_id
  BY Zenon DEF DomainFields, created_domain, AbsentDomain
<1> QED
  BY <1>1, <1>2, Zenon

\* A block keeps the chain ID of every finalized domain, and a domain it creates has a
\* chain ID none of them has.
LEMMA ExecuteKeepsIds ==
    ASSUME NEW st, NEW body, \A d \in Domain : DomainFields(st.domains[d])
    PROVE  LET q == execute(st, body)
           IN  /\ \A d \in Domain : DomainFields(q.domains[d])
               /\ \A d \in Live(st) : q.domains[d].chain_id = st.domains[d].chain_id
               /\ \A d \in Live(q) \ Live(st), e \in Live(st) :
                     q.domains[d].chain_id # st.domains[e].chain_id
<1> DEFINE q == execute(st, body)
           h == height(st) + 1
           made == creations(st, body)
<1>1. q.domains = resulting_domains(st, body)
  BY Zenon DEF execute
<1>2. ASSUME NEW d \in Live(st)
      PROVE  DomainFields(q.domains[d]) /\ q.domains[d].chain_id = st.domains[d].chain_id
  <2>1. d \in Domain
    BY Zenon DEF Live
  <2>2. \/ q.domains[d] = st.domains[d]
        \/ q.domains[d] = execute_domain(st.domains[d], batch(st, body, d), h)
    BY <1>1, <2>1, Zenon DEF resulting_domains
  <2> HIDE DEF h, q
  <2> QED
    BY <2>1, <2>2, DomainSteps
<1>3. ASSUME NEW d \in Domain \ Live(st)
      PROVE  /\ DomainFields(q.domains[d])
             /\ d \in Live(q) =>
                   \A e \in Live(st) : q.domains[d].chain_id # st.domains[e].chain_id
  <2>1. CASE \E t \in made : t.creates = d
    <3> DEFINE t == CHOOSE x \in made : x.creates = d
    <3>1. t \in made
      BY <2>1, Zenon
    <3>2. \A e \in Live(st) : st.domains[e].chain_id # t.new_chain_id
      BY <3>1, Zenon DEF creations
    <3>3. q.domains[d] = created_domain(t, h)
      BY <1>1, <2>1, Zenon DEF resulting_domains
    <3> HIDE DEF t, h, q
    <3> QED
      BY <3>2, <3>3, DomainSteps
  <2>2. CASE ~ \E t \in made : t.creates = d
    <3>1. q.domains[d] = st.domains[d]
      BY <1>1, <2>2, Zenon DEF resulting_domains
    <3> HIDE DEF q
    <3> QED
      BY <3>1, Zenon DEF Live
  <2> QED
    BY <2>1, <2>2, Zenon
<1> HIDE DEF q
<1>4. Live(q) \subseteq Domain
  BY Zenon DEF Live
<1> QED
  BY <1>2, <1>3, <1>4, Zenon DEF q

\* Registering the domains of a state that keeps the routed ones routes that state.
LEMMA RegisteredRoutes ==
    ASSUME NEW p, NEW old, NEW st, PoolFields(p), Routed(p, old),
           \A d \in Live(old) : st.domains[d].chain_id = old.domains[d].chain_id
    PROVE  PoolFields(registered(p, st)) /\ Routed(registered(p, st), st)
<1> DEFINE ids == [d \in Domain |->
                      IF d \in Live(st) THEN st.domains[d].chain_id ELSE p.chain_ids[d]]
           new == {st.domains[d].chain_id : d \in Live(st)}
           r == registered(p, st)
<1>1. \A x, y : LET q == [p EXCEPT !.chain_ids = x, !.used_chain_ids = @ \cup y]
               IN  PoolFields(q) /\ q.chain_ids = x
                   /\ q.used_chain_ids = p.used_chain_ids \cup y
  BY Zenon DEF PoolFields
<1>2. r = [p EXCEPT !.chain_ids = ids, !.used_chain_ids = @ \cup new]
  BY Zenon DEF registered
<1>3. \A d \in Domain : ids[d] = st.domains[d].chain_id
  BY Zenon DEF Routed, Live
<1>4. p.used_chain_ids \cup new = new
  BY DEF Routed, Live
<1> HIDE DEF ids, new, r
<1>5. PoolFields(r) /\ r.chain_ids = ids /\ r.used_chain_ids = new
  BY <1>1, <1>2, <1>4, Zenon
<1> QED
  BY <1>3, <1>5, Zenon DEF Routed, r, new

\* Admission, reservation and restoring leave the registrations alone.
SameRegistered(p, q) ==
    PoolFields(q) /\ q.chain_ids = p.chain_ids /\ q.used_chain_ids = p.used_chain_ids

LEMMA PoolUpdate ==
    ASSUME NEW p, NEW q, NEW x, NEW y, PoolFields(p),
           \/ q = [p EXCEPT !.entries = x]
           \/ q = [p EXCEPT !.entries = x, !.sender_counts = y]
    PROVE  SameRegistered(p, q)
  BY Zenon DEF PoolFields, SameRegistered

LEMMA SameRoutes ==
    ASSUME NEW p, PoolFields(p)
    PROVE  /\ \A r : SameRegistered(p, without(p, r))
           /\ \A r : SameRegistered(p, restore_reserved(p, r))
           /\ \A d, t, n : SameRegistered(p, insert(p, d, t, n))
<1>1. ASSUME NEW r PROVE SameRegistered(p, without(p, r))
  <2>1. PICK x, y : without(p, r) = [p EXCEPT !.entries = x, !.sender_counts = y]
    BY Zenon DEF without
  <2> DEFINE q == without(p, r)
  <2>2. q = [p EXCEPT !.entries = x, !.sender_counts = y]
    BY <2>1, Zenon
  <2> HIDE DEF q
  <2>3. SameRegistered(p, q)
    BY <2>2, PoolUpdate, Zenon
  <2> QED
    BY <2>3, Zenon DEF q
<1>2. ASSUME NEW r PROVE SameRegistered(p, restore_reserved(p, r))
  <2>1. PICK x, y : restore_reserved(p, r) = [p EXCEPT !.entries = x, !.sender_counts = y]
    BY Zenon DEF restore_reserved
  <2> DEFINE q == restore_reserved(p, r)
  <2>2. q = [p EXCEPT !.entries = x, !.sender_counts = y]
    BY <2>1, Zenon
  <2> HIDE DEF q
  <2>3. SameRegistered(p, q)
    BY <2>2, PoolUpdate, Zenon
  <2> QED
    BY <2>3, Zenon DEF q
<1>3. ASSUME NEW d, NEW t, NEW n PROVE SameRegistered(p, insert(p, d, t, n))
  <2> DEFINE x == [p.entries EXCEPT ![<<d, t.sender, t.nonce>>] = t]
             y == [p.sender_counts EXCEPT ![<<d, t.sender>>] = @ + 1]
             q == insert(p, d, t, n)
  <2>1. q = overwritten(p, d, t) \/ q = extended(p, d, t) \/ q = p
    BY Zenon DEF insert
  <2>2. overwritten(p, d, t) = [p EXCEPT !.entries = x]
    BY Zenon DEF overwritten
  <2>3. extended(p, d, t) = [p EXCEPT !.entries = x, !.sender_counts = y]
    BY Zenon DEF extended
  <2> HIDE DEF x, y, q
  <2>4. q = [p EXCEPT !.entries = x] => SameRegistered(p, q)
    BY PoolUpdate, Zenon
  <2>5. q = [p EXCEPT !.entries = x, !.sender_counts = y] => SameRegistered(p, q)
    BY PoolUpdate, Zenon
  <2>6. q = p => SameRegistered(p, q)
    BY Zenon DEF SameRegistered
  <2> QED
    BY <2>1, <2>2, <2>3, <2>4, <2>5, <2>6, Zenon DEF q
<1> QED
  BY <1>1, <1>2, <1>3, Zenon

\* A pool with the same registrations routes the same state.
LEMMA RoutesKept ==
    ASSUME NEW p, NEW q, NEW st, SameRegistered(p, q), Routed(p, st)
    PROVE  PoolFields(q) /\ Routed(q, st)
  BY Zenon DEF SameRegistered, Routed

\* build_proposal keeps the registrations, and what it leaves pending is valid.
LEMMA BuiltRoutes ==
    ASSUME NEW e, NEW timely, EngineFields(e), e.pending = None, PoolFields(e.pool)
    PROVE  LET q == built(e, timely)
           IN  /\ SameRegistered(e.pool, q.pool)
               /\ q.pending # None =>
                     /\ valid_proposal(e.finalized, q.pending.block)
                     /\ q.pending.result = execute(e.finalized, q.pending.block.body)
<1> DEFINE selected == select_transactions(ready_entries(e.pool, e.finalized), e.cursor)
           held     == reserved_by(e.pool, selected)
           rest     == reserve_hashes(e.pool, selected)
           body     == {held[k] : k \in Held(held)}
           block    == block_of(e.finalized, body)
           proposal == [block    |-> block,
                        result   |-> execute(e.finalized, body),
                        reserved |-> held]
           restored == restore_reserved(rest, held)
           q        == built(e, timely)
<1>1. \/ executable(e.finalized, body) /\ q = [e EXCEPT !.pool = rest, !.pending = proposal]
      \/ q = [e EXCEPT !.pool = restored]
  BY Zenon DEF built
<1>2. SameRegistered(e.pool, rest)
  BY SameRoutes, Zenon DEF reserve_hashes
<1>3. SameRegistered(rest, restored)
  BY <1>2, SameRoutes, Zenon DEF SameRegistered
<1>4. SameRegistered(e.pool, restored)
  BY <1>2, <1>3, Zenon DEF SameRegistered
<1>5. /\ proposal.block = block /\ block.body = body /\ block.parent_hash = e.finalized.hash
      /\ proposal.result = execute(e.finalized, body)
  BY Zenon DEF block_of
<1>6. executable(e.finalized, body) => valid_proposal(e.finalized, block)
  BY <1>5, Zenon DEF valid_proposal, compare_candidate
<1> HIDE DEF rest, restored, proposal, q, body, block
<1>7. CASE executable(e.finalized, body) /\ q = [e EXCEPT !.pool = rest, !.pending = proposal]
  <2>1. q.pool = rest /\ q.pending = proposal
    BY <1>7, Zenon DEF EngineFields
  <2> QED
    BY <1>2, <1>5, <1>6, <1>7, <2>1, Zenon DEF q
<1>8. CASE q = [e EXCEPT !.pool = restored]
  <2>1. q.pool = restored /\ q.pending = None
    BY <1>8, Zenon DEF EngineFields
  <2> QED
    BY <1>4, <2>1, Zenon DEF q
<1> QED
  BY <1>1, <1>7, <1>8, Zenon

\* Whatever a method commits keeps the invariant, if the pool it publishes routes it.
LEMMA DurableRoutes ==
    ASSUME RouteInv, NEW dk, NEW e, Durable(dk, e),
           dk.marker = marker_of(e.finalized), height(e.finalized) # 0,
           \A d \in Domain : DomainFields(e.finalized.domains[d]),
           PoolFields(e.pool), Routed(e.pool, e.finalized), e.pending = None
    PROVE  RouteInv'
<1>1. /\ disk'.marker.heads = e.finalized.domains /\ disk'.marker.height # 0 /\ peer' = peer
      /\ engine' \in {e, Down}
  BY DEF Durable, marker_of, domain_heads_root
<1>2. CASE engine' = Down
  BY <1>1, <1>2, Zenon DEF RouteInv
<1>3. CASE engine' = e
  BY <1>1, <1>3, Zenon DEF RouteInv
<1> QED
  BY <1>1, <1>2, <1>3, Zenon

\* commit_validated, for a proposal as for an imported block.
LEMMA CommitRoutes ==
    ASSUME LogInv, RouteInv, engine # Down, NEW e, NEW block, NEW body,
           e.finalized = engine.finalized,
           PoolFields(e.pool), Routed(e.pool, e.finalized),
           commit_validated(e, block, execute(e.finalized, body))
    PROVE  RouteInv'
<1> DEFINE st == execute(e.finalized, body)
           r == registered(e.pool, st)
           p == published(e, block, st)
           dk == commit_block(disk, block, st)
<1>1. \A d \in Domain : DomainFields(e.finalized.domains[d])
  BY Zenon DEF RouteInv
<1>2. /\ \A d \in Domain : DomainFields(st.domains[d])
      /\ \A d \in Live(e.finalized) : st.domains[d].chain_id = e.finalized.domains[d].chain_id
  BY <1>1, ExecuteKeepsIds, Zenon
<1>3. Durable(dk, p) /\ height(st) > disk.marker.height
  BY Zenon DEF commit_validated, commit_ok
<1>4. disk.marker.height \in Nat
  BY DEF LogInv, initialized, IsSequence, DurableLog
<1>5. dk.marker = marker_of(st)
  BY BlockMarker, Zenon DEF LogInv
<1>6. p.finalized = st /\ p.pending = None /\ p.pool = reserve_hashes(r, block.body)
  BY Zenon DEF published
<1> HIDE DEF st, p, dk
<1>7. PoolFields(r) /\ Routed(r, st)
  BY <1>2, RegisteredRoutes, Zenon
<1> HIDE DEF r
<1>8. SameRegistered(r, p.pool)
  BY <1>6, <1>7, SameRoutes, Zenon DEF reserve_hashes
<1>9. PoolFields(p.pool) /\ Routed(p.pool, p.finalized)
  BY <1>6, <1>7, <1>8, RoutesKept, Zenon
<1>10. height(st) # 0
  BY <1>3, <1>4
<1> QED
  BY <1>2, <1>3, <1>5, <1>6, <1>9, <1>10, DurableRoutes, Zenon

\* A freshly opened engine routes the domains it recovered.
LEMMA OpenedRoutes ==
    ASSUME NEW st
    PROVE  /\ opened(st).finalized = st /\ opened(st).pending = None
           /\ PoolFields(opened(st).pool) /\ Routed(opened(st).pool, st)
<1> DEFINE old == [domains |-> [d \in Domain |-> AbsentDomain]]
<1>1. Live(old) = {} /\ \A d \in Domain : old.domains[d].chain_id = 0
  BY Zenon DEF Live, AbsentDomain
<1>2. EmptyPool.used_chain_ids = {} /\ \A d \in Domain : EmptyPool.chain_ids[d] = 0
  BY Zenon DEF EmptyPool
<1> HIDE DEF old
<1>3. Routed(EmptyPool, old)
  BY <1>1, <1>2, Zenon DEF Routed
<1>4. PoolFields(EmptyPool)
  BY Zenon DEF PoolFields, EmptyPool
<1>5. PoolFields(registered(EmptyPool, st)) /\ Routed(registered(EmptyPool, st), st)
  BY <1>1, <1>3, <1>4, RegisteredRoutes, Zenon
<1> QED
  BY <1>5, Zenon DEF opened

LEMMA InitRoutes == Init => RouteInv
<1> SUFFICES ASSUME Init PROVE RouteInv
  BY Zenon
<1>1. DomainFields(AbsentDomain) /\ DomainFields([AbsentDomain EXCEPT !.chain_id = RootChainId])
  BY Zenon DEF DomainFields, AbsentDomain
<1>2. \A d \in Domain : DomainFields(genesis.domains[d])
  BY <1>1, Zenon DEF genesis
<1>3. /\ disk.marker.height # 0 /\ \A d \in Domain : disk.marker.heads[d] = AbsentDomain
      /\ engine = Down /\ peer = genesis
  BY DEF Init, EmptyDisk, NoMarker
<1> QED
  BY <1>1, <1>2, <1>3, Zenon DEF RouteInv

\* Every step keeps the routes: one case per operation of the engine.
LEMMA StepRoutes ==
    ASSUME LogInv, RouteInv, Next
    PROVE  RouteInv'
<1>1. CASE Open
  <2>1. peer' = peer
    BY <1>1, Zenon DEF Open
  <2>2. CASE disk' = initialize_database /\ engine' \in {opened(genesis), Down}
    <3>1. disk'.marker = marker_of(genesis)
      <4>1. DiskFields(EmptyDisk)
        BY Zenon DEF DiskFields, EmptyDisk
      <4> QED
        BY <2>2, <4>1, CommitMarker, Zenon DEF initialize_database
    <3>2. disk'.marker.heads = genesis.domains
      BY <3>1 DEF marker_of, domain_heads_root
    <3>3. \A d \in Domain : DomainFields(genesis.domains[d])
      <4>1. DomainFields(AbsentDomain) /\ DomainFields([AbsentDomain EXCEPT !.chain_id = RootChainId])
        BY Zenon DEF DomainFields, AbsentDomain
      <4> QED
        BY <4>1, Zenon DEF genesis
    <3>4. \A d \in Domain \ {RootDomain} : genesis.domains[d].chain_id = 0
      BY Zenon DEF genesis, AbsentDomain
    <3>5. engine' # Down => engine' = opened(genesis)
      BY <2>2, Zenon
    <3> QED
      BY <2>1, <3>2, <3>3, <3>4, <3>5, OpenedRoutes, Zenon DEF RouteInv
  <2>3. CASE recovered(disk) # None /\ engine' = opened(recovered(disk)) /\ UNCHANGED disk
    <3>1. recovered(disk).domains = disk.marker.heads
      BY <2>3, RecoveredDomains, Zenon
    <3> QED
      BY <2>1, <2>3, <3>1, OpenedRoutes, Zenon DEF RouteInv
  <2> QED
    BY <1>1, <2>2, <2>3, Zenon DEF Open
<1>2. ASSUME engine # Down, NEW q, engine' = q, q.finalized = engine.finalized,
             SameRegistered(engine.pool, q.pool),
             q.pending # None =>
                /\ valid_proposal(engine.finalized, q.pending.block)
                /\ q.pending.result = execute(engine.finalized, q.pending.block.body),
             UNCHANGED <<disk, peer>>
      PROVE  RouteInv'
  <2>1. PoolFields(q.pool) /\ Routed(q.pool, q.finalized)
    BY <1>2, RoutesKept, Zenon DEF RouteInv
  <2> QED
    BY <1>2, <2>1, Zenon DEF RouteInv
<1>3. ASSUME NEW d \in Domain, NEW t \in Transaction, SubmitRaw(d, t)
      PROVE  RouteInv'
  <2> DEFINE x == insert(engine.pool, d, t, nonce(engine.finalized, d, t.sender))
             q == [engine EXCEPT !.pool = x]
  <2>1. engine # Down /\ engine' = q /\ UNCHANGED <<disk, peer>>
    BY <1>3, Zenon DEF SubmitRaw
  <2>2. SameRegistered(engine.pool, x)
    BY <2>1, SameRoutes, Zenon DEF RouteInv
  <2> HIDE DEF x
  <2>3. q.finalized = engine.finalized /\ q.pending = engine.pending /\ q.pool = x
    BY <2>1, Zenon DEF LogInv, EngineFields
  <2> HIDE DEF q
  <2>4. q.pending # None =>
          /\ valid_proposal(engine.finalized, q.pending.block)
          /\ q.pending.result = execute(engine.finalized, q.pending.block.body)
    BY <2>1, <2>3, Zenon DEF RouteInv
  <2> QED
    BY <1>2, <2>1, <2>2, <2>3, <2>4, Zenon
<1>4. ASSUME NEW timely \in BOOLEAN, BuildProposal(timely)
      PROVE  RouteInv'
  <2>1. /\ engine # Down /\ engine.pending = None /\ engine' = built(engine, timely)
        /\ UNCHANGED <<disk, peer>>
    BY <1>4, Zenon DEF BuildProposal
  <2>2. EngineFields(engine) /\ PoolFields(engine.pool)
    BY <2>1, Zenon DEF LogInv, RouteInv
  <2> QED
    BY <1>2, <2>1, <2>2, BuiltProposal, BuiltRoutes, Zenon
<1>5. ASSUME NEW timely \in BOOLEAN, ProduceBlock(timely)
      PROVE  RouteInv'
  <2> DEFINE e == built(engine, timely)
  <2>1. engine # Down /\ engine.pending = None /\ EngineFields(engine) /\ PoolFields(engine.pool)
    BY <1>5, Zenon DEF ProduceBlock, LogInv, RouteInv
  <2>2. /\ e.finalized = engine.finalized /\ SameRegistered(engine.pool, e.pool)
        /\ e.pending # None => e.pending.result = execute(engine.finalized, e.pending.block.body)
    BY <2>1, BuiltProposal, BuiltRoutes, Zenon
  <2>3. \/ e.pending = None /\ engine' = e /\ UNCHANGED <<disk, peer>>
        \/ e.pending # None /\ commit_validated(e, e.pending.block, e.pending.result)
    BY <1>5, Zenon DEF ProduceBlock
  <2> HIDE DEF e
  <2>4. PoolFields(e.pool) /\ Routed(e.pool, e.finalized)
    BY <2>1, <2>2, RoutesKept, Zenon DEF RouteInv
  <2>5. CASE e.pending = None /\ engine' = e /\ UNCHANGED <<disk, peer>>
    BY <1>2, <2>1, <2>2, <2>5, Zenon
  <2>6. CASE e.pending # None /\ commit_validated(e, e.pending.block, e.pending.result)
    BY <2>1, <2>2, <2>4, <2>6, CommitRoutes, Zenon
  <2> QED
    BY <2>3, <2>5, <2>6, Zenon
<1>6. CASE AbandonProposal
  <2> DEFINE x == restore_reserved(engine.pool, engine.pending.reserved)
             q == [engine EXCEPT !.pool = x, !.pending = None]
  <2>1. engine # Down /\ engine' = q /\ UNCHANGED <<disk, peer>>
    BY <1>6, Zenon DEF AbandonProposal, abandoned
  <2>2. SameRegistered(engine.pool, x)
    BY <2>1, SameRoutes, Zenon DEF RouteInv
  <2> HIDE DEF x
  <2>3. q.finalized = engine.finalized /\ q.pending = None /\ q.pool = x
    BY <2>1, Zenon DEF LogInv, EngineFields
  <2> HIDE DEF q
  <2> QED
    BY <1>2, <2>1, <2>2, <2>3, Zenon
<1>7. CASE CommitProposal
  <2>1. /\ engine # Down /\ engine.pending # None
        /\ commit_validated(engine, engine.pending.block, engine.pending.result)
    BY <1>7, Zenon DEF CommitProposal
  <2>2. /\ engine.pending.result = execute(engine.finalized, engine.pending.block.body)
        /\ PoolFields(engine.pool) /\ Routed(engine.pool, engine.finalized)
    BY <2>1, Zenon DEF RouteInv
  <2> QED
    BY <2>1, <2>2, CommitRoutes, Zenon
<1>8. ASSUME NEW block \in served_blocks, ImportBlock(block)
      PROVE  RouteInv'
  <2>1. /\ engine # Down
        /\ commit_validated(engine, block, execute(engine.finalized, block.body))
    BY <1>8, Zenon DEF ImportBlock
  <2>2. PoolFields(engine.pool) /\ Routed(engine.pool, engine.finalized)
    BY <2>1, Zenon DEF RouteInv
  <2> QED
    BY <2>1, <2>2, CommitRoutes, Zenon
<1>9. CASE ImportCheckpoint(peer)
  <2> DEFINE x == registered(engine.pool, peer)
             q == [engine EXCEPT !.finalized = peer, !.pool = x, !.cursor = 0]
             dk == commit_checkpoint(disk, peer)
  <2>1. /\ engine # Down /\ engine.pending = None /\ Durable(dk, q)
        /\ height(engine.finalized) = 0 /\ height(peer) # 0 /\ RootDomain \in Live(peer)
        /\ register_ok(engine.pool, RootDomain, peer.domains[RootDomain].chain_id)
    BY <1>9, Zenon DEF ImportCheckpoint, checkpoint_ok, commit_ok
  <2>2. PoolFields(engine.pool) /\ Routed(engine.pool, engine.finalized)
    BY <2>1, Zenon DEF RouteInv
  <2>3. \A d \in Live(engine.finalized) : d = RootDomain
    BY <2>1, Zenon DEF RouteInv, LogInv, Live, height
  <2>4. \A d \in Live(engine.finalized) : peer.domains[d].chain_id = engine.finalized.domains[d].chain_id
    BY <2>1, <2>2, <2>3, Zenon DEF register_ok, Registered, Routed, Live
  <2>5. PoolFields(x) /\ Routed(x, peer)
    BY <2>2, <2>4, RegisteredRoutes, Zenon
  <2> HIDE DEF x
  <2>6. q.finalized = peer /\ q.pending = None /\ q.pool = x
    BY <2>1, Zenon DEF LogInv, EngineFields
  <2>7. dk.marker = marker_of(peer)
    BY CheckpointMarker, Zenon DEF LogInv
  <2>8. \A d \in Domain : DomainFields(peer.domains[d])
    BY Zenon DEF RouteInv
  <2> HIDE DEF q, dk
  <2> QED
    BY <2>1, <2>5, <2>6, <2>7, <2>8, DurableRoutes, Zenon
<1>10. CASE Crash
  BY <1>10, Zenon DEF Crash, RouteInv
<1>11. ASSUME NEW body \in PeerBody, PeerFinalizes(body)
       PROVE  RouteInv'
  <2>1. peer' = execute(peer, body) /\ UNCHANGED <<engine, disk>>
    BY <1>11, Zenon DEF PeerFinalizes
  <2>2. \A d \in Domain : DomainFields(peer'.domains[d])
    BY <2>1, ExecuteKeepsIds, Zenon DEF RouteInv
  <2> QED
    BY <2>1, <2>2, Zenon DEF RouteInv
<1> QED
  BY <1>1, <1>3, <1>4, <1>5, <1>6, <1>7, <1>8, <1>9, <1>10, <1>11, Zenon DEF Next

\* Both invariants together, stuttering included.
LEMMA BothInv == LogInv /\ RouteInv /\ [Next]_vars => LogInv' /\ RouteInv'
<1>1. LogInv /\ [Next]_vars => LogInv'
  BY StepInv, Zenon
<1>2. LogInv /\ RouteInv /\ Next => RouteInv'
  BY StepRoutes, Zenon
<1>3. RouteInv /\ UNCHANGED vars => RouteInv'
  BY Zenon DEF RouteInv, vars
<1> QED
  BY <1>1, <1>2, <1>3, Zenon

\* The pool routes exactly the finalized domains: through commits that create domains,
\* imports, checkpoints, abandoned proposals and restarts.
THEOREM PoolRoutesDomains == Spec => []PoolMatchesDomains
<1>1. RouteInv => PoolMatchesDomains
  BY Zenon DEF RouteInv, Routed, PoolMatchesDomains
<1>2. Init => LogInv /\ RouteInv
  BY InitInv, InitRoutes, Zenon
<1> QED
  BY <1>1, <1>2, BothInv, PTL DEF Spec

\* A pending proposal can always be committed: nothing the engine does while it is
\* pending takes away the head it extends, the chain IDs it creates or the height of
\* its marker.
THEOREM ProposalsAlwaysCommittable == Spec => []ProposalCommittable
<1>1. ASSUME LogInv, RouteInv PROVE ProposalCommittable
  <2> SUFFICES ASSUME engine # Down, engine.pending # None
               PROVE  /\ valid_proposal(engine.finalized, engine.pending.block)
                      /\ engine.pending.result
                            = execute(engine.finalized, engine.pending.block.body)
                      /\ commit_ok(engine, disk, engine.pending.result)
    BY Zenon DEF ProposalCommittable
  <2> DEFINE st == engine.pending.result
             f == engine.finalized
  <2>1. valid_proposal(f, engine.pending.block) /\ st = execute(f, engine.pending.block.body)
    BY <1>1, Zenon DEF RouteInv
  <2>2. height(st) > disk.marker.height
    <3>1. PICK b : execute(f, engine.pending.block.body).hash = Append(f.hash, b)
      BY ExecuteAppends, Zenon
    <3>2. IsSequence(f.hash) /\ f.hash = disk.marker.hash /\ disk.marker.height = Len(f.hash)
      BY <1>1, Zenon DEF LogInv, DurableLog, initialized
    <3>3. Len(f.hash) \in Nat
      BY <3>2 DEF IsSequence
    <3>4. st.hash = Append(f.hash, b)
      BY <2>1, <3>1, Zenon
    <3> HIDE DEF st, f
    <3> QED
      BY <3>2, <3>3, <3>4, AppendExtends DEF height
  <2>3. \A d \in Domain : DomainFields(f.domains[d])
    BY <1>1, Zenon DEF RouteInv
  <2>4. /\ \A d \in Live(f) : st.domains[d].chain_id = f.domains[d].chain_id
        /\ \A d \in Live(st) \ Live(f), e \in Live(f) :
              st.domains[d].chain_id # f.domains[e].chain_id
    BY <2>1, <2>3, ExecuteKeepsIds
  <2>5. Routed(engine.pool, f)
    BY <1>1, Zenon DEF RouteInv
  <2>6. ASSUME NEW d \in Live(st)
        PROVE  register_ok(engine.pool, d, st.domains[d].chain_id)
    <3> HIDE DEF st, f
    <3>1. d \in Domain /\ st.domains[d].chain_id # 0
      BY Zenon DEF Live
    <3>2. CASE d \in Live(f)
      BY <2>4, <2>5, <3>1, <3>2, Zenon DEF register_ok, Registered, Routed
    <3>3. CASE d \notin Live(f)
      BY <2>4, <2>5, <3>1, <3>3, Zenon DEF register_ok, Registered, Routed, Live
    <3> QED
      BY <3>2, <3>3, Zenon
  <2> QED
    BY <2>1, <2>2, <2>6, Zenon DEF commit_ok
<1>2. Init => LogInv /\ RouteInv
  BY InitInv, InitRoutes, Zenon
<1> QED
  BY <1>1, <1>2, BothInv, PTL DEF Spec
=============================================================================
