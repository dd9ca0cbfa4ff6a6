---------------------------- MODULE RecoveryProofs ----------------------------
(***************************************************************************)
(* What survives in the engine: every database opens again and gives back  *)
(* the state that was exposed, history is served, and no admitted          *)
(* transaction is lost; for every set of domains, senders and              *)
(* transactions, every height, and any sequence of crashes and restarts.   *)
(* It ends with the theorems about the mempool and the engine, for which it*)
(* proves the laws of finite sets that the lemmas assume.                  *)
(***************************************************************************)
EXTENDS EngineProofs, ChainProofs

\* What a step does to the engine value ...
EngineStep ==
    /\ engine' # Down => Sound(engine') /\ (engine # Down => Keeps(engine, engine'))
    /\ announced' \in Seq(BlockRecord)

\* ... and to the database and to the other node: nothing, a fresh database, a block on
\* the tip, a checkpoint at genesis, or a block of the other node.
StoresBlock(block) ==
    /\ initialized(disk)
    /\ valid_proposal(Tip(disk), block) /\ height(Tip(disk)) < MaxHeight
    /\ disk' = commit_block(disk, block, execute(Tip(disk), block.body))
    /\ UNCHANGED peer

DiskStep ==
    \/ UNCHANGED <<disk, peer>>
    \/ ~initialized(disk) /\ disk' = initialize_database /\ UNCHANGED peer
    \/ \E block \in Block : StoresBlock(block)
    \/ /\ initialized(disk) /\ disk.marker.height = 0
       /\ height(peer) # 0 /\ disk' = commit_checkpoint(disk, peer) /\ UNCHANGED peer
    \/ /\ UNCHANGED disk
       /\ \E body \in PeerBody :
             height(peer) < MaxHeight /\ executable(peer, body) /\ peer' = execute(peer, body)

\* The database of an invariant state.
LEMMA StoredByInv ==
    ASSUME EngineInv
    PROVE  Stored(disk) /\ WellFormed(peer) /\ height(peer) <= MaxHeight
<1>1. initialized(disk) => disk.marker.height = height(Tip(disk))
  BY Zenon DEF EngineInv, LogInv, Tip, height
<1>2. disk.marker \in Marker /\ disk.roots \in SUBSET Root
  BY Zenon DEF EngineInv, TypeOK, Root
<1> QED
  BY <1>1, <1>2, Zenon DEF EngineInv, ChainInv, LocationInv, Stored, Tip

\* The running engine exposes the state its database's marker names.
LEMMA Running ==
    ASSUME EngineInv, engine # Down
    PROVE  /\ engine.finalized = Tip(disk) /\ Sound(engine) /\ EngineFields(engine)
           /\ Routed(engine.pool, engine.finalized) /\ PoolFields(engine.pool)
           /\ initialized(disk) /\ WellFormed(engine.finalized)
           /\ disk.marker.height = height(engine.finalized)
<1>1. /\ engine.finalized.hash = disk.marker.hash /\ EngineFields(engine) /\ initialized(disk)
      /\ disk.marker.height = Len(disk.marker.hash)
  BY Zenon DEF EngineInv, LogInv
<1>2. /\ engine.finalized.domains = disk.marker.heads /\ PoolFields(engine.pool)
      /\ Routed(engine.pool, engine.finalized)
  BY Zenon DEF EngineInv, RouteInv
<1>3. Sound(engine)
  BY Zenon DEF EngineInv, TypeOK, PoolKept, ChainInv, Sound
<1>4. engine.finalized = Tip(disk)
  BY <1>1, <1>2, <1>3, Zenon DEF Sound, ChainState, Tip
<1>5. WellFormed(Tip(disk))
  BY <1>1, Zenon DEF EngineInv, ChainInv, Tip
<1> QED
  BY <1>1, <1>2, <1>3, <1>4, <1>5, Zenon DEF height

\* A commit stores the block and publishes a sound engine, or leaves none running.
LEMMA CommitOutcome ==
    ASSUME FiniteLaws, EngineInv, engine # Down,
           NEW e, Sound(e), EngineFields(e), e.finalized = engine.finalized,
           Routed(e.pool, e.finalized), HeldBy(engine) \subseteq HeldBy(e),
           height(e.finalized) < MaxHeight,
           NEW block \in Block, valid_proposal(e.finalized, block),
           e.pending = None \/ e.pending.block = block,
           commit_validated(e, block, execute(e.finalized, block.body))
    PROVE  EngineStep /\ DiskStep
<1>1. PICK st, q : st = execute(e.finalized, block.body) /\ q = published(e, block, st)
  BY Zenon
<1>2. /\ engine.finalized = Tip(disk) /\ initialized(disk) /\ WellFormed(e.finalized)
  BY Running, Zenon
<1>3. /\ \A d \in Live(st) : register_ok(e.pool, d, st.domains[d].chain_id)
      /\ Durable(commit_block(disk, block, st), q) /\ executable(e.finalized, block.body)
  BY <1>1, Zenon DEF commit_validated, commit_ok, valid_proposal
<1>4. Sound(q) /\ Keeps(e, q)
  BY <1>1, <1>2, <1>3, PublishedKeeps, Zenon
<1>5. Keeps(engine, q)
  BY <1>4, Zenon DEF Keeps
<1>6. /\ disk' = commit_block(disk, block, st) /\ peer' = peer
      /\ \/ engine' = q /\ announced' = q.finalized.hash
         \/ engine' = Down /\ announced' = announced
  BY <1>3, Zenon DEF Durable
<1>7. q.finalized.hash \in Seq(BlockRecord) /\ announced \in Seq(BlockRecord)
  BY <1>4, Zenon DEF Sound, ChainState, EngineInv, TypeOK
<1>8. EngineStep
  BY <1>4, <1>5, <1>6, <1>7, Zenon DEF EngineStep
<1>9. StoresBlock(block)
  BY <1>1, <1>2, <1>6, Zenon DEF StoresBlock
<1> QED
  BY <1>8, <1>9, Zenon DEF DiskStep

\* The blocks the other node serves are blocks, of a height it has.
LEMMA ServedBlocks ==
    ASSUME EngineInv, NEW block \in served_blocks, NEW st \in ChainState,
           valid_proposal(st, block)
    PROVE  block \in Block /\ height(st) < MaxHeight
<1>1. /\ peer.hash \in Seq(BlockRecord) /\ height(peer) = Len(peer.hash)
      /\ height(peer) <= MaxHeight /\ Len(peer.hash) \in Nat /\ MaxHeight \in Nat
  BY ChainFacts, EngineAssumption, Zenon DEF EngineInv, TypeOK, ChainInv, ChainState, height
<1>2. PICK h \in 1 .. height(peer), i \in 1 .. height(peer) :
        block = [parent_hash |-> SubSeq(peer.hash, 1, h - 1), body |-> peer.hash[h].body,
                 heads |-> peer.hash[i].heads]
  BY DEF served_blocks
<1>3. peer.hash[h] \in BlockRecord /\ peer.hash[i] \in BlockRecord
  BY <1>1, ChainFacts, Zenon
<1>4. h - 1 \in 0 .. Len(peer.hash)
  BY <1>1
<1>5. SubSeq(peer.hash, 1, h - 1) \in Seq(BlockRecord) /\ Len(SubSeq(peer.hash, 1, h - 1)) = h - 1
  BY <1>1, <1>4, PrefixFacts, Zenon
<1>6. block \in Block
  BY <1>2, <1>3, <1>5, Zenon DEF Block, BlockRecord
<1>7. height(st) = h - 1
  BY <1>2, <1>5, Zenon DEF valid_proposal, height
<1> QED
  BY <1>1, <1>6, <1>7

\* Opening starts from the state the marker names.
LEMMA OpenOutcome ==
    ASSUME FiniteLaws, EngineInv, Open
    PROVE  EngineStep /\ DiskStep
<1>1. /\ engine = Down /\ announced' = announced /\ peer' = peer
      /\ announced \in Seq(BlockRecord)
  BY Zenon DEF Open, EngineInv, TypeOK
<1>2. CASE /\ ~initialized(disk) /\ disk' = initialize_database
           /\ engine' \in {opened(genesis), Down}
  <2>1. Sound(opened(genesis))
    BY GenesisWellFormed, OpenedSound, Zenon
  <2> QED
    BY <1>1, <1>2, <2>1, Zenon DEF EngineStep, DiskStep
<1>3. CASE /\ initialized(disk) /\ recovered(disk) # None /\ disk' = disk
           /\ engine' = opened(recovered(disk))
  <2>1. /\ Recoverable(disk) /\ Tip(disk) \in ChainState /\ disk.marker \in Marker
        /\ disk.marker.height = height(Tip(disk))
    BY <1>3, Zenon DEF EngineInv, TypeOK, ChainInv, WellFormed, LogInv, Tip, height
  <2>2. recovered(disk) = Tip(disk)
    BY <1>3, <2>1, RecoveredIsTip, Zenon
  <2>3. Sound(opened(recovered(disk)))
    BY <2>1, <2>2, OpenedSound, Zenon
  <2> QED
    BY <1>1, <1>3, <2>3, Zenon DEF EngineStep, DiskStep
<1> QED
  BY <1>2, <1>3, Zenon DEF Open

\* Every step of the engine is one of those.
LEMMA StepOutcome ==
    ASSUME FiniteLaws, EngineInv, Next
    PROVE  EngineStep /\ DiskStep
<1>1. announced \in Seq(BlockRecord) /\ peer \in ChainState
  BY Zenon DEF EngineInv, TypeOK
<1>2. ASSUME NEW d \in Domain, NEW t \in Transaction, SubmitRaw(d, t)
      PROVE  EngineStep /\ DiskStep
  <2>1. engine # Down /\ UNCHANGED <<disk, announced, peer>>
    BY <1>2, Zenon DEF SubmitRaw
  <2>2. engine' = [engine EXCEPT !.pool =
                      insert(@, d, t, nonce(engine.finalized, d, t.sender))]
    BY <1>2, Zenon DEF SubmitRaw
  <2>3. Sound(engine') /\ Keeps(engine, engine')
    BY <2>1, <2>2, Running, SubmitKeeps, Zenon
  <2> QED
    BY <1>1, <2>1, <2>3, Zenon DEF EngineStep, DiskStep
<1>3. ASSUME NEW timely \in BOOLEAN, BuildProposal(timely)
      PROVE  EngineStep /\ DiskStep
  <2>1. /\ engine # Down /\ engine.pending = None /\ height(engine.finalized) < MaxHeight
        /\ engine' = built(engine, timely) /\ UNCHANGED <<disk, announced, peer>>
    BY <1>3, Zenon DEF BuildProposal
  <2>2. Sound(engine') /\ Keeps(engine, engine')
    BY <2>1, Running, BuiltKeeps, Zenon DEF Keeps
  <2> QED
    BY <1>1, <2>1, <2>2, Zenon DEF EngineStep, DiskStep
<1>4. ASSUME NEW timely \in BOOLEAN, ProduceBlock(timely)
      PROVE  EngineStep /\ DiskStep
  <2> DEFINE e == built(engine, timely)
  <2>1. /\ engine # Down /\ engine.pending = None /\ height(engine.finalized) < MaxHeight
        /\ \/ e.pending = None /\ engine' = e /\ UNCHANGED <<disk, announced, peer>>
           \/ e.pending # None /\ commit_validated(e, e.pending.block, e.pending.result)
    BY <1>4, Zenon DEF ProduceBlock
  <2>2. /\ EngineFields(engine) /\ Sound(engine) /\ PoolFields(engine.pool)
        /\ Routed(engine.pool, engine.finalized)
    BY <2>1, Running, Zenon
  <2>3. /\ Sound(e) /\ HeldBy(engine) \subseteq HeldBy(e) /\ EngineFields(e)
        /\ e.finalized = engine.finalized
    BY <2>1, <2>2, BuiltKeeps, BuiltProposal, Zenon
  <2>4. /\ SameRegistered(engine.pool, e.pool)
        /\ e.pending # None => /\ valid_proposal(e.finalized, e.pending.block)
                               /\ e.pending.result = execute(e.finalized, e.pending.block.body)
    BY <2>1, <2>2, <2>3, BuiltRoutes, Zenon
  <2> HIDE DEF e
  <2>5. Routed(e.pool, e.finalized)
    BY <2>2, <2>3, <2>4, RoutesKept, Zenon
  <2>6. CASE e.pending = None
    BY <1>1, <2>1, <2>3, <2>6, Zenon DEF EngineStep, DiskStep, Keeps
  <2>7. CASE e.pending # None
    <3>1. e.pending.block \in Block
      BY <2>3, <2>7, Zenon DEF Sound, Proposal
    <3> QED
      BY <2>1, <2>3, <2>4, <2>5, <2>7, <3>1, CommitOutcome, Zenon
  <2> QED
    BY <2>6, <2>7, Zenon
<1>5. ASSUME AbandonProposal PROVE EngineStep /\ DiskStep
  <2>1. /\ engine # Down /\ engine.pending # None /\ engine' = abandoned(engine)
        /\ UNCHANGED <<disk, announced, peer>>
    BY <1>5, Zenon DEF AbandonProposal
  <2>2. Sound(engine') /\ Keeps(engine, engine')
    BY <2>1, Running, AbandonedKeeps, Zenon
  <2> QED
    BY <1>1, <2>1, <2>2, Zenon DEF EngineStep, DiskStep
<1>6. ASSUME CommitProposal PROVE EngineStep /\ DiskStep
  <2>1. /\ engine # Down /\ engine.pending # None
        /\ commit_validated(engine, engine.pending.block, engine.pending.result)
    BY <1>6, Zenon DEF CommitProposal
  <2>2. /\ valid_proposal(engine.finalized, engine.pending.block)
        /\ engine.pending.result = execute(engine.finalized, engine.pending.block.body)
    BY <2>1, Zenon DEF EngineInv, RouteInv
  <2>3. /\ Sound(engine) /\ EngineFields(engine) /\ Routed(engine.pool, engine.finalized)
    BY <2>1, Running, Zenon
  <2>4. engine.pending.block \in Block /\ height(engine.finalized) < MaxHeight
    BY <2>1, <2>3, Zenon DEF Sound, Proposal
  <2> QED
    BY <2>1, <2>2, <2>3, <2>4, CommitOutcome, Zenon
<1>7. ASSUME NEW block \in served_blocks, ImportBlock(block) PROVE EngineStep /\ DiskStep
  <2>1. /\ engine # Down /\ engine.pending = None /\ valid_proposal(engine.finalized, block)
        /\ commit_validated(engine, block, execute(engine.finalized, block.body))
    BY <1>7, Zenon DEF ImportBlock
  <2>2. /\ Sound(engine) /\ EngineFields(engine) /\ Routed(engine.pool, engine.finalized)
        /\ engine.finalized \in ChainState
    BY <2>1, Running, Zenon DEF Sound
  <2>3. block \in Block /\ height(engine.finalized) < MaxHeight
    BY <2>1, <2>2, ServedBlocks, Zenon
  <2> QED
    BY <2>1, <2>2, <2>3, CommitOutcome, Zenon
<1>8. ASSUME ImportCheckpoint(peer) PROVE EngineStep /\ DiskStep
  <2> DEFINE q == [engine EXCEPT !.finalized = peer, !.pool = registered(@, peer), !.cursor = 0]
  <2>1. /\ engine # Down /\ engine.pending = None /\ height(engine.finalized) = 0
        /\ height(peer) # 0
        /\ \A d \in Live(peer) : register_ok(engine.pool, d, peer.domains[d].chain_id)
        /\ Durable(commit_checkpoint(disk, peer), q)
    BY <1>8, Zenon DEF ImportCheckpoint, checkpoint_ok, commit_ok
  <2>2. /\ Sound(engine) /\ EngineFields(engine) /\ initialized(disk)
        /\ disk.marker.height = height(engine.finalized)
    BY <2>1, Running, Zenon
  <2>3. Sound(q) /\ Keeps(engine, q)
    BY <1>1, <2>1, <2>2, CheckpointKeeps, Zenon
  <2> HIDE DEF q
  <2>4. /\ disk' = commit_checkpoint(disk, peer) /\ peer' = peer
        /\ \/ engine' = q /\ announced' = q.finalized.hash
           \/ engine' = Down /\ announced' = announced
    BY <2>1, Zenon DEF Durable
  <2>5. q.finalized.hash \in Seq(BlockRecord)
    BY <2>3, Zenon DEF Sound, ChainState
  <2>6. EngineStep
    BY <1>1, <2>3, <2>4, <2>5, Zenon DEF EngineStep
  <2> QED
    BY <2>1, <2>2, <2>4, <2>6, Zenon DEF DiskStep
<1>9. ASSUME Crash PROVE EngineStep /\ DiskStep
  BY <1>1, <1>9, Zenon DEF Crash, EngineStep, DiskStep
<1>10. ASSUME NEW body \in PeerBody, PeerFinalizes(body) PROVE EngineStep /\ DiskStep
  <2>1. /\ height(peer) < MaxHeight /\ executable(peer, body) /\ peer' = execute(peer, body)
        /\ engine' = engine /\ disk' = disk /\ announced' = announced
    BY <1>10, Zenon DEF PeerFinalizes
  <2>2. engine # Down => Sound(engine) /\ Keeps(engine, engine)
    BY Running, Zenon DEF Keeps
  <2> QED
    BY <1>1, <2>1, <2>2, Zenon DEF EngineStep, DiskStep
<1> QED
  BY <1>2, <1>3, <1>4, <1>5, <1>6, <1>7, <1>8, <1>9, <1>10, OpenOutcome, Zenon DEF Next

-----------------------------------------------------------------------------
\* The database after a step.
LEMMA DiskKept ==
    ASSUME FiniteLaws, EngineInv, DiskStep
    PROVE  Stored(disk') /\ WellFormed(peer') /\ height(peer') <= MaxHeight
<1>1. Stored(disk) /\ WellFormed(peer) /\ height(peer) <= MaxHeight
  BY StoredByInv, Zenon
<1>2. DiskFields(disk) /\ ExecutionSound
  BY ExecutionIsSound, Zenon DEF EngineInv, LogInv
<1>3. CASE UNCHANGED <<disk, peer>>
  BY <1>1, <1>3, Zenon
<1>4. CASE ~initialized(disk) /\ disk' = initialize_database /\ UNCHANGED peer
  BY <1>1, <1>4, FreshStored, Zenon
<1>5. ASSUME NEW block \in Block, StoresBlock(block)
      PROVE  Stored(disk') /\ WellFormed(peer') /\ height(peer') <= MaxHeight
  BY <1>1, <1>2, <1>5, CommitStored, Zenon DEF StoresBlock
<1>6. CASE /\ initialized(disk) /\ disk.marker.height = 0
           /\ height(peer) # 0 /\ disk' = commit_checkpoint(disk, peer) /\ UNCHANGED peer
  BY <1>1, <1>2, <1>6, CheckpointStored, Zenon
<1>7. ASSUME UNCHANGED disk, NEW body \in PeerBody,
             height(peer) < MaxHeight, executable(peer, body), peer' = execute(peer, body)
      PROVE  Stored(disk') /\ WellFormed(peer') /\ height(peer') <= MaxHeight
  <2>1. body \in SUBSET Transaction /\ MaxHeight \in Nat
    BY EngineAssumption, Zenon
  <2>2. WellFormed(peer')
    BY <1>1, <1>2, <1>7, <2>1, Zenon DEF ExecutionSound
  <2>3. peer \in ChainState
    BY <1>1, Zenon DEF WellFormed
  <2>4. height(peer') = height(peer) + 1 /\ height(peer) \in Nat
    BY <1>7, <2>1, <2>3, ExecuteTyped, Zenon
  <2>5. height(peer') <= MaxHeight
    BY <1>7, <2>1, <2>4
  <2> QED
    BY <1>1, <1>7, <2>2, <2>5, Zenon
<1> QED
  BY <1>3, <1>4, <1>5, <1>6, <1>7, Zenon DEF DiskStep

\* The invariant after a step.
LEMMA InvKept ==
    ASSUME FiniteLaws, EngineInv, Next
    PROVE  EngineInv'
<1>1. EngineStep /\ DiskStep
  BY StepOutcome, Zenon
<1>2. LogInv' /\ RouteInv'
  BY BothInv, Zenon DEF EngineInv
<1>3. Stored(disk') /\ WellFormed(peer') /\ height(peer') <= MaxHeight
  BY <1>1, DiskKept, Zenon
<1>4. engine' # Down => Sound(engine')
  BY <1>1, Zenon DEF EngineStep
<1>5. TypeOK'
  BY <1>1, <1>3, <1>4, Zenon DEF EngineStep, TypeOK, Sound, Stored, WellFormed, Root
<1>6. /\ PoolKept'
      /\ engine' # Down /\ engine'.pending # None => height(engine'.finalized) < MaxHeight
  BY <1>4, Zenon DEF PoolKept, Sound
<1>7. ChainInv' /\ LocationInv'
  BY <1>3, <1>6, Zenon DEF ChainInv, LocationInv, Stored, Tip
<1> QED
  BY <1>2, <1>5, <1>6, <1>7, Zenon DEF EngineInv

LEMMA InitEngine == Init => EngineInv
<1> SUFFICES ASSUME Init PROVE EngineInv
  BY Zenon
<1>1. engine = Down /\ disk = EmptyDisk /\ announced = <<>> /\ peer = genesis
  BY Zenon DEF Init
<1>2. LogInv /\ RouteInv
  BY InitInv, InitRoutes, Zenon
<1>3. ~initialized(disk) /\ disk.roots = {}
  BY <1>1, InitializedFields, Zenon
<1>4. disk.marker \in Marker
  <2>1. AbsentDomain \in FinalizedDomain
    BY Zenon DEF AbsentDomain, FinalizedDomain
  <2>2. NoMarker \in Marker
    BY <2>1, NoBlocks, Zenon DEF NoMarker, Marker
  <2> QED
    BY <1>1, <2>2, Zenon DEF EmptyDisk
<1>5. TypeOK
  BY <1>1, <1>3, <1>4, GenesisWellFormed, NoBlocks, Zenon DEF TypeOK
<1>6. ChainInv
  BY <1>1, <1>3, GenesisWellFormed, EngineAssumption DEF ChainInv
<1> QED
  BY <1>1, <1>2, <1>3, <1>5, <1>6, Zenon DEF EngineInv, PoolKept, LocationInv

LEMMA StepEngine ==
    ASSUME FiniteLaws
    PROVE  EngineInv /\ [Next]_vars => EngineInv'
<1> SUFFICES ASSUME EngineInv, [Next]_vars PROVE EngineInv'
  BY Zenon
<1>1. CASE Next
  BY <1>1, InvKept, Zenon
<1>2. CASE UNCHANGED vars
  <2>1. engine' = engine /\ disk' = disk /\ announced' = announced /\ peer' = peer
    BY <1>2, Zenon DEF vars
  <2>2. LogInv' /\ RouteInv'
    BY <1>2, BothInv, Zenon DEF EngineInv
  <2>3. TypeOK' /\ ChainInv' /\ PoolKept' /\ LocationInv'
    BY <2>1, Zenon DEF EngineInv, TypeOK, ChainInv, PoolKept, LocationInv
  <2> QED
    BY <2>2, <2>3, Zenon DEF EngineInv
<1> QED
  BY <1>1, <1>2, Zenon

-----------------------------------------------------------------------------
\* What an invariant state recovers.
LEMMA RecoveryFollows ==
    ASSUME FiniteLaws, EngineInv
    PROVE  /\ initialized(disk) => /\ recovered(disk) \in {Tip(disk), None} /\ Tip(disk) # None
                                   /\ History = 0 \/ disk.checkpoint = None =>
                                         recovered(disk) = Tip(disk)
           /\ engine # Down => initialized(disk) /\ engine.finalized = Tip(disk)
<1>1. ASSUME initialized(disk)
      PROVE  /\ recovered(disk) \in {Tip(disk), None} /\ Tip(disk) # None
             /\ History = 0 \/ disk.checkpoint = None => recovered(disk) = Tip(disk)
  <2>1. /\ Recoverable(disk) /\ Tip(disk) \in ChainState /\ disk.marker \in Marker
        /\ disk.marker.height = height(Tip(disk))
    BY <1>1, StoredByInv, Zenon DEF Stored, WellFormed
  <2> QED
    BY <2>1, RecoveredIsTip, NoneAssumption, Zenon
<1>2. engine # Down => initialized(disk) /\ engine.finalized = Tip(disk)
  BY Running, Zenon
<1> QED
  BY <1>1, <1>2, Zenon

\* Every finalized block above the checkpoint is served as it was finalized, and every
\* retained transaction above it has exactly one location, in the block that has it.
LEMMA HistoryFollows == EngineInv => HistoryServed
<1> SUFFICES ASSUME EngineInv, engine # Down,
                    NEW st, NEW hs, st = engine.finalized,
                    hs = height(recovery_base(disk)) + 1 .. height(st)
             PROVE  \A h \in hs :
                       /\ disk.blocks[h] # None
                       /\ block_hash(disk.blocks[h]) = SubSeq(st.hash, 1, h)
                       /\ \A d \in RetainedDomain \cap Live(st), t \in st.hash[h].body :
                             t \in batch(st, st.hash[h].body, d) =>
                                {l \in disk.locations : l.tx = t}
                                    = {[tx |-> t, height |-> h, domain |-> d]}
  BY Zenon DEF HistoryServed
<1>1. initialized(disk) /\ st = Tip(disk) /\ Stored(disk)
  BY Running, StoredByInv, Zenon
<1>2. st.hash = disk.marker.hash
  BY <1>1 DEF Tip
<1>3. \A h \in hs : /\ disk.blocks[h] # None
                   /\ block_hash(disk.blocks[h]) = SubSeq(st.hash, 1, h)
  BY <1>1, <1>2, BlocksServed, Zenon
<1>4. LocatedOnce(disk, st, hs)
  BY <1>1, OneLocation, Zenon
<1> QED
  BY <1>3, <1>4, Zenon DEF LocatedOnce

-----------------------------------------------------------------------------
(* What the lemmas assume of finite sets and of the naturals, from the library. *)

INSTANCE FiniteSetTheorems
INSTANCE WellFoundedInduction

\* The least-number principle, and induction in the form of sets.
LEMMA LeastElement ==
    ASSUME NEW T \in SUBSET Nat, T # {}
    PROVE  \E x \in T : \A y \in T : x <= y
<1> DEFINE R == {ss \in Nat \X Nat : ss[1] < ss[2]}
<1>1. IsWellFoundedOn(R, Nat)
  <2>1. R = OpToRel(<, Nat)
    BY Zenon DEF OpToRel
  <2> QED
    BY <2>1, NatLessThanWellFounded, Zenon
<1>2. \A x, y \in Nat : x < y => <<x, y>> \in R
  BY Zenon
<1> HIDE DEF R
<1>3. PICK x \in T : \A y \in T : ~(<<y, x>> \in R)
  BY <1>1, WFMin, Zenon
<1>4. \A y \in T : ~(y < x)
  <2> TAKE y \in T
  <2>1. x \in Nat /\ y \in Nat
    BY Zenon
  <2> QED
    BY <1>2, <1>3, <2>1, Zenon
<1> QED
  BY <1>4, SMT

LEMMA NatSetInduction ==
    ASSUME NEW T \in SUBSET Nat, 0 \in T, \A n \in T : n + 1 \in T
    PROVE  T = Nat
<1> SUFFICES ASSUME T # Nat PROVE FALSE
  BY Zenon
<1>1. PICK x \in Nat \ T : \A y \in Nat \ T : x <= y
  BY LeastElement, Zenon
<1>2. x # 0 /\ x - 1 \in Nat /\ x - 1 \in T
  BY <1>1
<1> QED
  BY <1>1, <1>2

\* What the modules below assume of finite sets and of the naturals is so.
LEMMA FiniteSetLaws == FiniteLaws
<1>1. \A a, b \in Int : IsFiniteSet(a .. b)
  BY FS_Interval, Zenon
<1>2. IsFiniteSet({}) /\ Cardinality({}) = 0
  BY FS_EmptySet, Zenon
<1>3. \A S : IsFiniteSet(S) /\ Cardinality(S) = 0 => S = {}
  BY FS_EmptySet, Zenon
<1>4. ASSUME NEW S, IsFiniteSet(S), NEW T \in SUBSET S
      PROVE  IsFiniteSet(T) /\ Cardinality(T) \in Nat /\ Cardinality(T) <= Cardinality(S)
  BY <1>4, FS_Subset, FS_CardinalityType, Zenon
<1>5. ASSUME NEW S, IsFiniteSet(S), NEW x, x \notin S
      PROVE  IsFiniteSet(S \cup {x}) /\ Cardinality(S \cup {x}) = Cardinality(S) + 1
  BY <1>5, FS_AddElement, Zenon
<1>6. ASSUME NEW S, NEW T, IsFiniteSet(S), IsFiniteSet(T), S \cap T = {}
      PROVE  IsFiniteSet(S \cup T) /\ Cardinality(S \cup T) = Cardinality(S) + Cardinality(T)
  <2>1. Cardinality(S) \in Nat /\ Cardinality(T) \in Nat /\ Cardinality(S \cap T) = 0
    BY <1>2, <1>6, FS_CardinalityType, Zenon
  <2>2. /\ IsFiniteSet(S \cup T)
        /\ Cardinality(S \cup T) = Cardinality(S) + Cardinality(T) - Cardinality(S \cap T)
    BY <1>6, FS_Union, Zenon
  <2> QED
    BY <2>1, <2>2
<1>7. ASSUME NEW T \in SUBSET Nat, 0 \in T, \A n \in T : n + 1 \in T PROVE T = Nat
  BY <1>7, NatSetInduction, Zenon
<1> QED
  BY <1>1, <1>2, <1>3, <1>4, <1>5, <1>6, <1>7, Zenon DEF FiniteLaws

-----------------------------------------------------------------------------
\* Counters, routes and places of entries stay consistent through every sequence of
\* operations on the pool.
THEOREM PoolInvariant == PoolSpec => []PoolInv
<1>1. PoolInit => PoolInv
  BY FiniteSetLaws, PoolInitInv, Zenon
<1>2. PoolInv /\ [PoolNext]_pool_vars => PoolInv'
  BY FiniteSetLaws, PoolStepInv, Zenon
<1> QED
  BY <1>1, <1>2, PTL DEF PoolSpec

\* The counters of the pool are exact in every reachable state: the quota check of
\* Mempool::insert and the sender list the scheduler walks never drift from what the
\* pool holds.
THEOREM CountsAlwaysExact == PoolSpec => []CountsExact
<1>1. PoolInv => CountsExact
  BY Zenon DEF PoolInv
<1> QED
  BY <1>1, PoolInvariant, PTL

\* No two registered domains ever share a chain ID (Mempool::register_domain).
THEOREM ChainIdsAlwaysDistinct == PoolSpec => []ChainIdsDistinct
<1>1. PoolInv => ChainIdsDistinct
  BY Zenon DEF PoolInv
<1> QED
  BY <1>1, PoolInvariant, PTL

\* A transaction hash has at most one place in the pool and one in the proposal, so
\* Mempool::reserve_hashes never takes an entry from a domain other than the one the
\* transaction was selected or included in.
THEOREM HashesHaveOnePlace == PoolSpec => []OnePlacePerHash
  BY OnePlaceFollows, PoolInvariant, PTL

\* A pooled transaction is replaced only by one that bumps both fee caps; in
\* particular restore_reserved never overwrites what was admitted meanwhile.
THEOREM OverwritesAreBumps == PoolSpec => OverwriteNeedsBump
<1>1. PoolInv /\ [PoolNext]_pool_vars => [Bumped]_pool_vars
  BY FiniteSetLaws, BumpedStep, Zenon
<1>2. OverwriteNeedsBump <=> [][Bumped]_pool_vars
  BY Zenon DEF OverwriteNeedsBump, Bumped
<1> QED
  BY <1>1, <1>2, PoolInvariant, PTL DEF PoolSpec

-----------------------------------------------------------------------------
\* The engine is well typed, its durable chain, exposed chain, announcements, pool and
\* pending proposal agree, and its database replays to the chain it exposes; through any
\* sequence of submissions, builds, commits, imports, crashes and restarts.
THEOREM EngineInvariant == Spec => []EngineInv
<1>1. Init => EngineInv
  BY InitEngine, Zenon
<1>2. EngineInv /\ [Next]_vars => EngineInv'
  BY FiniteSetLaws, StepEngine, Zenon
<1> QED
  BY <1>1, <1>2, PTL DEF Spec

\* On an archive node, the retention the node opens its database with, recovery always
\* succeeds and gives back exactly what the engine exposed.
THEOREM ArchiveRecoversExactly ==
    ASSUME History = 0
    PROVE  Spec => []RecoveryExact
<1>1. EngineInv => RecoveryExact
  BY FiniteSetLaws, RecoveryFollows, Zenon DEF RecoveryExact, MemoryIsDurable, Reopens
<1> QED
  BY <1>1, EngineInvariant, PTL

\* Under every retention policy, a database that has imported no checkpoint recovers
\* exactly: retention never removes what replay from genesis needs.
THEOREM ReplayFromGenesisRecovers ==
    Spec => [](disk.checkpoint = None => RecoveryExact)
<1>1. EngineInv => (disk.checkpoint = None => RecoveryExact)
  BY FiniteSetLaws, RecoveryFollows, Zenon DEF RecoveryExact, MemoryIsDurable, Reopens
<1> QED
  BY <1>1, EngineInvariant, PTL

\* Under every retention policy, open_with_history may refuse a database whose checkpoint
\* retention has pruned, but never opens it at any other state than the exposed one.
THEOREM RecoveryNeverDiverges ==
    Spec => [](engine # Down => recovered(disk) \in {engine.finalized, None})
<1>1. EngineInv => (engine # Down => recovered(disk) \in {engine.finalized, None})
  BY FiniteSetLaws, RecoveryFollows, Zenon
<1> QED
  BY <1>1, EngineInvariant, PTL

\* As long as the process runs, an admitted transaction keeps its nonce taken until a
\* finalized block has used it.
THEOREM AdmittedNeverLost == Spec => AdmittedKept
<1> DEFINE Step == engine # Down /\ engine' # Down =>
                      \A k \in HeldBy(engine) :
                         k \in HeldBy(engine') \/ k[3] < nonce(engine'.finalized, k[1], k[2])
<1>1. EngineInv /\ [Next]_vars => [Step]_vars
  <2>1. EngineInv /\ Next => Step
    BY FiniteSetLaws, StepOutcome, Zenon DEF EngineStep, Keeps
  <2> QED
    BY <2>1, Zenon
<1>2. AdmittedKept <=> [][Step]_vars
  BY Zenon DEF AdmittedKept
<1> HIDE DEF Step
<1> QED
  BY <1>1, <1>2, EngineInvariant, PTL DEF Spec

\* HistoryServed holds for every retention set and every retention policy: every block
\* above the checkpoint is served as it was finalized, every retained transaction located.
THEOREM HistoryAlwaysServed == Spec => []HistoryServed
  BY HistoryFollows, EngineInvariant, PTL
=============================================================================
