-------------------------------- MODULE Engine --------------------------------
(***************************************************************************)
(* SingleValidatorEngine: submissions, one pending proposal, durable       *)
(* commits, block and checkpoint import, crashes, and recovery by replay.  *)
(*                                                                         *)
(* Every method takes `&mut self`, so methods do not interleave with each  *)
(* other; what interleaves is their order, the storage commit inside one,  *)
(* and a crash.  One parity-db transaction is atomic and a method returns  *)
(* an error without it, so a failed commit leaves memory and disk as they  *)
(* were.  `peer` is another node of the same development chain; the        *)
(* blocks and the checkpoints that reach this one are its.                 *)
(***************************************************************************)
EXTENDS EngineOps

VARIABLES
    engine,     \* the SingleValidatorEngine value, Down when no process runs
    disk,       \* the Database
    announced,  \* the consensus hash of the last CommitEvent sent
    peer        \* finalized state of the node blocks and checkpoints come from

vars == <<engine, disk, announced, peer>>

-----------------------------------------------------------------------------
\* Mutant: the event is sent before the transaction is durable.
Durable_early(dk, e) ==
    /\ announced' = e.finalized.hash
    /\ \/ disk' = dk /\ engine' = e
       \/ engine' = Down /\ UNCHANGED disk
    /\ UNCHANGED peer

\* The transaction is durable; then the new view and its event are published, or the
\* process stops before they are.
Durable(dk, e) ==
    /\ disk' = dk
    /\ \/ engine' = e /\ announced' = e.finalized.hash
       \/ engine' = Down /\ UNCHANGED announced
    /\ UNCHANGED peer

commit_validated(e, block, st) ==
    /\ commit_ok(e, disk, st)
    /\ Durable(commit_block(disk, block, st), published(e, block, st))

-----------------------------------------------------------------------------
Init ==
    /\ engine = Down
    /\ disk = EmptyDisk
    /\ announced = <<>>
    /\ peer = genesis

\* open_with_history; initializing can stop after its transaction too.
Open ==
    /\ engine = Down
    /\ \/ /\ ~initialized(disk)
          /\ disk' = initialize_database
          /\ engine' \in {opened(genesis), Down}
       \/ /\ initialized(disk)
          /\ recovered(disk) # None
          /\ engine' = opened(recovered(disk))
          /\ UNCHANGED disk
    /\ UNCHANGED <<announced, peer>>

SubmitRaw(d, t) ==
    /\ engine # Down
    /\ d \in Live(engine.finalized)
    /\ engine' = [engine EXCEPT !.pool =
                     insert(@, d, t, nonce(engine.finalized, d, t.sender))]
    /\ UNCHANGED <<disk, announced, peer>>

BuildProposal(timely) ==
    /\ engine # Down
    /\ engine.pending = None
    /\ height(engine.finalized) < MaxHeight
    /\ engine' = built(engine, timely)
    /\ UNCHANGED <<disk, announced, peer>>

AbandonProposal ==
    /\ engine # Down
    /\ engine.pending # None
    /\ engine' = abandoned(engine)
    /\ UNCHANGED <<disk, announced, peer>>

CommitProposal ==
    /\ engine # Down
    /\ engine.pending # None
    /\ commit_validated(engine, engine.pending.block, engine.pending.result)

\* build_proposal and commit_proposal in one call.
ProduceBlock(timely) ==
    /\ engine # Down
    /\ engine.pending = None
    /\ height(engine.finalized) < MaxHeight
    /\ LET e == built(engine, timely)
       IN  IF e.pending = None
           THEN engine' = e /\ UNCHANGED <<disk, announced, peer>>
           ELSE commit_validated(e, e.pending.block, e.pending.result)

\* Mutant: a pending proposal does not stop an import.
ImportBlock_racing(block) ==
    /\ engine # Down
    /\ valid_proposal(engine.finalized, block)
    /\ commit_ok(engine, disk, execute(engine.finalized, block.body))
    /\ Durable(commit_block(disk, block, execute(engine.finalized, block.body)),
               [published(engine, block, execute(engine.finalized, block.body)) EXCEPT
                   !.pending = engine.pending])

\* import_development_finalized_block.
ImportBlock(block) ==
    /\ engine # Down
    /\ engine.pending = None
    /\ valid_proposal(engine.finalized, block)
    /\ commit_validated(engine, block, execute(engine.finalized, block.body))

\* Mutants: a checkpoint is imported at any height; its domains are not registered.
ImportCheckpoint_late(st) ==
    /\ engine # Down
    /\ engine.pending = None
    /\ checkpoint_ok(st)
    /\ commit_ok(engine, disk, st)
    /\ Durable(commit_checkpoint(disk, st),
               [engine EXCEPT !.finalized = st, !.pool = registered(@, st), !.cursor = 0])

ImportCheckpoint_unrouted(st) ==
    /\ engine # Down
    /\ engine.pending = None
    /\ height(engine.finalized) = 0
    /\ checkpoint_ok(st)
    /\ commit_ok(engine, disk, st)
    /\ Durable(commit_checkpoint(disk, st), [engine EXCEPT !.finalized = st, !.cursor = 0])

\* import_development_checkpoint; the entries of the pool stay.
ImportCheckpoint(st) ==
    /\ engine # Down
    /\ engine.pending = None
    /\ height(engine.finalized) = 0
    /\ checkpoint_ok(st)
    /\ commit_ok(engine, disk, st)
    /\ Durable(commit_checkpoint(disk, st),
               [engine EXCEPT !.finalized = st, !.pool = registered(@, st), !.cursor = 0])

Crash ==
    /\ engine # Down
    /\ engine' = Down
    /\ UNCHANGED <<disk, announced, peer>>

\* The other node finalizes a block, and what it serves: its blocks, as they are or
\* with the result of another block claimed in the header.
PeerFinalizes(body) ==
    /\ height(peer) < MaxHeight
    /\ executable(peer, body)
    /\ peer' = execute(peer, body)
    /\ UNCHANGED <<engine, disk, announced>>

served_blocks ==
    {[parent_hash |-> SubSeq(peer.hash, 1, h - 1), body |-> peer.hash[h].body, heads |-> heads] :
        h \in 1 .. height(peer), heads \in {peer.hash[i].heads : i \in 1 .. height(peer)}}

Next ==
    \/ Open
    \/ \E d \in Domain, t \in Transaction : SubmitRaw(d, t)
    \/ \E timely \in BOOLEAN : BuildProposal(timely) \/ ProduceBlock(timely)
    \/ AbandonProposal
    \/ CommitProposal
    \/ \E block \in served_blocks : ImportBlock(block)
    \/ ImportCheckpoint(peer)
    \/ Crash
    \/ \E body \in PeerBody : PeerFinalizes(body)

Spec == Init /\ [][Next]_vars

-----------------------------------------------------------------------------
TypeOK ==
    /\ engine # Down =>
          /\ engine.finalized \in ChainState
          /\ engine.pool \in Pool
          /\ engine.cursor \in Nat
          /\ engine.pending # None => engine.pending \in Proposal
    /\ disk.marker \in Marker
    /\ disk.roots \subseteq [domain : Domain, height : Nat, root : SUBSET Transaction]
    /\ announced \in Seq(BlockRecord)
    /\ peer \in ChainState

\* What a restart would recover is exactly what the running engine exposes, domain by
\* domain: heights, numbers, state roots and created domains, whether they came from
\* genesis, from blocks built or imported here, or from a checkpoint.
MemoryIsDurable ==
    engine # Down => initialized(disk) /\ recovered(disk) = engine.finalized

\* An initialized database can always be opened again, wherever the process stopped:
\* replay finds every body it needs and verify_recovered accepts the result.
Reopens == initialized(disk) => recovered(disk) # None

\* Recovery always succeeds, and gives back what the engine exposed.
RecoveryExact == MemoryIsDurable /\ Reopens

\* A pending proposal can be committed as it stands: it still extends the finalized
\* head, its overlay is what replay of its block computes, and neither register_domain
\* nor the marker check can refuse it.  Otherwise it would be stuck: it blocks every
\* build and import until it is abandoned.
ProposalCommittable ==
    engine # Down /\ engine.pending # None =>
        /\ valid_proposal(engine.finalized, engine.pending.block)
        /\ engine.pending.result = execute(engine.finalized, engine.pending.block.body)
        /\ commit_ok(engine, disk, engine.pending.result)

\* The pool routes exactly the finalized domains, each by its own chain ID: a created
\* domain accepts transactions from the next height on, and a domain of an abandoned
\* proposal never does.
PoolMatchesDomains ==
    engine # Down =>
        \A d \in Domain : engine.pool.chain_ids[d] = engine.finalized.domains[d].chain_id

\* Every finalized height above the checkpoint has its body, so that finalized_block
\* never reports "missing finalized block body", and every transaction finalized above
\* it in a retained domain has one location, which names a block that contains it.
HistoryServed ==
    engine # Down =>
        LET st   == engine.finalized
            base == height(recovery_base(disk))
        IN  \A h \in base + 1 .. height(st) :
               /\ disk.blocks[h] # None
               /\ block_hash(disk.blocks[h]) = SubSeq(st.hash, 1, h)
               /\ \A d \in RetainedDomain \cap Live(st), t \in st.hash[h].body :
                     t \in batch(st, st.hash[h].body, d) =>
                        {l \in disk.locations : l.tx = t}
                            = {[tx |-> t, height |-> h, domain |-> d]}

\* As long as the process runs, an admitted transaction is not lost: its nonce stays
\* taken, by it or by its replacement, until a finalized block has used that nonce;
\* through failed builds, abandoned proposals, and blocks and checkpoints imported from
\* elsewhere.
AdmittedKept ==
    [][engine # Down /\ engine' # Down =>
          \A k \in HeldBy(engine) :
             k \in HeldBy(engine') \/ k[3] < nonce(engine'.finalized, k[1], k[2])]_vars

-----------------------------------------------------------------------------
\* The engine implements FinalizedLog.
DurableLog == disk.marker.hash

ExposedLog == IF engine = Down THEN Down ELSE engine.finalized.hash

Log == INSTANCE FinalizedLog WITH
           Offline <- Down, log <- DurableLog, view <- ExposedLog, told <- announced

\* The engine never exposes or announces a block before it is durable, and never takes
\* one back: its durable chain only grows by one block, or once by a checkpoint.
FinalizedLogSpec == Log!Spec

\* A block that was announced is never rolled back, whatever crashes follow.
AnnouncedDurable == Log!Extends(announced, DurableLog)

\* The inductive invariant behind the refinement: the running engine exposes the chain
\* its marker names, and a pending proposal adds one block to that chain.
LogInv ==
    /\ DiskFields(disk)
    /\ IsSequence(DurableLog) /\ IsSequence(announced) /\ IsSequence(peer.hash)
    /\ initialized(disk) => disk.marker.height = Len(disk.marker.hash)
    /\ ~initialized(disk) => engine = Down /\ DurableLog = <<>>
    /\ AnnouncedDurable
    /\ engine # Down =>
          /\ EngineFields(engine)
          /\ engine.finalized.hash = disk.marker.hash
          /\ engine.pending # None =>
                OneLonger(engine.finalized.hash, engine.pending.result.hash)

\* The inductive invariant behind ProposalCommittable and PoolMatchesDomains: the marker
\* names the domains the engine exposes, nothing but the root before the first block;
\* the pool knows those domains' chain IDs and no others; a pending proposal is the
\* block its execution results in.
RouteInv ==
    /\ \A d \in Domain : DomainFields(peer.domains[d]) /\ DomainFields(disk.marker.heads[d])
    /\ disk.marker.height = 0 =>
          \A d \in Domain \ {RootDomain} : disk.marker.heads[d].chain_id = 0
    /\ engine # Down =>
          /\ engine.finalized.domains = disk.marker.heads
          /\ PoolFields(engine.pool) /\ Routed(engine.pool, engine.finalized)
          /\ engine.pending # None =>
                /\ valid_proposal(engine.finalized, engine.pending.block)
                /\ engine.pending.result = execute(engine.finalized, engine.pending.block.body)

\* The inductive invariant behind RecoveryExact.
ChainInv ==
    /\ WellFormed(peer) /\ height(peer) <= MaxHeight
    /\ initialized(disk) =>
          /\ Recoverable(disk)
          /\ WellFormed(Tip(disk))
    /\ ~initialized(disk) => disk = EmptyDisk
    /\ engine # Down /\ engine.pending # None => height(engine.finalized) < MaxHeight

\* The inductive invariant behind AdmittedKept: pool and proposal hold entries in their
\* places only, and the proposal's block has exactly the transactions reserved for it.
PoolKept ==
    engine # Down =>
        /\ ExactCounts(engine.pool)
        /\ Placed(engine.pool, engine.pool.entries)
        /\ engine.pending # None =>
              /\ Placed(engine.pool, engine.pending.reserved)
              /\ engine.pending.block.body
                    = {engine.pending.reserved[k] : k \in Held(engine.pending.reserved)}

\* The inductive invariant behind HistoryServed.
LocationInv == initialized(disk) => Located(disk)

\* Well-typed; the durable chain, the exposed chain and the announcements agree; the
\* pool and the pending proposal belong to the exposed chain; the database replays to it.
EngineInv == TypeOK /\ LogInv /\ RouteInv /\ ChainInv /\ PoolKept /\ LocationInv
=============================================================================
