------------------------------ MODULE EngineOps ------------------------------
(***************************************************************************)
(* The values of SingleValidatorEngine and of its Database, and the        *)
(* functions of the engine's methods on them: what a storage commit        *)
(* writes, what recovery by replay reads back, what building, abandoning   *)
(* and publishing a block make of the engine.                              *)
(*                                                                         *)
(* The retention pass is taken whole here; Storage.tla has it step by      *)
(* step.                                                                   *)
(***************************************************************************)
EXTENDS SchedulerOps, ChainOps

CONSTANTS
    MaxHeight,      \* bound on consensus heights
    History,        \* RetentionPolicy: 0 for Archive, else Full { history }
    RetainedDomain, \* DomainHistoryRetention
    PeerBody,       \* bodies of the blocks another node may finalize
    Down, None

ASSUME EngineAssumption ==
    /\ MaxHeight \in Nat /\ History \in Nat
    /\ gas_limit \in [Domain -> Nat]
    /\ RetainedDomain \subseteq Domain
    /\ PeerBody \subseteq SUBSET Transaction
    /\ IsFiniteSet(Domain) /\ IsFiniteSet(Transaction)

\* Chain states, blocks, markers and proposals; None is none of them.
BlockRecord == [body : SUBSET Transaction, heads : [Domain -> FinalizedDomain]]

ChainState == [hash : Seq(BlockRecord), domains : [Domain -> FinalizedDomain]]

Marker == [height : Nat \cup {-1}, hash : Seq(BlockRecord), heads : [Domain -> FinalizedDomain]]

Block ==
    [parent_hash : Seq(BlockRecord), body : SUBSET Transaction, heads : [Domain -> FinalizedDomain]]

Proposal == [block : Block, result : ChainState, reserved : Entries]

ASSUME NoneAssumption == None \notin ChainState /\ None \notin Block /\ None \notin Proposal

Height == 1 .. MaxHeight

-----------------------------------------------------------------------------
\* The database: marker and WAL, block bodies, latest heads, retained state roots,
\* checkpoint, receipts with their transaction locations.
NoMarker == [height |-> -1, hash |-> <<>>, heads |-> [d \in Domain |-> AbsentDomain]]

EmptyDisk ==
    [marker     |-> NoMarker,
     wal        |-> NoMarker,
     blocks     |-> [h \in Height |-> None],
     heads      |-> [d \in Domain |-> None],
     roots      |-> {},
     checkpoint |-> None,
     locations  |-> {}]

initialized(dk) == dk.marker.height # -1

marker_of(st) ==
    [height |-> height(st), hash |-> st.hash, heads |-> domain_heads_root(st)]

head_of(dom) == [height |-> dom.consensus_height, root |-> dom.state]

cutoff(h) == IF History = 0 \/ History - 1 > h THEN 0 ELSE h - (History - 1)

\* apply_retention: domains in order; meeting a current head ends the pass.
retained(roots, heads, S, h) ==
    {r \in roots :
        \/ r.domain \notin S
        \/ r.height >= cutoff(h)
        \/ r.height = heads[r.domain].height
        \/ \E e \in S : e < r.domain /\ heads[e].height < cutoff(h)}

\* Database::commit of the marker of st and of its domains in S.
new_heads(dk, st, S) ==
    [d \in Domain |-> IF d \in S THEN head_of(st.domains[d]) ELSE dk.heads[d]]

new_roots(st, S) ==
    {[domain |-> d, height |-> st.domains[d].consensus_height, root |-> st.domains[d].state] :
        d \in S}

commit(dk, st, S) ==
    [dk EXCEPT !.marker = marker_of(st),
               !.wal    = marker_of(st),
               !.heads  = new_heads(dk, st, S),
               !.roots  = retained(@ \cup new_roots(st, S), new_heads(dk, st, S), S, height(st))]

initialize_database == commit(EmptyDisk, genesis, {RootDomain})

\* The locations of the transactions of a body at height h, in the retained domains.
locations_of(st, body, h) ==
    UNION {{[tx |-> t, height |-> h, domain |-> d] : t \in batch(st, body, d)} :
               d \in RetainedDomain \cap Live(st)}

\* Mutant: a location names the parent's height.
located_early(block, st) == locations_of(st, block.body, height(st) - 1)

\* proposal_commit_batch: a block writes the domains it executed or created, its body,
\* and the receipts and locations of the domains whose history is retained.
written(st) == {d \in Live(st) : st.domains[d].consensus_height = height(st)}

located(block, st) == locations_of(st, block.body, height(st))

commit_block(dk, block, st) ==
    [commit(dk, st, written(st)) EXCEPT
        !.blocks[height(st)] = block,
        !.locations = @ \cup located(block, st)]

\* Mutant: the checkpoint record itself is not written.
commit_checkpoint_bare(dk, st) == commit(dk, st, Live(st))

commit_checkpoint(dk, st) == [commit(dk, st, Live(st)) EXCEPT !.checkpoint = st]

-----------------------------------------------------------------------------
\* decode_checkpoint reads the trie of every domain state the checkpoint names.
checkpoint_readable(dk) ==
    \A d \in Live(dk.checkpoint) :
        \E r \in dk.roots : r.root = dk.checkpoint.domains[d].state

recovery_base(dk) == IF dk.checkpoint = None THEN genesis ELSE dk.checkpoint

\* The replay loop of open_with_history: the state after height h, None on an error.
replay(dk, base) ==
    LET at[h \in height(base) .. MaxHeight] ==
            IF h = height(base) THEN base
            ELSE LET st == at[h - 1]
                     b  == dk.blocks[h]
                 IN  IF st = None \/ b = None THEN None
                     ELSE IF valid_proposal(st, b) THEN execute(st, b.body) ELSE None
    IN  at[dk.marker.height]

verify_recovered(dk, st) ==
    /\ dk.marker = marker_of(st)
    /\ dk.wal = dk.marker
    /\ \A d \in Live(st) : dk.heads[d] = head_of(st.domains[d])

\* The state open_with_history recovers from an initialized database, None on an error.
recovered(dk) ==
    IF dk.checkpoint # None /\ ~checkpoint_readable(dk) THEN None
    ELSE LET base == recovery_base(dk)
         IN  IF height(base) > dk.marker.height THEN None
             ELSE LET st == replay(dk, base)
                  IN  IF st # None /\ verify_recovered(dk, st) THEN st ELSE None

\* The pool with every domain of st registered.
registered(p, st) ==
    [p EXCEPT !.chain_ids = [d \in Domain |->
                  IF d \in Live(st) THEN st.domains[d].chain_id ELSE p.chain_ids[d]],
              !.used_chain_ids = @ \cup {st.domains[d].chain_id : d \in Live(st)}]

opened(st) ==
    [finalized |-> st, pool |-> registered(EmptyPool, st), pending |-> None, cursor |-> 0]

-----------------------------------------------------------------------------
\* The executable entries of every finalized domain, over all its senders.
ready_entries(p, st) ==
    [d \in Domain |->
        IF d \notin Live(st) THEN {}
        ELSE UNION {{p.entries[<<d, s, n>>] : n \in ready(p, d, s, nonce(st, d, s))} :
                        s \in senders(p, d)}]

\* build_proposal on engine value e; a candidate that does not execute, or whose
\* timestamp is out of range, gives its reservations back.
built(e, timely) ==
    LET selected == select_transactions(ready_entries(e.pool, e.finalized), e.cursor)
        reserved == reserved_by(e.pool, selected)
        rest     == reserve_hashes(e.pool, selected)
        body     == {reserved[k] : k \in Held(reserved)}
    IN  IF timely /\ executable(e.finalized, body)
        THEN [e EXCEPT !.pool = rest,
                       !.pending = [block    |-> block_of(e.finalized, body),
                                    result   |-> execute(e.finalized, body),
                                    reserved |-> reserved]]
        ELSE [e EXCEPT !.pool = restore_reserved(rest, reserved)]

\* Mutant: an abandoned proposal takes its transactions with it.
abandoned_dropping(e) == [e EXCEPT !.pending = None]

\* abandon_proposal.
abandoned(e) ==
    [e EXCEPT !.pool = restore_reserved(e.pool, e.pending.reserved), !.pending = None]

\* What commit_validated checks before the storage commit: register_domain accepts
\* every domain of the new state, and the marker moves forward.
commit_ok(e, dk, st) ==
    /\ \A d \in Live(st) : register_ok(e.pool, d, st.domains[d].chain_id)
    /\ height(st) > dk.marker.height

\* What it publishes after the storage commit.
published(e, block, st) ==
    [finalized |-> st,
     pool      |-> reserve_hashes(registered(e.pool, st), block.body),
     pending   |-> None,
     cursor    |-> (e.cursor + 1) % Cardinality(Live(st))]

-----------------------------------------------------------------------------
\* Sequences and records of the expected shape, whatever they contain.
IsSequence(s) == s \in Seq({s[i] : i \in 1 .. Len(s)})

OneLonger(old, new) == \E i \in 1 .. Len(new) : new = Append(old, new[i])

EngineFields(e) ==
    e \in [finalized : {e.finalized}, pool : {e.pool}, pending : {e.pending}, cursor : {e.cursor}]

DiskFields(dk) ==
    dk = [marker |-> dk.marker, wal |-> dk.wal, blocks |-> dk.blocks, heads |-> dk.heads,
          roots |-> dk.roots, checkpoint |-> dk.checkpoint, locations |-> dk.locations]

DomainFields(dom) ==
    dom \in [chain_id : {dom.chain_id}, number : {dom.number},
             consensus_height : {dom.consensus_height}, state : {dom.state}]

PoolFields(p) ==
    p \in [chain_ids : {p.chain_ids}, used_chain_ids : {p.used_chain_ids},
           entries : {p.entries}, sender_counts : {p.sender_counts}]

\* The pool routes the domains of st, each by its chain ID, and no others.
Routed(p, st) ==
    /\ \A d \in Domain : p.chain_ids[d] = st.domains[d].chain_id
    /\ p.used_chain_ids = {st.domains[d].chain_id : d \in Live(st)}

\* The keys for which the engine holds a transaction, pooled or in the proposal.
HeldBy(e) ==
    Held(e.pool.entries) \cup (IF e.pending = None THEN {} ELSE Held(e.pending.reserved))

\* A state blocks can lead to: domains have distinct chain IDs, an absent one is empty,
\* and every transaction executed in a domain was for it and has used up its nonce.
WellFormed(st) ==
    /\ st \in ChainState
    /\ RootDomain \in Live(st)
    /\ \A d \in Domain : st.domains[d].consensus_height <= height(st)
    /\ \A d, e \in Live(st) : st.domains[d].chain_id = st.domains[e].chain_id => d = e
    /\ \A d \in Domain : d \notin Live(st) => st.domains[d].state = {}
    /\ \A d \in Domain : \A t \in st.domains[d].state :
          /\ t.chain_id = st.domains[d].chain_id
          /\ t.nonce < nonce(st, d, t.sender)

\* The state the durable chain had at height h, from its recovery base on.
StateAt(dk, h) ==
    [hash    |-> SubSeq(dk.marker.hash, 1, h),
     domains |-> IF h = height(recovery_base(dk)) THEN recovery_base(dk).domains
                 ELSE dk.marker.hash[h].heads]

\* The chain state a marker names.
Tip(dk) == [hash |-> dk.marker.hash, domains |-> dk.marker.heads]

\* A stored block leads from the state below it to the state at its height.
Replays(dk, h) ==
    /\ dk.blocks[h] \in Block
    /\ valid_proposal(StateAt(dk, h - 1), dk.blocks[h])
    /\ execute(StateAt(dk, h - 1), dk.blocks[h].body) = StateAt(dk, h)

\* What an initialized database contains: exactly the blocks above the base, each one
\* valid where it stands, up to the marker; the marker twice; the heads it commits to;
\* and, unless retention prunes, the states of the checkpoint.
Recoverable(dk) ==
    LET base == recovery_base(dk)
        top  == dk.marker.height
    IN  /\ base \in ChainState /\ StateAt(dk, height(base)) = base
        /\ height(base) <= top /\ top <= MaxHeight
        /\ StateAt(dk, top) = Tip(dk)
        /\ DOMAIN dk.blocks = Height
        /\ \A h \in Height :
              IF height(base) < h /\ h <= top THEN Replays(dk, h) ELSE dk.blocks[h] = None
        /\ dk.wal = dk.marker
        /\ \A d \in Domain : dk.marker.heads[d].chain_id # 0 =>
              dk.heads[d] = head_of(dk.marker.heads[d])
        /\ History = 0 /\ dk.checkpoint # None => checkpoint_readable(dk)

\* What is said about the blocks of st at the heights hs: no transaction is in two of
\* them, each one was executed, and the locations are exactly those of their transactions.
LocatedIn(st, hs, locations) ==
    /\ \A g, h \in hs : \A t \in st.hash[g].body \cap st.hash[h].body : g = h
    /\ \A h \in hs : \A t \in st.hash[h].body : \E d \in Live(st) : t \in st.domains[d].state
    /\ locations = UNION {locations_of(st, st.hash[h].body, h) : h \in hs}

\* What an initialized database says about the blocks above its base.
Located(dk) ==
    LocatedIn(Tip(dk), height(recovery_base(dk)) + 1 .. dk.marker.height, dk.locations)
=============================================================================
