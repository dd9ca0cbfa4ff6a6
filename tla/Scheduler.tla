------------------------------- MODULE Scheduler -------------------------------
(***************************************************************************)
(* The scheduling of a producing engine over many blocks: what every       *)
(* domain has ready, the cursor that rotates with each commit, and one     *)
(* selection for every block.  All domains are finalized and their senders *)
(* keep submitting; a transaction stays ready until a block takes it.  A   *)
(* block that execution refuses ends the node.                             *)
(***************************************************************************)
EXTENDS SchedulerOps, FiniteSetsExt, TLC

CONSTANTS
    Domain,   \* IDs of the finalized domains, ordered
    Load      \* the transactions every domain may have ready, in any combination

ASSUME SchedulerAssumption ==
    /\ Domain \subseteq Nat
    /\ gas_limit \in [Domain -> Nat]
    /\ \A d \in Domain : \A t \in Load[d] :
          /\ t.gas_limit \in Nat /\ t.sender \in Nat /\ t.nonce \in Nat
          /\ t.gas_used \in 0 .. t.gas_limit /\ t.size \in Nat /\ t.executes \in BOOLEAN

VARIABLES live,     \* the finalized domains
          waiting, cursor,
          ended,    \* an error of produce_block has ended the node
          before_ready,   \* history: the domains that had something ready for the last block
          skipped         \* history: how many blocks in a row have passed a domain over

vars == <<live, waiting, cursor, ended, before_ready, skipped>>

\* The domains are ordered, and it does not matter which are finalized but how many.
Init ==
    /\ live \in {{d \in Domain : d <= last} : last \in Domain}
    /\ waiting = [d \in live |-> {}]
    /\ cursor = 0
    /\ ended = FALSE
    /\ before_ready = {}
    /\ skipped = [d \in live |-> 0]

\* submit_raw, of a transaction that ends its sender's run of ready ones.
Submit(d, t) ==
    /\ ~ ended
    /\ \A u \in waiting[d] : u.sender = t.sender => u.nonce < t.nonce
    /\ waiting' = [waiting EXCEPT ![d] = @ \cup {t}]
    /\ UNCHANGED <<live, cursor, ended, before_ready, skipped>>

\* The ready entries; domains may have like transactions, so an entry names its own.
entries == [d \in live |-> {[domain_id |-> d] @@ t : t \in waiting[d]}]

of_domain(selected, d) == {t \in waiting[d] : [domain_id |-> d] @@ t \in selected}

batches(selected) == [d \in live |-> of_domain(selected, d)]

\* ChainMachine::build_proposal accepts the selection.
executes(selected) ==
    /\ within_limits(selected, batches(selected))
    /\ \A t \in selected : t.executes

ReadyDomains == {d \in live : waiting[d] # {}}

\* How many domains' first transactions fit a block, however large they are.
Slots == MAX_CONSENSUS_BLOCK_GAS \div Max({t.gas_limit : t \in UNION {Load[d] : d \in Domain}})

\* The blocks are counted from the last change of the ready domains if there are many domains.
skipped_after(selected) ==
    [d \in live |->
        IF waiting[d] = {} \/ of_domain(selected, d) # {} THEN 0
        ELSE IF ReadyDomains = before_ready \/ Cardinality(live) <= 2 * Slots THEN skipped[d] + 1
        ELSE 1]

\* produce_block builds and commits.
ProduceBlock ==
    /\ ~ ended
    /\ \E ready \in {entries} : \E selected \in {select_transactions(ready, cursor)} :
          /\ executes(selected)
          /\ waiting' = [d \in live |-> waiting[d] \ of_domain(selected, d)]
          /\ skipped' = skipped_after(selected)
    /\ cursor' = (cursor + 1) % Cardinality(live)
    /\ before_ready' = ReadyDomains
    /\ UNCHANGED <<live, ended>>

\* The build fails: the engine puts the reserved transactions back, and the error leaves
\* run_dev_node.
BuildFails ==
    /\ ~ ended
    /\ \E ready \in {entries} : ~ executes(select_transactions(ready, cursor))
    /\ ended' = TRUE
    /\ UNCHANGED <<live, waiting, cursor, before_ready, skipped>>

Next ==
    \/ \E d \in live : \E t \in Load[d] : Submit(d, t)
    \/ ProduceBlock
    \/ BuildFails

Spec == Init /\ [][Next]_vars

-----------------------------------------------------------------------------
\* "The fair scheduler does not starve other active domains": fewer blocks in a row than there
\* are domains pass over one that has a transaction ready.  With at most twice as many domains
\* as a block has room for, this holds whatever the others submit and whenever they become
\* ready and idle; with more, while the ready domains stay the same from block to block.
NoStarvation == \A d \in live : skipped[d] < Cardinality(live)

\* What may make execution refuse a selection: select_transactions counts neither the domains
\* it takes from nor the bytes, and does not execute.
Unforeseen(selected) ==
    \/ Cardinality({d \in live : of_domain(selected, d) # {}}) > MAX_BATCHES_PER_BLOCK
    \/ Bytes(selected) > MAX_CONSENSUS_BLOCK_BYTES
    \/ \E t \in selected : ~ t.executes

\* Execution refuses the block about to be built for one of these three reasons or not at all:
\* it is within the gas of the block and of every domain, and takes a prefix of every sender's
\* nonces, without which execution of the batch, and with it the whole build, would fail.
SelectionExecutable ==
    \E selected \in {select_transactions(entries, cursor)} :
        /\ executes(selected) <=> ~ Unforeseen(selected)
        /\ \A d \in live : \A t \in of_domain(selected, d) :
              before(t, waiting[d]) \subseteq of_domain(selected, d)

\* When no ready transaction is larger than the fair share, nobody is squeezed out:
\* every ready domain is in the next block, wherever the rotation starts.
SharesHonoured ==
    (\A d \in ReadyDomains : \A t \in waiting[d] :
        /\ t.gas_limit <= MAX_CONSENSUS_BLOCK_GAS \div Cardinality(ReadyDomains)
        /\ t.gas_limit <= gas_limit[d])
    => \E selected \in {select_transactions(entries, cursor)} :
          \A d \in ReadyDomains : of_domain(selected, d) # {}

\* select_transactions overlooks nothing but these three, and squeezes nobody out.
SelectionSound == SelectionExecutable /\ SharesHonoured
=============================================================================
