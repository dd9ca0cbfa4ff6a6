-------------------------------- MODULE Mempool --------------------------------
(***************************************************************************)
(* The pool driven through its public methods by the engine: submissions   *)
(* race with one proposal, which takes its transactions out of the pool    *)
(* (reserve_hashes) and later either gives them back (restore_reserved) or *)
(* finalizes them.                                                         *)
(***************************************************************************)
EXTENDS MempoolOps

CONSTANT ChainId                 \* chain IDs register_domain is called with

VARIABLES
    pool,         \* the Mempool value
    reserved,     \* entries held by the pending proposal, NoEntries if none
    state_nonce   \* finalized nonce of every sender in every domain

pool_vars == <<pool, reserved, state_nonce>>

ASSUME ChainIdAssumption == ChainId \subseteq Nat

PoolInit ==
    /\ pool = EmptyPool
    /\ reserved = NoEntries
    /\ state_nonce = [sk \in SenderKey |-> 0]

RegisterDomain(d, c) ==
    /\ register_ok(pool, d, c)
    /\ pool' = register_domain(pool, d, c)
    /\ UNCHANGED <<reserved, state_nonce>>

Insert(d, t) ==
    /\ pool' = insert(pool, d, t, state_nonce[<<d, t.sender>>])
    /\ UNCHANGED <<reserved, state_nonce>>

\* SingleValidatorEngine::build_proposal: at most one proposal is pending, and it
\* takes from every sender a run of nonces that starts at the finalized one.
Reserve(hashes) ==
    /\ reserved = NoEntries
    /\ reserved' = reserved_by(pool, hashes)
    /\ pool' = reserve_hashes(pool, hashes)
    /\ \A k \in Held(reserved') :
          /\ k[3] >= state_nonce[<<k[1], k[2]>>]
          /\ nonce_is_contiguous(reserved', k[1], k[2], state_nonce[<<k[1], k[2]>>], k[3])
    /\ UNCHANGED state_nonce

\* SingleValidatorEngine::abandon_proposal.
Restore ==
    /\ reserved # NoEntries
    /\ pool' = restore_reserved(pool, reserved)
    /\ reserved' = NoEntries
    /\ UNCHANGED state_nonce

\* SingleValidatorEngine::commit_validated: the included hashes leave the pool too
\* (one may have been resubmitted), and each one raises its sender's nonce.
Finalize ==
    /\ reserved # NoEntries
    /\ pool' = reserve_hashes(pool, {reserved[k] : k \in Held(reserved)})
    /\ reserved' = NoEntries
    /\ state_nonce' = [sk \in SenderKey |->
          state_nonce[sk] + Cardinality(HeldNonces(reserved, sk[1], sk[2]))]

AdvanceNonce(d, s) ==
    /\ pool' = advance_nonce(pool, d, s, state_nonce[<<d, s>>])
    /\ UNCHANGED <<reserved, state_nonce>>

PoolNext ==
    \/ \E d \in Domain, c \in ChainId : RegisterDomain(d, c)
    \/ \E d \in Domain, t \in Transaction : Insert(d, t)
    \/ \E hashes \in SUBSET Transaction : Reserve(hashes)
    \/ Restore
    \/ Finalize
    \/ \E d \in Domain, s \in Sender : AdvanceNonce(d, s)

PoolSpec == PoolInit /\ [][PoolNext]_pool_vars

-----------------------------------------------------------------------------
PoolTypeOK ==
    /\ pool \in Pool
    /\ reserved \in Entries
    /\ state_nonce \in [SenderKey -> Nat]

\* The per-sender quota counter always equals the number of entries the pool really
\* holds for that sender, whatever mix of insertions, same-nonce replacements,
\* reservations, restorations, finalizations and nonce advances led here: a drift
\* would either refuse a sender forever or hide it from `senders`, and with it from
\* the scheduler.
CountsExact == ExactCounts(pool)

\* No two registered domains share a chain ID, and the used-ID set is exactly the
\* IDs in use.
ChainIdsDistinct ==
    /\ \A d, e \in Domain :
          Registered(pool, d) /\ pool.chain_ids[d] = pool.chain_ids[e] => d = e
    /\ pool.used_chain_ids = {pool.chain_ids[d] : d \in {e \in Domain : Registered(pool, e)}}

\* A signed envelope can occupy one place only: two pool entries, or two entries of a
\* proposal, with the same transaction hash are the same entry.  reserve_hashes finds
\* entries by hash over all domains, so a hash present twice would take a transaction
\* out of a domain that did not include it.
OnePlacePerHash ==
    \A e \in {pool.entries, reserved} :
        \A k, l \in Held(e) : e[k] = e[l] => k = l

\* The inductive invariant behind CountsExact and OnePlacePerHash.
PoolInv ==
    /\ PoolTypeOK
    /\ CountsExact
    /\ ChainIdsDistinct
    /\ Placed(pool, pool.entries)
    /\ Placed(pool, reserved)

\* A pooled transaction is overwritten only by one that bumps both fee caps, also when
\* a proposal that held the same nonce is abandoned ("A replacement admitted while the
\* proposal was pending wins and is never overwritten").
OverwriteNeedsBump ==
    [][\A k \in Held(pool.entries) \cap Held(pool'.entries) :
          pool'.entries[k] # pool.entries[k]
             => replacement_priced(pool.entries[k], pool'.entries[k])]_pool_vars
=============================================================================
