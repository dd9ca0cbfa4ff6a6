----------------------------- MODULE SchedulerOps -----------------------------
(***************************************************************************)
(* SingleValidatorEngine::select_transactions: which pooled transactions   *)
(* the next proposal takes; and the limits that ChainMachine::execute puts *)
(* on a block, of which the selection heeds those on gas and numbers of    *)
(* transactions.  The loops of the selection that stop at the first entry  *)
(* that does not fit take a prefix in (sender, nonce) order, and a prefix  *)
(* is stated here as the entries all of whose predecessors fit.            *)
(***************************************************************************)
EXTENDS Integers, FiniteSets

LOCAL INSTANCE Folds

CONSTANTS
    gas_limit,                     \* DomainConfig::gas_limit of every domain
    MAX_CONSENSUS_BLOCK_GAS,
    MAX_FAIR_DOMAIN_TRANSACTIONS,
    MAX_DEV_PROPOSAL_TRANSACTIONS,
    MAX_BATCHES_PER_BLOCK,
    MAX_TRANSACTIONS_PER_BATCH,
    MAX_CONSENSUS_BLOCK_BYTES

Total(weight(_), T) == MapThenFoldSet(+, 0, weight, LAMBDA S : CHOOSE t \in S : TRUE, T)

Gas(T) == Total(LAMBDA t : t.gas_limit, T)

GasUsed(T) == Total(LAMBDA t : t.gas_used, T)

Bytes(T) == Total(LAMBDA t : t.size, T)

\* The limits on a block whose transactions are `body`, in one batch for every domain that has
\* any.  `size` is a transaction's share of the encoded block.
within_limits(body, batches) ==
    /\ Cardinality({d \in DOMAIN batches : batches[d] # {}}) <= MAX_BATCHES_PER_BLOCK
    /\ \A d \in DOMAIN batches :
          /\ Cardinality(batches[d]) <= MAX_TRANSACTIONS_PER_BATCH
          /\ GasUsed(batches[d]) <= gas_limit[d]
    /\ GasUsed(body) <= MAX_CONSENSUS_BLOCK_GAS
    /\ Bytes(body) <= MAX_CONSENSUS_BLOCK_BYTES

before(t, entries) ==
    {u \in entries : u.sender < t.sender \/ (u.sender = t.sender /\ u.nonce < t.nonce)}

\* Mutant: the first turn is always the lowest domain's.
domain_at_fixed(i, ds, cursor) ==
    CHOOSE d \in ds : Cardinality({e \in ds : e < d}) = i

\* The domain of the i-th turn: the ready domains by ID, rotated left by the cursor.
domain_at(i, ds, cursor) ==
    CHOOSE d \in ds :
        Cardinality({e \in ds : e < d}) = (i + cursor) % Cardinality(ds)

\* Mutant: the gas of earlier turns and the domain's share are forgotten.
fits_alone(t, entries, d, fair_share, selected) ==
    /\ Cardinality(before(t, entries)) < MAX_FAIR_DOMAIN_TRANSACTIONS
    /\ Gas(before(t, entries)) + t.gas_limit <= gas_limit[d]

\* An entry fits after its predecessors in the domain and the earlier turns' selection.
fits(t, entries, d, fair_share, selected) ==
    LET quota      == IF fair_share < gas_limit[d] THEN fair_share ELSE gas_limit[d]
        domain_gas == Gas(before(t, entries))
        next       == domain_gas + t.gas_limit
        taken      == Cardinality(before(t, entries))
    IN  /\ taken < MAX_FAIR_DOMAIN_TRANSACTIONS
        /\ next <= gas_limit[d]
        /\ Gas(selected) + next <= MAX_CONSENSUS_BLOCK_GAS
        /\ next <= quota \/ domain_gas = 0
        /\ Cardinality(selected) + taken < MAX_DEV_PROPOSAL_TRANSACTIONS

turn(entries, d, fair_share, selected) ==
    {t \in entries : \A u \in before(t, entries) \cup {t} :
                         fits(u, entries, d, fair_share, selected)}

\* The turns of the ready domains ds, each with what the turns before it left over.
take_turns(entries, ds, cursor) ==
    LET fair_share == MAX_CONSENSUS_BLOCK_GAS \div Cardinality(ds)
        after[i \in 0 .. Cardinality(ds)] ==
            IF i = 0 THEN {}
            ELSE UNION {selected \cup turn(entries[d], d, fair_share, selected) :
                           d \in {domain_at(i - 1, ds, cursor)}, selected \in {after[i - 1]}}
    IN  after[Cardinality(ds)]

\* `entries` gives the executable entries of every domain.
select_transactions(entries, cursor) ==
    UNION {take_turns(entries, ds, cursor) : ds \in {{d \in DOMAIN entries : entries[d] # {}}}}
=============================================================================
