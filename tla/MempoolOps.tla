------------------------------ MODULE MempoolOps ------------------------------
(***************************************************************************)
(* The local transaction pool of arbor-mempool as a value and the methods  *)
(* of `Mempool` as operators from a pool to the pool they leave behind.    *)
(* Mempool.tla drives them alone, Engine.tla from the engine's operations. *)
(*                                                                         *)
(* A transaction stands for its signed envelope and for its hash (hashing  *)
(* is injective), with its sender already recovered.  The BTreeMaps of the *)
(* code are total functions here: NoTx, chain ID 0 (which                  *)
(* register_domain refuses) and count 0 (which decrement_sender removes)   *)
(* stand for an absent key.                                                *)
(***************************************************************************)
EXTENDS Integers, FiniteSets

CONSTANTS
    Domain,                      \* domain IDs
    Sender,                      \* addresses that sign transactions
    MaxNonce,                    \* bound on nonces (u64 in the code)
    MaxFee,                      \* stands for u128::MAX
    Transaction,                 \* the envelopes that can be submitted
    NoTx,                        \* absent entry
    max_transactions,            \* MempoolConfig
    max_transactions_per_sender, \* MempoolConfig
    max_transaction_bytes,       \* MempoolConfig, clamped by Mempool::new
    replacement_bump_percent     \* MempoolConfig

Nonce == 0 .. MaxNonce

Fee == 0 .. MaxFee

ASSUME TransactionAssumption ==
    /\ NoTx \notin Transaction
    /\ MaxNonce \in Nat /\ MaxFee \in Nat
    /\ replacement_bump_percent \in Nat
    /\ \A t \in Transaction :
          /\ t.sender \in Sender /\ t.nonce \in Nonce
          /\ t.chain_id \in Nat
          /\ t.max_fee \in Fee /\ t.max_priority_fee \in Fee

-----------------------------------------------------------------------------
Key == Domain \X Sender \X Nonce

SenderKey == Domain \X Sender

\* A set of pool entries, at most one for each key.
Entries == [Key -> Transaction \cup {NoTx}]

NoEntries == [k \in Key |-> NoTx]

Held(e) == {k \in Key : e[k] # NoTx}

HeldNonces(e, d, s) == {n \in Nonce : e[<<d, s, n>>] # NoTx}

Pool == [chain_ids      : [Domain -> Nat],
         used_chain_ids : SUBSET Nat,
         entries        : Entries,
         sender_counts  : [SenderKey -> Nat]]

EmptyPool == [chain_ids      |-> [d \in Domain |-> 0],
              used_chain_ids |-> {},
              entries        |-> NoEntries,
              sender_counts  |-> [sk \in SenderKey |-> 0]]

Registered(p, d) == p.chain_ids[d] # 0

pool_len(p) == Cardinality(Held(p.entries))

-----------------------------------------------------------------------------
\* Mempool::register_domain: when it returns Ok, and the pool it leaves.
register_ok(p, d, c) ==
    /\ c # 0
    /\ IF Registered(p, d) THEN p.chain_ids[d] = c ELSE c \notin p.used_chain_ids

register_domain(p, d, c) ==
    [p EXCEPT !.chain_ids[d] = c, !.used_chain_ids = @ \cup {c}]

-----------------------------------------------------------------------------
Saturate(x) == IF x > MaxFee THEN MaxFee ELSE x

replacement_min(v) ==
    LET whole == Saturate((v \div 100) * replacement_bump_percent)
        rest  == ((v % 100) * replacement_bump_percent + 99) \div 100
    IN  Saturate(v + Saturate(whole + rest))

replacement_priced(old, new) ==
    /\ new.max_fee >= replacement_min(old.max_fee)
    /\ new.max_priority_fee >= replacement_min(old.max_priority_fee)

\* True of a nonce every predecessor of which, from the state nonce, is pooled.
nonce_is_contiguous(e, d, s, state_nonce, target) ==
    \A n \in Nonce : (state_nonce <= n /\ n <= target) => e[<<d, s, n>>] # NoTx

\* Mempool::insert: the QueueStatus or the MempoolError it returns ...
insert_result(p, d, t, state_nonce) ==
    LET k  == <<d, t.sender, t.nonce>>
        sk == <<d, t.sender>>
    IN  IF ~Registered(p, d) THEN "UnknownDomain"
        ELSE IF t.size > max_transaction_bytes THEN "EnvelopeTooLarge"
        ELSE IF t.chain_id # p.chain_ids[d] THEN "WrongChainId"
        ELSE IF t.nonce < state_nonce THEN "NonceTooLow"
        ELSE IF p.entries[k] # NoTx THEN
                IF replacement_priced(p.entries[k], t) THEN "Replaced"
                ELSE "ReplacementUnderpriced"
        ELSE IF pool_len(p) >= max_transactions THEN "Capacity"
        ELSE IF p.sender_counts[sk] >= max_transactions_per_sender THEN "SenderCapacity"
        ELSE IF nonce_is_contiguous([p.entries EXCEPT ![k] = t],
                                    d, t.sender, state_nonce, t.nonce) THEN "Pending"
        ELSE "Queued"

\* Mutant: a replacement counts as one more transaction of its sender.
overwritten_counting(p, d, t) ==
    [p EXCEPT !.entries[<<d, t.sender, t.nonce>>] = t,
              !.sender_counts[<<d, t.sender>>] = @ + 1]

\* ... and the pool it leaves.
overwritten(p, d, t) == [p EXCEPT !.entries[<<d, t.sender, t.nonce>>] = t]

extended(p, d, t) ==
    [p EXCEPT !.entries[<<d, t.sender, t.nonce>>] = t,
              !.sender_counts[<<d, t.sender>>] = @ + 1]

insert(p, d, t, state_nonce) ==
    LET result == insert_result(p, d, t, state_nonce)
    IN  CASE result = "Replaced" -> overwritten(p, d, t)
          [] result \in {"Pending", "Queued"} -> extended(p, d, t)
          [] OTHER -> p

-----------------------------------------------------------------------------
\* Mempool::ready: the nonces of the contiguous executable prefix.
ready(p, d, s, state_nonce) ==
    {n \in Nonce : n >= state_nonce
                   /\ nonce_is_contiguous(p.entries, d, s, state_nonce, n)}

senders(p, d) == {s \in Sender : p.sender_counts[<<d, s>>] # 0}

\* decrement_sender(domain, sender, removed), with its saturating_sub.
decremented(count, removed) == IF removed > count THEN 0 ELSE count - removed

\* The pool without the entries of r, each removal decrementing its sender.
without(p, r) ==
    [p EXCEPT
        !.entries = [k \in Key |-> IF r[k] # NoTx THEN NoTx ELSE p.entries[k]],
        !.sender_counts = [sk \in SenderKey |->
            decremented(p.sender_counts[sk],
                        Cardinality(HeldNonces(r, sk[1], sk[2])))]]

\* Mempool::reserve_hashes: the entries it returns, and the pool it leaves.
reserved_by(p, hashes) ==
    [k \in Key |-> IF p.entries[k] \in hashes THEN p.entries[k] ELSE NoTx]

reserve_hashes(p, hashes) == without(p, reserved_by(p, hashes))

\* Mutant: a reserved entry goes back over a transaction admitted meanwhile.
restorable_over(p, r) ==
    [k \in Key |-> IF Registered(p, k[1]) THEN r[k] ELSE NoTx]

\* Mempool::restore_reserved: the entries it puts back, and the pool it leaves.
restorable(p, r) ==
    [k \in Key |-> IF p.entries[k] = NoTx /\ Registered(p, k[1]) THEN r[k] ELSE NoTx]

restore_reserved(p, r) ==
    LET back == restorable(p, r)
    IN  [p EXCEPT
            !.entries = [k \in Key |-> IF back[k] # NoTx THEN back[k] ELSE p.entries[k]],
            !.sender_counts = [sk \in SenderKey |->
                p.sender_counts[sk] + Cardinality(HeldNonces(back, sk[1], sk[2]))]]

\* Mempool::advance_nonce.
stale_entries(p, d, s, state_nonce) ==
    [k \in Key |-> IF k[1] = d /\ k[2] = s /\ k[3] < state_nonce THEN p.entries[k] ELSE NoTx]

advance_nonce(p, d, s, state_nonce) == without(p, stale_entries(p, d, s, state_nonce))

-----------------------------------------------------------------------------
\* Every per-sender counter is the number of entries the pool holds for that sender.
ExactCounts(p) ==
    \A d \in Domain, s \in Sender :
        p.sender_counts[<<d, s>>] = Cardinality(HeldNonces(p.entries, d, s))

\* The entries of e sit under their own sender and nonce, in the domain their chain
\* ID routes them to.
Placed(p, e) ==
    \A d \in Domain, s \in Sender, n \in Nonce :
        e[<<d, s, n>>] # NoTx =>
            /\ e[<<d, s, n>>].sender = s /\ e[<<d, s, n>>].nonce = n
            /\ Registered(p, d) /\ e[<<d, s, n>>].chain_id = p.chain_ids[d]
=============================================================================
