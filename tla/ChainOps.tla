------------------------------- MODULE ChainOps -------------------------------
(***************************************************************************)
(* arbor-chain: the finalized chain state and ChainMachine as operators.   *)
(*                                                                         *)
(* Hashing is injective, so a consensus hash is the sequence of blocks it  *)
(* commits to, a domain's state root is the set of transactions executed   *)
(* in it, and a domain's block hash is its record.  Batches are in the     *)
(* order of the proposer: domain, sender, nonce; so a block body is a set  *)
(* of transactions, and a transaction's chain ID names its batch.          *)
(*                                                                         *)
(* A transaction also has `gas_limit`, the `gas_used` by its execution,    *)
(* `executes` (FALSE when execution is block-invalid in every state:       *)
(* funds, fee cap, intrinsic gas), and `creates`, the domain a             *)
(* ChainRegistry createChain call derives from the transaction hash, with  *)
(* `new_chain_id`; NoDomain for any other call.                            *)
(***************************************************************************)
EXTENDS MempoolOps, SchedulerOps, Sequences

CONSTANTS RootDomain, RootChainId, NoDomain

ASSUME ChainAssumption ==
    /\ Domain \subseteq Nat /\ Sender \subseteq Nat
    /\ RootDomain \in Domain /\ NoDomain \notin Domain
    /\ RootChainId \in Nat \ {0}
    /\ \A t, u \in Transaction : t.creates = u.creates => t = u \/ t.creates = NoDomain
    /\ \A t \in Transaction :
          /\ t.creates \in (Domain \ {RootDomain}) \cup {NoDomain}
          /\ t.gas_limit \in Nat /\ t.gas_used \in 0 .. t.gas_limit /\ t.executes \in BOOLEAN
          /\ t.new_chain_id \in Nat \ {0}

-----------------------------------------------------------------------------
FinalizedDomain ==
    [chain_id : Nat, number : Nat, consensus_height : Nat, state : SUBSET Transaction]

AbsentDomain == [chain_id |-> 0, number |-> 0, consensus_height |-> 0, state |-> {}]

\* FinalizedChainState: `hash` is the consensus hash.
genesis ==
    [hash    |-> <<>>,
     domains |-> [d \in Domain |->
         IF d = RootDomain THEN [AbsentDomain EXCEPT !.chain_id = RootChainId]
         ELSE AbsentDomain]]

height(st) == Len(st.hash)

Live(st) == {d \in Domain : st.domains[d].chain_id # 0}

domain_heads_root(st) == st.domains

nonce(st, d, s) == Cardinality({t \in st.domains[d].state : t.sender = s})

-----------------------------------------------------------------------------
batch(st, body, d) == {t \in body : t.chain_id = st.domains[d].chain_id}

\* Execution does not stop at an error: the block is within the limits, and every transaction
\* is for a finalized domain, is valid, and carries the nonce its sender has by then.
executable(st, body) ==
    /\ within_limits(body, [d \in Live(st) |-> batch(st, body, d)])
    /\ \A t \in body : t.executes /\ \E d \in Live(st) : t \in batch(st, body, d)
    /\ \A d \in Live(st) : \A t \in batch(st, body, d) :
          /\ \A u \in batch(st, body, d) : u.sender = t.sender /\ u.nonce = t.nonce => u = t
          /\ t.nonce = nonce(st, d, t.sender)
                + Cardinality({u \in batch(st, body, d) : u.sender = t.sender /\ u.nonce < t.nonce})

Precedes(t, u) == t.sender < u.sender \/ (t.sender = u.sender /\ t.nonce < u.nonce)

\* The createChain calls of the root batch that do not revert: the first one for a
\* chain ID no domain has.
creations(st, body) ==
    LET calls == {t \in batch(st, body, RootDomain) : t.creates # NoDomain}
    IN  {t \in calls :
            /\ \A d \in Live(st) : st.domains[d].chain_id # t.new_chain_id
            /\ \A u \in calls : u.new_chain_id = t.new_chain_id => ~Precedes(u, t)}

\* insert_created_domain: number zero, at the height of the creating block.
created_domain(t, h) ==
    [AbsentDomain EXCEPT !.chain_id = t.new_chain_id, !.consensus_height = h]

execute_domain(dom, transactions, h) ==
    [dom EXCEPT !.number = @ + 1, !.consensus_height = h, !.state = @ \cup transactions]

resulting_domains(st, body) ==
    LET h == height(st) + 1
    IN  [d \in Domain |->
            IF d \in Live(st) THEN
                IF batch(st, body, d) = {} THEN st.domains[d]
                ELSE execute_domain(st.domains[d], batch(st, body, d), h)
            ELSE IF \E t \in creations(st, body) : t.creates = d
                 THEN created_domain(CHOOSE t \in creations(st, body) : t.creates = d, h)
                 ELSE st.domains[d]]

-----------------------------------------------------------------------------
\* A consensus block: its parent's hash, its body, and the heads its header claims.
block_of(st, body) ==
    [parent_hash |-> st.hash, body |-> body, heads |-> resulting_domains(st, body)]

block_hash(b) == Append(b.parent_hash, [body |-> b.body, heads |-> b.heads])

\* ChainMachine::execute: the state a block results in.
execute(st, body) ==
    [hash    |-> block_hash(block_of(st, body)),
     domains |-> resulting_domains(st, body)]

\* Every header and root of a block is the one its execution results in.
compare_candidate(actual, expected) == actual = expected

\* ChainMachine::validate_proposal.
valid_proposal(st, b) ==
    /\ b.parent_hash = st.hash
    /\ executable(st, b.body)
    /\ compare_candidate(b, block_of(st, b.body))

\* The domains of a checkpoint: no head above its height, no chain ID twice.
reconstruct_checkpoint_domains(st) ==
    /\ \A d \in Live(st) : st.domains[d].consensus_height <= height(st)
    /\ \A d, e \in Live(st) : st.domains[d].chain_id = st.domains[e].chain_id => d = e

\* FinalizedChainState::from_checkpoint, on a view some node finalized.
checkpoint_ok(st) ==
    /\ height(st) # 0
    /\ Live(st) # {}
    /\ reconstruct_checkpoint_domains(st)
    /\ RootDomain \in Live(st)
=============================================================================
