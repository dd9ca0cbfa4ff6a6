----------------------------- MODULE Commitments -----------------------------
(***************************************************************************)
(* What a consensus block commits to: ChainMachine::execute over a few     *)
(* blocks, with the trie of the root domain's state, the sparse map of the *)
(* domain heads and the Merkle root of the domain results.                 *)
(*                                                                         *)
(* The other domains keep an empty state; their headers still differ from  *)
(* block to block by their number.  A block hash is its header.            *)
(***************************************************************************)
EXTENDS Trie, MerkleTrees

CONSTANTS
    root_domain,
    Creation,     \* sets of domains that one block may create
    MaxBlocks     \* bound on the height

ASSUME CommitmentsAssumption ==
    /\ DomainId \subseteq Nat /\ root_domain \in DomainId
    /\ Creation \subseteq SUBSET (DomainId \ {root_domain})

VARIABLES
    height,
    state,           \* leaves of the root domain's state
    headers,         \* last header of every domain, NoHead where there is none
    domain_blocks,   \* results of the last block, in domain order
    parent           \* the last three before the last block

vars == <<height, state, headers, domain_blocks, parent>>

Active == {d \in DomainId : headers[d] # NoHead}

-----------------------------------------------------------------------------
genesis_header(d) == [domain_id |-> d, number |-> 0, state_root |-> EMPTY_ROOT_HASH]

Init ==
    /\ height = 0
    /\ state = NoLeaves
    /\ headers = [d \in DomainId |-> IF d = root_domain THEN genesis_header(d) ELSE NoHead]
    /\ domain_blocks = <<>>
    /\ parent = [state |-> state, headers |-> headers, domain_blocks |-> domain_blocks]

\* The header of d's next block; `leaves` is the root domain's state after it.
execute_domain(d, leaves) ==
    [headers[d] EXCEPT !.number = @ + 1,
                       !.state_root = IF d = root_domain THEN build(leaves) ELSE @]

\* ChainMachine::execute with a batch for every domain of `executed`; the root domain's batch
\* writes `writes` and creates the domains of `created`.
execute(executed, writes, created) ==
    /\ height < MaxBlocks
    /\ height' = height + 1
    /\ executed \subseteq Active
    /\ created \cap Active = {}
    /\ root_domain \notin executed => writes = NoChanges /\ created = {}
    /\ parent' = [state |-> state, headers |-> headers, domain_blocks |-> domain_blocks]
    /\ state' = commit(state, writes)
    /\ headers' = [d \in DomainId |->
          IF d \in executed THEN execute_domain(d, state')
          ELSE IF d \in created THEN genesis_header(d) ELSE headers[d]]
    /\ domain_blocks' = [i \in 1 .. Cardinality(executed) |->
          headers'[CHOOSE d \in executed : Cardinality({e \in executed : e <= d}) = i]]

Next ==
    \E executed \in SUBSET Active, created \in Creation \cup {{}},
       writes \in [Key -> Value \cup {NoValue, NoChange}] :
        execute(executed, writes, created)

Spec == Init /\ [][Next]_vars

-----------------------------------------------------------------------------
\* heads_commitment.
heads_commitment(map) ==
    [d \in DomainId |->
        IF map[d] = NoHead THEN NoHead
        ELSE [domain_block_hash |-> map[d], state_root |-> map[d].state_root]]

\* The last two snapshots, which share one node store.
Snapshots == {[root |-> build(leaves_of), leaves |-> leaves_of] :
                 leaves_of \in {state, parent.state}}

Store == UNION {stored(snapshot.root) : snapshot \in Snapshots}

\* Nothing is lost, or one node of the store.
Losses(store) == {{}} \cup {{node} : node \in store}

\* Reading a committed root back gives exactly its leaves, although the next commit shares
\* nodes with it; when a node it refers to by hash is lost, collect_leaves fails, and never
\* returns some of the leaves.
RootsReadBack ==
    \E store \in {Store} : \A s \in Snapshots : \A lost \in Losses(store) :
        LET read == collect_leaves(s.root, store \ lost)
        IN  IF Referenced(s.root) \cap lost = {}
            THEN read.ok /\ read.leaves = Pairs(s.leaves)
            ELSE ~read.ok

\* A proof from a committed root, for any key, gives the value of that snapshot or proves
\* its absence, and fails rather than prove the absence of a key whose path runs through a
\* lost node.  With no node lost it fails only for a key whose walk ends in an embedded leaf:
\* `proof` pushes that leaf as an element of its own, and its closing `verify` refuses it.
ProofsAnswer ==
    \E store \in {Store} : \A s \in Snapshots : \A lost \in Losses(store) :
        \A k \in Key :
            LET p == state_proof(s.root, k, store \ lost)
            IN  /\ p.ok => p.value = s.leaves[k]
                /\ Referenced(s.root) \cap lost = {} => (p.ok <=> ~ends_embedded(s.leaves, k))

\* The chain of proofs a client follows from the block's domain-heads root holds together:
\* the root domain's head carries the state root from which the present value, and no older
\* one, is proved for every key whose leaf is not embedded (an account's never is).
HeadProvesState ==
    LET head == heads_commitment(headers)[root_domain]
    IN  \A k \in {l \in Key : ~ends_embedded(state, l)} :
            state_proof(head.state_root, k, Store) = [ok |-> TRUE, value |-> state[k]]

\* Reading leaves back, one by one or all together, tells the truth or fails, and fails only
\* for a lost node or an embedded leaf; a client that starts from the block's domain-heads root
\* arrives at the present leaves.
LeavesReadBack == RootsReadBack /\ ProofsAnswer /\ HeadProvesState

\* The root with precomputed empty subtrees (subtree_root) is the root of the full tree.
RootIsFullTreeRoot ==
    \E heads \in {heads_commitment(headers)} :
        domain_heads_root(heads) = full_root(heads, <<>>)

\* Every proof DomainHeadsCommitment::proof makes, of membership or of absence, passes
\* DomainHeadProof::verify.
ProofsVerify ==
    \E heads \in {heads_commitment(headers)} :
        \A d \in DomainId : verify_head(head_proof(heads, d))

\* A head proof that verifies against the current root tells the truth: no other value,
\* absence included, passes for a domain, not with its own siblings, another domain's, or
\* those of the map before the last block.
ProofsBind ==
    \E heads \in {heads_commitment(headers)}, old \in {heads_commitment(parent.headers)} :
    \E root \in {domain_heads_root(heads)} :
        \A map \in {heads, old}, e \in DomainId : \E sib \in {head_proof(map, e).siblings} :
            \A d \in DomainId, value \in {heads[x] : x \in DomainId} \cup {old[root_domain], NoHead} :
                verify_head([root |-> root, domain_id |-> d, value |-> value, siblings |-> sib])
                    => value = heads[d]

\* A head proof verifies exactly when it states the head a domain has.
HeadProofsExact == ProofsVerify /\ ProofsBind

\* merkle_collection_root, which pairs level by level, is the root of the padded tree.
RootIsPaddedTree ==
    domain_blocks # <<>> =>
        merkle_collection_root(domain_blocks) =
            collection_root(Len(domain_blocks),
                            reference(domain_blocks, expected_levels(Len(domain_blocks)), 0))

\* The roots of a block header are those of the textbook trees, which share neither the
\* empty-subtree table nor the level-by-level padding of the code.
RootsAreTreeRoots == RootIsFullTreeRoot /\ RootIsPaddedTree

\* Every proof domain_result_proof makes passes verify, whatever the number of results.
ResultProofsVerify ==
    \A i \in 1 .. Len(domain_blocks) : verify_result(domain_result_proof(domain_blocks, i - 1))

\* A result proof that verifies against the root of a block tells the truth: siblings of this
\* block or of its parent prove no other result, position or count.
ResultProofsBind ==
    LET most == Cardinality(DomainId)
    IN  \E root \in {merkle_collection_root(domain_blocks)} :
        \A values \in {domain_blocks, parent.domain_blocks} : \A i \in 1 .. Len(values) :
        \E sib \in {domain_result_proof(values, i - 1).siblings} :
            \A header \in Range(domain_blocks) \cup Range(parent.domain_blocks),
               index \in 0 .. most, count \in 0 .. most :
                verify_result([root |-> root, result |-> header, index |-> index,
                               count |-> count, siblings |-> sib])
                    => count = Len(domain_blocks) /\ domain_blocks[index + 1] = header

\* A result proof verifies exactly when it states a result of the block and its place.
ResultProofsExact == ResultProofsVerify /\ ResultProofsBind
=============================================================================
