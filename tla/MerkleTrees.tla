------------------------------ MODULE MerkleTrees ------------------------------
(***************************************************************************)
(* The two Merkle trees of a consensus block and their proofs: arbor-      *)
(* state's sparse map of finalized domain heads, and arbor-chain's binary  *)
(* tree over the domain results of a block.                                *)
(*                                                                         *)
(* Hashing is injective: a hash is the tuple of its tagged preimage.  A    *)
(* domain's key is a sequence of SMT_DEPTH bits.  The code splits a key-   *)
(* sorted slice at the first key whose bit is one; here the entries are a  *)
(* set of keys with their leaf hashes, split by that bit.  Positions count *)
(* from zero, as in the code.                                              *)
(***************************************************************************)
EXTENDS Integers, Sequences, SequencesExt

CONSTANTS DomainId, NoHead, SMT_DEPTH, domain_head_key(_)

ASSUME DomainHeadsAssumption ==
    /\ SMT_DEPTH \in Nat \ {0}
    /\ \A d \in DomainId : domain_head_key(d) \in [1 .. SMT_DEPTH -> {0, 1}]
    /\ \A d, e \in DomainId : domain_head_key(d) = domain_head_key(e) => d = e

-----------------------------------------------------------------------------
leaf_hash(key, head) == <<"leaf", key, head>>

branch_hash(depth, left, right) == <<"branch", depth, left, right>>

RECURSIVE empty_hash(_)
empty_hash(depth) ==
    IF depth = SMT_DEPTH THEN <<"empty">>
    ELSE branch_hash(depth, empty_hash(depth + 1), empty_hash(depth + 1))

\* Bits and sibling hashes are numbered from depth zero.
bit(key, depth) == key[depth + 1]

entries(map) ==
    {[key |-> domain_head_key(d), leaf |-> leaf_hash(domain_head_key(d), map[d])] :
        d \in {e \in DomainId : map[e] # NoHead}}

half(range, depth, b) == {entry \in range : bit(entry.key, depth) = b}

\* Mutant: the empty hash of the leaves at every depth.
empty_at_leaf(depth) == empty_hash(SMT_DEPTH)

empty_at(depth) == empty_hash(depth)

RECURSIVE subtree_root(_, _)
subtree_root(range, depth) ==
    IF range = {} THEN empty_at(depth)
    ELSE IF depth = SMT_DEPTH THEN (CHOOSE entry \in range : TRUE).leaf
    ELSE branch_hash(depth, subtree_root(half(range, depth, 0), depth + 1),
                            subtree_root(half(range, depth, 1), depth + 1))

domain_heads_root(map) == subtree_root(entries(map), 0)

RECURSIVE siblings_from(_, _, _)
siblings_from(range, target, depth) ==
    IF depth = SMT_DEPTH THEN <<>>
    ELSE LET b == bit(target, depth)
         IN  <<subtree_root(half(range, depth, 1 - b), depth + 1)>>
                \o siblings_from(half(range, depth, b), target, depth + 1)

head_proof(map, d) ==
    [root      |-> domain_heads_root(map),
     domain_id |-> d,
     value     |-> map[d],
     siblings  |-> siblings_from(entries(map), domain_head_key(d), 0)]

\* The root a leaf and its siblings fold to, from the leaf upwards.
path_root(key, leaf, siblings) ==
    FoldRight(LAMBDA sibling, acc :
                 LET depth == acc.depth - 1
                 IN  [depth |-> depth,
                      hash  |-> IF bit(key, depth) = 0
                                THEN branch_hash(depth, acc.hash, sibling)
                                ELSE branch_hash(depth, sibling, acc.hash)],
              siblings, [depth |-> SMT_DEPTH, hash |-> leaf]).hash

value_leaf(key, value) ==
    IF value = NoHead THEN empty_hash(SMT_DEPTH) ELSE leaf_hash(key, value)

\* Mutant: only the number of siblings is looked at.
verify_head_unrooted(p) == Len(p.siblings) = SMT_DEPTH

verify_head(p) ==
    /\ Len(p.siblings) = SMT_DEPTH
    /\ LET key == domain_head_key(p.domain_id)
       IN  path_root(key, value_leaf(key, p.value), p.siblings) = p.root

-----------------------------------------------------------------------------
\* The root of the full tree of depth SMT_DEPTH over `map`, without the shortcut for
\* empty subtrees: the leaf of every bit string, hashed up level by level.
RECURSIVE full_root(_, _)
full_root(map, prefix) ==
    IF Len(prefix) = SMT_DEPTH
    THEN IF \E d \in DomainId : domain_head_key(d) = prefix /\ map[d] # NoHead
         THEN leaf_hash(prefix, map[CHOOSE d \in DomainId : domain_head_key(d) = prefix])
         ELSE <<"empty">>
    ELSE branch_hash(Len(prefix), full_root(map, Append(prefix, 0)),
                                  full_root(map, Append(prefix, 1)))

-----------------------------------------------------------------------------
\* The binary tree over the domain results.
collection_leaf(count, index, value) == <<"leaf", count, index, value>>
collection_branch(depth, left, right) == <<"branch", depth, left, right>>
collection_root(count, tree_hash) == <<"root", count, tree_hash>>
merkle_empty(depth) == <<"empty", depth>>

result_leaves(values) ==
    [i \in 1 .. Len(values) |-> collection_leaf(Len(values), i - 1, values[i])]

div_ceil(width) == (width + 1) \div 2

\* The node at `index`, or the padding of its level.
at(level, index, depth) == IF index < Len(level) THEN level[index + 1] ELSE merkle_empty(depth)

pairs(level, depth) ==
    [i \in 1 .. div_ceil(Len(level)) |->
        collection_branch(depth, level[2 * i - 1], at(level, 2 * i - 1, depth))]

RECURSIVE tree_hash(_, _)
tree_hash(level, depth) ==
    IF Len(level) = 1 THEN level[1] ELSE tree_hash(pairs(level, depth), depth + 1)

merkle_collection_root(values) ==
    collection_root(Len(values),
                    IF values = <<>> THEN merkle_empty(0) ELSE tree_hash(result_leaves(values), 0))

\* ConsensusBlock::domain_result_proof.
RECURSIVE siblings(_, _, _)
siblings(level, cursor, depth) ==
    IF Len(level) = 1 THEN <<>>
    ELSE <<at(level, IF cursor % 2 = 0 THEN cursor + 1 ELSE cursor - 1, depth)>>
            \o siblings(pairs(level, depth), cursor \div 2, depth + 1)

domain_result_proof(values, index) ==
    [root     |-> merkle_collection_root(values),
     result   |-> values[index + 1],
     index    |-> index,
     count    |-> Len(values),
     siblings |-> siblings(result_leaves(values), index, 0)]

\* DomainResultProof::verify.
RECURSIVE expected_levels(_)
expected_levels(width) == IF width <= 1 THEN 0 ELSE 1 + expected_levels(div_ceil(width))

path_hash(proof) ==
    FoldLeft(LAMBDA acc, sibling :
                [depth  |-> acc.depth + 1,
                 cursor |-> acc.cursor \div 2,
                 hash   |-> IF acc.cursor % 2 = 0
                            THEN collection_branch(acc.depth, acc.hash, sibling)
                            ELSE collection_branch(acc.depth, sibling, acc.hash)],
             [depth |-> 0, cursor |-> proof.index,
              hash |-> collection_leaf(proof.count, proof.index, proof.result)],
             proof.siblings).hash

\* Mutant: only the shape of the proof is looked at.
verify_result_shape(proof) ==
    /\ proof.count # 0 /\ proof.index < proof.count
    /\ Len(proof.siblings) = expected_levels(proof.count)

verify_result(proof) ==
    /\ proof.count # 0 /\ proof.index < proof.count
    /\ Len(proof.siblings) = expected_levels(proof.count)
    /\ collection_root(proof.count, path_hash(proof)) = proof.root

-----------------------------------------------------------------------------
\* The root of the tree over the results padded on every level, read top down: the tree of
\* depth expected_levels whose missing right siblings are the padding of their level.
RECURSIVE reference(_, _, _)
reference(values, depth, index) ==
    IF depth = 0 THEN collection_leaf(Len(values), index, values[index + 1])
    ELSE LET right == 2 * index + 1
         IN  collection_branch(depth - 1, reference(values, depth - 1, 2 * index),
                IF right * (2 ^ (depth - 1)) < Len(values)
                THEN reference(values, depth - 1, right) ELSE merkle_empty(depth - 1))
=============================================================================
