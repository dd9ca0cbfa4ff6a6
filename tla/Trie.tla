-------------------------------- MODULE Trie --------------------------------
(***************************************************************************)
(* arbor-state: the secure Merkle-Patricia trie and the write overlay.     *)
(*                                                                         *)
(* Keccak is injective: the hash of a node is the node itself, and a node  *)
(* store is the set of nodes it holds.  RLP and the compact path encoding  *)
(* are modelled by the node they stand for and by its length, which        *)
(* decides whether a parent embeds the node or refers to its hash.         *)
(* A key is the sequence of nibbles of a keccak hash: two keys differ well *)
(* before their end and share no tail.                                     *)
(***************************************************************************)
EXTENDS Integers, Sequences, FiniteSets, SequencesExt

CONSTANTS Nibble,              \* 0 .. 15 in the code
          SECURE_KEY_NIBBLES, Key,
          Value, value_len(_), NoValue,
          HASH_LEN             \* a node shorter than this is embedded: 32 in the code

ASSUME TrieAssumption ==
    /\ Nibble = 0 .. (Cardinality(Nibble) - 1)
    /\ Key \subseteq [1 .. SECURE_KEY_NIBBLES -> Nibble]
    /\ NoValue \notin Value
    /\ \A k, l \in Key : k # l =>
          /\ k[SECURE_KEY_NIBBLES] # l[SECURE_KEY_NIBBLES]
          /\ \E i \in 1 .. SECURE_KEY_NIBBLES - 1 : k[i] # l[i]

-----------------------------------------------------------------------------
NoChange == <<"NoChange">>
NoChild  == [ref |-> "none"]
EMPTY_ROOT_HASH == [kind |-> "empty"]

Present(leaves) == {k \in Key : leaves[k] # NoValue}

Precedes(k, l) == \E i \in 1 .. SECURE_KEY_NIBBLES :
    k[i] < l[i] /\ \A j \in 1 .. i - 1 : k[j] = l[j]

\* The RLP length of a node: header, compact path and value or child reference.  The
\* seventeen items of a branch of secure keys are never short enough to be embedded.
encoded_len(node) ==
    LET item(child) == IF child.ref = "embedded" THEN child.len ELSE 1 + HASH_LEN
    IN  CASE node.kind = "leaf"      -> 2 + Len(node.path) \div 2 + value_len(node.value)
          [] node.kind = "extension" -> 2 + Len(node.path) \div 2 + item(node.child)
          [] node.kind = "branch"    -> HASH_LEN

child_item(node) ==
    IF encoded_len(node) < HASH_LEN
    THEN [ref |-> "embedded", node |-> node, len |-> encoded_len(node)]
    ELSE [ref |-> "hash", node |-> node]

\* Length of the prefix from `depth` on that the first and the last key share.
common_prefix(keys, depth) ==
    LET first == CHOOSE k \in keys : \A l \in keys \ {k} : Precedes(k, l)
        last  == CHOOSE k \in keys : \A l \in keys \ {k} : Precedes(l, k)
    IN  CHOOSE n \in 0 .. SECURE_KEY_NIBBLES - depth :
           /\ \A i \in 1 .. n : first[depth + i] = last[depth + i]
           /\ depth + n = SECURE_KEY_NIBBLES \/ first[depth + n + 1] # last[depth + n + 1]

path_of(key, depth, n) == SubSeq(key, depth + 1, depth + n)

RECURSIVE build_node(_, _, _)
build_node(leaves, keys, depth) ==
    LET some   == CHOOSE k \in keys : TRUE
        common == common_prefix(keys, depth)
        child(range, d) == child_item(build_node(leaves, range, d))
    IN  IF Cardinality(keys) = 1 THEN
            [kind |-> "leaf", path |-> path_of(some, depth, SECURE_KEY_NIBBLES - depth),
             value |-> leaves[some]]
        ELSE IF common > 0 THEN
            [kind |-> "extension", path |-> path_of(some, depth, common),
             child |-> child(keys, depth + common)]
        ELSE
            [kind |-> "branch", children |-> [x \in Nibble |->
                LET range == {k \in keys : k[depth + 1] = x}
                IN  IF range = {} THEN NoChild ELSE child(range, depth + 1)]]

build(leaves) ==
    IF Present(leaves) = {} THEN EMPTY_ROOT_HASH ELSE build_node(leaves, Present(leaves), 0)

\* The nodes build_node inserts, embedded ones too.
RECURSIVE nodes_of(_)
nodes_of(node) ==
    CASE node.kind = "empty"     -> {}
      [] node.kind = "leaf"      -> {node}
      [] node.kind = "extension" -> {node} \cup nodes_of(node.child.node)
      [] node.kind = "branch"    ->
            {node} \cup UNION {nodes_of(node.children[x].node) :
                                  x \in {y \in Nibble : node.children[y] # NoChild}}

\* Mutant: a root shorter than a hash is not stored either.
stored_long(root) == {node \in nodes_of(root) : encoded_len(node) >= HASH_LEN}

\* TrieSnapshot::nodes.
stored(root) == nodes_of(root)

-----------------------------------------------------------------------------
\* decode_node refuses an empty path.
decodable(node) == node.kind = "branch" \/ node.path # <<>>

\* load_hashed and resolve_child: an embedded child is part of its parent, another is read
\* from the store.
resolve_child(nodes, child) == child.ref = "embedded" \/ child.node \in nodes

\* collect_leaves: a walk over the node set `nodes` that stops at the first error.
Walked(leaves, visited) == [ok |-> TRUE, leaves |-> leaves, visited |-> visited]
Failed == [ok |-> FALSE, leaves |-> {}, visited |-> {}]

RECURSIVE walk_node(_, _, _, _)
walk_child(nodes, child, path, acc) ==
    IF ~resolve_child(nodes, child) \/ (child.ref = "hash" /\ child.node \in acc.visited) THEN Failed
    ELSE walk_node(nodes, child.node, path,
                   IF child.ref = "hash" THEN [acc EXCEPT !.visited = @ \cup {child.node}] ELSE acc)

walk_node(nodes, node, path, acc) ==
    CASE ~decodable(node) -> Failed
      [] decodable(node) /\ node.kind = "leaf" ->
            LET key == path \o node.path
            IN  IF Len(key) # SECURE_KEY_NIBBLES
                   \/ \E leaf \in acc.leaves : leaf[1] = key
                THEN Failed
                ELSE Walked(acc.leaves \cup {<<key, node.value>>}, acc.visited)
      [] decodable(node) /\ node.kind = "extension" -> walk_child(nodes, node.child, path \o node.path, acc)
      [] node.kind = "branch" ->
            FoldLeft(LAMBDA a, x :
                        IF ~a.ok \/ node.children[x - 1] = NoChild THEN a
                        ELSE walk_child(nodes, node.children[x - 1], Append(path, x - 1), a),
                     acc, [x \in 1 .. Cardinality(Nibble) |-> x])

collect_leaves(root, nodes) ==
    IF root = EMPTY_ROOT_HASH THEN Walked({}, {})
    ELSE IF root \notin nodes THEN Failed
    ELSE walk_node(nodes, root, <<>>, Walked({}, {root}))

\* Whether the path of a node continues the key.
follows(path, key, depth) == path = path_of(key, depth, Len(path))

RECURSIVE descend(_, _, _, _)
descend(nodes, node, key, depth) ==
    LET failed == [ok |-> FALSE, value |-> NoValue, proof |-> <<>>]
        ends(value) == [ok |-> TRUE, value |-> value, proof |-> <<node>>]
        to(child, d) ==
            IF ~resolve_child(nodes, child) THEN failed
            ELSE LET rest == descend(nodes, child.node, key, d)
                 IN  [rest EXCEPT !.proof = <<node>> \o @]
    IN  CASE ~decodable(node) -> failed
          [] decodable(node) /\ node.kind = "leaf" ->
                ends(IF follows(node.path, key, depth) THEN node.value ELSE NoValue)
          [] decodable(node) /\ node.kind = "extension" ->
                IF follows(node.path, key, depth) THEN to(node.child, depth + Len(node.path)) ELSE ends(NoValue)
          [] node.kind = "branch" ->
                LET child == node.children[key[depth + 1]]
                IN  IF child = NoChild THEN ends(NoValue) ELSE to(child, depth + 1)

\* External: alloy-trie's verify_proof, from its use in StateProof::verify.  It reads one
\* element per node referred to by hash and decodes an embedded child in place, as a part of
\* its parent: an element that is none of the referred nodes is refused.
RECURSIVE verifies(_, _, _, _, _)
verifies(node, key, depth, value, proof) ==
    LET last == Len(proof) = 1
        to(child, d) ==
            IF child.ref = "hash"
            THEN ~last /\ proof[2] = child.node /\ verifies(child.node, key, d, value, Tail(proof))
            ELSE verifies(child.node, key, d, value, proof)
    IN  CASE node.kind = "leaf" ->
                last /\ value = IF follows(node.path, key, depth) THEN node.value ELSE NoValue
          [] node.kind = "extension" ->
                IF follows(node.path, key, depth) THEN to(node.child, depth + Len(node.path))
                ELSE last /\ value = NoValue
          [] node.kind = "branch" ->
                LET child == node.children[key[depth + 1]]
                IN  IF child = NoChild THEN last /\ value = NoValue ELSE to(child, depth + 1)

verify_proof(root, key, value, proof) ==
    proof # <<>> /\ proof[1] = root /\ verifies(root, key, 0, value, proof)

\* EthereumStateCommitment::proof: the walk to the key, and the proof it gives verified.
state_proof(root, key, nodes) ==
    IF root = EMPTY_ROOT_HASH THEN [ok |-> TRUE, value |-> NoValue]
    ELSE IF root \notin nodes THEN [ok |-> FALSE, value |-> NoValue]
    ELSE LET found == descend(nodes, root, key, 0)
         IN  IF found.ok /\ verify_proof(root, key, found.value, found.proof)
             THEN [ok |-> TRUE, value |-> found.value]
             ELSE [ok |-> FALSE, value |-> NoValue]

-----------------------------------------------------------------------------
\* StateOverlay::commit: the leaves with the writes of an overlay applied.
NoLeaves  == [k \in Key |-> NoValue]
NoChanges == [k \in Key |-> NoChange]

commit(leaves, writes) ==
    [k \in Key |-> IF writes[k] = NoChange THEN leaves[k] ELSE writes[k]]

Pairs(leaves) == {<<k, leaves[k]>> : k \in Present(leaves)}

\* How many nibbles two keys share, and where the leaf of a key hangs among other keys.
shared(k, l) == CHOOSE n \in 0 .. SECURE_KEY_NIBBLES :
    /\ \A i \in 1 .. n : k[i] = l[i]
    /\ n = SECURE_KEY_NIBBLES \/ k[n + 1] # l[n + 1]

leaf_depth(keys, k) == 1 + Max({shared(k, l) : l \in keys \ {k}})

\* The walk to a key ends in a leaf that is embedded in its branch.
ends_embedded(leaves, key) ==
    \E k \in Present(leaves) :
        /\ Present(leaves) # {k}
        /\ shared(k, key) >= leaf_depth(Present(leaves), k)
        /\ 2 + (SECURE_KEY_NIBBLES - leaf_depth(Present(leaves), k)) \div 2 + value_len(leaves[k])
              < HASH_LEN

\* The nodes a snapshot refers to by hash, its root included.
Referenced(root) ==
    {node \in nodes_of(root) : node = root \/ encoded_len(node) >= HASH_LEN}
=============================================================================
