-------------------------------- MODULE Storage --------------------------------
(***************************************************************************)
(* arbor-storage's Database: the finalized marker, the domain heads, the   *)
(* state roots with their reachability manifests, the content-addressed    *)
(* trie nodes all domains share, the flat cache, and the retention pass    *)
(* that prunes old roots after a commit.                                   *)
(*                                                                         *)
(* One parity-db transaction is one step.  `commit` is one transaction for *)
(* the batch and then, outside it, one for every root it prunes, so the    *)
(* process can stop between any two of them.  A state root stands for its  *)
(* snapshot: NodesOf and LeavesOf are the nodes and the leaves it reaches. *)
(* A root record and its manifest are always written and deleted together  *)
(* and are one function here.                                              *)
(***************************************************************************)
EXTENDS Integers, FiniteSets

CONSTANTS
    Domain,     \* domain IDs
    RootDomain, \* the domain genesis creates
    Root,       \* state roots
    NoRoot,     \* absent root record
    TrieNode,       \* trie nodes, by content hash
    NodesOf,    \* Root -> the nodes of its snapshot
    LeafKey,
    LeavesOf,   \* Root -> [LeafKey -> leaf value or NoLeaf]
    NoLeaf,
    MaxHeight,  \* bound on consensus heights
    History     \* RetentionPolicy: 0 for Archive, else Full { history }

Height == 0 .. MaxHeight

ASSUME StorageAssumption ==
    /\ RootDomain \in Domain
    /\ NoRoot \notin Root
    /\ NodesOf \in [Root -> SUBSET TrieNode]
    /\ \A r \in Root : LeavesOf[r] = [k \in LeafKey |-> LeavesOf[r][k]]
    /\ MaxHeight \in Nat /\ History \in Nat

VARIABLES
    marker,     \* finalized marker height, -1 before genesis
    head,       \* latest_head of every domain: its height, -1 if it has none
    manifests,  \* root and manifest records, by domain and height
    nodes,      \* COLUMN_TRIE_NODES
    flat,       \* COLUMN_FLAT_STATE
    retaining,  \* domains the running commit's retention pass has yet to visit
    committed   \* history variable: every domain state ever committed, with its height

vars == <<marker, head, manifests, nodes, flat, retaining, committed>>

-----------------------------------------------------------------------------
NoLeaves == [k \in LeafKey |-> NoLeaf]

HeadRoot(d) == manifests[d][head[d]]

HeadLeaves(d) == IF head[d] = -1 THEN NoLeaves ELSE LeavesOf[HeadRoot(d)]

\* Mutant: other domains are not asked.
live_node_hashes_own(d, h) ==
    {n \in TrieNode : \E i \in Height \ {h} :
        manifests[d][i] # NoRoot /\ n \in NodesOf[manifests[d][i]]}

\* live_node_hashes(excluding): the nodes of every other manifest of every domain.
live_node_hashes(d, h) ==
    {n \in TrieNode : \E e \in Domain, i \in Height :
        /\ e # d \/ i # h
        /\ manifests[e][i] # NoRoot
        /\ n \in NodesOf[manifests[e][i]]}

\* Mutant: the window is one height short.
cutoff_short == IF History > marker THEN 0 ELSE marker - (History - 2)

\* apply_retention: the heights of a domain it prunes, lowest first.
cutoff == IF History = 0 THEN 0
          ELSE IF History - 1 > marker THEN 0 ELSE marker - (History - 1)

OldHeights(d) == {h \in Height : manifests[d][h] # NoRoot /\ h < cutoff}

-----------------------------------------------------------------------------
Init ==
    /\ marker = -1
    /\ head = [d \in Domain |-> -1]
    /\ manifests = [d \in Domain |-> [h \in Height |-> NoRoot]]
    /\ nodes = {}
    /\ flat = [d \in Domain |-> NoLeaves]
    /\ retaining = {}
    /\ committed = {}

\* Mutant: leaves the new root does not have stay in the cache.
NewFlat_keeping(d, root) ==
    [k \in LeafKey |->
        IF LeavesOf[root][k] # NoLeaf THEN LeavesOf[root][k] ELSE flat[d][k]]

\* append_state_changes on the flat cache: leaves of the old head that the new root
\* does not have are deleted, all leaves of the new root are written.
NewFlat(d, root) ==
    [k \in LeafKey |->
        IF LeavesOf[root][k] # NoLeaf THEN LeavesOf[root][k]
        ELSE IF HeadLeaves(d)[k] # NoLeaf THEN NoLeaf
        ELSE flat[d][k]]

\* The transaction of Database::commit: marker height h; `root` and `at` give the new
\* state of every domain in S and the consensus height of its header.
CommitBatch(h, S, root, at) ==
    /\ retaining = {}
    /\ h > marker
    /\ \A d \in S : at[d] <= h
    /\ \A d \in S : head[d] # -1 => HeadRoot(d) # NoRoot
    /\ marker' = h
    /\ head' = [d \in Domain |-> IF d \in S THEN at[d] ELSE head[d]]
    /\ manifests' = [d \in Domain |-> [i \in Height |->
                        IF d \in S /\ i = at[d] THEN root[d] ELSE manifests[d][i]]]
    /\ nodes' = nodes \cup UNION {NodesOf[root[d]] : d \in S}
    /\ flat' = [d \in Domain |-> IF d \in S THEN NewFlat(d, root[d]) ELSE flat[d]]
    /\ retaining' = IF History = 0 THEN {} ELSE S
    /\ committed' = committed \cup {<<d, at[d]>> : d \in S}

\* The engine's commits.  initialize_database writes the root domain at height 0;
\* a proposal or an imported block writes the domains it touches at the next height;
\* a checkpoint, taken at height 0 only, writes every domain it has at the height of
\* that domain's last header, a root domain that is still at genesis unchanged.
CommitGenesis(r) ==
    /\ marker = -1
    /\ CommitBatch(0, {RootDomain}, [d \in {RootDomain} |-> r], [d \in {RootDomain} |-> 0])

CommitBlock(S, root) ==
    /\ marker # -1 /\ marker < MaxHeight
    /\ CommitBatch(marker + 1, S, root, [d \in S |-> marker + 1])

CommitCheckpoint(h, S, root, at) ==
    /\ marker = 0
    /\ RootDomain \in S
    /\ at[RootDomain] = 0 => root[RootDomain] = HeadRoot(RootDomain)
    /\ \A d \in S \ {RootDomain} : at[d] > 0
    /\ CommitBatch(h, S, root, at)

-----------------------------------------------------------------------------
\* One iteration of apply_retention: prune_root on the lowest old height of a domain.
\* On the current head it fails, which ends the pass (stats.pruning_error).
Prune(d) ==
    /\ d \in retaining
    /\ \E h \in OldHeights(d) :
          /\ \A j \in OldHeights(d) : h <= j
          /\ \/ /\ h = head[d]
                /\ retaining' = {}
                /\ UNCHANGED <<manifests, nodes>>
             \/ /\ h # head[d]
                /\ manifests' = [manifests EXCEPT ![d][h] = NoRoot]
                /\ nodes' = nodes \ (NodesOf[manifests[d][h]] \ live_node_hashes(d, h))
                /\ UNCHANGED retaining
    /\ UNCHANGED <<marker, head, flat, committed>>

\* A domain with nothing (more) to prune.
Visited(d) ==
    /\ d \in retaining
    /\ OldHeights(d) = {}
    /\ retaining' = retaining \ {d}
    /\ UNCHANGED <<marker, head, manifests, nodes, flat, committed>>

\* The process stops inside the retention pass and is reopened.
Crash ==
    /\ retaining # {}
    /\ retaining' = {}
    /\ UNCHANGED <<marker, head, manifests, nodes, flat, committed>>

clear_flat_state(d) ==
    /\ retaining = {}
    /\ flat' = [flat EXCEPT ![d] = NoLeaves]
    /\ UNCHANGED <<marker, head, manifests, nodes, retaining, committed>>

\* Rebuilding the cache of a domain from the trie of its current root.
rebuild_flat_state(d) ==
    /\ retaining = {} /\ head[d] # -1
    /\ NodesOf[HeadRoot(d)] \subseteq nodes
    /\ flat' = [flat EXCEPT ![d] = [k \in LeafKey |->
                   IF LeavesOf[HeadRoot(d)][k] # NoLeaf THEN LeavesOf[HeadRoot(d)][k]
                   ELSE flat[d][k]]]
    /\ UNCHANGED <<marker, head, manifests, nodes, retaining, committed>>

Next ==
    \/ \E r \in Root : CommitGenesis(r)
    \/ \E S \in SUBSET Domain : \E root \in [S -> Root] : CommitBlock(S, root)
    \/ \E h \in Height, S \in SUBSET Domain :
          \E root \in [S -> Root], at \in [S -> Height] : CommitCheckpoint(h, S, root, at)
    \/ \E d \in Domain :
          Prune(d) \/ Visited(d) \/ clear_flat_state(d) \/ rebuild_flat_state(d)
    \/ Crash

Spec == Init /\ [][Next]_vars

-----------------------------------------------------------------------------
TypeOK ==
    /\ marker \in Height \cup {-1}
    /\ head \in [Domain -> Height \cup {-1}]
    /\ manifests \in [Domain -> [Height -> Root \cup {NoRoot}]]
    /\ nodes \subseteq TrieNode
    /\ retaining \subseteq Domain
    /\ committed \subseteq Domain \X Height

\* Pruning never breaks a root it keeps: every node of every retained root is stored,
\* although domains share nodes, roots are pruned one transaction at a time, and the
\* process may stop between any two.  A missing node makes the root unreadable.
ManifestsComplete ==
    \A d \in Domain, h \in Height :
        manifests[d][h] # NoRoot => NodesOf[manifests[d][h]] \subseteq nodes

\* And it leaks nothing: every stored node belongs to a root that is still retained.
NoOrphanNodes ==
    \A n \in nodes : \E d \in Domain, h \in Height :
        manifests[d][h] # NoRoot /\ n \in NodesOf[manifests[d][h]]

\* The latest head of a domain always has its root, however long the domain has been
\* idle and however far the cutoff has moved past it: without it the domain cannot
\* execute and the next commit fails with "missing latest manifest".
HeadRetained ==
    \A d \in Domain : head[d] # -1 => HeadRoot(d) # NoRoot

\* A domain's flat cache is either cleared or exactly the leaves of its head, also when
\* commits follow a clear and no rebuild happened in between.
FlatIsHeadOrCleared ==
    \A d \in Domain : flat[d] \in {NoLeaves, HeadLeaves(d)}

\* Full retention never prunes inside its window: every state committed at one of the
\* last `history` consensus heights keeps its root, through interrupted and resumed
\* retention passes.
WindowKept ==
    \A x \in committed : x[2] > marker - History => manifests[x[1]][x[2]] # NoRoot

\* No record lies above the marker, and genesis wrote the root domain only.
RecordsBelowMarker ==
    /\ \A d \in Domain : head[d] <= marker
    /\ \A d \in Domain, h \in Height : manifests[d][h] # NoRoot => h <= marker
    /\ marker # -1 => head[RootDomain] # -1

\* The inductive invariant behind ManifestsComplete, NoOrphanNodes and HeadRetained.
StorageInv ==
    /\ TypeOK
    /\ ManifestsComplete
    /\ NoOrphanNodes
    /\ HeadRetained
    /\ RecordsBelowMarker
=============================================================================
