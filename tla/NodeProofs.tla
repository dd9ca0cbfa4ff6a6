----------------------------- MODULE NodeProofs ------------------------------
(***************************************************************************)
(* What a node keeps, for every value of the constants.  Its database:     *)
(* retained roots are complete, no trie node is leaked, every domain keeps *)
(* the root of its head, and the flat cache is never stale.  Its votes:    *)
(* the safety record keeps a validator from voting twice, and where two    *)
(* quorums share an honest member no two blocks are certified for one slot.*)
(* Its data directory and its tasks: one peer identity, and a result that  *)
(* tells the cause.  Its sessions: one announcement each.                  *)
(***************************************************************************)
EXTENDS Storage, VoteStore, DataDirectory, Supervisor, Sessions, TLAPS

-----------------------------------------------------------------------------
\* The database.

\* A database just created satisfies the invariant.
LEMMA StorageInit == Init => StorageInv
  BY StorageAssumption
     DEF Init, StorageInv, TypeOK, ManifestsComplete, NoOrphanNodes, HeadRetained,
         RecordsBelowMarker, Height

\* What the transaction of Database::commit does to the records.  It may write over a
\* record only with the root that is there already: a fresh height, or a checkpoint's
\* unchanged genesis state.
LEMMA CommitKeeps ==
    ASSUME StorageInv, NEW h \in Height, NEW S \in SUBSET Domain,
           NEW root \in [S -> Root], NEW hs \in [S -> Height],
           CommitBatch(h, S, root, hs),
           \A d \in S : manifests[d][hs[d]] \in {NoRoot, root[d]},
           head[RootDomain] # -1 \/ RootDomain \in S
    PROVE  StorageInv'
  <1>. USE DEF StorageInv
  <1>1. /\ h > marker /\ marker' = h
        /\ \A d \in S : hs[d] <= h
        /\ head' = [d \in Domain |-> IF d \in S THEN hs[d] ELSE head[d]]
        /\ manifests' = [d \in Domain |-> [i \in Height |->
                            IF d \in S /\ i = hs[d] THEN root[d] ELSE manifests[d][i]]]
        /\ nodes' = nodes \cup UNION {NodesOf[root[d]] : d \in S}
        /\ retaining' \subseteq S
        /\ committed' = committed \cup {<<d, hs[d]>> : d \in S}
    BY Zenon DEF CommitBatch
  <1>2. \A d \in S : root[d] \in Root /\ root[d] # NoRoot /\ hs[d] \in Height
    BY StorageAssumption, Zenon
  <1>3. \A d \in Domain, i \in Height :
           manifests'[d][i] = IF d \in S /\ i = hs[d] THEN root[d] ELSE manifests[d][i]
    BY <1>1, Zenon
  <1>4. \A d \in Domain, i \in Height :
           manifests[d][i] # NoRoot => manifests'[d][i] = manifests[d][i]
    BY <1>3
  <1>5. TypeOK'
    <2>1. \A d \in S : NodesOf[root[d]] \subseteq TrieNode
      BY <1>2, StorageAssumption, Zenon
    <2>2. nodes' \subseteq TrieNode
      BY <1>1, <2>1 DEF TypeOK
    <2>3. manifests' \in [Domain -> [Height -> Root \cup {NoRoot}]]
      BY <1>1, <1>2, Zenon DEF TypeOK
    <2>4. head' \in [Domain -> Height \cup {-1}]
      BY <1>1, <1>2, Zenon DEF TypeOK
    <2>5. committed' \subseteq Domain \X Height
      BY <1>1, <1>2 DEF TypeOK
    <2>. QED
      BY <1>1, <2>2, <2>3, <2>4, <2>5, Zenon DEF TypeOK
  <1>6. ManifestsComplete'
    <2>. SUFFICES ASSUME NEW d \in Domain, NEW i \in Height, manifests'[d][i] # NoRoot
                  PROVE  NodesOf[manifests'[d][i]] \subseteq nodes'
      BY Zenon DEF ManifestsComplete
    <2>1. CASE d \in S /\ i = hs[d]
      BY <1>1, <1>3, <2>1
    <2>2. CASE ~(d \in S /\ i = hs[d])
      BY <1>1, <1>3, <2>2, Zenon DEF ManifestsComplete
    <2>. QED
      BY <2>1, <2>2, Zenon
  <1>7. NoOrphanNodes'
    <2>. SUFFICES ASSUME NEW n \in nodes'
                  PROVE  \E d \in Domain, i \in Height :
                            manifests'[d][i] # NoRoot /\ n \in NodesOf[manifests'[d][i]]
      BY Zenon DEF NoOrphanNodes
    <2>1. CASE n \in nodes
      BY <1>4, <2>1 DEF NoOrphanNodes
    <2>2. CASE n \notin nodes
      <3>1. PICK d \in S : n \in NodesOf[root[d]]
        BY <1>1, <2>2
      <3>2. manifests'[d][hs[d]] = root[d]
        BY <1>2, <1>3, Zenon
      <3>. QED
        BY <1>2, <3>1, <3>2, Zenon
    <2>. QED
      BY <2>1, <2>2, Zenon
  <1>8. HeadRetained'
    <2>. SUFFICES ASSUME NEW d \in Domain, head'[d] # -1
                  PROVE  manifests'[d][head'[d]] # NoRoot
      BY Zenon DEF HeadRetained, HeadRoot
    <2>1. CASE d \in S
      BY <1>1, <1>2, <1>3, <2>1, Zenon
    <2>2. CASE d \notin S
      <3>1. head'[d] = head[d] /\ head[d] \in Height
        BY <1>1, <2>2, Zenon DEF TypeOK
      <3>. QED
        BY <1>4, <3>1 DEF HeadRetained, HeadRoot
    <2>. QED
      BY <2>1, <2>2, Zenon
  <1>9. RecordsBelowMarker'
    <2>1. ASSUME NEW d \in Domain PROVE head'[d] <= marker'
      <3>1. CASE d \in S
        <4>1. head'[d] = hs[d] /\ hs[d] <= marker'
          BY <1>1, <1>2, <3>1, Zenon
        <4>. QED
          BY <4>1, Zenon
      <3>2. CASE d \notin S
        <4>1. head'[d] = head[d] /\ head[d] <= marker
          BY <1>1, <3>2, Zenon DEF TypeOK, RecordsBelowMarker
        <4>2. marker <= marker' /\ marker \in Int /\ marker' \in Int /\ head[d] \in Int
          BY <1>1 DEF TypeOK, Height
        <4>. QED
          BY <4>1, <4>2
      <3>. QED
        BY <3>1, <3>2, Zenon
    <2>2. \A d \in Domain, i \in Height : manifests'[d][i] # NoRoot => i <= marker'
      BY <1>1, <1>3 DEF RecordsBelowMarker, TypeOK, Height
    <2>3. head'[RootDomain] # -1
      BY <1>1, <1>2, StorageAssumption DEF Height
    <2>. QED
      BY <2>1, <2>2, <2>3, Zenon DEF RecordsBelowMarker
  <1>. QED
    BY <1>5, <1>6, <1>7, <1>8, <1>9, Zenon

\* prune_root deletes a root that is not a head, and the nodes no other root reaches.
LEMMA PruneKeeps ==
    ASSUME StorageInv, NEW d \in Domain, NEW h \in Height, h # head[d],
           manifests[d][h] # NoRoot,
           manifests' = [manifests EXCEPT ![d][h] = NoRoot],
           nodes' = nodes \ (NodesOf[manifests[d][h]] \ live_node_hashes(d, h)),
           UNCHANGED <<marker, head, retaining, committed>>
    PROVE  StorageInv'
  <1>. USE DEF StorageInv
  <1>1. \A e \in Domain, i \in Height :
           manifests'[e][i] = IF e = d /\ i = h THEN NoRoot ELSE manifests[e][i]
    BY Zenon DEF TypeOK
  <1>2. TypeOK'
    BY Zenon DEF TypeOK
  <1>3. ManifestsComplete'
    <2>. SUFFICES ASSUME NEW e \in Domain, NEW i \in Height, manifests'[e][i] # NoRoot,
                         NEW n \in NodesOf[manifests'[e][i]]
                  PROVE  n \in nodes'
      BY Zenon DEF ManifestsComplete
    <2>1. (e # d \/ i # h) /\ manifests'[e][i] = manifests[e][i]
      BY <1>1
    <2>2. n \in nodes /\ n \in TrieNode
      BY <2>1, Zenon DEF ManifestsComplete, TypeOK
    <2>3. n \in live_node_hashes(d, h)
      BY <2>1, <2>2, Zenon DEF live_node_hashes
    <2>. QED
      BY <2>2, <2>3, Zenon
  <1>4. NoOrphanNodes'
    <2>. SUFFICES ASSUME NEW n \in nodes'
                  PROVE  \E e \in Domain, i \in Height :
                            manifests'[e][i] # NoRoot /\ n \in NodesOf[manifests'[e][i]]
      BY Zenon DEF NoOrphanNodes
    <2>1. PICK e \in Domain, i \in Height :
                  manifests[e][i] # NoRoot /\ n \in NodesOf[manifests[e][i]]
      BY Zenon DEF NoOrphanNodes
    <2>2. CASE e = d /\ i = h
      <3>1. n \in live_node_hashes(d, h)
        BY <2>1, <2>2, Zenon
      <3>2. PICK f \in Domain, j \in Height :
                    /\ f # d \/ j # h
                    /\ manifests[f][j] # NoRoot /\ n \in NodesOf[manifests[f][j]]
        BY <3>1, Zenon DEF live_node_hashes
      <3>. QED
        BY <1>1, <3>2
    <2>3. CASE ~(e = d /\ i = h)
      BY <1>1, <2>1, <2>3
    <2>. QED
      BY <2>2, <2>3, Zenon
  <1>5. HeadRetained'
    <2>. SUFFICES ASSUME NEW e \in Domain, head[e] # -1
                  PROVE  manifests'[e][head[e]] # NoRoot
      BY Zenon DEF HeadRetained, HeadRoot
    <2>1. head[e] \in Height
      BY Zenon DEF TypeOK
    <2>. QED
      BY <1>1, <2>1 DEF HeadRetained, HeadRoot
  <1>6. RecordsBelowMarker'
    BY <1>1 DEF RecordsBelowMarker
  <1>. QED
    BY <1>2, <1>3, <1>4, <1>5, <1>6, Zenon

-----------------------------------------------------------------------------
\* One case for each transaction and for the end of a retention pass.
LEMMA StorageStep == StorageInv /\ [Next]_vars => StorageInv'
  <1>. SUFFICES ASSUME StorageInv, [Next]_vars PROVE StorageInv'
    BY Zenon
  <1>. USE DEF StorageInv
  <1>1. ASSUME NEW r \in Root, CommitGenesis(r) PROVE StorageInv'
    <2>1. marker = -1 /\ 0 \in Height /\ {RootDomain} \in SUBSET Domain
      BY <1>1, StorageAssumption DEF CommitGenesis, Height
    <2>2. manifests[RootDomain][0] \in {NoRoot, r}
      BY <2>1, StorageAssumption DEF RecordsBelowMarker
    <2>. DEFINE root == [d \in {RootDomain} |-> r]
                hs == [d \in {RootDomain} |-> 0]
    <2>3. root \in [{RootDomain} -> Root] /\ hs \in [{RootDomain} -> Height]
      BY <2>1, Zenon
    <2>4. \A d \in {RootDomain} : manifests[d][hs[d]] \in {NoRoot, root[d]}
      BY <2>2, Zenon
    <2>5. CommitBatch(0, {RootDomain}, root, hs)
      BY <1>1, Zenon DEF CommitGenesis
    <2>. HIDE DEF root, hs
    <2>. QED
      BY <2>1, <2>3, <2>4, <2>5, CommitKeeps, Zenon
  <1>2. ASSUME NEW S \in SUBSET Domain, NEW root \in [S -> Root], CommitBlock(S, root)
        PROVE  StorageInv'
    <2>. DEFINE hs == [d \in S |-> marker + 1]
    <2>1. /\ marker # -1 /\ marker + 1 \in Height
          /\ CommitBatch(marker + 1, S, root, hs)
      BY <1>2, StorageAssumption DEF CommitBlock, Height, TypeOK
    <2>2. hs \in [S -> Height]
      BY <2>1, Zenon
    <2>3. \A d \in S : manifests[d][hs[d]] \in {NoRoot, root[d]}
      BY <2>1, StorageAssumption DEF RecordsBelowMarker, TypeOK, Height
    <2>4. head[RootDomain] # -1
      BY <2>1, Zenon DEF RecordsBelowMarker
    <2>. HIDE DEF hs
    <2>. QED
      BY <2>1, <2>2, <2>3, <2>4, CommitKeeps, Zenon
  <1>3. ASSUME NEW h \in Height, NEW S \in SUBSET Domain, NEW root \in [S -> Root],
               NEW hs \in [S -> Height], CommitCheckpoint(h, S, root, hs)
        PROVE  StorageInv'
    <2>1. /\ marker = 0 /\ RootDomain \in S /\ CommitBatch(h, S, root, hs)
          /\ hs[RootDomain] = 0 => root[RootDomain] = manifests[RootDomain][head[RootDomain]]
          /\ \A d \in S \ {RootDomain} : hs[d] > 0
      BY <1>3, Zenon DEF CommitCheckpoint, HeadRoot
    <2>2. head[RootDomain] = 0
      BY <2>1, StorageAssumption DEF RecordsBelowMarker, TypeOK, Height
    <2>3. ASSUME NEW d \in S
          PROVE  manifests[d][hs[d]] \in {NoRoot, root[d]}
      <3>1. CASE hs[d] = 0
        BY <2>1, <2>2, <3>1
      <3>2. CASE hs[d] # 0
        <4>1. hs[d] \in Height /\ hs[d] > 0
          BY <3>2, StorageAssumption DEF Height
        <4>. QED
          BY <2>1, <4>1, StorageAssumption DEF RecordsBelowMarker, Height
      <3>. QED
        BY <3>1, <3>2, Zenon
    <2>. QED
      BY <2>1, <2>3, CommitKeeps, Zenon
  <1>4. ASSUME NEW d \in Domain, Prune(d) PROVE StorageInv'
    <2>1. PICK h \in Height :
             /\ manifests[d][h] # NoRoot
             /\ \/ h = head[d] /\ retaining' = {} /\ UNCHANGED <<manifests, nodes>>
                \/ /\ h # head[d]
                   /\ manifests' = [manifests EXCEPT ![d][h] = NoRoot]
                   /\ nodes' = nodes \ (NodesOf[manifests[d][h]] \ live_node_hashes(d, h))
                   /\ UNCHANGED retaining
             /\ UNCHANGED <<marker, head, committed>>
      BY <1>4, Zenon DEF Prune, OldHeights
    <2>2. CASE h = head[d]
      BY <2>1, <2>2, Zenon DEF TypeOK, ManifestsComplete, NoOrphanNodes, HeadRetained, HeadRoot,
                        RecordsBelowMarker
    <2>3. CASE h # head[d]
      BY <2>1, <2>3, PruneKeeps, Zenon
    <2>. QED
      BY <2>2, <2>3, Zenon
  <1>5. ASSUME UNCHANGED <<marker, head, manifests, nodes, committed>>,
               retaining' \subseteq Domain
        PROVE  StorageInv'
    BY <1>5, Zenon DEF TypeOK, ManifestsComplete, NoOrphanNodes, HeadRetained, HeadRoot,
                RecordsBelowMarker
  <1>6. ASSUME NEW d \in Domain,
               Visited(d) \/ clear_flat_state(d) \/ rebuild_flat_state(d)
        PROVE  StorageInv'
    BY <1>5, <1>6, Zenon DEF Visited, clear_flat_state, rebuild_flat_state, TypeOK
  <1>7. CASE Crash
    BY <1>5, <1>7, Zenon DEF Crash
  <1>8. CASE UNCHANGED vars
    BY <1>5, <1>8, Zenon DEF vars, TypeOK
  <1>. QED
    BY <1>1, <1>2, <1>3, <1>4, <1>6, <1>7, <1>8, Zenon DEF Next

-----------------------------------------------------------------------------
\* Roots, heads and nodes stay consistent over commits, checkpoints, prune transactions
\* and stops between them.
THEOREM StorageInvariant == Spec => []StorageInv
  BY StorageInit, StorageStep, PTL DEF Spec

\* Every node of every retained root is stored: prune_root deletes a node only when
\* no other manifest, of any domain, lists it.
THEOREM RetainedRootsComplete == Spec => []ManifestsComplete
  <1>1. StorageInv => ManifestsComplete
    BY Zenon DEF StorageInv
  <1>. QED
    BY <1>1, StorageInit, StorageStep, PTL DEF Spec

\* No stored node is unreachable, wherever a retention pass was interrupted.
THEOREM NodesNeverLeak == Spec => []NoOrphanNodes
  <1>1. StorageInv => NoOrphanNodes
    BY Zenon DEF StorageInv
  <1>. QED
    BY <1>1, StorageInit, StorageStep, PTL DEF Spec

\* The root of a domain's latest head is never pruned.
THEOREM HeadsNeverPruned == Spec => []HeadRetained
  <1>1. StorageInv => HeadRetained
    BY Zenon DEF StorageInv
  <1>. QED
    BY <1>1, StorageInit, StorageStep, PTL DEF Spec

-----------------------------------------------------------------------------
\* What a step of the database is: the transaction of a commit, a prune transaction, or
\* one that leaves marker, heads and records alone.
LEMMA StorageSteps ==
    ASSUME StorageInv, [Next]_vars
    PROVE  \/ \E h \in Height, S \in SUBSET Domain :
                 \E root \in [S -> Root], hs \in [S -> Height] : CommitBatch(h, S, root, hs)
           \/ \E d \in Domain : Prune(d)
           \/ \E d \in Domain : clear_flat_state(d) \/ rebuild_flat_state(d)
           \/ UNCHANGED <<marker, head, manifests, flat, committed>>
  <1>1. ASSUME NEW r \in Root, CommitGenesis(r)
        PROVE  \E h \in Height, S \in SUBSET Domain :
                  \E root \in [S -> Root], hs \in [S -> Height] : CommitBatch(h, S, root, hs)
    <2>1. /\ 0 \in Height /\ {RootDomain} \in SUBSET Domain
          /\ [d \in {RootDomain} |-> r] \in [{RootDomain} -> Root]
          /\ [d \in {RootDomain} |-> 0] \in [{RootDomain} -> Height]
      BY StorageAssumption DEF Height
    <2>2. CommitBatch(0, {RootDomain}, [d \in {RootDomain} |-> r], [d \in {RootDomain} |-> 0])
      BY <1>1, Zenon DEF CommitGenesis
    <2>. QED
      BY <2>1, <2>2, Zenon
  <1>2. ASSUME NEW S \in SUBSET Domain, NEW root \in [S -> Root], CommitBlock(S, root)
        PROVE  \E h \in Height, T \in SUBSET Domain :
                  \E top \in [T -> Root], hs \in [T -> Height] : CommitBatch(h, T, top, hs)
    <2>1. marker + 1 \in Height /\ [d \in S |-> marker + 1] \in [S -> Height]
      BY <1>2, StorageAssumption DEF CommitBlock, Height, StorageInv, TypeOK
    <2>2. CommitBatch(marker + 1, S, root, [d \in S |-> marker + 1])
      BY <1>2, Zenon DEF CommitBlock
    <2>. QED
      BY <2>1, <2>2, Zenon
  <1>3. ASSUME Crash \/ \E d \in Domain : Visited(d)
        PROVE  UNCHANGED <<marker, head, manifests, flat, committed>>
    BY <1>3, Zenon DEF Crash, Visited
  <1>. QED
    BY <1>1, <1>2, <1>3, Zenon DEF Next, vars, CommitCheckpoint

\* apply_retention prunes below its cutoff only, so the states committed at the last
\* `history` consensus heights keep their roots.
THEOREM WindowNeverPruned == Spec => []WindowKept
  <1>. DEFINE Inv == StorageInv /\ WindowKept
  <1>1. Init => Inv
    BY StorageInit, Zenon DEF Init, WindowKept
  <1>2. Inv /\ [Next]_vars => Inv'
    <2>. SUFFICES ASSUME StorageInv, WindowKept, [Next]_vars PROVE WindowKept'
      BY StorageStep, Zenon
    <2>. USE DEF StorageInv
    <2>1. ASSUME NEW h \in Height, NEW S \in SUBSET Domain,
                 NEW root \in [S -> Root], NEW hs \in [S -> Height],
                 CommitBatch(h, S, root, hs)
          PROVE  WindowKept'
      <3>. SUFFICES ASSUME NEW x \in committed', x[2] > h - History
                    PROVE  manifests'[x[1]][x[2]] # NoRoot
        BY <2>1, Zenon DEF WindowKept, CommitBatch
      <3>1. \A d \in Domain, i \in Height :
               manifests'[d][i] = IF d \in S /\ i = hs[d] THEN root[d] ELSE manifests[d][i]
        BY <2>1, Zenon DEF CommitBatch
      <3>2. \A d \in S : root[d] # NoRoot
        BY StorageAssumption, Zenon
      <3>3. CASE x \in committed
        <4>1. x[1] \in Domain /\ x[2] \in Height /\ h > marker
          BY <2>1, <3>3, Zenon DEF TypeOK, CommitBatch
        <4>2. x[2] > marker - History
          BY <4>1, StorageAssumption DEF TypeOK, Height
        <4>3. manifests[x[1]][x[2]] # NoRoot
          BY <3>3, <4>2, Zenon DEF WindowKept
        <4>. QED
          BY <3>1, <3>2, <4>1, <4>3
      <3>4. CASE x \notin committed
        <4>1. PICK d \in S : x = <<d, hs[d]>>
          BY <2>1, <3>4, Zenon DEF CommitBatch
        <4>. QED
          BY <3>1, <3>2, <4>1
      <3>. QED
        BY <3>3, <3>4, Zenon
    <2>2. ASSUME NEW d \in Domain, Prune(d) PROVE WindowKept'
      <3>1. PICK h \in OldHeights(d) :
               manifests' = manifests \/ manifests' = [manifests EXCEPT ![d][h] = NoRoot]
        BY <2>2, Zenon DEF Prune
      <3>. SUFFICES ASSUME NEW x \in committed, x[2] > marker - History
                    PROVE  manifests'[x[1]][x[2]] # NoRoot
        BY <2>2, Zenon DEF WindowKept, Prune
      <3>2. x[1] \in Domain /\ x[2] \in Height /\ manifests[x[1]][x[2]] # NoRoot
        BY Zenon DEF TypeOK, WindowKept
      <3>3. h \in Height /\ h < cutoff
        BY Zenon DEF OldHeights
      <3>4. x[2] # h
        BY <3>2, <3>3, StorageAssumption DEF cutoff, Height, TypeOK
      <3>. QED
        BY <3>1, <3>2, <3>3, <3>4 DEF TypeOK
    <2>3. ASSUME UNCHANGED <<marker, manifests, committed>> PROVE WindowKept'
      BY <2>3, Zenon DEF WindowKept
    <2>4. ASSUME NEW d \in Domain, clear_flat_state(d) \/ rebuild_flat_state(d) PROVE WindowKept'
      BY <2>3, <2>4, Zenon DEF clear_flat_state, rebuild_flat_state
    <2>. QED
      BY <2>1, <2>2, <2>3, <2>4, StorageSteps, Zenon
  <1>. QED
    BY <1>1, <1>2, PTL DEF Spec

\* A commit writes the leaves of the new root over a cache that is cleared or has those of
\* the old head, and deletes the others: append_state_changes.
LEMMA FlatWritten ==
    ASSUME NEW d \in Domain, NEW root \in Root, flat[d] \in {NoLeaves, HeadLeaves(d)}
    PROVE  NewFlat(d, root) = LeavesOf[root]
  <1>1. \A k \in LeafKey : HeadLeaves(d)[k] = NoLeaf => flat[d][k] = NoLeaf
    BY Zenon DEF NoLeaves
  <1>2. \A k \in LeafKey : NewFlat(d, root)[k] = LeavesOf[root][k]
    BY <1>1, Zenon DEF NewFlat
  <1>3. NewFlat(d, root) = [k \in LeafKey |-> LeavesOf[root][k]]
    BY <1>2, Zenon DEF NewFlat
  <1>. QED
    BY <1>3, StorageAssumption, Zenon

\* rebuild_flat_state and clear_flat_state leave the cache exact or cleared, commits keep it so,
\* and pruning never takes the head it caches.
THEOREM FlatNeverStale == Spec => []FlatIsHeadOrCleared
  <1>. DEFINE Inv == StorageInv /\ FlatIsHeadOrCleared /\ DOMAIN flat = Domain
  <1>1. Init => Inv
    BY StorageInit, Zenon DEF Init, FlatIsHeadOrCleared
  <1>2. Inv /\ [Next]_vars => Inv'
    <2>. SUFFICES ASSUME StorageInv, FlatIsHeadOrCleared, DOMAIN flat = Domain, [Next]_vars,
                         NEW d \in Domain
                  PROVE  flat'[d] \in {NoLeaves, HeadLeaves(d)'}
      <3>1. ASSUME StorageInv, DOMAIN flat = Domain, [Next]_vars PROVE DOMAIN flat' = Domain
        BY <3>1, StorageSteps, Zenon DEF CommitBatch, Prune, clear_flat_state, rebuild_flat_state
      <3>. QED
        BY <3>1, StorageStep, Zenon DEF FlatIsHeadOrCleared
    <2>0. /\ flat[d] \in {NoLeaves, HeadLeaves(d)}
          /\ head[d] # -1 => head[d] \in Height
          /\ manifests \in [Domain -> [Height -> Root \cup {NoRoot}]]
          /\ head[d] # -1 => manifests[d][head[d]] \in Root
      BY DEF FlatIsHeadOrCleared, StorageInv, TypeOK, HeadRetained, HeadRoot
    <2>1. ASSUME NEW h \in Height, NEW S \in SUBSET Domain,
                 NEW root \in [S -> Root], NEW hs \in [S -> Height],
                 CommitBatch(h, S, root, hs)
          PROVE  flat'[d] \in {NoLeaves, HeadLeaves(d)'}
      <3>1. /\ head'[d] = IF d \in S THEN hs[d] ELSE head[d]
            /\ \A i \in Height :
                  manifests'[d][i] = IF d \in S /\ i = hs[d] THEN root[d] ELSE manifests[d][i]
            /\ flat'[d] = IF d \in S THEN NewFlat(d, root[d]) ELSE flat[d]
        BY <2>1, Zenon DEF CommitBatch
      <3>2. CASE d \in S
        <4>0. head'[d] = hs[d] /\ hs[d] \in Height /\ manifests'[d][hs[d]] = root[d]
          BY <3>1, <3>2, Zenon
        <4>1. HeadLeaves(d)' = LeavesOf[root[d]]
          <5>1. head'[d] # -1
            BY <4>0 DEF Height
          <5>. QED
            BY <4>0, <5>1, Zenon DEF HeadLeaves, HeadRoot
        <4>2. NewFlat(d, root[d]) = LeavesOf[root[d]]
          BY <2>0, <3>2, FlatWritten, Zenon
        <4>. QED
          BY <3>1, <3>2, <4>1, <4>2, Zenon
      <3>3. CASE d \notin S
        <4>1. HeadLeaves(d)' = HeadLeaves(d)
          BY <2>0, <3>1, <3>3, Zenon DEF HeadLeaves, HeadRoot
        <4>. QED
          BY <2>0, <3>1, <3>3, <4>1, Zenon
      <3>. QED
        BY <3>2, <3>3, Zenon
    <2>2. ASSUME NEW e \in Domain, Prune(e) PROVE flat'[d] \in {NoLeaves, HeadLeaves(d)'}
      <3>1. PICK h \in Height :
               \/ manifests' = manifests
               \/ h # head[e] /\ manifests' = [manifests EXCEPT ![e][h] = NoRoot]
        BY <2>2, Zenon DEF Prune, OldHeights
      <3>2. flat' = flat /\ head' = head
        BY <2>2, Zenon DEF Prune
      <3>3. head[d] # -1 => manifests'[d][head[d]] = manifests[d][head[d]]
        BY <2>0, <3>1
      <3>4. HeadLeaves(d)' = HeadLeaves(d)
        BY <3>2, <3>3, Zenon DEF HeadLeaves, HeadRoot
      <3>. QED
        BY <2>0, <3>2, <3>4, Zenon
    <2>3. ASSUME NEW e \in Domain, clear_flat_state(e) \/ rebuild_flat_state(e)
          PROVE  flat'[d] \in {NoLeaves, HeadLeaves(d)'}
      <3>1. HeadLeaves(d)' = HeadLeaves(d)
        BY <2>3, Zenon DEF clear_flat_state, rebuild_flat_state, HeadLeaves, HeadRoot
      <3>2. CASE flat'[d] \in {flat[d], NoLeaves}
        BY <2>0, <3>1, <3>2, Zenon
      <3>3. CASE flat'[d] \notin {flat[d], NoLeaves}
        <4>1. /\ d = e /\ rebuild_flat_state(e)
          BY <2>3, <3>3, Zenon DEF clear_flat_state, rebuild_flat_state
        <4>2. HeadLeaves(d) = LeavesOf[HeadRoot(d)] /\ HeadRoot(d) \in Root
          BY <2>0, <4>1, Zenon DEF rebuild_flat_state, HeadLeaves, HeadRoot
        <4>3. \A k \in LeafKey : HeadLeaves(d)[k] = NoLeaf => flat[d][k] = NoLeaf
          BY <2>0, Zenon DEF NoLeaves
        <4>4. flat'[d] = [k \in LeafKey |-> LeavesOf[HeadRoot(d)][k]]
          BY <4>1, <4>2, <4>3, Zenon DEF rebuild_flat_state
        <4>. QED
          BY <3>1, <4>2, <4>4, StorageAssumption, Zenon
      <3>. QED
        BY <3>2, <3>3, Zenon
    <2>4. ASSUME UNCHANGED <<marker, head, manifests, flat, committed>>
          PROVE  flat'[d] \in {NoLeaves, HeadLeaves(d)'}
      BY <2>0, <2>4, Zenon DEF HeadLeaves, HeadRoot
    <2>. QED
      BY <2>1, <2>2, <2>3, <2>4, StorageSteps, Zenon
  <1>. QED
    BY <1>1, <1>2, PTL DEF Spec

-----------------------------------------------------------------------------
-----------------------------------------------------------------------------
\* The votes.

LocalInv(v) ==
    /\ AskedCovers(v) /\ FilesFollow(v) /\ RecordsCover(v)
    /\ v \notin blind => one_vote_per_slot(v)

\* The order of slots is transitive (the tuple comparison in persist_before_vote).
LEMMA EarlierTransitive ==
    ASSUME NEW a \in Vote, NEW b \in Vote, NEW c \in Vote, earlier(a, b), earlier(b, c)
    PROVE  earlier(a, c)
BY VoteAssumption DEF earlier

\* An earlier slot is another slot.
LEMMA EarlierDiffers ==
    ASSUME NEW a \in Vote, NEW b \in Vote, earlier(a, b)
    PROVE  ~ same_slot(a, b)
BY VoteAssumption DEF earlier, same_slot

\* A vote that is neither refused as an equivocation nor as a regression is the previous vote
\* or one of a later slot.
LEMMA AdmissibleFollows ==
    ASSUME NEW previous \in Vote, NEW vote \in Vote, admissible(previous, vote)
    PROVE  previous = vote \/ earlier(previous, vote)
BY VoteAssumption DEF admissible, earlier, same_slot

\* What covers the released votes is covered by a vote that persist_before_vote admits.
LEMMA AdmittedCovers ==
    ASSUME NEW v \in Honest, NEW vote \in Vote, NEW content \in SUBSET Vote,
           released[v] \subseteq Vote, covers(content, v),
           \A previous \in content : admissible(previous, vote)
    PROVE  covers({vote}, v)
<1> SUFFICES ASSUME v \notin blind, NEW r \in released[v]
             PROVE  r = vote \/ earlier(r, vote)
    BY Zenon DEF covers
<1>1. PICK w \in content : w = r \/ earlier(r, w)
    BY Zenon DEF covers
<1>2. w = vote \/ earlier(w, vote)
    BY AdmissibleFollows, Zenon
<1> QED
    BY <1>1, <1>2, EarlierTransitive, Zenon

\* A step of one validator leaves what concerns another as it is.
LEMMA VoteFrame ==
    ASSUME NEW u, LocalInv(u),
           pc'[u] = pc[u], asked'[u] = asked[u], last_vote'[u] = last_vote[u],
           temporary'[u] = temporary[u], synced'[u] = synced[u], path'[u] = path[u],
           durable'[u] = durable[u], released'[u] = released[u], u \in blind' <=> u \in blind
    PROVE  LocalInv(u)'
BY Zenon DEF LocalInv, AskedCovers, FilesFollow, RecordsCover, one_vote_per_slot, covers

LEMMA VotesInit == VoteInit => VoteInv
BY Zenon DEF VoteInit, VoteInv, VoteTypeOK, AskedCovers, FilesFollow, RecordsCover,
       one_vote_per_slot, covers, Working

\* Only the entries of the validator that takes the step change.
LEMMA VoteStepIsLocal ==
    ASSUME VoteTypeOK, NEW v \in Honest, VoteStep(v), NEW u \in Honest, u # v
    PROVE  /\ pc'[u] = pc[u] /\ asked'[u] = asked[u] /\ last_vote'[u] = last_vote[u]
           /\ temporary'[u] = temporary[u] /\ synced'[u] = synced[u] /\ path'[u] = path[u]
           /\ durable'[u] = durable[u] /\ released'[u] = released[u]
           /\ u \in blind' <=> u \in blind
<1>1. CASE open(v)  BY <1>1, Zenon DEF open, VoteTypeOK
<1>7. CASE open_blind(v)  BY <1>7, Zenon DEF open_blind, VoteTypeOK
<1>2. CASE persist_before_vote(v)
    <2>1. CASE \E vote \in Vote : open_temporary(v, vote)  BY <2>1, Zenon DEF open_temporary, VoteTypeOK
    <2>2. CASE write_all(v)  BY <2>2, Zenon DEF write_all, VoteTypeOK
    <2>3. CASE sync_all(v)  BY <2>3, Zenon DEF sync_all, VoteTypeOK
    <2>4. CASE rename(v)  BY <2>4, Zenon DEF rename, VoteTypeOK
    <2>5. CASE sync_parent(v)  BY <2>5, Zenon DEF sync_parent, VoteTypeOK
    <2> QED  BY <1>2, <2>1, <2>2, <2>3, <2>4, <2>5, Zenon DEF persist_before_vote
<1>3. CASE release(v)  BY <1>3, Zenon DEF release, VoteTypeOK
<1>4. CASE io_error(v)  BY <1>4, Zenon DEF io_error, VoteTypeOK
<1>5. CASE process_crash(v)  BY <1>5, Zenon DEF process_crash, VoteTypeOK
<1>6. CASE power_loss(v)  BY <1>6, Zenon DEF power_loss, VoteTypeOK
<1> QED  BY <1>1, <1>2, <1>3, <1>4, <1>5, <1>6, <1>7, Zenon DEF VoteStep

\* Types, and what concerns the validator that takes the step, one step per action.
LEMMA VoteStepKeeps ==
    ASSUME VoteTypeOK, NEW v \in Honest, LocalInv(v), VoteStep(v)
    PROVE  VoteTypeOK' /\ LocalInv(v)'
<1> USE DEF Working
<1>1. CASE open(v)
    BY <1>1, Zenon DEF open, VoteTypeOK, LocalInv, AskedCovers, FilesFollow, RecordsCover,
                one_vote_per_slot, covers
<1>11. CASE open_blind(v)
    BY <1>11, Zenon DEF open_blind, VoteTypeOK, LocalInv, AskedCovers, FilesFollow, RecordsCover,
                covers
<1>2. ASSUME NEW vote \in Vote, open_temporary(v, vote)
      PROVE  VoteTypeOK' /\ LocalInv(v)'
    <2>1. covers({vote}, v)
        BY <1>2, AdmittedCovers, Zenon DEF open_temporary, VoteTypeOK, LocalInv, RecordsCover
    <2>2. VoteTypeOK'
        BY <1>2, Zenon DEF open_temporary, VoteTypeOK
    <2>3. asked'[v] = {vote} /\ pc'[v] = "opened" /\ released'[v] = released[v] /\ blind' = blind
        BY <1>2, Zenon DEF open_temporary, VoteTypeOK
    <2>4. AskedCovers(v)'
        BY <2>1, <2>3, Zenon DEF AskedCovers, covers
    <2>5. FilesFollow(v)' /\ RecordsCover(v)' /\ (v \notin blind => one_vote_per_slot(v)')
        BY <1>2, <2>3, Zenon DEF open_temporary, LocalInv, FilesFollow, RecordsCover,
                          one_vote_per_slot, covers
    <2> QED  BY <2>2, <2>3, <2>4, <2>5, Zenon DEF LocalInv
<1>3. CASE write_all(v)
    BY <1>3, Zenon DEF write_all, VoteTypeOK, LocalInv, AskedCovers, FilesFollow, RecordsCover,
                one_vote_per_slot, covers
<1>4. CASE sync_all(v)
    BY <1>4, Zenon DEF sync_all, VoteTypeOK, LocalInv, AskedCovers, FilesFollow, RecordsCover,
                one_vote_per_slot, covers
<1>5. CASE rename(v)
    <2>1. /\ path'[v] = asked[v] /\ durable'[v] = durable[v] \cup {asked[v]}
          /\ pc'[v] = "renamed" /\ asked' = asked /\ released' = released
          /\ last_vote' = last_vote /\ blind' = blind
        BY <1>5, Zenon DEF rename, VoteTypeOK, LocalInv, FilesFollow
    <2>2. VoteTypeOK'
        BY <1>5, <2>1 DEF rename, VoteTypeOK, LocalInv, FilesFollow
    <2>3. covers(asked[v], v) /\ AskedCovers(v)'
        BY <1>5, <2>1, Zenon DEF rename, LocalInv, AskedCovers, covers
    <2>4. FilesFollow(v)'
        BY <2>1, Zenon DEF FilesFollow
    <2>5. RecordsCover(v)' /\ (v \notin blind => one_vote_per_slot(v)')
        BY <1>5, <2>1, <2>3, Zenon DEF rename, LocalInv, RecordsCover, one_vote_per_slot, covers
    <2> QED  BY <2>1, <2>2, <2>3, <2>4, <2>5, Zenon DEF LocalInv
<1>6. CASE sync_parent(v)
    <2>1. /\ durable'[v] = {asked[v]} /\ last_vote'[v] = asked[v] /\ pc'[v] = "persisted"
          /\ asked' = asked /\ released' = released /\ path' = path /\ path[v] = asked[v]
          /\ blind' = blind
        BY <1>6, Zenon DEF sync_parent, VoteTypeOK, LocalInv, FilesFollow
    <2>2. VoteTypeOK'
        BY <1>6 DEF sync_parent, VoteTypeOK
    <2>3. covers(asked[v], v) /\ AskedCovers(v)'
        BY <1>6, <2>1, Zenon DEF sync_parent, LocalInv, AskedCovers, covers, Working
    <2>4. FilesFollow(v)'
        BY <2>1, Zenon DEF FilesFollow
    <2>5. RecordsCover(v)' /\ (v \notin blind => one_vote_per_slot(v)')
        BY <2>1, <2>3, Zenon DEF LocalInv, RecordsCover, one_vote_per_slot, covers
    <2> QED  BY <2>1, <2>2, <2>3, <2>4, <2>5, Zenon DEF LocalInv
<1>7. CASE release(v)
    <2>1. PICK vote \in Vote : asked[v] = {vote}
        BY <1>7, Zenon DEF release, LocalInv, AskedCovers
    <2>2. /\ released'[v] = released[v] \cup {vote} /\ pc'[v] = "idle" /\ asked'[v] = {}
          /\ durable'[v] = {{vote}} /\ last_vote'[v] = {vote} /\ path'[v] = path[v]
          /\ blind' = blind
        BY <1>7, <2>1, Zenon DEF release, VoteTypeOK, LocalInv, FilesFollow
    <2>3. v \notin blind => \A r \in released[v] : r \in Vote /\ (r = vote \/ earlier(r, vote))
        BY <1>7, <2>1, Zenon DEF release, VoteTypeOK, LocalInv, AskedCovers, covers
    <2>4. VoteTypeOK'
        BY <1>7, Zenon DEF release, VoteTypeOK
    <2>5. AskedCovers(v)' /\ FilesFollow(v)' /\ RecordsCover(v)'
        BY <1>7, <2>1, <2>2, <2>3, Zenon
        DEF release, LocalInv, AskedCovers, FilesFollow, RecordsCover, covers
    <2>6. v \notin blind => \A r \in released[v] : same_slot(r, vote) \/ same_slot(vote, r) => r = vote
        BY <2>3, EarlierDiffers, Zenon DEF same_slot
    <2>7. v \notin blind => one_vote_per_slot(v)'
        BY <2>2, <2>6, Zenon DEF LocalInv, one_vote_per_slot
    <2> QED  BY <2>2, <2>4, <2>5, <2>7, Zenon DEF LocalInv
<1>8. CASE io_error(v)
    BY <1>8, Zenon DEF io_error, VoteTypeOK, LocalInv, AskedCovers, FilesFollow, RecordsCover,
                one_vote_per_slot, covers
<1>9. CASE process_crash(v)
    BY <1>9, Zenon DEF process_crash, VoteTypeOK, LocalInv, AskedCovers, FilesFollow, RecordsCover,
                one_vote_per_slot, covers
<1>10. CASE power_loss(v)
    <2>1. PICK left \in durable[v] : /\ path' = [path EXCEPT ![v] = left]
                                     /\ durable' = [durable EXCEPT ![v] = {left}]
        BY <1>10, Zenon DEF power_loss
    <2>2. VoteTypeOK'
        BY <1>10, <2>1 DEF power_loss, VoteTypeOK
    <2>3. /\ path'[v] = left /\ durable'[v] = {left} /\ pc'[v] = "down"
          /\ released' = released /\ blind' = blind
        BY <1>10, <2>1, Zenon DEF power_loss, VoteTypeOK
    <2> QED
        BY <2>2, <2>3, ZenonT(40) DEF LocalInv, AskedCovers, FilesFollow, RecordsCover, one_vote_per_slot,
                          covers
<1> QED
    BY <1>1, <1>2, <1>3, <1>4, <1>5, <1>6, <1>7, <1>8, <1>9, <1>10, <1>11, Zenon
    DEF VoteStep, persist_before_vote

\* At every moment the store in memory and every record that a power loss may leave forbid
\* whatever conflicts with a released vote.
THEOREM RecordAlwaysCovers == VoteSpec => []VoteInv
<1>1. VoteInv /\ [VoteNext]_vote_vars => VoteInv'
    <2> SUFFICES ASSUME VoteInv, [VoteNext]_vote_vars PROVE VoteInv'
        BY Zenon
    <2>1. VoteTypeOK /\ \A u \in Honest : LocalInv(u)
        BY Zenon DEF VoteInv, LocalInv
    <2>2. CASE VoteNext
        <3>1. PICK v \in Honest : VoteStep(v)
            BY <2>2, Zenon DEF VoteNext
        <3>2. VoteTypeOK' /\ LocalInv(v)'
            BY <2>1, <3>1, VoteStepKeeps, Zenon
        <3>3. ASSUME NEW u \in Honest, u # v PROVE LocalInv(u)'
            BY <2>1, <3>1, <3>3, VoteStepIsLocal, VoteFrame, Zenon
        <3> QED  BY <3>2, <3>3, Zenon DEF VoteInv, LocalInv
    <2>3. CASE UNCHANGED vote_vars
        <3>1. ASSUME NEW u \in Honest PROVE LocalInv(u)'
            BY <2>1, <2>3, <3>1, VoteFrame, Zenon DEF vote_vars
        <3>2. VoteTypeOK'
            BY <2>1, <2>3, Zenon DEF vote_vars, VoteTypeOK
        <3> QED  BY <3>1, <3>2, Zenon DEF VoteInv, LocalInv
    <2> QED  BY <2>2, <2>3, Zenon
<1> QED  BY <1>1, VotesInit, PTL DEF VoteSpec

\* No honest validator releases two votes of one slot, for any faults of its file system but a
\* path.exists() that fails on a record (those it happened to are in `blind`).
THEOREM NeverVotesTwice == VoteSpec => []NoDoubleVote
<1>1. VoteInv => NoDoubleVote
    BY Zenon DEF VoteInv, NoDoubleVote
<1> QED  BY <1>1, RecordAlwaysCovers, PTL

\* No two blocks are certified for one slot, for any validators and powers, while two quorums
\* share a member that is neither Byzantine nor blind.
THEOREM CertificatesNeverFork == VoteSpec => []CertificatesAgree
<1>1. NoDoubleVote => CertificatesAgree
    <2> SUFFICES ASSUME NoDoubleVote, quorums_share_outside(Byzantine \cup blind), NEW a \in Vote, NEW b \in Vote, same_slot(a, b),
                        certified(a), certified(b)
                 PROVE  a = b
        BY Zenon DEF CertificatesAgree
    <2>1. PICK left \in SUBSET Validator :
              can_commit(left) /\ \A v \in left : signed(v, a)
        BY Zenon DEF certified
    <2>2. PICK right \in SUBSET Validator :
              can_commit(right) /\ \A v \in right : signed(v, b)
        BY Zenon DEF certified
    <2>3. PICK v \in left \cap right : v \notin Byzantine \cup blind
        BY <2>1, <2>2, Zenon DEF quorums_share_outside
    <2>4. v \in Honest \ blind /\ a \in released[v] /\ b \in released[v]
        BY <2>1, <2>2, <2>3, Zenon DEF signed, Honest
    <2> QED  BY <2>4, Zenon DEF NoDoubleVote, one_vote_per_slot
<1> QED  BY <1>1, NeverVotesTwice, PTL

-----------------------------------------------------------------------------
\* The data directory and the tasks.

\* Every step of a command keeps it, one step per action.
LEMMA DirInductive ==
    DirInv /\ [DirNext]_dir_vars => DirInv'
<1> SUFFICES ASSUME DirInv, [DirNext]_dir_vars PROVE DirInv'
    BY Zenon
<1> USE DEF go, Place
<1>1. ASSUME NEW p \in Process, NEW c \in Command, start(p, c) PROVE DirInv'
    BY <1>1, Zenon DEF start, DirInv
<1>2. ASSUME NEW p \in Process, init_truncate(p) PROVE DirInv'
    BY <1>2, Zenon DEF init_truncate, DirInv
<1>3. ASSUME NEW p \in Process, init_write(p) PROVE DirInv'
    BY <1>3, Zenon DEF init_write, DirInv
<1>4. ASSUME NEW p \in Process, load_config(p) PROVE DirInv'
    BY <1>4, Zenon DEF load_config, DirInv
<1>5. ASSUME NEW p \in Process, open_database(p) PROVE DirInv'
    BY <1>5, Zenon DEF open_database, DirInv
<1>6. ASSUME NEW p \in Process, open_dev_engine(p) PROVE DirInv'
    BY <1>6, Zenon DEF open_dev_engine, DirInv
<1>7. ASSUME NEW p \in Process, load(p) PROVE DirInv'
    BY <1>7, Zenon DEF load, identified, DirInv
<1>8. ASSUME NEW p \in Process, generate(p) PROVE DirInv'
    BY <1>8 DEF generate, DirInv
<1>9. ASSUME NEW p \in Process, create_new(p) PROVE DirInv'
    BY <1>9, Zenon DEF create_new, DirInv
<1>10. ASSUME NEW p \in Process, write_all_key(p) PROVE DirInv'
    BY <1>10, Zenon DEF write_all_key, identified, DirInv
<1>11. ASSUME NEW p \in Process, stop(p) PROVE DirInv'
    BY <1>11, Zenon DEF stop, DirInv
<1>12. CASE UNCHANGED dir_vars
    BY <1>12, Zenon DEF dir_vars, DirInv
<1> QED
    BY <1>1, <1>2, <1>3, <1>4, <1>5, <1>6, <1>7, <1>8, <1>9, <1>10, <1>11, <1>12, Zenon DEF DirNext

\* A data directory has one peer identity, for any number of processes and commands.
THEOREM OnePeerId == DirSpec => []PeerIdStable
<1>1. DirInit => DirInv
    BY DEF DirInit, DirInv, Place
<1>2. DirInv => PeerIdStable
    BY Zenon DEF DirInv, PeerIdStable
<1> QED  BY <1>1, <1>2, DirInductive, PTL DEF DirSpec

\* What the select saw stays what it was: a task that has ended does not change.
LEMMA ToldStays ==
    ASSUME Told, outcome' = outcome, culprit' = culprit, signal => signal',
           early \subseteq early', \A t \in early : Ended(t) => task'[t] = task[t]
    PROVE  Told'
BY Zenon DEF Told, Ended, Exit

\* Every step keeps it, one step per action.
LEMMA SupInductive == SupInv /\ [SupNext]_sup_vars => SupInv'
<1> SUFFICES ASSUME SupInv, [SupNext]_sup_vars PROVE SupInv'
    BY Zenon
<1> USE DEF SupInv, Ended, Ends
<1>1. CASE Signal
    <2>1. Told => Told'
        BY <1>1, ToldStays, Zenon DEF Signal
    <2> QED  BY <1>1, <2>1, Zenon DEF Signal, OutcomeHonest
<1>2. ASSUME NEW t \in Task, NEW how \in Ends, End(t, how) PROVE SupInv'
    <2>1. \A u \in Task : Ended(u) => task'[u] = task[u]
        BY <1>2, Zenon DEF End
    <2>2. Told => Told'
        BY <1>2, <2>1, ToldStays, Zenon DEF End
    <2>3. run_phase # "select" => OutcomeHonest'
        BY <1>2, <2>1, <2>2, Zenon DEF End, OutcomeHonest
    <2> QED  BY <1>2, <2>2, <2>3, Zenon DEF End, OutcomeHonest
<1>3. ASSUME NEW t \in Task, Stop(t) PROVE SupInv'
    <2>1. \A u \in Task : Ended(u) => task'[u] = task[u]
        BY <1>3, Zenon DEF Stop
    <2>2. Told => Told'
        BY <1>3, <2>1, ToldStays, Zenon DEF Stop
    <2>3. run_phase # "select" => OutcomeHonest'
        BY <1>3, <2>1, <2>2, Zenon DEF Stop, OutcomeHonest
    <2> QED  BY <1>3, <2>2, <2>3, Zenon DEF Stop, OutcomeHonest
<1>4. CASE SelectSignal
    BY <1>4, Zenon DEF SelectSignal, Told, OutcomeHonest
<1>5. ASSUME NEW t \in Task, SelectTask(t) PROVE SupInv'
    <2>1. t \in early /\ Told'
        BY <1>5, Zenon DEF SelectTask, Told, Exit
    <2> QED  BY <1>5, <2>1, Zenon DEF SelectTask, OutcomeHonest
<1>6. CASE SignalError
    BY <1>6, Zenon DEF SignalError, Aborted, OutcomeHonest
<1>7. ASSUME NEW t \in Task, join_next(t) PROVE SupInv'
    <2>1. Told => Told'
        BY <1>7, ToldStays, Zenon DEF join_next
    <2> QED  BY <1>7, <2>1, Zenon DEF join_next, OutcomeHonest
<1>8. CASE Drained
    <2>1. Told => Told'
        BY <1>8, ToldStays, Zenon DEF Drained
    <2> QED  BY <1>8, <2>1, Zenon DEF Drained, OutcomeHonest
<1>9. CASE Timeout
    BY <1>9, Zenon DEF Timeout, Aborted, OutcomeHonest
<1>10. CASE UNCHANGED sup_vars
    <2>1. Told => Told'
        BY <1>10, ToldStays, Zenon DEF sup_vars
    <2> QED  BY <1>10, <2>1, Zenon DEF sup_vars, OutcomeHonest
<1> QED
    BY <1>1, <1>2, <1>3, <1>4, <1>5, <1>6, <1>7, <1>8, <1>9, <1>10, Zenon DEF SupNext

\* The result of run is a signal error, a timeout, or the cause it says, for any tasks.
THEOREM OutcomesAreHonest == SupSpec => []OutcomeHonest
<1>1. SupInit => SupInv
    BY Zenon DEF SupInit, SupInv, Ended, Ends, OutcomeHonest
<1>2. SupInv => OutcomeHonest
    BY Zenon DEF SupInv
<1> QED  BY <1>1, <1>2, SupInductive, PTL DEF SupSpec

-----------------------------------------------------------------------------
\* The sessions.

\* An announcement belongs to a session: a node that does not hold the other one as
\* authenticated has announced nothing.
AnnouncedInSession ==
    /\ announced \in [Node -> Nat]
    /\ \A n \in Node : announced[n] <= (IF n \in authenticated THEN 1 ELSE 0)

\* authenticate announces a peer only when it was not authenticated, and Forget ends
\* the session and its announcement together; nothing else changes the two.
LEMMA AnnouncedStep == AnnouncedInSession /\ [SessionNext]_session_vars => AnnouncedInSession'
<1> SUFFICES ASSUME AnnouncedInSession, [SessionNext]_session_vars PROVE AnnouncedInSession'
    BY Zenon
<1>1. ASSUME UNCHANGED <<authenticated, announced>> PROVE AnnouncedInSession'
    BY <1>1, Zenon DEF AnnouncedInSession
<1>2. ASSUME NEW n, Forget(n) PROVE AnnouncedInSession'
    <2>1. \A m \in Node : announced'[m] = IF m = n THEN 0 ELSE announced[m]
        BY <1>2, Zenon DEF Forget, AnnouncedInSession
    <2>2. announced' \in [Node -> Nat]
        BY <1>2, Zenon DEF Forget, AnnouncedInSession
    <2> QED
        BY <1>2, <2>1, <2>2 DEF Forget, AnnouncedInSession
<1>3. ASSUME NEW n, NEW tells, NEW s, NEW rest, authenticate(n, tells, s, rest)
      PROVE  AnnouncedInSession'
    <2>1. /\ authenticated' = authenticated \cup {n}
          /\ \/ n \notin authenticated /\ announced' = [announced EXCEPT ![n] = @ + 1]
             \/ announced' = announced
        BY <1>3, Zenon DEF authenticate
    <2> QED
        BY <2>1 DEF AnnouncedInSession
<1>4. ASSUME NEW n, NEW left, NEW linked, Cut(n, left, linked)
      PROVE  AnnouncedInSession'
    BY <1>2, <1>4, Zenon DEF Cut
<1>5. CASE Connect
    BY <1>1, <1>4, <1>5, Zenon DEF Connect, HangUp
<1>6. ASSUME NEW n \in Node, Disconnect(n) PROVE AnnouncedInSession'
    BY <1>4, <1>6, Zenon DEF Disconnect, HangUp
<1>7. ASSUME NEW n \in Node, CloseStale(n) PROVE AnnouncedInSession'
    BY <1>1, <1>2, <1>7, Zenon DEF CloseStale
<1>8. ASSUME NEW r \in requests, ReceiveRequest(r) PROVE AnnouncedInSession'
    BY <1>1, <1>3, <1>4, <1>8, Zenon DEF ReceiveRequest, reject_peer, HangUp
<1>9. ASSUME NEW r \in requests, ReceiveResponse(r) PROVE AnnouncedInSession'
    BY <1>1, <1>3, <1>4, <1>9, Zenon DEF ReceiveResponse, reject_peer, HangUp
<1>10. ASSUME NEW r \in requests, RespondFails(r) PROVE AnnouncedInSession'
    BY <1>4, <1>10, Zenon DEF RespondFails
<1>11. ASSUME \/ DropLink
              \/ \E n \in Node, g \in Genesis : Restart(n, g)
              \/ \E r \in requests : RequestFails(r)
              \/ UNCHANGED session_vars
       PROVE  AnnouncedInSession'
    BY <1>1, <1>11, Zenon DEF DropLink, Restart, RequestFails, session_vars
<1> QED
    BY <1>5, <1>6, <1>7, <1>8, <1>9, <1>10, <1>11, Zenon DEF SessionNext

\* PeerAuthenticated is emitted at most once in a session, for any thresholds and any number
\* of connections, restarts and lost requests.
THEOREM AnnouncedOnce == SessionSpec => []AnnouncedAtMostOnce
<1>1. SessionInit => AnnouncedInSession
    BY DEF SessionInit, AnnouncedInSession
<1>2. AnnouncedInSession => AnnouncedAtMostOnce
    BY DEF AnnouncedInSession, AnnouncedAtMostOnce
<1> QED  BY <1>1, <1>2, AnnouncedStep, PTL DEF SessionSpec
=============================================================================
