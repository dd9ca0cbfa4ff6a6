SPECIFICATION Spec
CONSTANTS
    r1 = r1
    r2 = r2
    r3 = r3
    n1 = n1
    n2 = n2
    n3 = n3
    x = x
    y = y
    RootDomain = base
    Domain = {base, child}
    Root = {r1, r2, r3}
    NoRoot = NoRoot
    TrieNode = {n1, n2, n3}
    NodesOf <- MCNodesOf
    LeafKey = {x, y}
    LeavesOf <- MCLeavesOf
    NoLeaf = NoLeaf
    MaxHeight = 3
    History = 2
INVARIANTS StorageInv FlatIsHeadOrCleared WindowKept
