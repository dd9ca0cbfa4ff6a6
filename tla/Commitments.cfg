SPECIFICATION Spec
CONSTANTS
    short = short
    long = long
    Nibble = {0, 1, 2, 3}
    SECURE_KEY_NIBBLES = 4
    Key <- MCKey
    Value = {short, long}
    value_len <- MCValueLen
    NoValue = NoValue
    HASH_LEN = 8
    DomainId = {1, 2, 3, 4, 5}
    NoHead = NoHead
    SMT_DEPTH = 3
    domain_head_key <- MCHeadKey
    root_domain = 1
    Creation = {{2}, {2, 3, 4, 5}}
    MaxBlocks = 2
INVARIANTS
    LeavesReadBack
    RootsAreTreeRoots
    HeadProofsExact
    ResultProofsExact
CHECK_DEADLOCK FALSE
