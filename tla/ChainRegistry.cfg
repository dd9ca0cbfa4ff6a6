SPECIFICATION Spec
CONSTANTS
    owner = owner
    governance = governance
    zero = zero
    registry = registry
    root = root
    a = a
    b = b
    Domain = {root, a, b}
    RootDomain = root
    ChainId = {1, 2, 3}
    RootChainId = 1
    Account <- MCAccount
    Governance = governance
    ZeroAddress = zero
    Registry = registry
    Value = {1, 2, 3}
    GenesisBalance <- MCGenesisBalance
    MIN_CREATION_DEPOSIT = 2
    CREATION_DEPOSIT_LOCK_BLOCKS = 2
    NoDescriptor = NoDescriptor
    RootMarker = RootMarker
    NoDomain = NoDomain
    NoAccount = NoAccount
    MaxHeight = 3
INVARIANTS
    RegistryConsistent
    InsertNeverFails
    DepositsAccounted
PROPERTIES
    RefundAfterLock
