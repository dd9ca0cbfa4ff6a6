SPECIFICATION Spec
CONSTANTS
    Domain <- MCDomain
    Contract = {c1, c2}
    Code = {x, y}
    NoAccount = NoAccount
    NoBundle = NoBundle
    Damaged <- MCDamaged
    record_len <- MCrecord_len
    MAX_SNAPSHOT_CHUNK_BYTES = 14
    CHUNK_FIXED_BYTES = 4
    CHUNK_RECORD_FIXED_BYTES = 2
    MAX_CHUNKS_PER_DOMAIN = 4
    MAX_SNAPSHOT_TOTAL_BYTES = 40
    MaxDeploys = 3
    MaxBundles = 2
INVARIANTS
    StagedBytesExact
    FinishExact
