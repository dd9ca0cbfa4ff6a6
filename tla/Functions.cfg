SPECIFICATION FunctionsSpec
CONSTANTS
    U64_MAX = 40
    U128_MAX = 400
    MAX_DOMAIN_BLOCK_GAS = 9
    MAX_CANONICAL_OBJECT = 27
    MAX_TRANSACTIONS_PER_BATCH = 2
    MAX_TRANSACTION_ENVELOPE = 20
    MAX_ACTIVE_VALIDATORS = 2
    MAX_NAME = 3
    MAX_SYMBOL = 2
    NotUtf8 = 60
    MAX_CALLDATA = 5
    MAX_INITCODE = 3
    MAX_ACCESS_LIST_ADDRESSES = 1
    MAX_ACCESS_LIST_STORAGE_KEYS = 2
    MAX_LOGS = 1
    MAX_TOPICS = 2
    MAX_DOMAIN_GAS = 9
    MAX_U64 = 40
    OddString = 61
    MAX_CONSENSUS_BLOCK = 90
    MAX_BATCHES_PER_BLOCK = 2
    MAX_CHECKPOINT_METADATA = 100
    MAX_STORED_DOMAINS = 4
    MAX_DIRECT_REQUEST = 150
    MAX_CHECKPOINT_DOMAINS = 2
    MAX_FINALITY_PROOF = 1
    MAX_SNAPSHOT_CHUNKS = 2
    MAX_CHUNK_BYTES = 4
    SMT_DEPTH = 2
    Sample <- MCSample
    Unit <- MCUnit
    MaxEdits = 2
    LongWire = 7
INVARIANTS
    FeeFormulaSound
    EncodingsReadBack
    EncodingsCanonical
PROPERTIES
    FeeFollowsDemand
CHECK_DEADLOCK FALSE
