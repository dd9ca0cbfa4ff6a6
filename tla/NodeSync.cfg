SPECIFICATION FairNodeSpec
CONSTANTS
    Peer = {p1}
    ChunkCount = 2
    SNAPSHOT_CACHE_COUNT = 2
    Inbound = TRUE
    FirstHeight = 1
    MaxPeerHeight = 3
    FaultBudgets <- SomeFaults
    MAX_HEADERS_PER_RESPONSE = 64
    MAX_BLOCKS_PER_RESPONSE = 1
    BAN_THRESHOLD <- BanAtMinus8
    THROTTLE_THRESHOLD <- ThrottleAtMinus4
    SCORE_LIMIT = 8
    RewardAmount = 1
    TimeoutPenalty = 2
INVARIANTS  OneSyncPath
PROPERTY CatchesUp
CHECK_DEADLOCK FALSE
