SPECIFICATION NetworkSpec
CONSTANTS
    Node = {a, b}
    Genesis = {g1, g2}
    MaxLinks = 2
    MaxConnects = 2
    MaxTimeouts = 1
    BAN_THRESHOLD <- BanAtMinus100
    THROTTLE_THRESHOLD <- ThrottleAtMinus40
    SCORE_LIMIT = 100
    RewardAmount = 2
    TimeoutPenalty = 10
    Headers <- ForkedHeaders
    GenesisHeader <- MCGenesisHeader
    MaxItems = 3
    MAX_HEADERS_PER_RESPONSE = 3
    MAX_BLOCKS_PER_RESPONSE = 2
INVARIANTS AuthenticatedSameGenesis AnnouncedAtMostOnce BodiesExtendTip HonestAnswerAccepted
