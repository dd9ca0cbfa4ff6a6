SPECIFICATION ProcessSpec
CONSTANTS
    Validator = {"h1", "h2", "b"}
    Byzantine = {"b"}
    power <- MCPower
    Vote <- MCVote
    MaxFaults = 2
    Process = {"p", "q"}
    MaxCommands = 3
    MaxKeys = 3
    Task = {"t", "u", "s"}
    Stubborn = {"s"}
INVARIANTS NoDoubleVote CertificatesAgree PeerIdStable OutcomeHonest
PROPERTY ShutsDown
CHECK_DEADLOCK FALSE
