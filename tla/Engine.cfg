SPECIFICATION Spec
CONSTANTS
    Domain = {1, 2, 3}
    RootDomain = 1
    NoDomain = 0
    RootChainId = 7
    Sender = {1, 2}
    MaxNonce = 1
    MaxFee = 20
    Transaction <- MCTransaction
    NoTx = NoTx
    max_transactions = 2
    max_transactions_per_sender = 2
    max_transaction_bytes = 3
    replacement_bump_percent = 10
    gas_limit <- MCGasLimit
    MAX_CONSENSUS_BLOCK_GAS = 6
    MAX_FAIR_DOMAIN_TRANSACTIONS = 2
    MAX_DEV_PROPOSAL_TRANSACTIONS = 3
    MAX_BATCHES_PER_BLOCK = 2
    MAX_TRANSACTIONS_PER_BATCH = 3
    MAX_CONSENSUS_BLOCK_BYTES = 4
    MaxHeight = 3
    History = 0
    RetainedDomain = {1, 2}
    PeerBody <- MCPeerBody
    Down = Down
    None = None
INVARIANTS EngineInv RecoveryExact ProposalCommittable PoolMatchesDomains HistoryServed
PROPERTIES AdmittedKept FinalizedLogSpec
