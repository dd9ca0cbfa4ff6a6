SPECIFICATION Spec
CONSTANTS
    Domain = {1, 2, 3, 4, 5}
    Load <- MCLoad
    gas_limit <- MCGasLimit
    MAX_CONSENSUS_BLOCK_GAS = 4
    MAX_FAIR_DOMAIN_TRANSACTIONS = 2
    MAX_DEV_PROPOSAL_TRANSACTIONS = 6
    MAX_BATCHES_PER_BLOCK = 3
    MAX_TRANSACTIONS_PER_BATCH = 2
    MAX_CONSENSUS_BLOCK_BYTES = 4
INVARIANTS SelectionSound NoStarvation
CHECK_DEADLOCK FALSE
