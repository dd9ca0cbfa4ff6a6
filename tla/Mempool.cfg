SPECIFICATION PoolSpec
CONSTANTS
    root = root
    child = child
    alice = alice
    bob = bob
    NoTx = NoTx
    Domain = {root, child}
    Sender = {alice, bob}
    ChainId = {0, 7, 8}
    MaxNonce = 1
    MaxFee = 112
    Transaction <- MCTransaction
    max_transactions = 3
    max_transactions_per_sender = 2
    max_transaction_bytes = 1
    replacement_bump_percent = 10
INVARIANTS PoolInv
PROPERTY OverwriteNeedsBump
