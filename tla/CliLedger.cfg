SPECIFICATION Spec
CONSTANTS
    TxId <- MCTxId
    NoTx = NoTx
    Reward = 2
    alice = alice
    bob = bob
    Owner = {alice, bob}
    Amounts = {1, 3}
    MaxBlocks = 4
SYMMETRY Symmetry
INVARIANTS TypeOK NoPanic ScanExact IndexExact
PROPERTIES PaymentSettles
