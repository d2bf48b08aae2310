SPECIFICATION Spec
CONSTANTS
    TxId <- MCTxId
    NoTx = NoTx
    Reward = 2
    alice = alice
    bob = bob
    Owner = {alice, bob}
    Amounts = {1, 2}
    MaxBlocks = 4
SYMMETRY Symmetry
INVARIANT SpendsOwn
