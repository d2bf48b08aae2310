SPECIFICATION Spec
CONSTANTS
    s = s
    x = x
    y = y
    Server = {s}
    Transactions <- MCTransactions
    Message = {"inv"}
    Types <- MCTypes
    MaxBlocks = 1
    MaxPanics = 1
INVARIANT ProofReproduced
