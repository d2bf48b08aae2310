SPECIFICATION FairSpec
CONSTANTS
    Thread = {1, 2}
    MaxHeight = 3
    MaxStarts = 2
    Inventories <- MCInventories
    Tx <- MCTx
    Outputs <- MCOutputs
    Born <- MCBorn
    Spent <- MCSpent
    a = a
    b = b
    c = c
    d = d
    e = e
INVARIANTS TypeOK NoPanic NothingMissing IndexExact
PROPERTY IndexCatchesUp
CHECK_DEADLOCK FALSE
