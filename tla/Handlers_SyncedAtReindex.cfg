SPECIFICATION Spec
CONSTANTS
    Thread = {1, 2}
    MaxHeight = 3
    MaxStarts = 1
    Inventories <- MCOneInventory
    Tx <- MCTx
    Outputs <- MCOutputs
    Born <- MCBorn
    Spent <- MCSpent
    a = a
    b = b
    c = c
    d = d
    e = e
INVARIANT SyncedAtReindex
CHECK_DEADLOCK FALSE
