SPECIFICATION Spec
CONSTANTS
    k1 = k1
    k2 = k2
    k3 = k3
    Base = 2
    Width = 3
    Process = {1, 2}
    Key <- MCKey
    Point <- MCPoint
    Pairs <- MCPairs
    Absent = Absent
    Empty = Empty
INVARIANTS TypeOK KeysKept Readable AcceptedWhenEven
CHECK_DEADLOCK FALSE
