SPECIFICATION Spec
CONSTANTS
    Hash <- MCHash
    Prev <- MCPrev
    Height <- MCHeight
    Remote <- MCRemote
    NoHash = "none"
    Genesis = "g"
    t1 = t1
    t2 = t2
    t3 = t3
    Thread = {t1, t2, t3}
    Miner = {t1, t2}
INVARIANTS TypeOK MinedOnStored TipReadable PointersAgree
PROPERTIES AddBlockRaisesTip PromiseKept
