SPECIFICATION FairSpec
CONSTANTS
    seed = seed
    m1 = m1
    t1 = t1
    t2 = t2
    t3 = t3
    t0 = t0
    Seed = seed
    Miner = {m1}
    Mortal = {seed}
    Client = Client
    Tx = {t1, t2, t3}
    Old = {t0}
    Empty = Empty
    Bad = {t2}
    Needs <- MCNeeds
    InitialChain <- MCInitialChain
    MaxJobs = 2
    MaxSends <- MCMaxSends
    MaxStarts = 2
INVARIANTS TypeOK NothingStuck NothingLost PackedOnce AnsweredInFull
PROPERTIES GossipReaches PoolIsMined
CHECK_DEADLOCK FALSE
