SPECIFICATION FairSpec
CONSTANTS
    seed = seed
    miner = miner
    other = other
    Node <- MCNode
    Seed = seed
    Miner = {miner}
    NotMining = NotMining
    Mortal = {seed}
    InitialTip <- SeedAhead
    MaxMined = 2
    MaxStarts = 2
INVARIANTS TypeOK NoPanic AskedIsHeld
PROPERTIES JoinerSyncs SeedLearns
CHECK_DEADLOCK FALSE
