SPECIFICATION FairSpec
CONSTANTS
    seed = seed
    miner = miner
    other = other
    Node <- MCNode
    Seed = seed
    Miner = {miner}
    NotMining = NotMining
    Mortal = {miner}
    InitialTip <- SeedAhead
    MaxMined = 0
    MaxStarts = 2
PROPERTY StartupSyncs
CHECK_DEADLOCK FALSE
