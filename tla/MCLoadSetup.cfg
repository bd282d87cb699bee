SPECIFICATION FairSpec
CONSTANTS
    Workers = 2
    SeedObjects = 3
    SeedBatch = 2
    FaucetChunk = 1
    Posts = 1
    Queries = 2
    MaxTracked = 3
    MaxFresh = 1
    MaxStarts = 2
    MaxWork = 1
    MaxFaults = 1
    MaxChains = 2
INVARIANTS RefsOwned CurrentUntilUnseen SeedsComplete
PROPERTIES ImplementsPhases SetupEnds
CHECK_DEADLOCK FALSE
