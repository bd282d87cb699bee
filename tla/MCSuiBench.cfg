SPECIFICATION Spec
CONSTANTS
    NUM_ROUNDS = 2
    TxPerRound = 3
    TxPerCheckpoint = 2
    Unit = 10
    Tps = {18}
    Seconds = {0, 3}
    MaxRuns = 2
    MaxBehind = 1
INVARIANTS WafExact EnvironmentsSeparate ThroughputSound
PROPERTY ImplementsRounds
CHECK_DEADLOCK FALSE
