SPECIFICATION FairSpec
CONSTANTS
    BatchSize = 2
    BlocksAtOnce = 3
    MaxHeight = 6
    MaxRuns = 2
    MaxBehind = 1
INVARIANT RecordedKilled
PROPERTY ImplementsRounds
PROPERTY TestnetEnds
CHECK_DEADLOCK FALSE
