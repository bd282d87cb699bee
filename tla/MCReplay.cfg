SPECIFICATION FairSpec
CONSTANTS
    TOTAL_BLOCKS = 3
    CHUNK_BLOCKS = 2
    MaxRuns = 2
    MaxBehind = 1
INVARIANTS WafExact MonitorStopped
PROPERTIES ImplementsRounds ReplayEnds
CHECK_DEADLOCK FALSE
