SPECIFICATION Spec
CONSTANTS
    w1 = w1
    w2 = w2
    Worker <- OneWorker
    SeedObjects = 2
    MaxInflight = 1
    BatchSize = 2
    CreatePct = 50
    UseBlobs = FALSE
    MemThreshold = 75
    MemCritical = 85
    MemEmergency = 92
    MaxTracked = 5
    TruncFloor = 3
    BlobLimit = 1
    MaxFailures = 2
    Usage <- AllUsages
    MaxAttempts = 3
    MaxFaults = 2
    MaxReports = 0
INVARIANT GasAtMostOneBehind
INVARIANT TrackedGenuine
INVARIANT CoherentUntilFault
INVARIANT TrackedCapped
INVARIANT OneLateCreate
PROPERTY UnseenBlocksExecution
PROPERTY DeadRefsStayDead
PROPERTY NeverEmptied
