SPECIFICATION Spec
CONSTANTS
    w1 = w1
    w2 = w2
    Worker <- TwoWorkers
    SeedObjects = 1
    MaxInflight = 1
    BatchSize = 1
    CreatePct = 50
    UseBlobs = FALSE
    MemThreshold = 75
    MemCritical = 85
    MemEmergency = 92
    MaxTracked = 5
    TruncFloor = 3
    BlobLimit = 1
    MaxFailures = 2
    Usage <- NoPressure
    MaxAttempts = 2
    MaxFaults = 1
    MaxReports = 1
SYMMETRY WorkerSymmetry
INVARIANT PermitsConserved
INVARIANT StatsAccounted
INVARIANT ReportLag
INVARIANT CountersOnChain
