SPECIFICATION FairSpec
CONSTANTS
    w1 = w1
    w2 = w2
    Worker <- TwoWorkers
    SeedObjects = 0
    MaxInflight = 1
    BatchSize = 1
    CreatePct = 50
    UseBlobs = FALSE
    MemThreshold = 75
    MemCritical = 85
    MemEmergency = 92
    MaxTracked = 1
    TruncFloor = 3
    BlobLimit = 1
    MaxFailures = 1
    Usage <- Emergency
    MaxAttempts = 2
    MaxFaults = 0
    MaxReports = 0
PROPERTY Termination
PROPERTY PermitGranted
