SPECIFICATION Spec
CONSTANTS
    Sender = {s1, s2}
    MaxU64 = 255
    LcgMul = 13
    LcgInc = 5
    LcgMod = 16
    ByteMod = 4
    BLOB_SIZE = 6
    BatchSizes = {2}
    Entropy = {0, 4}
    MaxObjects = 2
    MaxCalls = 4
    MaxEpoch = 1
INVARIANT UniqueData
CHECK_DEADLOCK FALSE
