SPECIFICATION Spec
CONSTANTS
    r1 = r1
    r2 = r2
    r3 = r3
    r4 = r4
    Replica <- MCReplica
    Faulty <- MCFaulty
    Quorum <- MCQuorum
    Block <- MCBlock
    EpochOf <- MCEpochOf
    Round <- MCRound
    Parent <- MCParent
    MaxEpoch = 2
    MaxRound = 1
    MaxDisturbances = 1
SYMMETRY Symmetric
INVARIANTS Agreement OrderedLocks
PROPERTY StoredGrows
