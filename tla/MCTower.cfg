SPECIFICATION Spec
CONSTANTS
    MaxSlot = 6
    Parent <- MCParent
    MAX_LOCKOUT_HISTORY = 3
    MAX_ENTRIES = 5
    MaxQueue = 2
    MaxCrashes = 1
    KeysChange = FALSE
INVARIANTS LockoutsHonored Landable Restorable
CHECK_DEADLOCK FALSE
