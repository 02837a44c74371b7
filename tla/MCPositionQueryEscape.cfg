SPECIFICATION Spec
CONSTANTS
    BusCap = 1
    MaxQueries = 1
    MaxKeys = 1
INVARIANTS NoKeyDropped
CHECK_DEADLOCK FALSE
