SPECIFICATION FairSpec
CONSTANTS
    BusCap = 1
    MaxQueries = 2
    MaxKeys = 2
INVARIANTS InputArrives
PROPERTIES InputGetsThrough IsQueryChannel
CHECK_DEADLOCK FALSE
