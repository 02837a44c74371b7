SPECIFICATION FairSpec
CONSTANTS
    Workers = {w1, w2, w3}
    Dirs = {d1, d2}
    Home = d1
    Variants = {v1, v2}
    First = v1
    None = None
    BusCap = 1
    MaxGens = 2
    MaxChanges = 2
    MaxReloads = 2
INVARIANTS OnlyTheEntryRuns
PROPERTY BarCatchesUp
CHECK_DEADLOCK FALSE
