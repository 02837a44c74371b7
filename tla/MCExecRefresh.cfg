SPECIFICATION MCSpec
CONSTANTS
    w1 = w1
    w2 = w2
    Workers = {w1, w2}
    d1 = d1
    d2 = d2
    Dirs = {d1, d2}
    BusCap = 1
    MaxGens = 2
    MaxChanges = 1
INVARIANT FinalSnapshotIsCurrent
PROPERTIES PromiseKept DirectoryCatchesUp
