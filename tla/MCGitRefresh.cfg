SPECIFICATION Spec
CONSTANTS
    Dirs = {d1, d2}
    Home = d1
    Workers = {w1, w2}
    BusCap = 1
    MaxGens = 2
    MaxChanges = 2
    MaxVersion = 1
INVARIANTS QuietMeansCurrent
PROPERTY BarCatchesUp
