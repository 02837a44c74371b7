SPECIFICATION MCSpec
CONSTANTS
    v1 = v1
    v2 = v2
    Lines = {v1, v2}
    Heights = {3, 4, 5}
    Areas = {1, 2}
    BusCap = 2
    LargeJump = 2
    MinMargin = 2
    OtherSignals = {"USR1"}
    MaxResizes = 2
INVARIANTS ScreenFitsWindow CacheIsSound
PROPERTIES ResizeCommitted BarCatchesUp
