SPECIFICATION Spec
CONSTANTS
    BusCap = 1
    MaxImages = 2
    MaxOutput = 1
    MaxKeys = 1
    MaxSizes = 2
    MaxSignals = 2
INVARIANTS ExitIsClean SessionIsKept OutputIsComplete SizeIsCurrent
PROPERTY Ends
CHECK_DEADLOCK FALSE
