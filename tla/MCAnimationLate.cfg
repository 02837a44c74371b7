SPECIFICATION MCSpec
CONSTANTS
    MaxBufferedCSI = 1
    MaxOSCPayload = 1
    MaxBytes = 0
    MaxSwitchBytes = 0
    MaxTokens = 0
    MaxSymbols = 0
    None = None
    git = git
    Modules = {git}
    Values = {a, b}
    RowOf <- MCRowOf
    RowCount = 2
    CommandRow = 2
    Durations = {0}
    Cycle = 2
    MaxPhase = 3
    Rows = 5
    Bar = 2
INVARIANT GoesOn
CHECK_DEADLOCK FALSE
