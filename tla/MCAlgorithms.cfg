SPECIFICATION MCSpec
CONSTANTS
    MaxBufferedCSI = 3
    MaxOSCPayload = 4
    MaxBytes = 5
    MaxSwitchBytes = 7
    MaxTokens = 5
    MaxSymbols = 4
    None = None
    git = git
    Modules = {git}
    Values = {a, b}
    RowOf <- MCRowOf
    RowCount = 3
    CommandRow = 2
    Durations = {0, 2}
    Cycle = 2
    MaxPhase = 3
    Rows = 5
    Bar = 2
SYMMETRY MCSymmetry
INVARIANTS CutsNeverMatter SequencesAreTheTerminals RowsAreExact OnlyWhatDoesNotFitIsDropped NoStraySeparator TextsAreTidy NothingFreezes BeliefIsExact EraseIsFaithful CursorOffBar
PROPERTY ChangesAreLit
CHECK_DEADLOCK FALSE
