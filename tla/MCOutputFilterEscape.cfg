SPECIFICATION FilterSpec
CONSTANTS
    Rows = 4
    Bar = 1
INVARIANT CursorNeverOnBar
CHECK_DEADLOCK FALSE
