SPECIFICATION Spec
CONSTANTS
    Heights = {2, 3, 4}
    Bar = 1
    ClampsOnShrink = TRUE
    MaxQueries = 2
    MaxResizes = 3
    MaxTypedReplies = 1
INVARIANT CursorOutOfBar
