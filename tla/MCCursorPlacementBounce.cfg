SPECIFICATION Spec
CONSTANTS
    Heights = {3, 4}
    Bar = 1
    ClampsOnShrink = TRUE
    MaxQueries = 2
    MaxResizes = 2
    MaxTypedReplies = 0
INVARIANT CursorSettles
