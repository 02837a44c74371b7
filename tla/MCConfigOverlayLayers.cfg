SPECIFICATION OverlaySpec
CONSTANTS
    Ids = {"git", "x", "t", "y"}
    Builtins = {"git"}
    Commands = {"c1", "c2"}
    Styles = {"fine", "broken"}
    Colors = {"red", "broken"}
    Broken = "broken"
    None = None
    Missing = Missing
    Malformed = Malformed
    DefaultMods <- MCDefaultMods
    DefaultBar = {"git"}
    Dirs = {"work", "sub"}
    Above <- MCAbove
    HasCliOverlay = TRUE
    BaseFiles <- MCBaseFiles
    Overlays <- MCOverlays
    MaxEdits = 0
INVARIANT EnabledIsLayered
