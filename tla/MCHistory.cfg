\* Files made, moved, edited, deleted and silenced between scans, with rows of
\* both sorts recorded about them and repaired by hand.
SPECIFICATION Spec
CONSTANTS
    a = a
    b = b
    c = c
    PathOrder <- MCPathOrder
    BodyHash = {1, 2}
    FrontHash = {1}
    Key = {"key"}
    NoKey = "none"
    FirstDisks <- MCFirstDisks
    MaxFiles = 3
    MaxMoves = 3
    MaxRows = 2
INVARIANTS
    HistoryTypeOK
    StrandedIsFlagged
PROPERTY
    HistoryFollowsTheFile
