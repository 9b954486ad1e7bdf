\* sm watch, one file whose batch fails.
SPECIFICATION FairSpec
CHECK_DEADLOCK FALSE
CONSTANTS
    f1 = f1
    f2 = f2
    Path = {f1}
    Ignorable = {}
    Modes = {"cli"}
    BreakerLimit = 1
    MaxEdits = 1
PROPERTIES
    BreakerStops
