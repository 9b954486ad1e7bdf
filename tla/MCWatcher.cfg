\* Both drivers, two files, one of which may be ignored: edits, failing passes
\* and a stop at any time.
SPECIFICATION FairSpec
CHECK_DEADLOCK FALSE
CONSTANTS
    f1 = f1
    f2 = f2
    Path = {f1, f2}
    Ignorable = {f1}
    Modes = {"cli", "bff"}
    BreakerLimit = 1
    MaxEdits = 2
INVARIANTS
    SerialPassesKeepUp
PROPERTIES
    EventsAreTaken
    StopCompletes
    NothingAfterStop
