\* Two requests of a server or of a verb, with scans anywhere between their
\* steps, and one crash or one edit of the file or its sidecar.
SPECIFICATION Spec
CHECK_DEADLOCK FALSE
CONSTANTS
    b1 = b1
    Null = Null
    Server = {s1, s2}
    Cli = {c1}
    Value = {v1}
    Class = {"k1"}
    FinderOf <- MCFinderOf
    Body = {b1, b2}
    Flags <- MCFlags
    MaxRequests = 2
    MaxAccidents = 1
SYMMETRY Requests
INVARIANTS
    DismissalsStand
    MirrorFollowsFile
    DismissedIsGone
