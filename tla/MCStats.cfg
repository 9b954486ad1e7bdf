\* Two nodes and an owner, room for one pair and one sticky start; two frames,
\* and two of what fails, clears, renames or ends the server.
SPECIFICATION FairSpec
CHECK_DEADLOCK FALSE
CONSTANTS
    n1 = n1
    n2 = n2
    o1 = o1
    Null = Null
    Node = {n1, n2}
    Owner = {o1}
    PairCap = 1
    StickyCap = 1
    MaxFrames = 2
    MaxAccidents = 2
INVARIANT
    UnsavedIsPending
PROPERTIES
    NeverRegresses
    NextWindowSavesAll
