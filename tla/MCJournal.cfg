\* Up to four frames in any order, late claims and spawns without a parent node
\* among them, with stops, wipes, crashes and failing writes between them.
SPECIFICATION FairSpec
CHECK_DEADLOCK FALSE
CONSTANTS
    main = main
    kid = kid
    grandkid = grandkid
    Main = {main}
    Prefixed = {main}
    Agent = {kid, grandkid}
    Parent <- MCParent
    MaxFiles = 2
    MaxFrames = 4
    MaxGestures = 3
    MaxEvents = 6
INVARIANTS
    GroupsLikeTheTape
    FilesAreTheSessions
    StoppedIsEnded
PROPERTY
    CapturedIsFlushed
