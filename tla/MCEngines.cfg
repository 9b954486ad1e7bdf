\* A fair schedule of one process: every engine, over two jobs of a finder and
\* its fixer and the operator.
SPECIFICATION FairSpec
CONSTANTS
    j1 = j1
    j2 = j2
    p1 = p1
    p2 = p2
    i1 = i1
    Null = Null
    JobId = {j1, j2}
    Ext = {"judge", "tidy"}
    Fixer = {"tidy"}
    Finder = {"judge"}
    Node = {"a"}
    Input = {i1}
    FindingId = {}
    Section <- MCNoSection
    Priority = {0}
    Ttl = {}
    Given = {"abandoned"}
    Renames = {}
    MaxTime = 0
    Proc = {p1}
    Engine = {"submit", "record", "claim", "cascade"}
    Filter <- MCFilter
    FixersOf <- MCFixersOf
    HookQueued <- MCHookQueued
    Corruption = FALSE
    MaxCrashes = 0
PROPERTIES
    EnginesFinish
    EnginesUseStore
