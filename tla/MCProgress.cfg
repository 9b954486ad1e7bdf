\* A fair schedule: waiting claims, a TTL and one kill over one job.
SPECIFICATION FairSpec
CONSTANTS
    j1 = j1
    j2 = j2
    p1 = p1
    p2 = p2
    i1 = i1
    Null = Null
    JobId = {j1}
    Ext = {"judge"}
    Fixer = {}
    Finder = {}
    Node = {"a"}
    Input = {i1}
    FindingId = {}
    Section <- MCNoSection
    Priority = {0}
    Ttl = {1}
    Given = {}
    Renames = {}
    MaxTime = 2
    Proc = {p1, p2}
    Engine = {"claim", "submit"}
    Filter = {{"judge"}}
    FixersOf <- MCFixersOf
    HookQueued = {}
    Corruption = FALSE
    MaxCrashes = 1
INVARIANT
    RowsCoherent
PROPERTIES
    WaiterTakesWork
    AbandonedIsReaped
