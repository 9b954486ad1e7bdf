\* Two processes submit, claim and record two jobs of either path, against the
\* operator, a scan that renames a file, and content rows that vanish.
SPECIFICATION QueueSpec
SYMMETRY Symmetry
CONSTANTS
    j1 = j1
    j2 = j2
    p1 = p1
    p2 = p2
    i1 = i1
    Null = Null
    JobId = {j1, j2}
    Ext = {"judge"}
    Fixer = {}
    Finder = {}
    Node = {"a", "b"}
    Input = {i1}
    FindingId = {}
    Section <- MCNoSection
    Priority = {0}
    Ttl = {}
    Given = {}
    Renames <- MCRenames
    MaxTime = 0
    Proc = {p1, p2}
    Engine = {"claim", "submit", "record"}
    Filter = {{"judge"}}
    FixersOf <- MCFixersOf
    HookQueued = {}
    Corruption = TRUE
    MaxCrashes = 0
VIEW Followed
CONSTRAINT
    NobodyWaits
INVARIANTS
    OneActivePerKey
    ClaimsExclusive
    RecordsAcknowledgedOnce
    CorruptIsClosed
