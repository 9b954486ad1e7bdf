\* Three fixer jobs over one node: whole-node and single-finding targets,
\* supersede, the running refusal, the order of claims by priority and by the
\* instant of the submit, prune and the shared content rows.  The clock moves
\* before the third job and the second job's record.
SPECIFICATION Spec
SYMMETRY FixerSymmetry
CONSTANTS
    j1 = j1
    j2 = j2
    j3 = j3
    i1 = i1
    i2 = i2
    f1 = f1
    f2 = f2
    Null = Null
    JobId = {j1, j2, j3}
    Ext = {"tidy"}
    Fixer = {"tidy"}
    Finder = {}
    Node = {"a"}
    Input = {i1, i2}
    FindingId = {f1, f2}
    Section <- MCSection
    Priority = {0, 1}
    Ttl = {}
    Given = {}
    Renames = {}
    MaxTime = 1
CONSTRAINT
    ClockOrThirdJob
INVARIANTS
    TypeOK
    ContentIntegrity
    FixersDisjoint
    ExecutionsAgree
PROPERTIES
    SubmitSparesRunning
    ClaimsInOrder
    ImplementsLifecycle
