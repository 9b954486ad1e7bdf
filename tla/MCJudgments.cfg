\* A finder, its fixer and a summarizer over two paths.  Files are edited
\* between a submit and its record, so two runs of one extension over one path
\* may be active together, and are removed and renamed.
SPECIFICATION FindingsSpec
SYMMETRY JudgmentSymmetry
CONSTANTS
    j1 = j1
    j2 = j2
    a = a
    b = b
    b1 = b1
    b2 = b2
    Null = Null
    JobId = {j1, j2}
    Ext = {"judge", "tidy", "brief"}
    Fixer = {"tidy"}
    Finder = {"judge"}
    Node = {a, b}
    Input <- MCInput
    FindingId = {1, 2, 3}
    Section <- MCSection
    Priority = {0}
    Ttl = {}
    Given = {}
    Renames <- MCRenames
    MaxTime = 0
    Body = {b1, b2}
    Message = {"m1"}
    Found <- MCFound
    Serves <- MCServes
    Summarizer = {"brief"}
    Change = {"edit", "remove", "rename"}
CONSTRAINT
    SomePathInPlace
INVARIANTS
    OneSafetyVerdict
    LatestJudgment
