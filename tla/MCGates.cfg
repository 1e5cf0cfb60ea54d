CONSTANTS
    Paths = {p}
    Contents = {Absent, c1}
    Absent = Absent
    Authority <- Far
    Assignments = {a1, op}
    Operations = {op}
    Nobody = Nobody
    None = None
    Needs = {{"verification", "review"}}
    Suspensions = {"blocked"}
    Questions = {}
    Results = {"passed", "failed", "accepted", "rejected"}
    Declarations = {{}}
    Items = {"meaningful"}
    Reports = {{"evidence", "blocker"}}
    MaxCommits = 1
    MaxEdits = 1
    MaxStarts = 2
SPECIFICATION Spec
SYMMETRY Symmetry
CHECK_DEADLOCK FALSE
INVARIANTS
    TypeOK
    EvidenceCovers
    IntegratedBaseline
    InvocationsAccounted
