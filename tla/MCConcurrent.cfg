CONSTANTS
    Paths = {p, q}
    Contents = {Absent, c1}
    Absent = Absent
    Authority <- Near
    Assignments = {a1, a2}
    Operations = {}
    Nobody = Nobody
    None = None
    Needs = {{}}
    Suspensions = {}
    Questions = {}
    Results = {}
    Declarations = {{}}
    Items = {"none"}
    Reports = {{"evidence", "blocker"}}
    MaxCommits = 1
    MaxEdits = 1
    MaxStarts = 1
SPECIFICATION Spec
SYMMETRY Symmetry
CHECK_DEADLOCK FALSE
PROPERTIES
    BaselineAttributed
