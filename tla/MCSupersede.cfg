CONSTANTS
    Paths = {p}
    Contents = {Absent}
    Absent = Absent
    Authority <- Far
    Assignments = {a1, a2, a3}
    Operations = {}
    Nobody = Nobody
    None = None
    Needs = {{"verification", "review"}}
    Suspensions = {"needs_root_input"}
    Questions = {"open"}
    Results = {"passed", "accepted", "rejected"}
    Declarations = {{}, {"acceptance_met", "root_readiness"}}
    Items = {"none", "meaningful"}
    Reports = {{}, {"evidence", "blocker"}}
    MaxCommits = 0
    MaxEdits = 0
    MaxStarts = 1
SPECIFICATION Spec
SYMMETRY Symmetry
CHECK_DEADLOCK FALSE
INVARIANTS
    SupersessionSound
    CompletionSound
    LawfulRecordsDiagnosedSound
PROPERTIES
    TerminalFrozen
