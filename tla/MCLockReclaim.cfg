CONSTANTS
    Proc = {p1, p2, p3}
    None = None
    MaxTries = 3
    MaxRounds = 1
    MaxCrashes = 1
    MaxAges = 0
    MaxErrors = 0
SPECIFICATION Spec
SYMMETRY Symmetry
CHECK_DEADLOCK FALSE
INVARIANTS
    Exclusive
