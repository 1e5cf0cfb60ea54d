CONSTANTS
    Proc = {p1, p2, p3}
    None = None
    MaxTries = 2
    MaxRounds = 1
    MaxCrashes = 1
    MaxAges = 1
    MaxErrors = 1
SPECIFICATION FairSpec
CHECK_DEADLOCK FALSE
INVARIANTS
    ExclusiveUnlessRobbed
    RobbedOnlyAfterLoss
PROPERTIES
    DeadOwnerReclaimed
