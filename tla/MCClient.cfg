CONSTANTS
    MaxRequests = 3
    MaxLines = 4
    Asks = {a1}
    Timed = TRUE
SPECIFICATION FairSpec
CHECK_DEADLOCK FALSE
INVARIANTS
    HandshakeFirst
    OwnAnswer
PROPERTIES
    SettledOnce
    SilentWhenClosed
    SettledAfterExit
