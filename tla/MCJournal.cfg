CONSTANTS
    Assignments = {a1, a2}
    IntentFile = intent
    NoJournal = NoJournal
    NoRequest = NoRequest
    Unread = Unread
    MaxOps = 3
    MaxFaults = 2
SPECIFICATION DFairSpec
INVARIANTS
    JournalInv
    QuietDiagnosisSound
PROPERTIES
    Implements
    SuccessIsFinal
    PendingResolved
