CONSTANTS
    Assignments = {a1, a2}
    IntentFile = intent
    NoJournal = NoJournal
    NoRequest = NoRequest
    Unread = Unread
    MaxOps = 1
    MaxFaults = 0
SPECIFICATION DSpec
SYMMETRY Symmetry
INVARIANTS
    WholeTransactionsOrReported
