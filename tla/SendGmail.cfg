SPECIFICATION Spec
CONSTANTS
    Workers = {w1}
    Sweeper = sweeper
    Callers = {k1, k2}
    Contents = {c1, c2}
    NoContent = noContent
    Channel = "gmail"
    Faults = {"late", "cancel", "bad_body"}
    MaxAttempts = 2
    MaxReconciles = 2
    MaxRequests = 2
    MaxCrashes = 1
SYMMETRY Symmetry
INVARIANTS
    GmailNeverTwice
    RecordedDraftOnly
PROPERTY
    ImplementsDraftGate
CHECK_DEADLOCK FALSE
