SPECIFICATION Spec
CONSTANTS
    Workers = {w1, w2}
    Sweeper = sweeper
    Callers = {k1}
    Contents = {c1}
    NoContent = noContent
    Channel = "gmail"
    Faults = {"zombie"}
    MaxAttempts = 2
    MaxReconciles = 2
    MaxRequests = 0
    MaxCrashes = 0
INVARIANT GmailNeverTwice
CHECK_DEADLOCK FALSE
