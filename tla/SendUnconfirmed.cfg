SPECIFICATION Spec
CONSTANTS
    Workers = {w1}
    Sweeper = sweeper
    Callers = {k1}
    Contents = {c1, c2}
    NoContent = noContent
    Channel = "slack"
    Faults = {}
    MaxAttempts = 2
    MaxReconciles = 2
    MaxRequests = 0
    MaxCrashes = 0
INVARIANT ConfirmedContentOnly
CHECK_DEADLOCK FALSE
