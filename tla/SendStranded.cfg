SPECIFICATION Spec
CONSTANTS
    Workers = {w1}
    Sweeper = sweeper
    Callers = {k1}
    Contents = {c1}
    NoContent = noContent
    Channel = "gmail"
    Faults = {}
    MaxAttempts = 6
    MaxReconciles = 3
    MaxRequests = 0
    MaxCrashes = 0
INVARIANT NotStranded
CHECK_DEADLOCK FALSE
