SPECIFICATION Spec
CONSTANTS
    Workers = {w1}
    Sweeper = sweeper
    Callers = {k1, k2}
    Contents = {c1}
    NoContent = noContent
    Channel = "slack"
    Faults = {}
    MaxAttempts = 2
    MaxReconciles = 2
    MaxRequests = 2
    MaxCrashes = 0
PROPERTY DeliveredIsFinal
CHECK_DEADLOCK FALSE
