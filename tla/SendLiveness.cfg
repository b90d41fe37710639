SPECIFICATION FairSpec
CONSTANTS
    Workers = {w1, w2}
    Sweeper = sweeper
    Callers = {k1}
    Contents = {c1}
    NoContent = noContent
    Channel = "slack"
    Faults = {"zombie", "same_pid"}
    MaxAttempts = 2
    MaxReconciles = 2
    MaxRequests = 0
    MaxCrashes = 1
PROPERTIES
    QueueDrains
    OnlyOperatorReopens
CHECK_DEADLOCK FALSE
