SPECIFICATION Spec
CONSTANTS
    Workers = {w1, w2}
    Sweeper = sweeper
    Callers = {k1, k2}
    Contents = {c1}
    NoContent = noContent
    Channel = "slack"
    Faults = {"cancel", "db_error", "bad_body"}
    MaxAttempts = 2
    MaxReconciles = 2
    MaxRequests = 2
    MaxCrashes = 2
SYMMETRY Symmetry
INVARIANTS
    TypeOK
    AtMostOnce
    NullMeansUnsent
    AskedBeforeDispatch
    FailedTransientMeansAbsent
    EvidenceIsReal
    OneExecution
PROPERTY
    ImplementsGate
CHECK_DEADLOCK FALSE
