SPECIFICATION Spec
CONSTANTS
    worker = worker
    api = api
    Processes = {worker, api}
    Servers = {api}
    Workers = {w1, w2}
    RunsIn <- InOne
    Accounts = {"gmail", "slack"}
    ProviderOf <- OfEach
    MaxTokens = 2
    MaxRows = 1
SYMMETRY Symmetric
CONSTRAINT Scope
INVARIANTS
    TypeOK
    NoReplay
    RepairHolds
    DisconnectDrops
    RotationKeeps
    ActiveRenewable
PROPERTY
    NeverNulled
