SPECIFICATION Spec
CONSTANTS
    NRuns = 3
    Sources <- TwoSources
    SourceOf <- TwoAccounts
    Lists <- SomeLists
    PerSourceCap = 3
    MaxStarts = 3
    MaxStreams = 2
INVARIANTS
    TypeOK
    SnapshotHonest
    PageInterleaves
PROPERTY
    StreamTellsAll
CHECK_DEADLOCK FALSE
