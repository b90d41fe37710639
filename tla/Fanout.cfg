SPECIFICATION FairSpec
CONSTANTS
    NRuns = 2
    Sources <- TwoSources
    SourceOf <- OneRunEach
    ModeOf <- SlackLive
    Degradable = {"slack"}
    Faults = {"cancel", "db_error"}
    MaxAttempts = 2
    MaxCrashes = 1
INVARIANTS
    TypeOK
    ResultsOnce
    ModeHonest
    LastCloses
PROPERTIES
    SearchCloses
    ImplementsSearch
CHECK_DEADLOCK FALSE
