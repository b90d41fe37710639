SPECIFICATION FairSpec
CONSTANTS
    NRuns = 2
    Sources <- TwoSources
    SourceOf <- OneRunEach
    ModeOf <- SlackLive
    Degradable = {"slack"}
    Faults = {"cancel"}
    MaxAttempts = 2
    MaxCrashes = 0
PROPERTIES
    AlwaysFinishes
CHECK_DEADLOCK FALSE
