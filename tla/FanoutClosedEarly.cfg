SPECIFICATION Spec
CONSTANTS
    NRuns = 2
    Sources <- TwoSources
    SourceOf <- OneRunEach
    ModeOf <- SlackLive
    Degradable = {"slack"}
    Faults = {}
    MaxAttempts = 2
    MaxCrashes = 0
PROPERTIES
    FinishedIsFinal
CHECK_DEADLOCK FALSE
