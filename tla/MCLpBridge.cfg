SPECIFICATION FairSpec
CONSTANTS
    Modes = {"two", "client"}
    Commands <- AllForms
    SourceGiven = TRUE
    MaxWrites = 2
    MaxSummaries = 1
    MaxLinks = 2
INVARIANTS
    NoOlderCommandAfterNewer
    LatestIsPendingOrHanded
PROPERTY PendingIsForwarded
CHECK_DEADLOCK FALSE
