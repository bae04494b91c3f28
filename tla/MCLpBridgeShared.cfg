SPECIFICATION FairSpec
CONSTANTS
    Modes = {"shared"}
    Commands <- GoodCommands
    SourceGiven = TRUE
    MaxWrites = 1
    MaxSummaries = 1
    MaxLinks = 2
PROPERTY PendingIsForwarded
CHECK_DEADLOCK FALSE
