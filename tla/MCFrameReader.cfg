SPECIFICATION FairReaderSpec
CONSTANTS
    MaxMessages = 2
    MaxPings = 1
    MaxPieces = 3
    MaxTimeouts = 1
INVARIANT
    FramesIntact
PROPERTY EveryMessageIsDelivered
CHECK_DEADLOCK FALSE
