SPECIFICATION FairSpec
CONSTANTS
    Sessions = {1, 2}
    Tasks = {"select", "ping", "keepalive"}
    Services = {"peer", "other"}
    Wanted = "peer"
    Places <- MCPlaces
    Callers <- MCCallers
    MeasurementServers = 2
    Unasked = {"values"}
    MaxControls = 1
    MaxQueue = 1
INVARIANTS
    TypeOK
    LeftSessionsAreQuiet
    OnlySelectionsBreakClose
    AnswersAreOwn
PROPERTIES
    RediscoveryFindsThePeer
    OperationsEnd
CHECK_DEADLOCK FALSE
