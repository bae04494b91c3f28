SPECIFICATION FairSpec
CONSTANTS
    Peerings = {"sdk", "foreign client", "foreign server"}
    Paces = {TRUE, FALSE}
    ServerModes = {"standard", "compatibility"}
    ClientModes = {"standard", "compatibility"}
    ServerSends <- ForeignServerSends
    ClientSends <- ForeignClientSends
    MaxSends = 7
INVARIANTS
    SessionsAreNegotiated
    NoHalfOpenSession
    IdsAreExchanged
PROPERTIES
    FastHandshakeSucceeds
    ClientHandshakeEnds
CHECK_DEADLOCK FALSE
