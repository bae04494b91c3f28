SPECIFICATION FairSpec
CONSTANTS
  Conns = {c1, c2, c3}
  trusted = trusted
  stranger = stranger
  Peers <- MCPeers
  TrustedSkis <- MCTrusted
  NoSki = NoSki
  NoConn = NoConn
INVARIANTS
  TypeOK
  RegistrySound
  EventsTrackRegistry
  ReachableUnlessOverlapped
  NothingLeaks
PROPERTIES
  DeadSessionsEnd
