SPECIFICATION Spec
CONSTANTS
  Conns = {c1, c2}
  trusted = trusted
  stranger = stranger
  Peers <- MCPeers
  TrustedSkis = {}
  NoSki = NoSki
  NoConn = NoConn
PROPERTIES
  RefusedOnlyWhenNotConnected
