-------------------------- MODULE MCServerSessions --------------------------
(* Three connections; a trusted peer, an untrusted one, and certificates    *)
(* without a SKI.                                                           *)
EXTENDS ServerSessions

CONSTANTS trusted, stranger

MCPeers == {trusted, stranger}
MCTrusted == {trusted}
=============================================================================
