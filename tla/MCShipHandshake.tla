--------------------------- MODULE MCShipHandshake --------------------------
\* ShipHandshake between the two sides of the library, and of each side with a
\* foreign peer that sends messages of every stage at any time.
EXTENDS ShipHandshake

ForeignClientSends ==
    {"init", "hello ready", "hello aborted", "announceMax", "select", "pin none",
     "access methods request", "access methods", "access status", "other"}
ForeignServerSends ==
    {"init", "hello ready", "hello pending", "hello prolongation", "select", "pin none",
     "access methods request", "access methods", "close"}
=============================================================================
