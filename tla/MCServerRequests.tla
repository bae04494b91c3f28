--------------------------- MODULE MCServerRequests -------------------------
\* ServerRequests with a limit each peer writes in part, one it writes with
\* another, a wipe, and a write of the configuration.
EXTENDS ServerRequests, TLC

MCWrites ==
    { [store |-> "limits", items |-> (0 :> [value |-> 6])],
      [store |-> "limits", items |-> (0 :> [active |-> 1])],
      [store |-> "limits", items |-> (0 :> [value |-> 7]) @@ (1 :> [value |-> 7])],
      [store |-> "limits", items |-> NoList],
      [store |-> "configuration", items |-> (0 :> [value |-> 6])] }
=============================================================================
