---------------------------- MODULE LimitCommands ---------------------------
(***************************************************************************)
(* What ShipServer promises the caller of send_load_power_limit_to_peer:   *)
(* every command has a write and a readback of its own, the peer's result  *)
(* for the write is reported at most once, and so is the state read back.  *)
(* Commands are named by the msgCounter of the datagram the peer answers.  *)
(***************************************************************************)
EXTENDS FiniteSets

CONSTANT Counters
VARIABLES writes, readbacks,        \* asked, and not answered yet
          acked, reported           \* answered

vars == <<writes, readbacks, acked, reported>>

Init == writes = {} /\ readbacks = {} /\ acked = {} /\ reported = {}

Known == writes \cup readbacks \cup acked \cup reported

Issue ==
    /\ UNCHANGED <<acked, reported>>
    /\ \E w \in Counters \ Known :
          /\ writes' = writes \cup {w}
          /\ \E r \in Counters \ (Known \cup {w}) : readbacks' = readbacks \cup {r}

Acknowledge(w) ==
    /\ w \in writes
    /\ writes' = writes \ {w}
    /\ acked' = acked \cup {w}
    /\ UNCHANGED <<readbacks, reported>>

\* A reply that carries no limit uses the readback up.
ReadBack(r) ==
    /\ r \in readbacks
    /\ readbacks' = readbacks \ {r}
    /\ reported' \in {reported, reported \cup {r}}
    /\ UNCHANGED <<writes, acked>>

Next == Issue \/ \E c \in Counters : Acknowledge(c) \/ ReadBack(c)

Spec == Init /\ [][Next]_vars

\* A command is never outstanding and answered at once, and no counter names
\* two of its datagrams.
Unambiguous ==
    /\ writes \cap acked = {}
    /\ readbacks \cap reported = {}
    /\ (writes \cup acked) \cap (readbacks \cup reported) = {}
=============================================================================
