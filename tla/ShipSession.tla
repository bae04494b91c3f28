----------------------------- MODULE ShipSession ----------------------------
(***************************************************************************)
(* The life of ShipSession (eebus_sdk/ship.py): open, the tasks that send  *)
(* beside the reader (the delayed selection of an access method, the       *)
(* WebSocket pings and the SHIP keep-alives), and close, which awaits them *)
(* one after another.  Several sessions may exist, each with its own       *)
(* transport (websocket.py); the handshake is in ShipHandshake.            *)
(***************************************************************************)
EXTENDS Integers, Sequences

CONSTANTS
    Sessions,       \* identities of sessions
    Tasks           \* the tasks a session may be configured to run: of TaskNames

TaskNames == {"select", "ping", "keepalive"}

VARIABLES
    phase,          \* new, handshake, failed, ready, what close awaits, closed, or raised
    options,        \* the tasks that the configuration asks for
    task,           \* what became of each task
    transport,      \* the local side: none, open or closed
    link            \* the network under it

sessionVars == <<phase, options, task, transport, link>>

Running == {"sleeping", "half"}
Closing == <<"select", "ping", "keepalive", "transport">>     \* what close awaits, in order
InClose(s) == \E i \in DOMAIN Closing : phase[s] = Closing[i]

Init ==
    /\ phase = [s \in Sessions |-> "new"]
    /\ options \in [Sessions -> {{}, Tasks}]
    /\ task = [s \in Sessions |-> [t \in TaskNames |-> "none"]]
    /\ transport = [s \in Sessions |-> "none"]
    /\ link = [s \in Sessions |-> FALSE]

-----------------------------------------------------------------------------
\* open: the connection is up, and its handshake begins.
Connect(s) ==
    /\ phase[s] = "new"
    /\ phase' = [phase EXCEPT ![s] = "handshake"]
    /\ transport' = [transport EXCEPT ![s] = "open"]
    /\ link' = [link EXCEPT ![s] = TRUE]
    /\ UNCHANGED <<options, task>>

\* open raises: no connection, an untrusted peer, or a failed handshake.  It
\* does not close what it has opened.
OpenFails(s) ==
    /\ phase[s] \in {"new", "handshake"}
    /\ phase' = [phase EXCEPT ![s] = "failed"]
    /\ UNCHANGED <<options, task, transport, link>>

\* A request for access methods in the handshake; the selection that an
\* earlier one scheduled is cancelled.
ScheduleSelect(s) ==
    /\ phase[s] = "handshake" /\ "select" \in options[s]
    /\ task' = [task EXCEPT ![s].select = "sleeping"]
    /\ UNCHANGED <<phase, options, transport, link>>

\* The end of perform_handshake starts the two loops.
HandshakeEnds(s) ==
    /\ phase[s] = "handshake"
    /\ phase' = [phase EXCEPT ![s] = "ready"]
    /\ task' = [task EXCEPT ![s] = [t \in TaskNames |->
                   IF t # "select" /\ t \in options[s] THEN "sleeping" ELSE @[t]]]
    /\ UNCHANGED <<options, transport, link>>

-----------------------------------------------------------------------------
\* What a task does after a send: the selection is done, a ping sleeps again,
\* a keep-alive is two sends.
AfterSend(s, t) ==
    CASE t = "select" -> "sent"
      [] t = "ping" -> "sleeping"
      [] t = "keepalive" -> IF task[s][t] = "half" THEN "sleeping" ELSE "half"

\* Fault: the loops do not catch the error of a send.
AfterErrorUncaught(t) == "failed"

\* The loops end when a send raises; the selection keeps the exception.
AfterError(t) == IF t = "select" THEN "failed" ELSE "ended"

\* A task has slept and sends: a transport without a link may take it or raise.
TaskSends(s, t) ==
    /\ task[s][t] \in Running
    /\ \/ /\ transport[s] = "open"
          /\ task' = [task EXCEPT ![s][t] = AfterSend(s, t)]
       \/ /\ transport[s] # "open" \/ ~link[s]
          /\ task' = [task EXCEPT ![s][t] = AfterError(t)]
    /\ UNCHANGED <<phase, options, transport, link>>

LinkDrops(s) ==
    /\ link[s]
    /\ link' = [link EXCEPT ![s] = FALSE]
    /\ UNCHANGED <<phase, options, task, transport>>

-----------------------------------------------------------------------------
\* close may be called again, after it returned or raised.
CloseBegins(s) ==
    /\ phase[s] \in {"ready", "closed", "raised"}
    /\ phase' = [phase EXCEPT ![s] = Closing[1]]
    /\ UNCHANGED <<options, task, transport, link>>

\* Fault: close returns after the pings.
AwaitedShort(s) == IF phase[s] = "ping" THEN "transport" ELSE Closing[2 + IF phase[s] = "select" THEN 0 ELSE 1]

\* What close awaits next.
Awaited(s) == Closing[1 + CHOOSE i \in 1..3 : Closing[i] = phase[s]]

\* A task is cancelled and awaited: one that runs or has ended goes away, one
\* that has failed raises out of close.
CloseAwaits(s) ==
    /\ phase[s] \in TaskNames
    /\ IF task[s][phase[s]] = "failed"
       THEN phase' = [phase EXCEPT ![s] = "raised"] /\ UNCHANGED task
       ELSE /\ phase' = [phase EXCEPT ![s] = Awaited(s)]
            /\ task' = [task EXCEPT ![s][phase[s]] = "none"]
    /\ UNCHANGED <<options, transport, link>>

\* A close frame is tried, its error ignored, and the writer is closed.
CloseTransport(s) ==
    /\ phase[s] = "transport"
    /\ phase' = [phase EXCEPT ![s] = "closed"]
    /\ transport' = [transport EXCEPT ![s] = "closed"]
    /\ link' = [link EXCEPT ![s] = FALSE]
    /\ UNCHANGED <<options, task>>

\* What happens beside the caller.
Background(s) == (\E t \in TaskNames : TaskSends(s, t)) \/ LinkDrops(s)

Next == \E s \in Sessions :
    \/ Connect(s) \/ OpenFails(s) \/ ScheduleSelect(s) \/ HandshakeEnds(s)
    \/ Background(s)
    \/ CloseBegins(s) \/ CloseAwaits(s) \/ CloseTransport(s)

Spec == Init /\ [][Next]_sessionVars
-----------------------------------------------------------------------------
\* The types of the variables.
TypeOK ==
    /\ phase \in [Sessions -> {"new", "handshake", "failed", "ready", "closed", "raised"}
                              \cup {Closing[i] : i \in 1..4}]
    /\ options \in [Sessions -> SUBSET TaskNames]
    /\ task \in [Sessions -> [TaskNames -> {"none", "sleeping", "half", "sent", "ended", "failed"}]]
    /\ transport \in [Sessions -> {"none", "open", "closed"}]
    /\ link \in [Sessions -> BOOLEAN]
=============================================================================
