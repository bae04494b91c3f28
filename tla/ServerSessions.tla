--------------------------- MODULE ServerSessions ---------------------------
(***************************************************************************)
(* The connection side of ShipServer (eebus_sdk/server.py): one task       *)
(* running _handle_client per accepted TCP connection, the heartbeat task  *)
(* each session spawns, the dictionary _active_sessions that maps a peer   *)
(* SKI to its session, the lifecycle events put on the server's queue, and *)
(* the caller of send_load_power_limit_to_peer.                            *)
(*                                                                         *)
(* The tasks run on one asyncio loop: an action is what a task does        *)
(* between two awaits that suspend.  Queue.put on the unbounded event      *)
(* queue does not suspend, so an emitted event and the dictionary update   *)
(* next to it are one step.  The SHIP handshake is one step here; its      *)
(* messages are in ShipHandshake.  SPINE traffic is in ServerSpine.        *)
(***************************************************************************)
EXTENDS FiniteSets

CONSTANTS
    Conns,          \* the connections that may ever be accepted
    Peers,          \* normalized SKIs
    TrustedSkis,    \* trusted_client_skis; the empty set trusts everyone
    NoSki,          \* no SKI can be read from the peer's certificate
    NoConn          \* no entry in _active_sessions

ASSUME ConnsAssumption == NoConn \notin Conns
ASSUME SkisAssumption == NoSki \notin Peers /\ TrustedSkis \subseteq Peers

VARIABLES
    listening,      \* asyncio.start_server accepts connections
    pc,             \* where the handler task of each connection is
    cert,           \* SKI of the certificate the peer presented
    peerSki,        \* session_state.peer_ski
    link,           \* the transport of each connection
    heartbeat,      \* the task of _publish_device_diagnosis_heartbeats
    registry,       \* _active_sessions
    told,           \* what a reader of all events emitted so far concludes
    call,           \* the pending send_load_power_limit_to_peer call
    overlapped      \* history: two sessions of this peer have coexisted

vars == <<listening, pc, cert, peerSki, link, heartbeat, registry, told,
          call, overlapped>>

MaybeSki == Peers \cup {NoSki}
MaybeConn == Conns \cup {NoConn}

Idle == [step |-> "idle", peer |-> NoSki, conn |-> NoConn]
Calls == [step : {"idle", "write", "readback", "returned", "refused", "failed"},
          peer : MaybeSki, conn : MaybeConn]

TypeOK ==
    /\ listening \in BOOLEAN
    /\ pc \in [Conns -> {"free", "upgrade", "handshake", "ready", "reap",
                         "closing", "done", "raised"}]
    /\ cert \in [Conns -> MaybeSki]
    /\ peerSki \in [Conns -> MaybeSki]
    /\ link \in [Conns -> {"down", "up"}]
    /\ heartbeat \in [Conns -> {"none", "running", "failed", "cancelled"}]
    /\ registry \in [Peers -> MaybeConn]
    /\ told \in [Peers -> BOOLEAN]
    /\ call \in Calls
    /\ call.step \in {"write", "readback"} => call.conn \in Conns
    /\ overlapped \in [Peers -> BOOLEAN]

Init ==
    /\ listening = TRUE
    /\ pc = [c \in Conns |-> "free"]
    /\ cert = [c \in Conns |-> NoSki]
    /\ peerSki = [c \in Conns |-> NoSki]
    /\ link = [c \in Conns |-> "down"]
    /\ heartbeat = [c \in Conns |-> "none"]
    /\ registry = [p \in Peers |-> NoConn]
    /\ told = [p \in Peers |-> FALSE]
    /\ call = Idle
    /\ overlapped = [p \in Peers |-> FALSE]

-----------------------------------------------------------------------------
\* The handler has identified its peer and has not entered its finally block.
Serving == {"handshake", "ready"}
InHandler == {"upgrade", "handshake", "ready"}

Trusts(ski) == TrustedSkis = {} \/ ski \in TrustedSkis

\* start_server calls _handle_client for a new TLS connection.
Accept(c) ==
    /\ listening
    /\ pc[c] = "free"
    /\ \E ski \in MaybeSki : cert' = [cert EXCEPT ![c] = ski]
    /\ pc' = [pc EXCEPT ![c] = "upgrade"]
    /\ link' = [link EXCEPT ![c] = "up"]
    /\ UNCHANGED <<listening, peerSki, heartbeat, registry, told, call, overlapped>>

\* ship_server.stop(): the listener closes, the running handlers stay.
Stop ==
    /\ listening
    /\ listening' = FALSE
    /\ UNCHANGED <<pc, cert, peerSki, link, heartbeat, registry, told, call,
                   overlapped>>

\* The websocket upgrade succeeded and the peer is trusted: the session gets
\* its SKI and "connected" is emitted.
Admit(c) ==
    /\ pc[c] = "upgrade"
    /\ Trusts(cert[c])
    /\ peerSki' = [peerSki EXCEPT ![c] = cert[c]]
    /\ pc' = [pc EXCEPT ![c] = "handshake"]
    /\ overlapped' = [p \in Peers |->
                        \/ overlapped[p]
                        \/ cert[c] = p /\ \E d \in Conns \ {c} :
                                             pc[d] \in Serving /\ peerSki[d] = p]
    /\ UNCHANGED <<listening, cert, link, heartbeat, registry, told, call>>

\* The handshake returned: "ready" is emitted, the session is entered under
\* its SKI (over whatever entry is there) and its heartbeat task is spawned.
Register(c) ==
    /\ pc[c] = "handshake"
    /\ pc' = [pc EXCEPT ![c] = "ready"]
    /\ registry' = [p \in Peers |-> IF p = peerSki[c] THEN c ELSE registry[p]]
    /\ told' = [p \in Peers |-> p = peerSki[c] \/ told[p]]
    /\ heartbeat' = [heartbeat EXCEPT ![c] = "running"]
    /\ UNCHANGED <<listening, cert, peerSki, link, call, overlapped>>

\* Fault: the heartbeat task is cancelled and not awaited.
AfterCancelNoAwait(c) == IF heartbeat[c] = "failed" THEN "raised" ELSE "closing"

\* The finally block up to the await of the cancelled heartbeat task, which
\* suspends if the task is running and re-raises what a failed one raised.
AfterCancel(c) ==
    CASE heartbeat[c] = "none"    -> "closing"
      [] heartbeat[c] = "running" -> "reap"
      [] heartbeat[c] = "failed"  -> "raised"

\* Fault: the entry is popped when the transport has been closed.
LeaveKeepsEntry(c) ==
    /\ pc' = [pc EXCEPT ![c] = AfterCancel(c)]
    /\ told' = [p \in Peers |-> p # peerSki[c] /\ told[p]]
    /\ UNCHANGED <<listening, cert, peerSki, link, heartbeat, registry, call, overlapped>>

\* Fault: "closed" names the SKI of the certificate, whether admitted or not.
LeaveReportsCert(c) ==
    /\ pc' = [pc EXCEPT ![c] = AfterCancel(c)]
    /\ registry' = [p \in Peers |-> IF p = peerSki[c] THEN NoConn ELSE registry[p]]
    /\ told' = [p \in Peers |-> p # cert[c] /\ told[p]]
    /\ UNCHANGED <<listening, cert, peerSki, link, heartbeat, call, overlapped>>

\* Fault: the finally block pops the SKI of the certificate.
LeavePopsCert(c) ==
    /\ pc' = [pc EXCEPT ![c] = AfterCancel(c)]
    /\ registry' = [p \in Peers |-> IF p = cert[c] THEN NoConn ELSE registry[p]]
    /\ told' = [p \in Peers |-> p # peerSki[c] /\ told[p]]
    /\ UNCHANGED <<listening, cert, peerSki, link, heartbeat, call, overlapped>>

\* An exception leaves the try block: "closed" is emitted and the entry of
\* the peer's SKI is popped, whichever session it belongs to.
Leave(c) ==
    /\ pc' = [pc EXCEPT ![c] = AfterCancel(c)]
    /\ registry' = [p \in Peers |-> IF p = peerSki[c] THEN NoConn ELSE registry[p]]
    /\ told' = [p \in Peers |-> p # peerSki[c] /\ told[p]]
    /\ UNCHANGED <<listening, cert, peerSki, link, heartbeat, call, overlapped>>

\* The SKI is unavailable or not in a non-empty trust list.
Reject(c) == pc[c] = "upgrade" /\ ~Trusts(cert[c]) /\ Leave(c)

\* A malformed upgrade or message, a failed handshake step, an exception of
\* the SPINE handler, or a close frame of the peer.
ProtocolError(c) == pc[c] \in InHandler /\ Leave(c)

\* Fault: the handler waits for its heartbeat task to find the link dead.
LoseSessionByHeartbeat(c) ==
    pc[c] \in InHandler /\ link[c] = "down" /\ heartbeat[c] = "failed" /\ Leave(c)

\* A read or a send on a dead transport raises.
LoseSession(c) == pc[c] \in InHandler /\ link[c] = "down" /\ Leave(c)

\* The heartbeat task took its cancellation; the handler goes on.
Reap(c) ==
    /\ pc[c] = "reap"
    /\ heartbeat' = [heartbeat EXCEPT ![c] = "cancelled"]
    /\ pc' = [pc EXCEPT ![c] = "closing"]
    /\ UNCHANGED <<listening, cert, peerSki, link, registry, told, call, overlapped>>

\* connection.close() swallows every error of the transport.
Close(c) ==
    /\ pc[c] = "closing"
    /\ pc' = [pc EXCEPT ![c] = "done"]
    /\ link' = [link EXCEPT ![c] = "down"]
    /\ UNCHANGED <<listening, cert, peerSki, heartbeat, registry, told, call,
                   overlapped>>

\* A heartbeat sent on a dead transport raises and ends the heartbeat task;
\* nobody looks at the task before the handler's finally block.
HeartbeatFails(c) ==
    /\ heartbeat[c] = "running"
    /\ pc[c] = "ready"
    /\ link[c] = "down"
    /\ heartbeat' = [heartbeat EXCEPT ![c] = "failed"]
    /\ UNCHANGED <<listening, pc, cert, peerSki, link, registry, told, call,
                   overlapped>>

\* The network or the peer drops the connection.
LinkDrops(c) ==
    /\ link[c] = "up"
    /\ link' = [link EXCEPT ![c] = "down"]
    /\ UNCHANGED <<listening, pc, cert, peerSki, heartbeat, registry, told,
                   call, overlapped>>

-----------------------------------------------------------------------------
(* send_load_power_limit_to_peer looks the peer up once and then uses that   *)
(* session across two sends.                                                 *)

CallRefused(p) ==
    /\ call = Idle
    /\ registry[p] = NoConn
    /\ call' = [step |-> "refused", peer |-> p, conn |-> NoConn]
    /\ UNCHANGED <<listening, pc, cert, peerSki, link, heartbeat, registry,
                   told, overlapped>>

\* Fault: the looked-up entry is used unchecked.
CallBeginsUnchecked(p) ==
    /\ call = Idle
    /\ call' = [step |-> "write", peer |-> p, conn |-> registry[p]]
    /\ UNCHANGED <<listening, pc, cert, peerSki, link, heartbeat, registry,
                   told, overlapped>>

CallBegins(p) ==
    /\ call = Idle
    /\ registry[p] # NoConn
    /\ call' = [step |-> "write", peer |-> p, conn |-> registry[p]]
    /\ UNCHANGED <<listening, pc, cert, peerSki, link, heartbeat, registry,
                   told, overlapped>>

CallSends ==
    /\ call.step \in {"write", "readback"}
    /\ call' = [call EXCEPT !.step =
                  IF link[call.conn] = "down" THEN "failed"
                  ELSE IF call.step = "write" THEN "readback" ELSE "returned"]
    /\ UNCHANGED <<listening, pc, cert, peerSki, link, heartbeat, registry,
                   told, overlapped>>

\* The caller handles the outcome and may call again.
CallEnds ==
    /\ call.step \in {"returned", "refused", "failed"}
    /\ call' = Idle
    /\ UNCHANGED <<listening, pc, cert, peerSki, link, heartbeat, registry,
                   told, overlapped>>

HandlerStep(c) == LoseSession(c) \/ Reap(c) \/ Close(c)

Next ==
    \/ Stop
    \/ \E c \in Conns :
          \/ Accept(c) \/ Admit(c) \/ Reject(c) \/ Register(c)
          \/ ProtocolError(c) \/ LoseSession(c) \/ Reap(c) \/ Close(c)
          \/ HeartbeatFails(c) \/ LinkDrops(c)
    \/ \E p \in Peers : CallRefused(p) \/ CallBegins(p)
    \/ CallSends \/ CallEnds

Spec == Init /\ [][Next]_vars

\* The loop runs every ready task: a handler waiting on a dead transport is
\* woken with an error, and its finally block is carried through.
FairSpec == Spec /\ \A c \in Conns : WF_vars(HandlerStep(c))

-----------------------------------------------------------------------------
\* An entry of _active_sessions always leads to a handler in its read loop
\* whose session carries that SKI, and the SKI is a trusted one: who looks up a
\* peer to send it a limit finds no session of another peer, and none that has
\* ended by then (it may end before the limit is sent).
RegistrySound ==
    \A p \in Peers : registry[p] # NoConn =>
        pc[registry[p]] = "ready" /\ peerSki[registry[p]] = p /\ Trusts(p)

\* Whoever folds the "ready" and "closed" events per SKI holds exactly the
\* key set of _active_sessions: the dictionary is never ahead of the events.
EventsTrackRegistry == \A p \in Peers : told[p] <=> registry[p] # NoConn

\* As long as the sessions of a peer never coexist, a session in its read
\* loop can be found by its SKI.  With an overlap the entry can be lost.
ReachableUnlessOverlapped ==
    \A c \in Conns : pc[c] = "ready" /\ peerSki[c] # NoSki /\ ~overlapped[peerSki[c]]
        => registry[peerSki[c]] = c

\* A heartbeat task never outlives the handler that spawned it, and a handler
\* that skips connection.close() leaves no open transport behind.
NothingLeaks ==
    \A c \in Conns :
        /\ heartbeat[c] = "running" => pc[c] \in {"ready", "reap"}
        /\ pc[c] \in {"done", "raised"} => link[c] = "down"

\* What the refusal says, "peer ... is not currently connected": at that
\* moment no session of the peer is in its read loop.
RefusedOnlyWhenNotConnected ==
    [][\A p \in Peers : CallRefused(p) =>
         \A c \in Conns : ~(pc[c] = "ready" /\ peerSki[c] = p)]_vars

\* The server forgets a session whose transport has died, and its handler
\* runs to its end, even if the heartbeat task died first.
DeadSessionsEnd ==
    \A c \in Conns : (pc[c] # "free" /\ link[c] = "down") ~>
                        /\ pc[c] \in {"done", "raised"}
                        /\ \A p \in Peers : registry[p] # c

=============================================================================
