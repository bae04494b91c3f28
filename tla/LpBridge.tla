------------------------------ MODULE LpBridge ------------------------------
(***************************************************************************)
(* `eebus lp bridge` (_run_lp_bridge in eebus_sdk/cli.py): one task takes  *)
(* the events of the source side and of the wallbox side, keeps the last   *)
(* load-power command it could not forward, and forwards commands with     *)
(* send_load_power_limit_to_peer.                                          *)
(*                                                                         *)
(* The sides run in one of three modes: "two" listeners, a source "client" *)
(* with a wallbox listener, and one "shared" listener, whose events all    *)
(* carry the side "source".  A forward is two sends, and the wallbox's     *)
(* session may end between any two steps, or another one of it begin       *)
(* before it has ended: the listener knows its peers by one entry per SKI, *)
(* which the last session to get ready sets and the first to end removes.  *)
(***************************************************************************)
EXTENDS Integers, Sequences, FiniteSets, SequencesExt

CONSTANTS
    Modes,          \* the modes to consider
    Commands,       \* what sources may write: [limits, form]
    SourceGiven,    \* --source-peer-ski is given
    MaxWrites,      \* bound: load-power writes of all peers
    MaxSummaries,   \* bound: other datagrams handled by the wallbox listener
    MaxLinks        \* bound: sessions of the wallbox

\* The limit items of a write (0 is LPC, 1 is LPP), and whether its preferred
\* item has an integer value and a duration that parses.
Limits == {0, 1}
Forms == {"good", "no watts", "bad duration"}
ASSUME CommandsAssumption ==
    Commands \subseteq [limits : SUBSET Limits \ {{}}, form : Forms]

Peers == {"source", "wallbox", "other"}
NoRequest == 0

\* The wallbox's sessions, in the order in which their handshakes end.
Links == 1 .. MaxLinks
NoLink == 0

VARIABLES
    mode,
    queue,      \* events of each side not yet taken
    pending,    \* pending_lp_forward: the number of a command
    forward,    \* the forward under way: step, request, session
    stopped,    \* an exception left the bridge's loop
    link,       \* the wallbox's sessions: handshake (or yet to begin), registered,
                \* known (their LoadControl server is), broken, ended
    entry,      \* _active_sessions, for the wallbox's SKI
    summaries,
    written,    \* history: writes the listeners have reported, with their peer
    accepted,   \* history: numbers of the commands the bridge took up
    handed      \* history: numbers of the commands written to the wallbox

sessions == <<link, entry>>
vars == <<mode, queue, pending, forward, stopped, sessions, summaries,
          written, accepted, handed>>

SourceSide == IF mode = "client" THEN "source-client" ELSE "source"
WallboxSide == IF mode = "shared" THEN "source" ELSE "wallbox"
Sides == {SourceSide, WallboxSide}

NotForwarding == [step |-> "none", req |-> NoRequest, link |-> NoLink]
Event(kind, n) == [kind |-> kind, n |-> n]

Init ==
    /\ mode \in Modes
    /\ queue = [side \in Sides |-> <<>>]
    /\ pending = NoRequest
    /\ forward = NotForwarding
    /\ stopped = FALSE
    /\ link = [l \in Links |-> "handshake"] /\ entry = NoLink
    /\ summaries = 0
    /\ written = <<>> /\ accepted = <<>> /\ handed = <<>>

-----------------------------------------------------------------------------
\* What the peers and the listeners do.

\* A listener reports an inbound_load_power_write of a peer on one of its
\* sessions; the source client reports a datagram of the source.  On a side
\* called "wallbox" every peer's write is ignored, so one peer will do.
PeerWrites(side, peer, c) ==
    /\ Len(written) < MaxWrites
    /\ side = "source-client" => peer = "source"
    /\ side = "wallbox" => peer = "wallbox"
    /\ written' = Append(written, [peer |-> peer, side |-> side, command |-> c])
    /\ queue' = [queue EXCEPT ![side] = Append(@, Event("write", Len(written) + 1))]
    /\ UNCHANGED <<mode, pending, forward, stopped, sessions, summaries, accepted, handed>>

InHandshake(l) ==
    link[l] = "handshake" /\ \A k \in 1 .. (l - 1) : link[k] # "handshake"

\* The session is registered, over whatever entry is there, and reported ready.
LinkUp(l) ==
    /\ InHandshake(l)
    /\ link' = [link EXCEPT ![l] = "registered"]
    /\ entry' = l
    /\ queue' = [queue EXCEPT ![WallboxSide] = Append(@, Event("ready", 0))]
    /\ UNCHANGED <<mode, pending, forward, stopped, summaries, written, accepted, handed>>

\* A datagram of the wallbox announces its LoadControl server; its summary
\* follows once it is handled.
Discovered(l) ==
    /\ link[l] = "registered"
    /\ link' = [link EXCEPT ![l] = "known"]
    /\ queue' = [queue EXCEPT ![WallboxSide] = Append(@, Event("summary", 0))]
    /\ UNCHANGED <<mode, pending, forward, stopped, entry, summaries, written, accepted, handed>>

\* Any other datagram on the wallbox's listener, of any of its peers.
OtherDatagram ==
    /\ summaries < MaxSummaries
    /\ summaries' = summaries + 1
    /\ queue' = [queue EXCEPT ![WallboxSide] = Append(@, Event("summary", 0))]
    /\ UNCHANGED <<mode, pending, forward, stopped, sessions, written, accepted, handed>>

\* The link breaks; the session goes on until its handler sees it.
LinkBreaks(l) ==
    /\ link[l] \in {"registered", "known"}
    /\ link' = [link EXCEPT ![l] = "broken"]
    /\ UNCHANGED <<mode, queue, pending, forward, stopped, entry, summaries, written,
                   accepted, handed>>

\* The handler ends, of a session that was ready or of one that did not get so
\* far, and takes the wallbox's entry out, whose session it may be.
LinkDown(l) ==
    /\ InHandshake(l) \/ link[l] = "broken"
    /\ link' = [link EXCEPT ![l] = "ended"]
    /\ entry' = NoLink
    /\ queue' = [queue EXCEPT ![WallboxSide] = Append(@, Event("closed", 0))]
    /\ UNCHANGED <<mode, pending, forward, stopped, summaries, written, accepted, handed>>

-----------------------------------------------------------------------------
\* The bridge's task.
Waiting == ~stopped /\ forward.step = "none"

\* send_load_power_limit_to_peer up to its first send: it raises at once, and
\* the forward is deferred, unless the wallbox and its LoadControl server are
\* known.  A broken link is looked up like a known one and fails in the sends.
StartForward(n) ==
    forward' = IF entry # NoLink /\ link[entry] \in {"known", "broken"}
               THEN [step |-> "write", req |-> n, link |-> entry]
               ELSE NotForwarding

\* _forward_request_from_event: on a side that is not the wallbox's own, not
\* from the wallbox, and from the source if one is given.
AcceptsPeer(side, peer) ==
    \/ side = "source-client"
    \/ /\ side = "source"
       /\ peer # "wallbox"
       /\ SourceGiven => peer = "source"

\* Fault: a new command does not displace one that waits for the wallbox.
TakeUpIfFree(n) ==
    /\ pending' = IF pending = NoRequest THEN n ELSE pending
    /\ accepted' = Append(accepted, n)
    /\ StartForward(n)

\* A command becomes the pending one and is forwarded.
TakeUp(n) ==
    /\ pending' = n
    /\ accepted' = Append(accepted, n)
    /\ StartForward(n)

TakeEvent(side) ==
    /\ Waiting
    /\ queue[side] # <<>>
    /\ queue' = [queue EXCEPT ![side] = Tail(@)]
    /\ UNCHANGED <<mode, sessions, summaries, written, handed>>

\* An inbound write: ignored, fatal for the bridge, or taken up.
TakeWrite(side) ==
    /\ TakeEvent(side)
    /\ LET e == Head(queue[side])
           w == written[e.n]
       IN  /\ e.kind = "write"
           /\ IF ~AcceptsPeer(side, w.peer) \/ w.command.form = "no watts"
              THEN UNCHANGED <<pending, accepted, forward, stopped>>
              ELSE IF w.command.form = "bad duration"
              THEN stopped' = TRUE /\ UNCHANGED <<pending, accepted, forward>>
              ELSE TakeUp(e.n) /\ UNCHANGED stopped

\* Fault: only a ready peer retries the forward.
TakeRetryWhenReady(side) ==
    /\ TakeEvent(side)
    /\ LET e == Head(queue[side])
       IN  /\ e.kind \in {"ready", "summary"}
           /\ IF side = "wallbox" /\ e.kind = "ready" /\ pending # NoRequest
              THEN StartForward(pending) ELSE UNCHANGED forward
    /\ UNCHANGED <<pending, accepted, stopped>>

\* A ready peer or a handled datagram on the wallbox side retries the forward.
TakeRetry(side) ==
    /\ TakeEvent(side)
    /\ Head(queue[side]).kind \in {"ready", "summary"}
    /\ IF side = "wallbox" /\ pending # NoRequest THEN StartForward(pending) ELSE UNCHANGED forward
    /\ UNCHANGED <<pending, accepted, stopped>>

\* Other events are only printed.
TakeOther(side) ==
    /\ TakeEvent(side)
    /\ Head(queue[side]).kind = "closed"
    /\ UNCHANGED <<pending, accepted, forward, stopped>>

\* The request's write is handed to the wallbox's connection.  When that is
\* broken the send may raise, see SendFails, or be lost unnoticed.
SendWrite ==
    /\ ~stopped /\ forward.step = "write"
    /\ forward' = [forward EXCEPT !.step = "read"]
    /\ handed' = Append(handed, forward.req)
    /\ UNCHANGED <<mode, queue, pending, stopped, sessions, summaries, written, accepted>>

\* The read that follows it is handed over, and nothing is pending.
SendRead ==
    /\ ~stopped /\ forward.step = "read"
    /\ forward' = NotForwarding
    /\ pending' = NoRequest
    /\ UNCHANGED <<mode, queue, stopped, sessions, summaries, written, accepted, handed>>

\* Fault: a forward that failed is given up.
SendFailsForGood ==
    /\ ~stopped /\ forward.step # "none" /\ link[forward.link] \in {"broken", "ended"}
    /\ forward' = NotForwarding
    /\ pending' = NoRequest
    /\ UNCHANGED <<mode, queue, stopped, sessions, summaries, written, accepted, handed>>

\* A send on the broken connection raises: the forward is deferred, also when
\* its write had been handed over.
SendFails ==
    /\ ~stopped /\ forward.step # "none" /\ link[forward.link] \in {"broken", "ended"}
    /\ forward' = NotForwarding
    /\ UNCHANGED <<mode, queue, pending, stopped, sessions, summaries, written, accepted, handed>>

\* The source client's session ends or fails, and the bridge with it.
SourceFails ==
    /\ mode = "client" /\ ~stopped
    /\ stopped' = TRUE
    /\ UNCHANGED <<mode, queue, pending, forward, sessions, summaries, written, accepted, handed>>

Take(side) == TakeWrite(side) \/ TakeRetry(side) \/ TakeOther(side)
ForwardStep == SendWrite \/ SendRead \/ SendFails

Next ==
    \/ \E side \in Sides :
          \/ \E peer \in Peers, c \in Commands : PeerWrites(side, peer, c)
          \/ Take(side)
    \/ \E l \in Links : LinkUp(l) \/ Discovered(l) \/ LinkBreaks(l) \/ LinkDown(l)
    \/ OtherDatagram
    \/ ForwardStep
    \/ SourceFails

Spec == Init /\ [][Next]_vars

\* The event loop runs the task, which takes the events of both sides in turn
\* and whose sends complete or fail.
FairSpec ==
    /\ Spec
    /\ \A side \in {"source", "source-client", "wallbox"} : WF_vars(side \in Sides /\ Take(side))
    /\ WF_vars(ForwardStep)
-----------------------------------------------------------------------------
Latest(s) == s[Len(s)]

TypeOK ==
    /\ mode \in Modes /\ DOMAIN queue = Sides
    /\ \A side \in Sides : \A i \in DOMAIN queue[side] :
          queue[side][i].n \in 0 .. Len(written)
    /\ pending \in 0 .. Len(written)
    /\ forward \in [step : {"none", "write", "read"}, req : 0 .. Len(written), link : Links \cup {NoLink}]
    /\ stopped \in BOOLEAN
    /\ link \in [Links -> {"handshake", "registered", "known", "broken", "ended"}]
    /\ entry \in Links \cup {NoLink}
    /\ forward.step # "none" => pending = forward.req

\* However forwards fail and are retried, the wallbox is never written an
\* older command of a side after a newer one of that side.
NoOlderCommandAfterNewer ==
    \A i, j \in DOMAIN handed :
        i < j /\ written[handed[i]].side = written[handed[j]].side => handed[i] <= handed[j]

\* Between two forwards, the last command the bridge took up is either the
\* pending one or the last one written to the wallbox: none is lost to a
\* failed forward, and no obsolete one stays pending.
LatestIsPendingOrHanded ==
    Waiting /\ accepted # <<>> =>
        IF pending # NoRequest THEN pending = Latest(accepted)
        ELSE handed # <<>> /\ Latest(handed) = Latest(accepted)

\* A pending command is forwarded once the wallbox's entry stays one of a
\* connected session whose LoadControl server is known, unless the bridge stops.
\* A connected wallbox has no such entry when another session of it ended in the
\* meantime and took its entry: every retry then finds it not connected.
PendingIsForwarded ==
    <>[](entry # NoLink /\ link[entry] = "known") => []<>(pending = NoRequest \/ stopped)
=============================================================================
