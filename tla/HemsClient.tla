----------------------------- MODULE HemsClient -----------------------------
(***************************************************************************)
(* The operations of HemsClient (eebus_sdk/client.py) over its sessions    *)
(* (ShipSession) and the peer's location (Discovery): connect, close,      *)
(* reconnect, and the requests that collect the peer's answers under a     *)
(* deadline.                                                               *)
(*                                                                         *)
(* One task calls them one after another.  It waits for messages, for the  *)
(* tasks of a session, for a connection and for mDNS; an action is what it *)
(* does from one such wait to the next.                                    *)
(***************************************************************************)
EXTENDS Integers, Sequences, FiniteSets, SequencesExt, Functions

CONSTANTS
    Sessions, Tasks, Services, Wanted, Places,  \* as in ShipSession and Discovery
    Callers,        \* kinds of callers, see CallersAssumption
    MeasurementServers, \* how many the peer announces
    Unasked,        \* functions of the peer's own notifies
    MaxControls,    \* bound: SHIP control messages of the peer
    MaxQueue        \* bound: messages under way, for the peer's own

AllProfiles == {"default", "hems-reference", "cls-adapter"}
AllCalls == {"close", "reconnect", "discover", "measure", "bootstrap", "listen"}
ASSUME CallersAssumption == \A c \in Callers :
    /\ c.profile \in AllProfiles
    /\ c.configured \in BOOLEAN    \* the first session is to run Tasks
    /\ c.rediscovers \in BOOLEAN   \* interface_ip is given
    /\ c.calls \subseteq AllCalls  \* what it calls
    /\ c.operations \in Nat \ {0}  \* bound: how often, connect included
ASSUME SessionsAssumption ==
    IsFiniteSet(Sessions) /\ Sessions = 1..Cardinality(Sessions) /\ 1 \in Sessions
ASSUME BoundsAssumption == MaxControls \in Nat /\ MeasurementServers \in Nat

VARIABLES
    phase, options, task, transport, link,              \* of ShipSession
    round, known, hosts, asked, at, answered, stale,    \* of Discovery
    caller,
    current,        \* the client's session, 0 before there is a client
    service,        \* where it found the peer
    opening,        \* what connect opens: the session and the service
    op,             \* the operation under way
    counter,        \* _spine_msg_counter
    heard,          \* _remote_device_address is known
    bootstrapSent,  \* _node_management_bootstrap_sent
    toPeer, toClient,   \* SPINE messages under way in the current session
    collected,      \* history: what requests of this session took for their answers
    abandoned,      \* history: functions of requests that ended without their answer
    controls, operations

Life == INSTANCE ShipSession
Mdns == INSTANCE Discovery

ASSUME InstancesAssumption ==
    /\ Tasks \subseteq Life!TaskNames
    /\ Wanted \in Services /\ \A s \in Services : Len(Places[s]) \in Nat \ {0}

\* Places have names and addresses, and another service that is on a host of
\* the wanted one gives that host the same address.
ASSUME PlacesAssumption ==
    \A s \in Services : \A i \in 1..Len(Places[s]) :
        /\ Places[s][i].target # Mdns!None /\ Places[s][i].address \in Nat
        /\ s # Wanted => \A j \in 1..Len(Places[Wanted]) :
               Places[s][i].target = Places[Wanted][j].target =>
                   Places[s][i].address = Places[Wanted][j].address

sessionVars == <<phase, options, task, transport, link>>
discoveryVars == <<round, known, hosts, asked, at, answered, stale>>
client == <<caller, current, service, opening>>
messages == <<counter, heard, bootstrapSent, toPeer, toClient, collected, abandoned>>
bounds == <<controls, operations>>
vars == <<sessionVars, discoveryVars, client, op, messages, bounds>>

\* An operation waits for a function's answer, for a stage of connect or
\* reconnect, or for anything.  A request has its counter, the measurement
\* servers left to ask, whether descriptions were found, and whether the
\* deadline of its wait has passed.
NoOperation == [name |-> "none", awaits |-> "none", ref |-> 0, left |-> 0,
                described |-> FALSE, past |-> FALSE]
Operation(name, awaits) == [NoOperation EXCEPT !.name = name, !.awaits = awaits]

Functions == {"discovery", "descriptions", "values"}
Receiving == op.name \in {"bootstrap", "discover", "measure"}
Reads == Receiving \/ op.name = "listen"
NoTarget == [session |-> 0, service |-> service]

Init ==
    /\ caller \in Callers
    /\ Life!Init
    /\ \A s \in Sessions : options[s] = IF s = 1 /\ caller.configured THEN Tasks ELSE {}
    /\ Mdns!Init
    /\ current = 0
    /\ service = Mdns!Place(Wanted) /\ opening = [session |-> 1, service |-> service]
    /\ op = Operation("connect", "open")
    /\ counter = 1 /\ heard = FALSE /\ bootstrapSent = FALSE
    /\ toPeer = <<>> /\ toClient = <<>> /\ collected = <<>> /\ abandoned = {}
    /\ controls = 0 /\ operations = 1

-----------------------------------------------------------------------------
\* connect, at first and in a reconnect: the transport must reach the peer
\* where it is, and be let through its handshake.
Opening ==
    /\ op.awaits = "open"
    /\ \/ Mdns!Reaches(opening.service, Mdns!Place(Wanted)) /\ Life!Connect(opening.session)
       \/ Life!ScheduleSelect(opening.session)
    /\ UNCHANGED <<discoveryVars, client, op, messages, bounds>>

\* The SPINE state of the client outlives its sessions; what was under way does not.
Opened ==
    /\ op.awaits = "open"
    /\ Life!HandshakeEnds(opening.session)
    /\ current' = opening.session /\ service' = opening.service /\ opening' = NoTarget'
    /\ toPeer' = <<>> /\ toClient' = <<>> /\ collected' = <<>> /\ abandoned' = {}
    /\ op' = NoOperation
    /\ UNCHANGED <<discoveryVars, caller, counter, heard, bootstrapSent, bounds>>

\* It raises, and the client keeps the session and service that it had.
OpenRaises ==
    /\ op.awaits = "open"
    /\ Life!OpenFails(opening.session)
    /\ opening' = NoTarget /\ op' = NoOperation
    /\ UNCHANGED <<discoveryVars, caller, current, service, messages, bounds>>

-----------------------------------------------------------------------------
\* The caller begins an operation of the client.
Begin(name) ==
    /\ name \in caller.calls
    /\ op.name = "none" /\ current # 0 /\ operations < caller.operations
    /\ operations' = operations + 1
    /\ UNCHANGED <<caller, current, service, controls>>

\* close, and a reconnect closes first.
BeginClose(name) ==
    /\ Begin(name)
    /\ name = "reconnect" => \E s \in Sessions : phase[s] = "new"
    /\ Life!CloseBegins(current)
    /\ op' = Operation(name, "close")
    /\ UNCHANGED <<discoveryVars, opening, messages>>

\* The session to be opened next.
Fresh == [session |-> 1 + Cardinality({s \in Sessions : phase[s] # "new"}), service |-> service]

\* A task that failed makes the operation raise.
CloseAwaits ==
    /\ op.awaits = "close"
    /\ Life!CloseAwaits(current)
    /\ op' = IF phase'[current] = "raised" THEN NoOperation ELSE op
    /\ UNCHANGED <<discoveryVars, client, messages, bounds>>

Closed ==
    /\ op.awaits = "close"
    /\ Life!CloseTransport(current)
    /\ IF op.name = "reconnect" /\ caller.rediscovers
       THEN /\ Mdns!Start
            /\ op' = Operation("reconnect", "mdns") /\ UNCHANGED opening
       ELSE /\ op' = IF op.name = "reconnect" THEN Operation("reconnect", "open") ELSE NoOperation
            /\ opening' = IF op.name = "reconnect" THEN Fresh ELSE opening
            /\ UNCHANGED discoveryVars
    /\ UNCHANGED <<caller, current, service, messages, bounds>>

\* A service of the old name takes the place of what was known; without its
\* port, which comes with the target, connect raises.
Rediscovered ==
    /\ op.awaits = "mdns"
    /\ Mdns!RoundEnds
    /\ LET found == IF Wanted \in DOMAIN known THEN Mdns!Discovered(Wanted) ELSE service
       IN  IF round' # "idle" THEN UNCHANGED <<op, opening>>
           ELSE IF found.target = Mdns!None THEN op' = NoOperation /\ UNCHANGED opening
           ELSE op' = Operation("reconnect", "open") /\ opening' = [Fresh EXCEPT !.service = found]
    /\ UNCHANGED <<sessionVars, caller, current, service, messages, bounds>>

-----------------------------------------------------------------------------
\* A message of the peer: a function's data, in answer to the request of that
\* counter or, with 0, unasked; an empty list is no payload to the collector.
Message(fn, ref, empty) == [fn |-> fn, ref |-> ref, empty |-> empty]

\* A send that can complete, and one that can raise, on the current transport.
CanSend == transport[current] = "open"
CanRaise == transport[current] # "open" \/ ~link[current]

\* Reads that are sent, numbered from the present counter.
Sends(fns) ==
    /\ counter' = counter + Len(fns)
    /\ toPeer' = toPeer \o [i \in DOMAIN fns |-> [fn |-> fns[i], ref |-> counter + i - 1]]

\* Fault: the loop over the servers runs once too often.
AsksNextPast(o, found, servers) ==
    CASE o.awaits = "address" -> "discovery"
      [] o.name = "measure" /\ o.awaits = "discovery" -> IF servers > 0 THEN "descriptions" ELSE "none"
      [] o.awaits = "descriptions" -> "values"
      [] o.awaits = "values" /\ ~found /\ o.left > 0 ->
             IF o.described THEN "values" ELSE "descriptions"
      [] OTHER -> "none"

\* What an operation asks once it has found, or not, what it waited for; none
\* when it returns.
AsksNext(o, found, servers) ==
    CASE o.awaits = "address" -> "discovery"
      [] o.name = "measure" /\ o.awaits = "discovery" -> IF servers > 0 THEN "descriptions" ELSE "none"
      [] o.awaits = "descriptions" -> "values"
      [] o.awaits = "values" /\ ~found /\ o.left > 1 ->
             IF o.described THEN "values" ELSE "descriptions"
      [] OTHER -> "none"

\* The operation goes on: it returns, or sends its next read after those of
\* its bootstrap.
Advance(o, found, servers, bootstrap) ==
    LET fn == AsksNext(o, found, servers)
    IN  /\ Sends(bootstrap \o IF fn = "none" THEN <<>> ELSE <<fn>>)
        /\ op' = IF fn = "none" THEN NoOperation
                 ELSE [Operation(o.name, fn) EXCEPT
                          !.ref = counter + Len(bootstrap),
                          !.left = CASE o.awaits = "discovery" -> servers
                                     [] o.awaits = "values" -> o.left - 1
                                     [] OTHER -> o.left,
                          !.described = o.described \/ (o.awaits = "descriptions" /\ found)]

\* A request ends without its own answer, which may still come.
Abandon(fn) == abandoned' = abandoned \cup ({fn} \cap Functions)

Requested(name) ==
    /\ Begin(name)
    /\ UNCHANGED <<sessionVars, discoveryVars, opening, heard, bootstrapSent, toClient,
                   collected, abandoned>>

\* request_remote_detailed_discovery and read_remote_measurements: the default
\* profile first waits until it has heard of the peer.
BeginRequest(name) ==
    /\ Requested(name)
    /\ \/ /\ caller.profile = "default" /\ ~heard
          /\ op' = Operation(name, "address") /\ UNCHANGED <<counter, toPeer>>
       \/ /\ caller.profile # "default" \/ heard
          /\ CanSend /\ Advance(Operation(name, "address"), FALSE, 0, <<>>)
       \/ /\ caller.profile # "default" \/ heard
          /\ CanRaise /\ counter' = counter + 1 /\ op' = NoOperation /\ UNCHANGED toPeer

\* bootstrap_spine, and subscribe_updates without a deadline.
BeginReading(name) ==
    /\ Requested(name)
    /\ op' = Operation(name, "anything") /\ UNCHANGED <<counter, toPeer>>

\* Fault: the function is not looked at.
MatchesAnything(d) == ~d.empty

\* The extractors: use cases count as discovery.
Matches(d) ==
    /\ ~d.empty
    /\ d.fn = op.awaits \/ (op.awaits = "discovery" /\ d.fn = "use cases")

\* _post_discovery_bootstrap, here its read of the use cases.
Bootstraps(d) == d.fn \in {"discovery", "use cases"} /\ caller.profile # "cls-adapter" /\ ~bootstrapSent

\* Fault: the deadline is not looked at.
WaitEndsNever(d) == op.awaits = "address" \/ (Matches(d) /\ op.awaits # "anything")

\* A wait ends with what it is for, or with its deadline.
WaitEnds(d) == op.awaits = "address" \/ (Matches(d) /\ op.awaits # "anything") \/ op.past

\* The next message is received and handled.  A send that raises, of the
\* bootstrap or of the next read, ends the operation.
Receive ==
    /\ Receiving /\ toClient # <<>> /\ CanSend /\ Head(toClient).fn # "control"
    /\ toClient' = Tail(toClient) /\ heard' = TRUE
    /\ LET d == Head(toClient)
           bootstrap == IF Bootstraps(d) THEN <<"use cases">> ELSE <<>>
           takes == Matches(d) /\ op.awaits \in Functions
           servers == IF takes /\ d.fn = "discovery" THEN MeasurementServers ELSE 0
           asks == IF WaitEnds(d) /\ AsksNext(op, takes, servers) # "none" THEN 1 ELSE 0
       IN  /\ bootstrapSent' = (bootstrapSent \/ Bootstraps(d))
           /\ collected' = IF takes
                 THEN Append(collected, [asked |-> op.awaits, ref |-> op.ref, got |-> d,
                                         owed |-> op.awaits \in abandoned])
                 ELSE collected
           /\ \/ IF WaitEnds(d) THEN Advance(op, takes, servers, bootstrap)
                 ELSE Sends(bootstrap) /\ UNCHANGED op
              \/ /\ CanRaise /\ Len(bootstrap) + asks > 0
                 /\ op' = NoOperation
                 /\ counter' = counter + Len(bootstrap) + asks /\ UNCHANGED toPeer
           /\ IF op'.ref = op.ref \/ d.ref = op.ref THEN UNCHANGED abandoned ELSE Abandon(op.awaits)
    /\ UNCHANGED <<sessionVars, discoveryVars, client, bounds>>

\* A caller of subscribe_updates is given the message, or stops listening.
Listen ==
    /\ op.name = "listen"
    /\ \/ toClient # <<>> /\ toClient' = Tail(toClient) /\ UNCHANGED op
       \/ op' = NoOperation /\ UNCHANGED toClient
    /\ UNCHANGED <<sessionVars, discoveryVars, client, counter, heard, bootstrapSent, toPeer,
                   collected, abandoned, bounds>>

\* A SHIP control message is skipped without a look at the deadline.
SkipControl ==
    /\ Receiving /\ toClient # <<>> /\ CanSend /\ Head(toClient).fn = "control"
    /\ toClient' = Tail(toClient)
    /\ UNCHANGED <<sessionVars, discoveryVars, client, op, counter, heard, bootstrapSent, toPeer,
                   collected, abandoned, bounds>>

\* The deadline of an operation passes; its next look at the time shows it.
DeadlinePasses ==
    /\ Receiving /\ ~op.past
    /\ op' = [op EXCEPT !.past = TRUE]
    /\ UNCHANGED <<sessionVars, discoveryVars, client, messages, bounds>>

\* Nothing has come for the time left: a bootstrap returns and a request raises.
\* A broken transport makes any reader raise.
ReadEnds ==
    /\ \/ Receiving /\ toClient = <<>>
       \/ (Receiving \/ op.name = "listen") /\ CanRaise
    /\ op' = NoOperation /\ Abandon(op.awaits)
    /\ UNCHANGED <<sessionVars, discoveryVars, client, counter, heard, bootstrapSent, toPeer,
                   toClient, collected, bounds>>

-----------------------------------------------------------------------------
\* The peer answers the next read, with data or an empty list, or not at all.
PeerAnswers ==
    /\ current # 0 /\ link[current] /\ toPeer # <<>>
    /\ toPeer' = Tail(toPeer)
    /\ \/ \E empty \in BOOLEAN :
              toClient' = Append(toClient, Message(Head(toPeer).fn, Head(toPeer).ref, empty))
       \/ UNCHANGED toClient
    /\ UNCHANGED <<sessionVars, discoveryVars, client, op, counter, heard, bootstrapSent,
                   collected, abandoned, bounds>>

\* It sends what nobody asked for: a notify, or a SHIP control message.
PeerNotifies ==
    /\ current # 0 /\ link[current] /\ Len(toClient) < MaxQueue
    /\ \/ \E fn \in Unasked : toClient' = Append(toClient, Message(fn, 0, FALSE)) /\ UNCHANGED controls
       \/ /\ controls < MaxControls /\ controls' = controls + 1
          /\ toClient' = Append(toClient, Message("control", 0, FALSE))
    /\ UNCHANGED <<sessionVars, discoveryVars, client, op, counter, heard, bootstrapSent, toPeer,
                   collected, abandoned, operations>>

\* The tasks and links of all sessions, and the network of mDNS; where the peer
\* moves to matters to a reconnect only.
Background ==
    /\ (\E s \in Sessions : Life!Background(s)) /\ UNCHANGED discoveryVars
    /\ UNCHANGED <<client, op, messages, bounds>>
Network ==
    /\ Mdns!PacketArrives \/ ("reconnect" \in caller.calls /\ Mdns!Moves)
    /\ UNCHANGED <<sessionVars, client, op, messages, bounds>>

Next ==
    \/ Opening \/ Opened \/ OpenRaises
    \/ BeginClose("close") \/ BeginClose("reconnect") \/ CloseAwaits \/ Closed \/ Rediscovered
    \/ BeginRequest("discover") \/ BeginRequest("measure")
    \/ BeginReading("bootstrap") \/ BeginReading("listen")
    \/ Receive \/ Listen \/ SkipControl \/ DeadlinePasses \/ ReadEnds
    \/ PeerAnswers \/ PeerNotifies \/ Background \/ Network

Spec == Init /\ [][Next]_vars

\* The timers run, and what close and connect wait for ends; a peer may stay
\* silent, and a listener may listen for ever.
FairSpec ==
    /\ Spec
    /\ WF_vars(Opened \/ OpenRaises) /\ WF_vars(CloseAwaits) /\ WF_vars(Closed)
    /\ WF_vars(Rediscovered)
    /\ WF_vars(DeadlinePasses) /\ WF_vars(Receive \/ SkipControl) /\ WF_vars(Receiving /\ ReadEnds)
-----------------------------------------------------------------------------
\* The types of the variables; what a request for measurements waits for is the
\* answer of one of the servers that the peer announced.
TypeOK ==
    /\ Life!TypeOK /\ Mdns!TypeOK
    /\ caller \in Callers
    /\ current \in Sessions \cup {0} /\ opening.session \in Sessions \cup {0}
    /\ DOMAIN op = DOMAIN NoOperation
    /\ op.awaits \in {"descriptions", "values"} => op.left \in 1..MeasurementServers
    /\ counter \in Nat /\ heard \in BOOLEAN /\ bootstrapSent \in BOOLEAN
    /\ abandoned \subseteq Functions
    /\ controls \in 0..MaxControls /\ operations \in 0..caller.operations

\* The client has one session: one that it left was closed, its tasks are gone
\* and its transport is closed; so it is while the next is opened.  Only an
\* open that failed leaves a transport behind, with at most the delayed
\* selection to run on it.
LeftSessionsAreQuiet ==
    \A s \in Sessions :
        /\ phase[s] = "closed" =>
              transport[s] = "closed" /\ \A t \in Life!TaskNames : task[s][t] = "none"
        /\ s # current /\ s # opening.session => phase[s] \in {"new", "failed", "closed"}
        /\ phase[s] = "failed" => task[s].ping = "none" /\ task[s].keepalive = "none"
        /\ opening.session # 0 /\ s = current => phase[s] = "closed"

\* Broken links, failed pings and failed keep-alives never make close raise;
\* only a selection that could not be sent does, and it does so again: the
\* client keeps that session, with its transport open.
OnlySelectionsBreakClose ==
    \A s \in Sessions : phase[s] = "raised" =>
        "select" \in options[s] /\ task[s].select = "failed" /\ transport[s] = "open" /\ s = current

\* What a request takes for its answer is of the function it asked for (use
\* cases count as discovery), came in its own session, and is its own answer,
\* unless the peer sent it unasked or an earlier request of the function ended
\* without its own; and no answer is taken twice.
AnswersAreOwn ==
    \A i \in DOMAIN collected :
        LET c == collected[i]
        IN  \/ c.asked = "discovery" /\ c.got.fn = "use cases"
            \/ /\ c.got.fn = c.asked
               /\ \/ c.got.ref \in {0, c.ref}
                  \/ c.owed /\ c.got.ref < c.ref
               /\ c.got.ref # 0 => \A j \in DOMAIN collected : i # j => collected[j].got # c.got

\* A rediscovery that had every question about the peer answered, and nothing
\* that a move of the peer made untrue, ends in a connection to where the peer is.
RediscoveryFindsThePeer ==
    [][op.awaits = "mdns" /\ op'.awaits # "mdns" /\ answered = Mdns!Records /\ ~stale =>
           op'.awaits = "open" /\ Mdns!Reaches(opening'.service, Mdns!Place(Wanted))]_vars

\* Every operation but listening ends, whatever data the peer sends, and when,
\* if its SHIP control messages stop.
OperationsEnd == op.name \notin {"none", "listen"} ~> op.name \in {"none", "listen"}
=============================================================================
