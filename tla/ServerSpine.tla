----------------------------- MODULE ServerSpine ----------------------------
(***************************************************************************)
(* The SPINE client role of one ShipServer session (eebus_sdk/server.py):  *)
(* discovery of the peer, binding requests, the reads that follow a        *)
(* granted binding, the load-power command, and the correlation of the     *)
(* peer's results and replies with what was asked.                         *)
(*                                                                         *)
(* The handler of the session and any number of callers of                 *)
(* send_load_power_limit_to_peer send over it.  Each numbers all of its    *)
(* datagrams and asks to send the first without suspending in between;     *)
(* then it sends the others one by one, and all of them wait for the lock  *)
(* of ServerWebSocketConnection.send_frame, which serves them in the order *)
(* in which they ask.  So a datagram is on the wire here when its sender   *)
(* asks for the lock.  What the server answers to the peer's own requests  *)
(* is in ServerRequests.                                                   *)
(***************************************************************************)
EXTENDS Integers, Sequences, FiniteSets

CONSTANTS
    Addresses,      \* feature addresses; the lower one is preferred
    Updates,        \* what one discovery message of the peer may announce
    Callers,        \* tasks that call send_load_power_limit_to_peer
    MaxDemands,     \* bound: commands, and the peer's reads of the local discovery
    MaxCounter      \* bound: no behaviour within the others uses more counters

ASSUME MaxCounterAssumption == MaxCounter \in Nat
ASSUME AddressesAssumption == Addresses \subseteq Nat /\ IsFiniteSet(Addresses)

\* The order in which bindings are requested and features are read.
FeatureOrder == <<"DeviceDiagnosis", "LoadControl", "DeviceConfiguration",
                  "ElectricalConnection", "Measurement">>
Features == {FeatureOrder[i] : i \in DOMAIN FeatureOrder}
None == "none"

\* The handler is the only other sender.
Handler == "handler"
Senders == Callers \cup {Handler}

ASSUME CallersAssumption == Handler \notin Callers
ASSUME UpdatesAssumption == \A u \in Updates : \E A \in SUBSET Addresses : u \in [A -> Features]

VARIABLES
    auto,           \* send_load_power_limit_watts is configured
    counter,        \* _msg_counter
    known,          \* last_remote_discovery: feature types by address
    nmAddress,      \* remote_node_management_address is known
    discoveryRead,  \* remote_discovery_requested
    bindingSent,    \* binding_bootstrap_sent
    commonSent,     \* post_binding_bootstrap_sent
    pendingBind,    \* pending_binding_requests
    featureSent,    \* binding_feature_bootstrap_sent
    autoSent,       \* load_power_command_sent
    autoWrite,      \* load_power_write_msg_counter
    autoRead,       \* load_power_readback_msg_counter
    pendingW,       \* pending_load_power_writes
    pendingR,       \* pending_load_power_readbacks
    outbox,         \* datagrams and events each sender has left to send
    wire,           \* history: the datagrams sent
    lastWrite,      \* history: msgCounter of the last write sent
    log,            \* history: the load-power events emitted
    granted,        \* history: features the peer granted, and refused
    refused,
    tableSeen,      \* history: the peer reported a non-empty binding table
    forwards, reads \* the bounded actions taken

session == <<known, nmAddress, discoveryRead, bindingSent, commonSent,
             pendingBind, featureSent, autoSent, autoWrite, autoRead>>
peer == <<granted, refused, tableSeen>>
vars == <<auto, counter, session, pendingW, pendingR, outbox, wire,
          lastWrite, log, peer, forwards, reads>>

NoCounter == 0

Init ==
    /\ auto \in BOOLEAN
    /\ counter = 0
    /\ known = <<>>
    /\ nmAddress = FALSE /\ discoveryRead = FALSE
    /\ bindingSent = FALSE /\ commonSent = FALSE
    /\ pendingBind = {} /\ featureSent = {}
    /\ autoSent = FALSE /\ autoWrite = NoCounter /\ autoRead = NoCounter
    /\ pendingW = {} /\ pendingR = {}
    /\ outbox = [s \in Senders |-> <<>>]
    /\ wire = {} /\ lastWrite = NoCounter /\ log = {}
    /\ granted = {} /\ refused = {} /\ tableSeen = FALSE
    /\ forwards = 0 /\ reads = 0

-----------------------------------------------------------------------------
\* A datagram before it has a counter: its purpose and the feature it is for.
Item(kind, feature) == [kind |-> kind, feature |-> feature]
\* Fault: the counter is used before it is incremented.
NumberedFromLast(items) ==
    [i \in DOMAIN items |-> [kind |-> items[i].kind, feature |-> items[i].feature,
                             ctr |-> counter + i - 1]]

\* Each _next_msg_counter() of a response takes the next number.
Numbered(items) ==
    [i \in DOMAIN items |-> [kind |-> items[i].kind, feature |-> items[i].feature,
                             ctr |-> counter + i]]

\* feature_addresses(discovery, f, "server").
Servers(disc, f) == {a \in DOMAIN disc : disc[a] = f}

\* _merge_remote_discovery: an announced address replaces its old entry, the
\* others stay.
MergeDiscovery(existing, update) ==
    [a \in DOMAIN existing \cup DOMAIN update |->
        IF a \in DOMAIN update THEN update[a] ELSE existing[a]]

\* A feature type the peer serves gets a binding request.
BindingRequest(disc, f) == IF Servers(disc, f) = {} THEN <<>> ELSE <<Item("bind", f)>>

\* _bootstrap_from_remote_discovery: once, the binding requests in order, and a
\* read of the peer's binding table.
BindingBootstrap(disc) ==
    IF bindingSent THEN <<>>
    ELSE BindingRequest(disc, FeatureOrder[1]) \o BindingRequest(disc, FeatureOrder[2])
         \o BindingRequest(disc, FeatureOrder[3]) \o BindingRequest(disc, FeatureOrder[4])
         \o BindingRequest(disc, FeatureOrder[5]) \o <<Item("read", "bindings")>>

\* _bootstrap_common_after_binding.
CommonBootstrap ==
    IF commonSent \/ ~nmAddress \/ known = <<>> THEN <<>>
    ELSE <<Item("subscribe", "NodeManagement")>>

\* Fault: one granted binding finishes the bootstrap of all features.
ReadyUntilCommon(f) == nmAddress /\ ~commonSent /\ Servers(known, f) # {}

\* _bootstrap_feature_after_binding: the reads of one feature type, once.
Ready(f) == nmAddress /\ f \notin featureSent /\ Servers(known, f) # {}
FeatureBootstrap(f) ==
    IF ~Ready(f) THEN <<>>
    ELSE CASE f = "DeviceDiagnosis"      -> <<Item("subscribe", f), Item("read", f)>>
           [] f = "ElectricalConnection" -> <<Item("read", f)>>
           [] OTHER                      -> <<Item("read", f), Item("read", f)>>

\* A load-power event names the command by the counter that was answered.
Emit(events) == log' = log \cup events

\* Fault: the handler reads on while its events are still to be emitted.
ReadingBeforeEvents == \A i \in DOMAIN outbox[Handler] : outbox[Handler][i].kind = "event"

\* The handler is back in its read loop.
Reading == outbox[Handler] = <<>>
OnWire == {d.ctr : d \in wire}
Sent(kinds) == {d.ctr : d \in {e \in wire : e.kind \in kinds}}

\* A sender asks to send the first of these, and has the others left.
Send(s, sends) ==
    /\ outbox' = [outbox EXCEPT ![s] = IF sends = <<>> THEN <<>> ELSE Tail(sends)]
    /\ wire' = wire \cup {sends[i] : i \in DOMAIN sends \cap {1}}
    /\ lastWrite' = IF sends # <<>> /\ Head(sends).kind = "write"
                    THEN Head(sends).ctr ELSE lastWrite

\* Fault: the sender suspends between numbering its datagrams and the first send.
HandOverLater(s, sends) ==
    /\ outbox' = [outbox EXCEPT ![s] = sends]
    /\ UNCHANGED <<wire, lastWrite>>

\* A sender has numbered these, and asks to send the first of them at once.
HandOver(s, sends) == Send(s, sends)

-----------------------------------------------------------------------------
\* The commands, configured and forwarded, and the reads so far.
Demands == forwards + reads + (IF auto THEN 1 ELSE 0)

\* The peer reads the local discovery: it is answered, and its own discovery
\* is read once.
RecvDiscoveryRead ==
    /\ Reading /\ Demands < MaxDemands
    /\ LET items == <<Item("reply", "discovery")>>
                    \o (IF discoveryRead THEN <<>> ELSE <<Item("read", "discovery")>>)
       IN  /\ HandOver(Handler, Numbered(items))
           /\ counter' = counter + Len(items)
    /\ nmAddress' = TRUE
    /\ discoveryRead' = TRUE
    /\ reads' = reads + 1
    /\ UNCHANGED <<auto, known, bindingSent, commonSent, pendingBind, featureSent,
                   autoSent, autoWrite, autoRead, pendingW, pendingR, log, peer,
                   forwards>>

\* A reply or notify, with no acknowledgement asked for, carries discovery of
\* the peer's features.
RecvDiscovery(update) ==
    /\ Reading
    /\ LET disc  == MergeDiscovery(known, update)
           items == BindingBootstrap(disc)
           sends == Numbered(items)
       IN  /\ known' = disc
           /\ HandOver(Handler, sends)
           /\ counter' = counter + Len(items)
           /\ pendingBind' = pendingBind \cup
                {[ctr |-> d.ctr, feature |-> d.feature] :
                    d \in {sends[i] : i \in {j \in DOMAIN sends : sends[j].kind = "bind"}}}
    /\ nmAddress' = TRUE
    /\ bindingSent' = TRUE
    /\ UNCHANGED <<auto, discoveryRead, commonSent, featureSent, autoSent, autoWrite,
                   autoRead, pendingW, pendingR, log, peer, forwards, reads>>

\* Fault: the write stays pending when its result arrives.
StillPendingKept(ref) == pendingW

\* pending_load_power_writes after a result for ref.
StillPending(ref) == pendingW \ {ref}

\* Fault: any result counts as a granted binding.
GrantsAnyResult(asked, ok) == asked # {}

\* A binding request was answered without an error.
Grants(asked, ok) == asked # {} /\ ok

\* A result for the datagram with counter ref.  A pending write is popped; the
\* configured command is recognised by its counter.
RecvResult(ref, ok) ==
    /\ Reading
    /\ ref \in OnWire
    /\ LET asked == {b.feature : b \in {p \in pendingBind : p.ctr = ref}}
           items == IF Grants(asked, ok)
                    THEN CommonBootstrap \o FeatureBootstrap(CHOOSE f \in asked : TRUE)
                    ELSE <<>>
       IN  /\ HandOver(Handler, Numbered(items))
           /\ counter' = counter + Len(items)
           /\ commonSent' = (commonSent \/ (Grants(asked, ok) /\ CommonBootstrap # <<>>))
           /\ featureSent' = IF Grants(asked, ok)
                             THEN featureSent \cup {f \in asked : Ready(f)}
                             ELSE featureSent
           /\ granted' = IF ok THEN granted \cup asked ELSE granted
           /\ refused' = IF ok THEN refused ELSE refused \cup asked
    /\ Emit(IF ref \in pendingW \cup {autoWrite} THEN {<<"writeResult", ref>>} ELSE {})
    /\ pendingW' = StillPending(ref)
    /\ pendingBind' = {b \in pendingBind : b.ctr # ref}
    /\ UNCHANGED <<auto, known, nmAddress, discoveryRead, bindingSent, autoSent,
                   autoWrite, autoRead, pendingR, tableSeen, forwards, reads>>

\* A reply with the peer's binding table: a non-empty one starts the reads of
\* every feature the peer serves.
RecvBindingTable(nonEmpty) ==
    /\ Reading
    /\ LET items == IF nonEmpty
                    THEN CommonBootstrap \o FeatureBootstrap("DeviceDiagnosis")
                         \o FeatureBootstrap("LoadControl")
                         \o FeatureBootstrap("DeviceConfiguration")
                         \o FeatureBootstrap("ElectricalConnection")
                         \o FeatureBootstrap("Measurement")
                    ELSE <<>>
       IN  /\ HandOver(Handler, Numbered(items))
           /\ counter' = counter + Len(items)
    /\ commonSent' = (commonSent \/ (nonEmpty /\ CommonBootstrap # <<>>))
    /\ featureSent' = IF nonEmpty THEN featureSent \cup {f \in Features : Ready(f)}
                      ELSE featureSent
    /\ tableSeen' = (tableSeen \/ nonEmpty)
    /\ UNCHANGED <<auto, known, nmAddress, discoveryRead, bindingSent, pendingBind,
                   autoSent, autoWrite, autoRead, pendingW, pendingR, log,
                   granted, refused, forwards, reads>>

\* The configured command has not been sent in this session.
CommandDue == auto /\ ~autoSent

\* A command whose write takes counter w: the write, its readback, and the event
\* that follows them.
CommandOutput(w) ==
    <<[kind |-> "write", feature |-> "LoadControl", ctr |-> w],
      [kind |-> "readback", feature |-> "LoadControl", ctr |-> w + 1],
      [kind |-> "event", feature |-> "LoadControl", ctr |-> w]>>

\* A reply with the peer's limits: it may answer a readback, and the first one
\* of the session triggers the configured command.  A reply that asks for an
\* acknowledgement gets its result before that; bound: only that reply asks.
RecvLimits(ref, hasLimit, ack) ==
    /\ Reading
    /\ ref \in OnWire /\ (ack => CommandDue)
    /\ Emit(IF hasLimit /\ ref \in pendingR \cup {autoRead}
            THEN {<<"readback", ref>>} ELSE {})
    /\ pendingR' = pendingR \ {ref}
    /\ LET result == IF ack THEN <<Item("result", "LoadControl")>> ELSE <<>>
           first  == counter + Len(result) + 1
       IN  IF CommandDue
           THEN /\ HandOver(Handler, Numbered(result) \o CommandOutput(first))
                /\ counter' = first + 1
                /\ autoWrite' = first
                /\ autoRead' = first + 1
                /\ autoSent' = TRUE
           ELSE /\ HandOver(Handler, Numbered(result))
                /\ counter' = counter + Len(result)
                /\ UNCHANGED <<autoWrite, autoRead, autoSent>>
    /\ UNCHANGED <<auto, known, nmAddress, discoveryRead, bindingSent, commonSent,
                   pendingBind, featureSent, pendingW, peer, forwards, reads>>

\* The sender goes on: with its next _send_data, or the event that follows.
SendNext(s) ==
    /\ outbox[s] # <<>>
    /\ LET d == Head(outbox[s])
       IN  IF d.kind = "event"
           THEN /\ Emit({<<"writeSent", d.ctr>>})
                /\ outbox' = [outbox EXCEPT ![s] = Tail(@)]
                /\ UNCHANGED <<wire, lastWrite>>
           ELSE Send(s, outbox[s]) /\ UNCHANGED log
    /\ UNCHANGED <<auto, counter, session, pendingW, pendingR, peer, forwards, reads>>

-----------------------------------------------------------------------------
\* Fault: the write and its readback are pending under one counter.
ForwardBeginsOneCounter(c) ==
    /\ outbox[c] = <<>> /\ Demands < MaxDemands
    /\ Servers(known, "LoadControl") # {}
    /\ HandOver(c, CommandOutput(counter + 1))
    /\ counter' = counter + 2
    /\ pendingW' = pendingW \cup {counter + 1}
    /\ pendingR' = pendingR \cup {counter + 1}
    /\ forwards' = forwards + 1
    /\ UNCHANGED <<auto, session, log, peer, reads>>

\* send_load_power_limit_to_peer, up to its first send.  Nothing keeps another
\* caller, or the configured command, from sending at the same time.
ForwardBegins(c) ==
    /\ outbox[c] = <<>> /\ Demands < MaxDemands
    /\ Servers(known, "LoadControl") # {}
    /\ HandOver(c, CommandOutput(counter + 1))
    /\ counter' = counter + 2
    /\ pendingW' = pendingW \cup {counter + 1}
    /\ pendingR' = pendingR \cup {counter + 2}
    /\ forwards' = forwards + 1
    /\ UNCHANGED <<auto, session, log, peer, reads>>

Next ==
    \/ RecvDiscoveryRead
    \/ \E update \in Updates : RecvDiscovery(update)
    \/ \E ref \in Sent({"bind", "subscribe", "write"}), ok \in BOOLEAN : RecvResult(ref, ok)
    \/ \E ref \in Sent({"read", "readback"}), hasLimit, ack \in BOOLEAN :
          RecvLimits(ref, hasLimit, ack)
    \/ \E nonEmpty \in BOOLEAN : RecvBindingTable(nonEmpty)
    \/ \E s \in Senders : SendNext(s)
    \/ \E c \in Callers : ForwardBegins(c)

Spec == Init /\ [][Next]_vars

\* The handler and the callers go on sending; a peer that has been asked for a
\* LoadControl binding answers, and so does one asked for its limits.
PeerAnswersBinding ==
    \E b \in pendingBind : b.feature = "LoadControl" /\ RecvResult(b.ctr, TRUE)
PeerReportsLimits ==
    \E d \in wire, ack \in BOOLEAN :
        d.kind = "read" /\ d.feature = "LoadControl" /\ RecvLimits(d.ctr, TRUE, ack)

FairSpec == /\ Spec
            /\ \A s \in Senders : WF_vars(SendNext(s))
            /\ WF_vars(PeerAnswersBinding) /\ WF_vars(PeerReportsLimits)

-----------------------------------------------------------------------------
\* What is still to be sent, by its sender and place.
Waiting == UNION {{s} \X {i \in DOMAIN outbox[s] : outbox[s][i].kind # "event"} : s \in Senders}
At(p) == outbox[p[1]][p[2]]

\* The handler's responses and any number of concurrent callers never send two
\* datagrams with one msgCounter, whatever the order in which their sends go.
CountersUnique ==
    /\ \A d, e \in wire : d.ctr = e.ctr => d = e
    /\ \A p, q \in Waiting : At(p).ctr = At(q).ctr => p = q
    /\ \A p \in Waiting : At(p).ctr \notin OnWire

\* A feature's reads and subscription are only prepared after the peer granted
\* the binding of that feature or reported a non-empty binding table.
ReadsFollowBinding == featureSent \subseteq granted \/ tableSeen

\* A result is never taken for the answer of two requests: a counter is
\* pending in one role only, and what is pending will be or has been sent.
RefsUnambiguous ==
    LET binds == {b.ctr : b \in pendingBind}
    IN  /\ binds \cap (pendingW \cup pendingR) = {}
        /\ pendingW \cap pendingR = {}
        /\ ({autoWrite, autoRead} \ {NoCounter}) \cap (binds \cup pendingW \cup pendingR) = {}
        /\ binds \cup pendingW \cup pendingR \subseteq OnWire \cup {At(p).ctr : p \in Waiting}

\* A command is never told the state of an older one: when it reads back, its
\* own write has gone out, and after that no caller's but of a newer command.
\* Only the configured command, delayed by an acknowledgement, may come between.
ReadbackIsNotStale ==
    [][\A d \in wire' \ wire : d.kind = "readback" =>
          LET write == d.ctr - 1
          IN  write \in Sent({"write"}) /\ (lastWrite >= write \/ lastWrite = autoWrite)]_vars

\* A reader of the events learns that the configured command was sent before
\* it learns the peer's result or the state read back.
CommandReportedInOrder ==
    [][\A e \in log' \ log :
          e = <<"writeResult", autoWrite>> \/ e = <<"readback", autoRead>> =>
              <<"writeSent", autoWrite>> \in log]_vars

\* The forwarded commands keep the promise of LimitCommands.
Forwarded == {e[2] : e \in {x \in log : x[1] = "writeResult" /\ x[2] # autoWrite}}
ReadBackLog == {e[2] : e \in {x \in log : x[1] = "readback" /\ x[2] # autoRead}}
Promise == INSTANCE LimitCommands WITH
             Counters <- 1..MaxCounter, writes <- pendingW, readbacks <- pendingR,
             acked <- Forwarded, reported <- ReadBackLog
CommandsKeepPromise == Promise!Init /\ [][Promise!Next]_(Promise!vars)

\* With a peer that serves LoadControl when it first announces itself, and that
\* answers, the configured command is sent unless the binding is refused.
CommandEventuallySent ==
    (auto /\ \E b \in pendingBind : b.feature = "LoadControl")
        ~> autoWrite \in OnWire \/ "LoadControl" \in refused
=============================================================================
