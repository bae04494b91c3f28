---------------------------- MODULE ShipHandshake ---------------------------
(***************************************************************************)
(* The SHIP handshake between a ShipSession (eebus_sdk/ship.py, "cli") and *)
(* a ShipServer (eebus_sdk/server.py, "srv") over two ordered channels,    *)
(* with the timeouts of both sides.  Either side may also face a foreign   *)
(* peer that sends any messages in any order.                              *)
(*                                                                         *)
(* A step of a side is what it does between two receives: it takes one     *)
(* message, or gives up waiting, changes its state and sends its answers.  *)
(* Time is not measured.  On a slow network a timeout may race with a      *)
(* message still to come; otherwise it fires only when nothing is.         *)
(***************************************************************************)
EXTENDS Integers, Sequences, FiniteSets

CONSTANTS
    Peerings,       \* who talks to whom: "sdk", "foreign client", "foreign server"
    Paces,          \* is the network slow
    ServerModes,    \* ShipServerConfig.ship_handshake_mode: "standard", or else compatibility
    ClientModes,    \* ShipConnectionConfig.access_handshake_mode
    ServerSends,    \* what a foreign server may send
    ClientSends,    \* what a foreign client may send
    MaxSends        \* bound: messages of a foreign peer

Hellos == {"hello ready", "hello pending", "hello prolongation", "hello aborted"}
AccessMessages == {"access methods request", "access methods response", "access request",
                   "access methods", "access methods without id", "access granted", "access status"}
\* A message of a later SHIP version or of another stage is "other".
Messages == {"init", "announceMax", "select", "protocol error", "pin none", "pin other",
             "methods select", "other", "close"} \cup Hellos \cup AccessMessages
None == "none"

ASSUME SendsAssumption == ServerSends \subseteq Messages /\ ClientSends \subseteq Messages

VARIABLES
    config,     \* the peering, the pace, the modes and options
    cli,        \* ShipSession: stage, local methods sent, remote id, select timer
    srv,        \* ShipServer's handler: stage, loop count, flags, remote id
    toServer, toClient,
    deadline,   \* pairing_wait_seconds have passed
    sends,      \* messages sent by a foreign peer
    seenByServer, seenByClient  \* history: messages taken by each side

vars == <<config, cli, srv, toServer, toClient, deadline, sends, seenByServer, seenByClient>>

Options == [peering : Peerings, slow : Paces, server : ServerModes, client : ClientModes,
            response : BOOLEAN, methods : BOOLEAN]

ClientStart == [stage |-> "start", local |-> FALSE, remote |-> None, timer |-> FALSE]
ServerStart == [stage |-> "init", n |-> 0, pend |-> None, announced |-> FALSE, selected |-> FALSE,
                pin |-> FALSE, local |-> FALSE, progress |-> FALSE, remote |-> None]

\* send_access_methods_response and send_local_access_methods are not used in
\* compatibility mode.
Init ==
    /\ config \in {o \in Options : o.client = "compatibility" => o.response /\ o.methods}
    /\ cli = ClientStart
    /\ srv = ServerStart
    /\ toServer = <<>> /\ toClient = <<>>
    /\ deadline = FALSE /\ sends = 0
    /\ seenByServer = {} /\ seenByClient = {}

If(condition, message) == IF condition THEN <<message>> ELSE <<>>

-----------------------------------------------------------------------------
\* ShipSession.  A reaction is the new state and the messages sent.
React(state, out) == [state |-> state, out |-> out]
ClientFails(c) == React([c EXCEPT !.stage = "failed"], <<>>)
At(c, stage) == [c EXCEPT !.stage = stage]

\* _hello: the peer is ready, or pending and the wait may go on.
ClientHello(c, m) ==
    CASE m = "hello ready" -> React(At(c, "protocol"), <<"announceMax">>)
      [] m \in {"hello pending", "hello prolongation"} /\ ~deadline -> React(At(c, "pending"), <<>>)
      [] OTHER -> ClientFails(c)

\* While the peer is pending, a repeated "pending" restarts the waiting time.
ClientPending(c, m) ==
    CASE m = "hello ready" -> React(At(c, "protocol"), <<"announceMax">>)
      [] m = "hello prolongation" -> React(At(c, "hello"), <<"hello pending">>)
      [] m = "hello pending" -> React(c, <<>>)
      [] OTHER -> ClientFails(c)

ClientProtocol(c, m) ==
    IF m = "select" THEN React(At(c, "pin"), <<"select", "pin none">>) ELSE ClientFails(c)

ClientPin(c, m) ==
    IF m = "pin none" THEN React(At(c, "access"), <<"access methods request">>) ELSE ClientFails(c)

\* _send_compatibility_access_sequence with its default options; the selection
\* follows later from a task of its own.
CompatibilitySequence == <<"access methods response", "access methods without id", "access request">>

\* Fault: a request is not answered by the local access methods.
ClientAccessLate(c, m) ==
    LET local == If(config.methods /\ ~c.local, "access methods")
    IN CASE m = "access methods request" /\ config.client = "compatibility" ->
              React([c EXCEPT !.timer = TRUE], CompatibilitySequence)
         [] m = "access methods request" /\ config.client = "standard" ->
              React(c, If(config.response, "access methods response"))
         [] m = "access methods response" -> React(c, <<"access request">>)
         [] m = "access request" -> React([c EXCEPT !.local = config.methods], local)
         [] m = "access methods" -> React([c EXCEPT !.stage = "done", !.remote = "server"], <<>>)
         [] OTHER -> React(c, <<>>)

\* _access_methods_handshake.
ClientAccess(c, m) ==
    LET local == If(config.methods /\ ~c.local, "access methods")
    IN CASE m = "access methods request" /\ config.client = "compatibility" ->
              React([c EXCEPT !.timer = TRUE], CompatibilitySequence)
         [] m = "access methods request" /\ config.client = "standard" ->
              React([c EXCEPT !.local = config.methods],
                    If(config.response, "access methods response") \o local)
         [] m = "access methods response" -> React(c, <<"access request">>)
         [] m = "access request" -> React([c EXCEPT !.local = config.methods], local)
         [] m \in {"access granted", "access status"} -> React(c, <<>>)
         [] m = "access methods" -> React([c EXCEPT !.stage = "done", !.remote = "server"], <<>>)
         [] OTHER -> ClientFails(c)

\* A close frame fails any stage; a completed session only yields events.
ClientReaction(c, m) ==
    IF m = "close" THEN ClientFails(c)
    ELSE CASE c.stage = "init" ->
                IF m = "init" THEN React(At(c, "hello"), <<"hello ready">>) ELSE ClientFails(c)
           [] c.stage = "hello"    -> ClientHello(c, m)
           [] c.stage = "pending"  -> ClientPending(c, m)
           [] c.stage = "protocol" -> ClientProtocol(c, m)
           [] c.stage = "pin"      -> ClientPin(c, m)
           [] c.stage = "access"   -> ClientAccess(c, m)
           [] c.stage = "done"     -> React(c, <<>>)

SdkClient == config.peering # "foreign client"
SdkServer == config.peering # "foreign server"
ClientWaits == cli.stage \in {"init", "hello", "pending", "protocol", "pin", "access"}

ClientApply(r) ==
    /\ cli' = r.state
    /\ toServer' = IF SdkServer THEN toServer \o r.out ELSE <<>>
    /\ UNCHANGED <<config, srv, deadline, sends, seenByServer>>

ClientConnects ==
    /\ SdkClient /\ cli.stage = "start"
    /\ ClientApply(React(At(cli, "init"), <<"init">>))
    /\ UNCHANGED <<toClient, seenByClient>>

ClientReceives ==
    /\ SdkClient /\ (ClientWaits \/ cli.stage = "done") /\ toClient # <<>>
    /\ ClientApply(ClientReaction(cli, Head(toClient)))
    /\ toClient' = Tail(toClient)
    /\ seenByClient' = seenByClient \cup {Head(toClient)}

\* Nothing is under way, and no task is about to send.
Quiet ==
    /\ toServer = <<>> /\ toClient = <<>> /\ srv.pend = None
    /\ ~cli.timer /\ cli.stage # "start"

\* The server limits its waiting, to at most 2 s where the client waits 10 s.
ServerTimed ==
    \/ srv.stage \in {"followup", "access"}
    \/ srv.stage = "protocol" /\ config.server # "standard"

\* Fault: a pending peer is asked for a prolongation again and again.
SilencePending(c) ==
    IF c.stage = "pending" THEN React(c, <<"hello prolongation">>) ELSE ClientFails(c)

\* The transport's own timeout ends every receive of the handshake; in the
\* pending state the wait is resumed, until the peer's waiting time is over.
Silence(c) ==
    IF c.stage = "pending" THEN React(At(c, "hello"), <<"hello prolongation">>) ELSE ClientFails(c)

ClientTimeout ==
    /\ SdkClient /\ ClientWaits /\ toClient = <<>>
    /\ config.slow \/ (Quiet /\ ~ServerTimed)
    /\ ClientApply(Silence(cli))
    /\ UNCHANGED <<toClient, seenByClient>>

\* _send_later: the delayed methodsSelect.
ClientSelects ==
    /\ cli.timer
    /\ ClientApply(React([cli EXCEPT !.timer = FALSE], <<"methods select">>))
    /\ UNCHANGED <<toClient, seenByClient>>

DeadlinePasses ==
    /\ ~deadline /\ cli.stage \in {"hello", "pending"}
    /\ deadline' = TRUE
    /\ UNCHANGED <<config, cli, srv, toServer, toClient, sends, seenByServer, seenByClient>>

\* A failed session does not close its transport: that happens when its
\* owner drops it, or never.
ClientCloses ==
    /\ SdkClient /\ cli.stage \in {"failed", "done"}
    /\ ClientApply(React([cli EXCEPT !.stage = "closed", !.timer = FALSE], <<"close">>))
    /\ UNCHANGED <<toClient, seenByClient>>

-----------------------------------------------------------------------------
\* ShipServer._handle_client.  A loop that runs out of its attempts, or gets a
\* message it does not expect, ends with the connection closed.
ServerFails(s) == React([s EXCEPT !.stage = "failed", !.pend = None], <<"close">>)

\* A stage starts counting its loop anew, with the message left to it.
Enter(s, stage, m) == [s EXCEPT !.stage = stage, !.n = 0, !.pend = m]
EnterPin(s, m) == React(Enter(s, "pin", m), If(config.server # "standard", "pin none"))
EnterAccess(s, m) == React(Enter(s, "access", m), <<"access methods request">>)
Ready(s, remote) == [s EXCEPT !.stage = "ready", !.pend = None, !.remote = remote]

Attempts(stage) == CASE stage = "followup" -> 4 [] stage = "protocol" -> 8
                     [] stage = "pin" -> 6 [] stage = "access" -> 12

\* The end of a turn of the loop of stage s.stage.
Again(s, out) ==
    LET t == [s EXCEPT !.n = @ + 1, !.pend = None]
    IN  IF t.n < Attempts(s.stage) THEN React(t, out)
        ELSE CASE s.stage = "followup" -> React(Enter(s, "protocol", None), out)
               [] s.stage = "pin"      -> React(EnterAccess(s, None).state,
                                                out \o EnterAccess(s, None).out)
               [] s.stage = "access"   -> React(Ready([s EXCEPT !.local = TRUE], None),
                                                out \o If(~s.local, "access methods"))
               [] OTHER                -> React(ServerFails(s).state, out \o <<"close">>)

\* _perform_hello_handshake: the first control message counts as a hello that
\* is not aborted, even when it holds none, and up to four more are read.
ServerHello(s, m) ==
    IF m = "hello aborted" THEN ServerFails(s)
    ELSE React(Enter(s, "followup", None), <<"hello ready">>)

ServerFollowup(s, m) ==
    CASE m = "hello aborted" -> ServerFails(s)
      [] m \in Hellos \ {"hello aborted"} -> Again(s, <<>>)
      [] OTHER -> React(Enter(s, "protocol", m), <<>>)

\* Fault: every announcement and selection of the peer is answered.
SelectAlways(s) == <<"select">>

\* local_select_sent.
SelectOnce(s) == If(~s.selected, "select")

\* _perform_protocol_handshake: whoever announces first, "select" is sent once.
ServerProtocol(s, m) ==
    LET select == SelectOnce(s)
        announce == If(~s.announced, "announceMax")
        chosen == [s EXCEPT !.selected = TRUE]
        announced == [s EXCEPT !.announced = TRUE]
    IN  IF config.server = "standard"
        THEN IF m = "announceMax" THEN React(Enter(chosen, "select", None), <<"select">>)
             ELSE ServerFails(s)
        ELSE CASE m = "announceMax" -> Again(chosen, select)
               [] m = "select" -> React(EnterPin(chosen, None).state, select \o EnterPin(chosen, None).out)
               [] m = "protocol error" -> ServerFails(s)
               [] m \in Hellos -> Again(s, <<>>)
               [] OTHER -> IF s.selected
                           THEN React(EnterPin(announced, m).state, announce \o EnterPin(announced, m).out)
                           ELSE Again(announced, announce)

ServerSelect(s, m) == IF m = "select" THEN EnterPin(s, None) ELSE ServerFails(s)

\* _perform_pin_handshake: in compatibility mode the server's pin state is out
\* already, and the first access message ends the stage.
ServerPin(s, m) ==
    IF config.server = "standard"
    THEN IF m = "pin none" THEN React(EnterAccess(s, None).state, <<"pin none">> \o EnterAccess(s, None).out)
         ELSE ServerFails(s)
    ELSE CASE m = "pin none" -> Again([s EXCEPT !.pin = TRUE], <<>>)
           [] m = "pin other" -> ServerFails(s)
           [] OTHER -> IF s.pin \/ m \in AccessMessages THEN EnterAccess(s, m) ELSE ServerFails(s)

\* Fault: an unexpected message always ends the handshake.
ServerAccessStrict(s, m) ==
    LET local == If(~s.local, "access methods")
        told == [s EXCEPT !.local = TRUE, !.progress = TRUE]
    IN CASE m \in {"access methods request", "access request"} -> Again(told, local)
         [] m = "access methods response" -> Again([s EXCEPT !.progress = TRUE], <<"access request">>)
         [] m = "access methods" -> React(Ready(told, "client"), local)
         [] OTHER -> ServerFails(s)

\* _perform_access_methods_handshake.
ServerAccess(s, m) ==
    LET local == If(~s.local, "access methods")
        told == [s EXCEPT !.local = TRUE, !.progress = TRUE]
    IN CASE m \in {"access methods request", "access request"} -> Again(told, local)
         [] m = "access methods response" -> Again([s EXCEPT !.progress = TRUE], <<"access request">>)
         [] m = "access granted" -> Again([s EXCEPT !.progress = TRUE], <<>>)
         [] m = "access status" -> Again(s, <<>>)
         [] m = "access methods" -> React(Ready(told, "client"), local)
         [] m = "access methods without id" -> React(Ready(told, None), local)
         [] OTHER -> IF s.local THEN React(Ready(s, None), <<>>) ELSE ServerFails(s)

\* Every stage but the first reads control messages only.
ServerReaction(s, m) ==
    IF m = "close" \/ (m = "init" /\ s.stage \notin {"init", "ready"}) THEN ServerFails(s)
    ELSE CASE s.stage = "init" ->
                IF m = "init" THEN React(Enter(s, "hello", None), <<"init">>) ELSE ServerFails(s)
           [] s.stage = "hello"    -> ServerHello(s, m)
           [] s.stage = "followup" -> ServerFollowup(s, m)
           [] s.stage = "protocol" -> ServerProtocol(s, m)
           [] s.stage = "select"   -> ServerSelect(s, m)
           [] s.stage = "pin"      -> ServerPin(s, m)
           [] s.stage = "access"   -> ServerAccess(s, m)
           [] s.stage = "ready"    -> React(s, <<>>)

ServerApply(r) ==
    /\ srv' = r.state
    /\ toClient' = IF SdkClient THEN toClient \o r.out ELSE <<>>
    /\ UNCHANGED <<config, cli, deadline, sends, seenByClient>>

\* The message a stage left to the next one comes before those on the channel.
ServerReceives ==
    /\ SdkServer /\ srv.stage # "failed"
    /\ \/ /\ srv.pend # None
          /\ ServerApply(ServerReaction(srv, srv.pend))
          /\ UNCHANGED <<toServer, seenByServer>>
       \/ /\ srv.pend = None /\ toServer # <<>>
          /\ ServerApply(ServerReaction(srv, Head(toServer)))
          /\ toServer' = Tail(toServer)
          /\ seenByServer' = seenByServer \cup {Head(toServer)}

\* Fault: a silent peer ends the access stage at any time.
AccessTimeoutAccepts(s) == React(Ready([s EXCEPT !.local = TRUE], None), If(~s.local, "access methods"))

AccessTimeout(s) ==
    IF s.progress THEN React(Ready([s EXCEPT !.local = TRUE], None), If(~s.local, "access methods"))
    ELSE ServerFails(s)

\* wait_for gives up: only the hello follow-up, the protocol stage of the
\* compatibility mode and the access stage limit their waiting.
ServerTimeout ==
    /\ SdkServer /\ ServerTimed /\ srv.pend = None /\ toServer = <<>>
    /\ config.slow \/ Quiet
    /\ \/ srv.stage = "followup" /\ ServerApply(React(Enter(srv, "protocol", None), <<>>))
       \/ /\ srv.stage = "protocol"
          /\ ServerApply(IF srv.announced THEN ServerFails(srv)
                         ELSE Again([srv EXCEPT !.announced = TRUE], <<"announceMax">>))
       \/ srv.stage = "access" /\ ServerApply(AccessTimeout(srv))
    /\ UNCHANGED <<toServer, seenByServer>>

-----------------------------------------------------------------------------
\* A foreign peer sends what it likes, whenever the channel is free.
ForeignSends ==
    /\ sends < MaxSends
    /\ sends' = sends + 1
    /\ \/ /\ ~SdkClient /\ toServer = <<>>
          /\ \E m \in ClientSends : toServer' = <<m>>
          /\ UNCHANGED toClient
       \/ /\ ~SdkServer /\ toClient = <<>>
          /\ \E m \in ServerSends : toClient' = <<m>>
          /\ UNCHANGED toServer
    /\ UNCHANGED <<config, cli, srv, deadline, seenByServer, seenByClient>>

Next ==
    \/ ClientConnects \/ ClientReceives \/ ClientTimeout \/ ClientSelects \/ ClientCloses
    \/ DeadlinePasses
    \/ ServerReceives \/ ServerTimeout
    \/ ForeignSends

Spec == Init /\ [][Next]_vars

\* Channels deliver, tasks run, timers fire; nobody has to close a session.
FairSpec ==
    /\ Spec
    /\ WF_vars(ClientConnects \/ ClientReceives \/ ClientTimeout) /\ WF_vars(ClientSelects)
    /\ WF_vars(DeadlinePasses)
    /\ WF_vars(ServerReceives \/ ServerTimeout)
-----------------------------------------------------------------------------
Flags == {"announced", "selected", "pin", "local", "progress"}
ClientStages == {"start", "init", "hello", "pending", "protocol", "pin", "access", "done", "failed", "closed"}
ServerStages == {"init", "hello", "followup", "protocol", "select", "pin", "access", "ready", "failed"}

\* The types, and every loop within its attempts.
TypeOK ==
    /\ cli \in [stage : ClientStages, local : BOOLEAN, remote : {None, "server"}, timer : BOOLEAN]
    /\ srv.stage \in ServerStages /\ srv.pend \in Messages \cup {None}
    /\ srv.remote \in {None, "client"}
    /\ \A f \in Flags : srv[f] \in BOOLEAN
    /\ srv.stage \in {"followup", "protocol", "pin", "access"} => srv.n < Attempts(srv.stage)
    /\ \A i \in DOMAIN toServer : toServer[i] \in Messages
    /\ \A i \in DOMAIN toClient : toClient[i] \in Messages

\* Whatever the peer sends: a server session is reported ready only after an
\* agreed protocol version and some message about access methods, and when the
\* peer was told the server's own (no hello or pin state is required); a client
\* session opens only when the peer was ready, selected the version, needs no
\* pin and told its SHIP id.
SessionsAreNegotiated ==
    /\ SdkServer /\ srv.stage = "ready" =>
          /\ "init" \in seenByServer
          /\ seenByServer \cap {"announceMax", "select"} # {}
          /\ srv.selected /\ srv.local
          /\ seenByServer \cap AccessMessages # {}
    /\ cli.stage = "done" =>
          /\ {"init", "hello ready", "select", "pin none", "access methods"} \subseteq seenByClient
          /\ cli.remote = "server"

\* Between two sides of the library, however late messages are: once the
\* client's session is open, the server's handshake cannot fail any more,
\* unless the client closes the session.
NoHalfOpenSession == config.peering = "sdk" /\ cli.stage = "done" => srv.stage # "failed"

\* The server learns the client's SHIP id when no timeout cuts the exchange
\* short and the client is a standard one that tells it.
IdsAreExchanged ==
    /\ config.peering = "sdk" /\ ~config.slow
    /\ config.client = "standard" /\ config.methods
    /\ srv.stage = "ready"
    => srv.remote = "client"

\* Two sides of the library on a network without delays: no timeout and no
\* unexpected message keeps them from completing, in any of their modes.
FastHandshakeSucceeds ==
    config.peering = "sdk" /\ ~config.slow
    => /\ [](cli.stage # "failed")
       /\ <>(cli.stage \in {"done", "closed"})
       /\ <>(srv.stage = "ready" \/ cli.stage = "closed")

\* The client's handshake ends, whatever the peer sends and however slow it is,
\* if it does not send for ever: a pending peer that falls silent is asked for
\* a prolongation and, when it does not answer that either, given up.
ClientHandshakeEnds == SdkClient => <>~(cli.stage = "start" \/ ClientWaits)
=============================================================================
