------------------------- MODULE ShipTransport_proofs ------------------------
(***************************************************************************)
(* Proofs about what the two sides of a SHIP connection share: the         *)
(* handshake (ShipHandshake) and the reading of WebSocket frames           *)
(* (FrameReader).  The two share no state; each has an inductive invariant *)
(* of its own.                                                             *)
(*                                                                         *)
(* Handshake: what a completed handshake means for each side, whatever a   *)
(* peer sends, in whatever order and however often; that no session of the *)
(* library stays half open; and that a server that no timeout disturbs     *)
(* learns the client's SHIP id, which is followed message by message.      *)
(*                                                                         *)
(* Frames: what is under way to the reader is a stream of whole frames in  *)
(* the order they were sent in, and the fragments that are kept are the    *)
(* first pieces of the next message; so every message that is returned is  *)
(* the one that was sent.                                                  *)
(***************************************************************************)
EXTENDS ShipHandshake, FrameReader, SequenceLemmas

ClientStates == [stage : ClientStages, local : BOOLEAN, remote : {None, "server"}, timer : BOOLEAN]
ServerStates ==
    [stage : ServerStages, n : Nat, pend : Messages \cup {None}, announced : BOOLEAN,
     selected : BOOLEAN, pin : BOOLEAN, local : BOOLEAN, progress : BOOLEAN,
     remote : {None, "client"}]

\* Messages on their way.
IsChannel(c) == IsSequence(c) /\ ToSet(c) \subseteq Messages

Types ==
    /\ config \in Options /\ cli \in ClientStates /\ srv \in ServerStates
    /\ IsChannel(toServer) /\ IsChannel(toClient)
    /\ seenByServer \subseteq Messages

Loops == {"followup", "protocol", "pin", "access"}

\* What each stage of a client that has taken the messages of C has behind it.
ClientFits(c, C) ==
    /\ c.stage = "start" => ~c.timer
    /\ c.stage \in {"hello", "pending", "protocol", "pin", "access", "done"} => "init" \in C
    /\ c.stage \in {"protocol", "pin", "access", "done"} => "hello ready" \in C
    /\ c.stage \in {"pin", "access", "done"} => "select" \in C
    /\ c.stage \in {"access", "done"} => "pin none" \in C
    /\ c.stage = "done" => "access methods" \in C /\ c.remote = "server"

\* The same of a server that has taken those of S: what it is to do with a
\* message that was left to its stage, and what its flags stand for.
ServerFits(s, S) ==
    /\ s.pend \in (S \cup {None}) \ {"init", "close"}
    /\ s.stage = "init" => s.pend = None
    /\ s.stage \in Loops => s.n < Attempts(s.stage)
    /\ s.stage \notin {"init", "failed"} => "init" \in S
    /\ s.selected => S \cap {"announceMax", "select"} # {}
    /\ s.stage \in {"select", "pin", "access", "ready"} => s.selected
    /\ s.local \/ s.progress => S \cap AccessMessages # {}
    /\ s.local => s.stage \in {"access", "ready", "failed"}
    /\ s.local /\ s.stage = "access" => s.progress
    /\ s.stage = "ready" => s.local

\* A side of the library sends its init once, before anything else, and a close
\* frame when it closes.
ClientOpensOnce ==
    SdkClient =>
        /\ cli.stage = "start" => toServer = <<>> /\ srv.stage = "init"
        /\ \A i \in DOMAIN toServer : toServer[i] = "init" => i = 1 /\ srv.stage = "init"
        /\ "close" \in ToSet(toServer) => cli.stage = "closed"

\* The server is told of: its access methods are sent, or taken.
ServerIsTold == srv.stage \in {"access", "ready"} /\ srv.local
ToldServerGoesOn ==
    /\ config.peering = "sdk" /\ cli.stage # "closed"
    /\ cli.stage = "done" \/ "access methods" \in ToSet(toClient)
    => ServerIsTold

IInv == /\ Types /\ ClientFits(cli, seenByClient) /\ ServerFits(srv, seenByServer)
        /\ ClientOpensOnce /\ ToldServerGoesOn

-----------------------------------------------------------------------------
(* Reactions and channels. *)

\* The two parts of a reaction.
LEMMA Reactions == \A state, out : React(state, out).state = state /\ React(state, out).out = out
  BY DEF React

\* One message that is sent, or none.
LEMMA OneMessage ==
  ASSUME NEW m \in Messages
  PROVE  IsChannel(<<m>>) /\ ToSet(<<m>>) = {m}
<1>1. IsSequence(<<m>>) /\ ToSet(<<m>>) = {m}
  BY OneItem
<1>2. {m} \subseteq Messages
  OBVIOUS
<1> QED BY <1>1, <1>2, Zenon DEF IsChannel

\* No message is a channel.
LEMMA NoMessage == IsChannel(<<>>) /\ ToSet(<<>>) = {}
  BY NoItems DEF IsChannel

\* A message, or none.
LEMMA PerhapsOneMessage ==
  ASSUME NEW c, NEW m \in Messages, c = <<m>> \/ c = <<>>
  PROVE  IsChannel(c) /\ ToSet(c) \subseteq {m}
  BY OneMessage, NoMessage

\* Their places.
LEMMA Places == DOMAIN <<>> = {} /\ \A m : DOMAIN <<m>> = {1}
  OBVIOUS

\* What is put behind what was.
LEMMA MoreMessages ==
  ASSUME NEW c, NEW d, IsChannel(c), IsChannel(d)
  PROVE  IsChannel(c \o d) /\ ToSet(c \o d) = ToSet(c) \cup ToSet(d)
  BY JoinedItems DEF IsChannel

\* The messages of the two sides.
LEMMA MessagesAre ==
  /\ {"init", "announceMax", "select", "pin none", "methods select", "close", "hello ready", "hello pending",
      "hello prolongation", "access methods request", "access methods response", "access request",
      "access methods", "access methods without id"} \subseteq Messages
  /\ Hellos \subseteq Messages /\ AccessMessages \subseteq Messages
  /\ None \notin Messages /\ None \notin {"init", "close"}
  BY DEF Messages, Hellos, AccessMessages, None

-----------------------------------------------------------------------------
(* The server. *)

\* What a server may turn to and send: it has told its access methods when
\* they are sent.
ServerGood(t, out, S) ==
    /\ t \in ServerStates /\ ServerFits(t, S)
    /\ IsChannel(out)
    /\ "access methods" \in ToSet(out) => t.stage \in {"access", "ready"} /\ t.local

ReactsWell(r, S) == ServerGood(r.state, r.out, S)

\* Messages that do not tell the access methods.
TellsNothing(out) == IsChannel(out) /\ "access methods" \notin ToSet(out)

\* A message other than the access methods tells nothing.
LEMMA OneTellsNothing ==
  ASSUME NEW m \in Messages, m # "access methods", NEW c, c = <<m>> \/ c = <<>>
  PROVE  TellsNothing(c)
<1>1. IsChannel(c) /\ ToSet(c) \subseteq {m}
  BY PerhapsOneMessage
<1> QED BY <1>1 DEF TellsNothing

\* Two lists that tell nothing, in a row.
LEMMA MoreTellsNothing ==
  ASSUME NEW c, NEW d, TellsNothing(c), TellsNothing(d)
  PROVE  TellsNothing(c \o d)
<1>1. IsChannel(c) /\ IsChannel(d)
  BY DEF TellsNothing
<1>2. IsChannel(c \o d) /\ ToSet(c \o d) = ToSet(c) \cup ToSet(d)
  BY <1>1, MoreMessages
<1> QED BY <1>2 DEF TellsNothing

\* A reaction that tells nothing, and one that does.
LEMMA QuietlyGood ==
  ASSUME NEW t \in ServerStates, NEW S, ServerFits(t, S), NEW out, TellsNothing(out)
  PROVE  ServerGood(t, out, S) /\ ReactsWell(React(t, out), S)
<1>1. ServerGood(t, out, S)
  BY DEF ServerGood, TellsNothing
<1> QED BY <1>1, Reactions DEF ReactsWell

\* A reaction that tells the access methods, of a server that notes it did.
LEMMA ToldGood ==
  ASSUME NEW t \in ServerStates, NEW S, ServerFits(t, S), NEW out, IsChannel(out),
         t.stage \in {"access", "ready"}, t.local
  PROVE  ServerGood(t, out, S) /\ ReactsWell(React(t, out), S)
<1>1. ServerGood(t, out, S)
  BY DEF ServerGood
<1> QED BY <1>1, Reactions DEF ReactsWell

\* A loop counts.
LEMMA Counts == \A n \in Nat : n + 1 \in Nat
  OBVIOUS

\* Every loop may turn.
LEMMA SomeAttempts ==
  0 < Attempts("followup") /\ 0 < Attempts("protocol") /\ 0 < Attempts("pin") /\ 0 < Attempts("access")
  BY DEF Attempts

\* A stage begins with its loop, and keeps the flags.
LEMMA Entered ==
  ASSUME NEW s \in ServerStates, NEW stage \in ServerStages, NEW m \in Messages \cup {None}
  PROVE  LET t == Enter(s, stage, m)
         IN  /\ t \in ServerStates /\ t.stage = stage /\ t.n = 0 /\ t.pend = m
             /\ t.selected = s.selected /\ t.local = s.local /\ t.progress = s.progress
  BY DEF Enter, ServerStates

\* The same of a handshake that fails.
LEMMA Failed ==
  ASSUME NEW s \in ServerStates, NEW S, ServerFits(s, S)
  PROVE  /\ ReactsWell(ServerFails(s), S) /\ ServerFails(s).state.stage = "failed"
         /\ ServerFails(s).state \in ServerStates /\ ServerFits(ServerFails(s).state, S)
<1> DEFINE t == [s EXCEPT !.stage = "failed", !.pend = None]
<1>1. ServerFails(s).state = t /\ ServerFails(s).out = <<"close">>
  BY Reactions DEF ServerFails
<1>2. t \in ServerStates /\ t.stage = "failed" /\ t.pend = None
      /\ t.selected = s.selected /\ t.local = s.local /\ t.progress = s.progress
  BY DEF ServerStates, ServerStages
<1> HIDE DEF t
<1>3. ServerFits(t, S)
  BY <1>2, MessagesAre DEF ServerFits, Loops
<1>4. TellsNothing(<<"close">>)
  BY OneTellsNothing, MessagesAre
<1>5. ReactsWell(React(t, <<"close">>), S)
  BY <1>2, <1>3, <1>4, QuietlyGood
<1>6. ServerFails(s) = React(t, <<"close">>)
  BY DEF ServerFails, t
<1> QED BY <1>1, <1>2, <1>3, <1>5, <1>6

\* And of one that is complete.
LEMMA Completed ==
  ASSUME NEW s \in ServerStates, NEW S, ServerFits(s, S), s.stage \in {"access", "ready"},
         S \cap AccessMessages # {}, s.local, NEW remote \in {None, "client"}
  PROVE  LET t == Ready(s, remote)
         IN  t \in ServerStates /\ ServerFits(t, S) /\ t.stage = "ready" /\ t.local
<1> DEFINE t == Ready(s, remote)
<1>1. t \in ServerStates /\ t.stage = "ready" /\ t.pend = None
      /\ t.selected = s.selected /\ t.local = s.local /\ t.progress = s.progress
  BY DEF Ready, ServerStates, ServerStages
<1> HIDE DEF t
<1> QED BY <1>1, MessagesAre DEF ServerFits, Loops, t

\* A stage of the access methods, or the pin stage, may follow any.
LEMMA StageFollows ==
  ASSUME NEW s \in ServerStates, NEW S, ServerFits(s, S), s.selected, ~s.local, "init" \in S,
         S \subseteq Messages,
         NEW m \in (S \cup {None}) \ {"init", "close"}, NEW stage \in {"pin", "access"}
  PROVE  Enter(s, stage, m) \in ServerStates /\ ServerFits(Enter(s, stage, m), S)
<1>1. m \in Messages \cup {None} /\ stage \in ServerStages
  BY DEF ServerStages
<1> DEFINE t == Enter(s, stage, m)
<1>2. /\ t \in ServerStates /\ t.stage = stage /\ t.n = 0 /\ t.pend = m
      /\ t.selected = s.selected /\ t.local = s.local /\ t.progress = s.progress
  BY <1>1, Entered
<1> HIDE DEF t
<1>4. ServerFits(t, S)
  BY <1>2, SomeAttempts DEF ServerFits
<1> QED BY <1>2, <1>4 DEF t

\* The pin stage, and the stage of the access methods.
LEMMA NextStages ==
  ASSUME NEW s \in ServerStates, NEW S, ServerFits(s, S), s.selected, ~s.local, "init" \in S,
         S \subseteq Messages,
         NEW m \in (S \cup {None}) \ {"init", "close"}
  PROVE  /\ ReactsWell(EnterPin(s, m), S) /\ ReactsWell(EnterAccess(s, m), S)
         /\ EnterPin(s, m).state \in ServerStates /\ ServerFits(EnterPin(s, m).state, S)
         /\ TellsNothing(EnterPin(s, m).out)
         /\ EnterAccess(s, m).state \in ServerStates /\ ServerFits(EnterAccess(s, m).state, S)
         /\ TellsNothing(EnterAccess(s, m).out)
<1>1. Enter(s, "pin", m) \in ServerStates /\ ServerFits(Enter(s, "pin", m), S)
  BY StageFollows
<1>2. Enter(s, "access", m) \in ServerStates /\ ServerFits(Enter(s, "access", m), S)
  BY StageFollows
<1> DEFINE e == If(config.server # "standard", "pin none")
           a == <<"access methods request">>
<1>3. TellsNothing(e)
  <2>1. e = <<"pin none">> \/ e = <<>>
    BY DEF If
  <2> HIDE DEF e
  <2>2. "pin none" \in Messages
    BY MessagesAre
  <2> QED BY <2>1, <2>2, OneTellsNothing
<1>4. TellsNothing(a)
  BY OneTellsNothing, MessagesAre
<1>5. EnterPin(s, m) = React(Enter(s, "pin", m), e)
  BY Zenon DEF EnterPin
<1>6. EnterAccess(s, m) = React(Enter(s, "access", m), a)
  BY Zenon DEF EnterAccess
<1> HIDE DEF e, a
<1>7. EnterPin(s, m).state = Enter(s, "pin", m) /\ EnterPin(s, m).out = e
  BY <1>5, Reactions
<1>8. EnterAccess(s, m).state = Enter(s, "access", m) /\ EnterAccess(s, m).out = a
  BY <1>6, Reactions
<1>9. ReactsWell(EnterPin(s, m), S)
  BY <1>1, <1>3, <1>5, QuietlyGood
<1>10. ReactsWell(EnterAccess(s, m), S)
  BY <1>2, <1>4, <1>6, QuietlyGood
<1> QED BY <1>1, <1>2, <1>3, <1>4, <1>7, <1>8, <1>9, <1>10

\* Another turn of a loop, or what follows its last: a handshake that has told
\* its access methods goes on.
LEMMA LoopsEnd ==
  ASSUME NEW s \in ServerStates, NEW S, S \subseteq Messages, ServerFits(s, S), s.stage \in Loops,
         s.stage = "access" => S \cap AccessMessages # {},
         NEW out, IsChannel(out), "access methods" \in ToSet(out) => s.stage = "access" /\ s.local
  PROVE  /\ ReactsWell(Again(s, out), S)
         /\ s.stage = "access" /\ s.local
            => Again(s, out).state.stage \in {"access", "ready"} /\ Again(s, out).state.local
<1> DEFINE t == [s EXCEPT !.n = @ + 1, !.pend = None]
<1>1. /\ t \in ServerStates /\ t.stage = s.stage /\ t.pend = None /\ t.n = s.n + 1
      /\ t.selected = s.selected /\ t.local = s.local /\ t.progress = s.progress
  <2> DEFINE k == s.n + 1
  <2>1. k \in Nat
    <3>1. s.n \in Nat
      BY DEF ServerStates
    <3> QED BY <3>1, Counts
  <2> HIDE DEF k
  <2>2. LET u == [s EXCEPT !.n = k, !.pend = None]
        IN  /\ u \in ServerStates /\ u.stage = s.stage /\ u.pend = None /\ u.n = k
            /\ u.selected = s.selected /\ u.local = s.local /\ u.progress = s.progress
    BY <2>1 DEF ServerStates
  <2> QED BY <2>2 DEF k
<1>2. CASE t.n < Attempts(s.stage)
  <2>1. Again(s, out) = React(t, out)
    BY <1>2 DEF Again
  <2> HIDE DEF t
  <2>2. ServerFits(t, S)
    BY <1>1, <1>2, MessagesAre DEF ServerFits
  <2>3. CASE s.stage = "access" /\ s.local
    <3>1. t.stage = "access" /\ t.local
      BY <1>1, <2>3
    <3> QED BY <1>1, <2>1, <2>2, <3>1, ToldGood, Reactions
  <2>4. CASE ~(s.stage = "access" /\ s.local)
    <3>1. TellsNothing(out)
      BY <2>4 DEF TellsNothing
    <3> QED BY <1>1, <2>1, <2>2, <2>4, <3>1, QuietlyGood
  <2> QED BY <2>3, <2>4
<1>3. CASE ~(t.n < Attempts(s.stage))
  <2>1. "init" \in S
    BY DEF ServerFits, Loops
  <2>2. CASE s.stage = "followup"
    <3>1. Again(s, out) = React(Enter(s, "protocol", None), out)
      BY <1>3, <2>2 DEF Again
    <3> DEFINE u == Enter(s, "protocol", None)
    <3>2. /\ u \in ServerStates /\ u.stage = "protocol" /\ u.n = 0 /\ u.pend = None
          /\ u.selected = s.selected /\ u.local = s.local /\ u.progress = s.progress
      <4>1. "protocol" \in ServerStages
        BY DEF ServerStages
      <4>2. None \in Messages \cup {None}
        OBVIOUS
      <4> QED BY <4>1, <4>2, Entered
    <3> HIDE DEF u
    <3>4. ServerFits(u, S)
      BY <2>1, <2>2, <3>2, SomeAttempts, MessagesAre DEF ServerFits
    <3>5. TellsNothing(out)
      BY <2>2 DEF TellsNothing
    <3>6. ReactsWell(React(u, out), S)
      BY <3>2, <3>4, <3>5, QuietlyGood
    <3> QED BY <2>2, <3>1, <3>6 DEF u
  <2>3. CASE s.stage = "pin"
    <3> DEFINE e == EnterAccess(s, None)
    <3>1. Again(s, out) = React(e.state, out \o e.out)
      BY <1>3, <2>3 DEF Again
    <3>2. s.selected /\ ~s.local
      BY <2>3 DEF ServerFits
    <3>3. None \in (S \cup {None}) \ {"init", "close"}
      BY MessagesAre
    <3>4. e.state \in ServerStates /\ ServerFits(e.state, S) /\ TellsNothing(e.out)
      BY <2>1, <3>2, <3>3, NextStages
    <3> HIDE DEF e
    <3>5. TellsNothing(out \o e.out)
      BY <2>3, <3>4, MoreTellsNothing DEF TellsNothing
    <3>6. ReactsWell(React(e.state, out \o e.out), S)
      BY <3>4, <3>5, QuietlyGood
    <3> QED BY <2>3, <3>1, <3>6
  <2>4. CASE s.stage = "access"
    <3> DEFINE u == [s EXCEPT !.local = TRUE]
               v == Ready(u, None)
               more == If(~s.local, "access methods")
    <3>1. Again(s, out) = React(v, out \o more)
      BY <1>3, <2>4 DEF Again
    <3>2. v \in ServerStates /\ v.stage = "ready" /\ v.local /\ v.pend = None
          /\ v.selected = s.selected
      BY <2>4 DEF Ready, ServerStates, ServerStages
    <3>3. more = <<"access methods">> \/ more = <<>>
      BY DEF If
    <3> HIDE DEF v, more
    <3>4. ServerFits(v, S)
      BY <2>1, <2>4, <3>2, MessagesAre DEF ServerFits, Loops
    <3>5. IsChannel(more)
      BY <3>3, PerhapsOneMessage, MessagesAre
    <3>6. IsChannel(out \o more)
      BY <3>5, MoreMessages
    <3>7. ReactsWell(React(v, out \o more), S) /\ React(v, out \o more).state = v
      BY <3>2, <3>4, <3>6, ToldGood, Reactions
    <3> QED BY <3>1, <3>2, <3>7
  <2>5. CASE s.stage = "protocol"
    <3> DEFINE f == ServerFails(s)
    <3>1. Again(s, out) = React(f.state, out \o <<"close">>)
      BY <1>3, <2>5 DEF Again
    <3>2. f.state \in ServerStates /\ ServerFits(f.state, S)
      BY Failed
    <3>3. TellsNothing(<<"close">>) /\ TellsNothing(out)
      BY <2>5, OneTellsNothing, MessagesAre DEF TellsNothing
    <3> HIDE DEF f
    <3>4. TellsNothing(out \o <<"close">>)
      BY <3>3, MoreTellsNothing
    <3>5. ReactsWell(React(f.state, out \o <<"close">>), S)
      BY <3>2, <3>4, QuietlyGood
    <3> QED BY <2>5, <3>1, <3>5
  <2> QED BY <2>2, <2>3, <2>4, <2>5 DEF Loops
<1> QED BY <1>2, <1>3

\* A message is left to the next stage, or none.
LEMMA StageStarts ==
  ASSUME NEW s \in ServerStates, NEW S, S \subseteq Messages, ServerFits(s, S), "init" \in S,
         ~s.local,
         NEW m \in (S \cup {None}) \ {"init", "close"}, NEW stage \in {"hello", "followup", "protocol"}
  PROVE  Enter(s, stage, m) \in ServerStates /\ ServerFits(Enter(s, stage, m), S)
<1>1. m \in Messages \cup {None} /\ stage \in ServerStages
  BY DEF ServerStages
<1> DEFINE t == Enter(s, stage, m)
<1>2. /\ t \in ServerStates /\ t.stage = stage /\ t.n = 0 /\ t.pend = m
      /\ t.selected = s.selected /\ t.local = s.local /\ t.progress = s.progress
  BY <1>1, Entered
<1> HIDE DEF t
<1>3. ServerFits(t, S)
  BY <1>2, SomeAttempts DEF ServerFits, Loops
<1> QED BY <1>2, <1>3 DEF t

\* The hello stage, and the follow-up that reads more of them.
LEMMA ServerHelloReacts ==
  ASSUME NEW s \in ServerStates, NEW S, S \subseteq Messages, ServerFits(s, S), "init" \in S,
         s.stage = "hello", NEW m \in S \ {"init", "close"}
  PROVE  ReactsWell(ServerHello(s, m), S)
<1>1. CASE m = "hello aborted"
  BY <1>1, Failed DEF ServerHello
<1>2. CASE m # "hello aborted"
  <2> DEFINE t == Enter(s, "followup", None)
  <2>1. ServerHello(s, m) = React(t, <<"hello ready">>)
    BY <1>2 DEF ServerHello
  <2>2. ~s.local /\ None \in (S \cup {None}) \ {"init", "close"}
    BY MessagesAre DEF ServerFits
  <2>3. t \in ServerStates /\ ServerFits(t, S)
    BY <2>2, StageStarts
  <2>4. TellsNothing(<<"hello ready">>)
    BY OneTellsNothing, MessagesAre
  <2> HIDE DEF t
  <2> QED BY <2>1, <2>3, <2>4, QuietlyGood
<1> QED BY <1>1, <1>2

\* The server's reactions while it waits for a second hello.
LEMMA ServerFollowupReacts ==
  ASSUME NEW s \in ServerStates, NEW S, S \subseteq Messages, ServerFits(s, S), "init" \in S,
         s.stage = "followup", NEW m \in S \ {"init", "close"}
  PROVE  ReactsWell(ServerFollowup(s, m), S)
<1>1. TellsNothing(<<>>)
  BY NoMessage DEF TellsNothing
<1>2. CASE m = "hello aborted"
  BY <1>2, Failed DEF ServerFollowup
<1>3. CASE m \in Hellos \ {"hello aborted"}
  <2>1. ServerFollowup(s, m) = Again(s, <<>>)
    BY <1>3 DEF ServerFollowup
  <2>2. ReactsWell(Again(s, <<>>), S)
    BY <1>1, LoopsEnd DEF TellsNothing, Loops
  <2> QED BY <2>1, <2>2
<1>4. CASE m \notin Hellos
  <2> DEFINE t == Enter(s, "protocol", m)
  <2>1. ServerFollowup(s, m) = React(t, <<>>)
    BY <1>4 DEF ServerFollowup, Hellos
  <2>2. ~s.local
    BY DEF ServerFits
  <2>3. t \in ServerStates /\ ServerFits(t, S)
    BY <2>2, StageStarts
  <2> HIDE DEF t
  <2> QED BY <1>1, <2>1, <2>3, QuietlyGood
<1> QED BY <1>2, <1>3, <1>4

\* The flags that the protocol stage sets.
LEMMA ProtocolFlags ==
  ASSUME NEW s \in ServerStates, NEW S, S \subseteq Messages, ServerFits(s, S), s.stage = "protocol"
  PROVE  /\ LET t == [s EXCEPT !.announced = TRUE]
            IN  t \in ServerStates /\ ServerFits(t, S) /\ t.stage = "protocol" /\ t.selected = s.selected
         /\ S \cap {"announceMax", "select"} # {} =>
            LET t == [s EXCEPT !.selected = TRUE]
            IN  t \in ServerStates /\ ServerFits(t, S) /\ t.stage = "protocol" /\ t.selected
<1> DEFINE a == [s EXCEPT !.announced = TRUE]
           c == [s EXCEPT !.selected = TRUE]
<1>1. /\ a \in ServerStates /\ a.stage = s.stage /\ a.n = s.n /\ a.pend = s.pend
      /\ a.selected = s.selected /\ a.local = s.local /\ a.progress = s.progress
  BY DEF ServerStates
<1>2. /\ c \in ServerStates /\ c.stage = s.stage /\ c.n = s.n /\ c.pend = s.pend
      /\ c.selected = TRUE /\ c.local = s.local /\ c.progress = s.progress
  BY DEF ServerStates
<1> HIDE DEF a, c
<1>3. ServerFits(a, S)
  BY <1>1 DEF ServerFits
<1>4. S \cap {"announceMax", "select"} # {} => ServerFits(c, S)
  BY <1>2 DEF ServerFits
<1> QED BY <1>1, <1>2, <1>3, <1>4 DEF a, c

\* The protocol stage.
LEMMA ServerProtocolReacts ==
  ASSUME NEW s \in ServerStates, NEW S, S \subseteq Messages, ServerFits(s, S), "init" \in S,
         s.stage = "protocol", NEW m \in S \ {"init", "close"}
  PROVE  ReactsWell(ServerProtocol(s, m), S)
<1> DEFINE select == SelectOnce(s)
           announce == If(~s.announced, "announceMax")
           chosen == [s EXCEPT !.selected = TRUE]
           announced == [s EXCEPT !.announced = TRUE]
<1>1. TellsNothing(select)
  <2>1. select = <<"select">> \/ select = <<>>
    BY DEF SelectOnce, If
  <2> HIDE DEF select
  <2> QED BY <2>1, OneTellsNothing, MessagesAre
<1>2. TellsNothing(announce)
  <2>1. announce = <<"announceMax">> \/ announce = <<>>
    BY DEF If
  <2> HIDE DEF announce
  <2> QED BY <2>1, OneTellsNothing, MessagesAre
<1>3. TellsNothing(<<>>) /\ TellsNothing(<<"select">>)
  BY NoMessage, OneTellsNothing, MessagesAre DEF TellsNothing
<1>4. announced \in ServerStates /\ ServerFits(announced, S) /\ announced.stage = "protocol"
      /\ announced.selected = s.selected
  BY ProtocolFlags
<1>5. m \in {"announceMax", "select"} =>
        chosen \in ServerStates /\ ServerFits(chosen, S) /\ chosen.stage = "protocol" /\ chosen.selected
  BY ProtocolFlags
<1>6. None \in (S \cup {None}) \ {"init", "close"} /\ "protocol" \in Loops
  BY MessagesAre DEF Loops
<1>7. CASE config.server = "standard" /\ m = "announceMax"
  <2> DEFINE t == Enter(chosen, "select", None)
  <2>1. ServerProtocol(s, m) = React(t, <<"select">>)
    BY <1>7 DEF ServerProtocol
  <2> HIDE DEF chosen
  <2>2. chosen \in ServerStates /\ ServerFits(chosen, S) /\ chosen.stage = "protocol"
        /\ chosen.selected
    BY <1>5, <1>7
  <2>3. /\ t \in ServerStates /\ t.stage = "select" /\ t.n = 0 /\ t.pend = None
        /\ t.selected = chosen.selected /\ t.local = chosen.local /\ t.progress = chosen.progress
    <3>1. "select" \in ServerStages /\ None \in Messages \cup {None}
      BY DEF ServerStages
    <3>2. chosen \in ServerStates
      BY <2>2
    <3> QED BY <3>1, <3>2, Entered
  <2> HIDE DEF t
  <2>4. ServerFits(t, S)
    BY <1>6, <2>2, <2>3 DEF ServerFits, Loops
  <2> QED BY <1>3, <2>1, <2>3, <2>4, QuietlyGood
<1>8. CASE config.server = "standard" /\ m # "announceMax"
  BY <1>8, Failed DEF ServerProtocol
<1>9. CASE config.server # "standard" /\ m = "announceMax"
  <2>1. ServerProtocol(s, m) = Again(chosen, select)
    BY <1>9 DEF ServerProtocol, Hellos
  <2> HIDE DEF chosen, select
  <2>2. ReactsWell(Again(chosen, select), S)
    BY <1>1, <1>5, <1>6, <1>9, LoopsEnd DEF TellsNothing
  <2> QED BY <2>1, <2>2
<1>10. CASE config.server # "standard" /\ m = "select"
  <2> DEFINE e == EnterPin(chosen, None)
  <2>1. ServerProtocol(s, m) = React(e.state, select \o e.out)
    BY <1>10 DEF ServerProtocol, Hellos
  <2> HIDE DEF chosen, select
  <2>2. chosen.selected /\ ~chosen.local
    BY <1>5, <1>10 DEF ServerFits
  <2>3. e.state \in ServerStates /\ ServerFits(e.state, S) /\ TellsNothing(e.out)
    BY <1>5, <1>6, <1>10, <2>2, NextStages
  <2> HIDE DEF e
  <2>4. TellsNothing(select \o e.out)
    BY <1>1, <2>3, MoreTellsNothing
  <2> QED BY <2>1, <2>3, <2>4, QuietlyGood
<1>11. CASE config.server # "standard" /\ m = "protocol error"
  <2>1. ServerProtocol(s, m) = ServerFails(s)
    BY <1>11 DEF ServerProtocol, Hellos
  <2> QED BY <2>1, Failed
<1>12. CASE config.server # "standard" /\ m \in Hellos
  <2>1. ServerProtocol(s, m) = Again(s, <<>>)
    BY <1>12 DEF ServerProtocol, Hellos
  <2>2. ReactsWell(Again(s, <<>>), S)
    BY <1>3, <1>6, LoopsEnd DEF TellsNothing
  <2> QED BY <2>1, <2>2
<1>13. ASSUME config.server # "standard",
              m \notin {"announceMax", "select", "protocol error"} \cup Hellos,
              s.selected
       PROVE  ReactsWell(ServerProtocol(s, m), S)
  <2> DEFINE e == EnterPin(announced, m)
  <2>1. ServerProtocol(s, m) = React(e.state, announce \o e.out)
    BY <1>13 DEF ServerProtocol
  <2> HIDE DEF announced, announce
  <2>2. announced.selected /\ ~announced.local
    BY <1>4, <1>13 DEF ServerFits
  <2>3. e.state \in ServerStates /\ ServerFits(e.state, S) /\ TellsNothing(e.out)
    BY <1>4, <2>2, NextStages
  <2> HIDE DEF e
  <2>4. TellsNothing(announce \o e.out)
    BY <1>2, <2>3, MoreTellsNothing
  <2> QED BY <2>1, <2>3, <2>4, QuietlyGood
<1>14. ASSUME config.server # "standard",
              m \notin {"announceMax", "select", "protocol error"} \cup Hellos,
              ~s.selected
       PROVE  ReactsWell(ServerProtocol(s, m), S)
  <2>1. ServerProtocol(s, m) = Again(announced, announce)
    BY <1>14 DEF ServerProtocol
  <2> HIDE DEF announced, announce
  <2>2. ReactsWell(Again(announced, announce), S)
    BY <1>2, <1>4, <1>6, LoopsEnd DEF TellsNothing
  <2> QED BY <2>1, <2>2
<1> QED BY <1>7, <1>8, <1>9, <1>10, <1>11, <1>12, <1>13, <1>14

\* The selection of a standard peer.
LEMMA ServerSelectReacts ==
  ASSUME NEW s \in ServerStates, NEW S, S \subseteq Messages, ServerFits(s, S), "init" \in S,
         s.stage = "select", NEW m
  PROVE  ReactsWell(ServerSelect(s, m), S)
<1>1. s.selected /\ ~s.local /\ None \in (S \cup {None}) \ {"init", "close"}
  BY MessagesAre DEF ServerFits
<1>2. ReactsWell(EnterPin(s, None), S)
  BY <1>1, NextStages
<1> QED BY <1>2, Failed DEF ServerSelect

\* The pin stage.
LEMMA ServerPinReacts ==
  ASSUME NEW s \in ServerStates, NEW S, S \subseteq Messages, ServerFits(s, S), "init" \in S,
         s.stage = "pin", NEW m \in S \ {"init", "close"}
  PROVE  ReactsWell(ServerPin(s, m), S)
<1>1. s.selected /\ ~s.local /\ None \in (S \cup {None}) \ {"init", "close"}
  BY MessagesAre DEF ServerFits
<1>2. CASE config.server = "standard" /\ m = "pin none"
  <2> DEFINE e == EnterAccess(s, None)
  <2>1. ServerPin(s, m) = React(e.state, <<"pin none">> \o e.out)
    BY <1>2 DEF ServerPin
  <2>2. e.state \in ServerStates /\ ServerFits(e.state, S) /\ TellsNothing(e.out)
    BY <1>1, NextStages
  <2> HIDE DEF e
  <2>3. TellsNothing(<<"pin none">>)
    BY OneTellsNothing, MessagesAre
  <2>4. TellsNothing(<<"pin none">> \o e.out)
    BY <2>2, <2>3, MoreTellsNothing
  <2> QED BY <2>1, <2>2, <2>4, QuietlyGood
<1>3. CASE config.server # "standard" /\ m = "pin none"
  <2> DEFINE t == [s EXCEPT !.pin = TRUE]
  <2>1. ServerPin(s, m) = Again(t, <<>>)
    BY <1>3 DEF ServerPin
  <2>2. /\ t \in ServerStates /\ t.stage = s.stage /\ t.n = s.n /\ t.pend = s.pend
        /\ t.selected = s.selected /\ t.local = s.local /\ t.progress = s.progress
    BY DEF ServerStates
  <2> HIDE DEF t
  <2>3. ServerFits(t, S)
    BY <2>2 DEF ServerFits
  <2>4. t.stage \in Loops /\ t.stage # "access"
    BY <2>2 DEF Loops
  <2>5. ReactsWell(Again(t, <<>>), S)
    BY <2>2, <2>3, <2>4, NoMessage, LoopsEnd
  <2> QED BY <2>1, <2>5
<1>4. CASE /\ config.server # "standard" /\ m \notin {"pin none", "pin other"}
           /\ s.pin \/ m \in AccessMessages
  <2>1. ServerPin(s, m) = EnterAccess(s, m)
    BY <1>4 DEF ServerPin
  <2>2. ReactsWell(EnterAccess(s, m), S)
    BY <1>1, NextStages
  <2> QED BY <2>1, <2>2
<1>5. ASSUME \/ config.server = "standard" /\ m # "pin none"
             \/ config.server # "standard" /\ m = "pin other"
             \/ config.server # "standard" /\ m # "pin none" /\ ~(s.pin \/ m \in AccessMessages)
      PROVE  ReactsWell(ServerPin(s, m), S)
  <2>1. ServerPin(s, m) = ServerFails(s)
    BY <1>5 DEF ServerPin
  <2> QED BY <2>1, Failed
<1> QED BY <1>2, <1>3, <1>4, <1>5

\* The flags that the stage of the access methods sets.
LEMMA AccessFlags ==
  ASSUME NEW s \in ServerStates, NEW S, ServerFits(s, S), s.stage = "access",
         S \cap AccessMessages # {}
  PROVE  /\ LET t == [s EXCEPT !.progress = TRUE]
            IN  t \in ServerStates /\ ServerFits(t, S) /\ t.stage = "access" /\ t.local = s.local
         /\ LET t == [s EXCEPT !.local = TRUE, !.progress = TRUE]
            IN  t \in ServerStates /\ ServerFits(t, S) /\ t.stage = "access" /\ t.local
<1> DEFINE p == [s EXCEPT !.progress = TRUE]
           l == [s EXCEPT !.local = TRUE, !.progress = TRUE]
<1>1. /\ p \in ServerStates /\ p.stage = s.stage /\ p.n = s.n /\ p.pend = s.pend
      /\ p.selected = s.selected /\ p.local = s.local /\ p.progress = TRUE
  BY DEF ServerStates
<1>2. /\ l \in ServerStates /\ l.stage = s.stage /\ l.n = s.n /\ l.pend = s.pend
      /\ l.selected = s.selected /\ l.local = TRUE /\ l.progress = TRUE
  BY DEF ServerStates
<1> HIDE DEF p, l
<1>3. ServerFits(p, S) /\ ServerFits(l, S)
  BY <1>1, <1>2 DEF ServerFits
<1> QED BY <1>1, <1>2, <1>3 DEF p, l

\* The stage of the access methods: once the server's own are told, it goes on.
LEMMA ServerAccessReacts ==
  ASSUME NEW s \in ServerStates, NEW S, S \subseteq Messages, ServerFits(s, S), "init" \in S,
         s.stage = "access", NEW m \in S \ {"init", "close"}
  PROVE  LET r == ServerAccess(s, m)
         IN  ReactsWell(r, S) /\ (s.local => r.state.stage \in {"access", "ready"} /\ r.state.local)
<1> DEFINE r == ServerAccess(s, m)
           Goal == ReactsWell(r, S) /\ (s.local => r.state.stage \in {"access", "ready"} /\ r.state.local)
           local == If(~s.local, "access methods")
           told == [s EXCEPT !.local = TRUE, !.progress = TRUE]
           moved == [s EXCEPT !.progress = TRUE]
<1>1. IsChannel(local)
  <2>1. local = <<"access methods">> \/ local = <<>>
    BY DEF If
  <2> HIDE DEF local
  <2> QED BY <2>1, PerhapsOneMessage, MessagesAre
<1>2. TellsNothing(<<>>) /\ TellsNothing(<<"access request">>)
  BY NoMessage, OneTellsNothing, MessagesAre DEF TellsNothing
<1>3. m \in AccessMessages => S \cap AccessMessages # {}
  OBVIOUS
<1>4. m \in AccessMessages => /\ told \in ServerStates /\ ServerFits(told, S)
                              /\ told.stage = "access" /\ told.local
  BY <1>3, AccessFlags
<1>5. m \in AccessMessages => /\ moved \in ServerStates /\ ServerFits(moved, S)
                              /\ moved.stage = "access" /\ moved.local = s.local
  BY <1>3, AccessFlags
<1>6. "access" \in Loops
  BY DEF Loops
<1>7. ASSUME m \in {"access methods request", "access request"} PROVE Goal
  <2>1. r = Again(told, local)
    BY <1>7 DEF ServerAccess
  <2> HIDE DEF told, local, r
  <2>2. m \in AccessMessages
    BY <1>7 DEF AccessMessages
  <2>3. ReactsWell(Again(told, local), S)
        /\ Again(told, local).state.stage \in {"access", "ready"} /\ Again(told, local).state.local
    BY <1>1, <1>3, <1>4, <1>6, <2>2, LoopsEnd
  <2> QED BY <2>1, <2>3
<1>8. ASSUME m \in {"access methods response", "access granted"} PROVE Goal
  <2> DEFINE out == IF m = "access granted" THEN <<>> ELSE <<"access request">>
  <2>1. r = Again(moved, out)
    BY <1>8 DEF ServerAccess
  <2> HIDE DEF moved, r
  <2>2. TellsNothing(out)
    BY <1>2
  <2>3. m \in AccessMessages
    BY <1>8 DEF AccessMessages
  <2> HIDE DEF out
  <2>4. ReactsWell(Again(moved, out), S)
        /\ (moved.local => /\ Again(moved, out).state.stage \in {"access", "ready"}
                           /\ Again(moved, out).state.local)
    BY <1>3, <1>5, <1>6, <2>2, <2>3, LoopsEnd DEF TellsNothing
  <2> QED BY <1>5, <2>1, <2>3, <2>4
<1>9. ASSUME m = "access status" PROVE Goal
  <2>1. r = Again(s, <<>>)
    BY <1>9 DEF ServerAccess
  <2> HIDE DEF r
  <2>2. m \in AccessMessages
    BY <1>9 DEF AccessMessages
  <2>3. ReactsWell(Again(s, <<>>), S)
        /\ (s.local => Again(s, <<>>).state.stage \in {"access", "ready"} /\ Again(s, <<>>).state.local)
    BY <1>2, <1>3, <1>6, <2>2, LoopsEnd DEF TellsNothing
  <2> QED BY <2>1, <2>3
<1>10. ASSUME m \in {"access methods", "access methods without id"} PROVE Goal
  <2> DEFINE remote == IF m = "access methods" THEN "client" ELSE None
             t == Ready(told, remote)
  <2>1. r = React(t, local)
    BY <1>10 DEF ServerAccess
  <2>2. remote \in {None, "client"}
    OBVIOUS
  <2>3. m \in AccessMessages
    BY <1>10 DEF AccessMessages
  <2> HIDE DEF r, told, local, remote
  <2>4. t \in ServerStates /\ ServerFits(t, S) /\ t.stage = "ready" /\ t.local
    BY <1>3, <1>4, <2>2, <2>3, Completed
  <2> HIDE DEF t
  <2>5. ReactsWell(React(t, local), S) /\ React(t, local).state = t
    BY <1>1, <2>4, ToldGood, Reactions
  <2> QED BY <2>1, <2>4, <2>5
<1>11. ASSUME m \notin AccessMessages, s.local
       PROVE  Goal
  <2> DEFINE t == Ready(s, None)
  <2>1. r = React(t, <<>>)
    BY <1>11 DEF ServerAccess, AccessMessages
  <2>2. S \cap AccessMessages # {}
    BY <1>11 DEF ServerFits
  <2> HIDE DEF r
  <2>3. t \in ServerStates /\ ServerFits(t, S) /\ t.stage = "ready" /\ t.local
    BY <1>11, <2>2, Completed
  <2> HIDE DEF t
  <2>4. ReactsWell(React(t, <<>>), S) /\ React(t, <<>>).state = t
    BY <1>2, <2>3, QuietlyGood, Reactions
  <2> QED BY <2>1, <2>3, <2>4
<1>12. ASSUME m \notin AccessMessages, ~s.local
       PROVE  Goal
  <2>1. r = ServerFails(s)
    BY <1>12 DEF ServerAccess, AccessMessages
  <2> HIDE DEF r
  <2> QED BY <1>12, <2>1, Failed
<1>13. m \in AccessMessages =>
         m \in {"access methods request", "access request", "access methods response", "access granted",
                "access status", "access methods", "access methods without id"}
  BY DEF AccessMessages
<1>14. Goal
  <2> HIDE DEF Goal
  <2> QED BY <1>7, <1>8, <1>9, <1>10, <1>11, <1>12, <1>13
<1> QED BY <1>14

\* A server fits whatever more it has taken.
LEMMA MoreTaken ==
  ASSUME NEW s \in ServerStates, NEW S, NEW T, S \subseteq T, ServerFits(s, S)
  PROVE  ServerFits(s, T)
  BY DEF ServerFits

\* Every message of a running handshake.
LEMMA ServerReacts ==
  ASSUME NEW s \in ServerStates, NEW S, S \subseteq Messages, ServerFits(s, S), s.stage # "failed",
         NEW m \in S
  PROVE  LET r == ServerReaction(s, m)
         IN  /\ ReactsWell(r, S)
             /\ s.stage \in {"access", "ready"} /\ s.local /\ m \notin {"init", "close"}
                => r.state.stage \in {"access", "ready"} /\ r.state.local
<1> DEFINE r == ServerReaction(s, m)
           Goal == /\ ReactsWell(r, S)
                   /\ s.stage \in {"access", "ready"} /\ s.local /\ m \notin {"init", "close"}
                      => r.state.stage \in {"access", "ready"} /\ r.state.local
<1>1. s.stage \in {"init", "hello", "followup", "protocol", "select", "pin", "access", "ready"}
  BY DEF ServerStates, ServerStages
<1>2. ReactsWell(ServerFails(s), S)
  BY Failed
<1>3. ASSUME m = "close" \/ (m = "init" /\ s.stage \notin {"init", "ready"})
      PROVE  Goal
  BY <1>2, <1>3 DEF ServerReaction
<1>4. ASSUME s.stage = "init", m # "close"
      PROVE  Goal
  <2>1. CASE m = "init"
    <3> DEFINE t == Enter(s, "hello", None)
    <3>1. r = React(t, <<"init">>)
      BY <1>4, <2>1 DEF ServerReaction
    <3>2. ~s.local /\ None \in (S \cup {None}) \ {"init", "close"}
      BY <1>4, MessagesAre DEF ServerFits
    <3>3. t \in ServerStates /\ ServerFits(t, S)
      BY <2>1, <3>2, StageStarts
    <3>4. TellsNothing(<<"init">>)
      BY OneTellsNothing, MessagesAre
    <3> HIDE DEF r, t
    <3>5. ReactsWell(r, S)
      BY <3>1, <3>3, <3>4, QuietlyGood
    <3> QED BY <1>4, <3>5 DEF r
  <2>2. CASE m # "init"
    <3>1. r = ServerFails(s)
      BY <1>4, <2>2 DEF ServerReaction
    <3> HIDE DEF r
    <3> QED BY <1>2, <1>4, <3>1 DEF r
  <2> QED BY <2>1, <2>2
<1>5. s.stage \notin {"init", "failed"} => "init" \in S
  BY DEF ServerFits
<1>6. ASSUME m \notin {"init", "close"},
             s.stage \in {"hello", "followup", "protocol", "select", "pin"}
      PROVE  Goal
  <2>1. m \in S \ {"init", "close"} /\ "init" \in S
    BY <1>5, <1>6
  <2>2. CASE s.stage = "hello"
    BY <1>6, <2>1, <2>2, ServerHelloReacts DEF ServerReaction
  <2>3. CASE s.stage = "followup"
    BY <1>6, <2>1, <2>3, ServerFollowupReacts DEF ServerReaction
  <2>4. CASE s.stage = "protocol"
    BY <1>6, <2>1, <2>4, ServerProtocolReacts DEF ServerReaction
  <2>5. CASE s.stage = "select"
    BY <1>6, <2>1, <2>5, ServerSelectReacts DEF ServerReaction
  <2>6. CASE s.stage = "pin"
    BY <1>6, <2>1, <2>6, ServerPinReacts DEF ServerReaction
  <2> QED BY <1>6, <2>2, <2>3, <2>4, <2>5, <2>6
<1>7. ASSUME m \notin {"init", "close"}, s.stage = "access"
      PROVE  Goal
  <2>1. r = ServerAccess(s, m)
    BY <1>7 DEF ServerReaction
  <2> HIDE DEF r
  <2>2. ReactsWell(r, S) /\ (s.local => r.state.stage \in {"access", "ready"} /\ r.state.local)
    BY <1>5, <1>7, <2>1, ServerAccessReacts
  <2> QED BY <2>2 DEF r
<1>8. ASSUME m # "close", s.stage = "ready"
      PROVE  Goal
  <2>1. r = React(s, <<>>)
    BY <1>8 DEF ServerReaction
  <2> HIDE DEF r
  <2>2. TellsNothing(<<>>)
    BY NoMessage DEF TellsNothing
  <2>3. ReactsWell(r, S) /\ r.state = s
    BY <2>1, <2>2, QuietlyGood, Reactions
  <2> QED BY <1>8, <2>3 DEF r
<1>9. Goal
  <2> HIDE DEF Goal
  <2> QED BY <1>1, <1>3, <1>4, <1>6, <1>7, <1>8
<1> QED BY <1>9

\* A handshake that gives up waiting.
LEMMA ServerGivesUp ==
  ASSUME NEW s \in ServerStates, NEW S, S \subseteq Messages, ServerFits(s, S)
  PROVE  /\ s.stage = "followup" => ReactsWell(React(Enter(s, "protocol", None), <<>>), S)
         /\ s.stage = "protocol" =>
              ReactsWell(IF s.announced THEN ServerFails(s)
                         ELSE Again([s EXCEPT !.announced = TRUE], <<"announceMax">>), S)
         /\ s.stage = "access" =>
              LET r == AccessTimeout(s)
              IN  ReactsWell(r, S) /\ (s.local => r.state.stage \in {"access", "ready"} /\ r.state.local)
<1>1. TellsNothing(<<>>) /\ TellsNothing(<<"announceMax">>)
  BY NoMessage, OneTellsNothing, MessagesAre DEF TellsNothing
<1>2. s.stage \notin {"init", "failed"} => "init" \in S
  BY DEF ServerFits
<1>3. ASSUME s.stage = "followup"
      PROVE  ReactsWell(React(Enter(s, "protocol", None), <<>>), S)
  <2> DEFINE t == Enter(s, "protocol", None)
  <2>1. ~s.local /\ None \in (S \cup {None}) \ {"init", "close"}
    BY <1>3, MessagesAre DEF ServerFits
  <2>2. t \in ServerStates /\ ServerFits(t, S)
    BY <1>2, <1>3, <2>1, StageStarts
  <2> HIDE DEF t
  <2>3. ReactsWell(React(t, <<>>), S)
    BY <1>1, <2>2, QuietlyGood
  <2> QED BY <2>3 DEF t
<1>4. ASSUME s.stage = "protocol"
      PROVE  ReactsWell(IF s.announced THEN ServerFails(s)
                        ELSE Again([s EXCEPT !.announced = TRUE], <<"announceMax">>), S)
  <2> DEFINE t == [s EXCEPT !.announced = TRUE]
  <2>1. t \in ServerStates /\ ServerFits(t, S) /\ t.stage = "protocol"
    BY <1>4, ProtocolFlags
  <2> HIDE DEF t
  <2>2. t.stage \in Loops
    BY <2>1 DEF Loops
  <2>3. ReactsWell(Again(t, <<"announceMax">>), S)
    BY <1>1, <2>1, <2>2, LoopsEnd DEF TellsNothing
  <2> QED BY <2>3, Failed DEF t
<1>5. ASSUME s.stage = "access"
      PROVE  LET r == AccessTimeout(s)
             IN  ReactsWell(r, S) /\ (s.local => r.state.stage \in {"access", "ready"} /\ r.state.local)
  <2>1. CASE ~s.progress
    <3>1. ~s.local /\ AccessTimeout(s) = ServerFails(s)
      BY <1>5, <2>1 DEF ServerFits, AccessTimeout
    <3> QED BY <3>1, Failed
  <2>2. CASE s.progress
    <3> DEFINE t == Ready([s EXCEPT !.local = TRUE], None)
               out == If(~s.local, "access methods")
    <3>1. AccessTimeout(s) = React(t, out)
      BY <2>2 DEF AccessTimeout
    <3>2. t \in ServerStates /\ t.stage = "ready" /\ t.local /\ t.pend = None
          /\ t.selected = s.selected
      BY <1>5 DEF Ready, ServerStates, ServerStages
    <3>3. out = <<"access methods">> \/ out = <<>>
      BY DEF If
    <3> HIDE DEF t, out
    <3>4. ServerFits(t, S)
      BY <1>2, <1>5, <2>2, <3>2, MessagesAre DEF ServerFits, Loops
    <3>5. IsChannel(out)
      BY <3>3, PerhapsOneMessage, MessagesAre
    <3>6. ReactsWell(React(t, out), S) /\ React(t, out).state = t
      BY <3>2, <3>4, <3>5, ToldGood, Reactions
    <3> QED BY <3>1, <3>2, <3>6
  <2> QED BY <2>1, <2>2
<1> QED BY <1>3, <1>4, <1>5

-----------------------------------------------------------------------------
(* The client. *)

\* Messages that neither open nor close a session.
Ordinary(out) == IsChannel(out) /\ "init" \notin ToSet(out) /\ "close" \notin ToSet(out)

\* A message other than the first and the last one is ordinary.
LEMMA OneOrdinary ==
  ASSUME NEW m \in Messages, m \notin {"init", "close"}, NEW c, c = <<m>> \/ c = <<>>
  PROVE  Ordinary(c)
<1>1. IsChannel(c) /\ ToSet(c) \subseteq {m}
  BY PerhapsOneMessage
<1> QED BY <1>1 DEF Ordinary

\* Two lists of ordinary messages, in a row.
LEMMA MoreOrdinary ==
  ASSUME NEW c, NEW d, Ordinary(c), Ordinary(d)
  PROVE  Ordinary(c \o d)
<1>1. IsChannel(c) /\ IsChannel(d)
  BY DEF Ordinary
<1>2. IsChannel(c \o d) /\ ToSet(c \o d) = ToSet(c) \cup ToSet(d)
  BY <1>1, MoreMessages
<1> QED BY <1>2 DEF Ordinary

\* The messages of the client.
LEMMA ClientMessages ==
  /\ Ordinary(<<>>)
  /\ \A m \in {"announceMax", "select", "pin none", "methods select", "hello ready", "hello pending",
               "hello prolongation", "access methods request", "access methods response",
               "access request", "access methods", "access methods without id"} : Ordinary(<<m>>)
<1>1. Ordinary(<<>>)
  BY NoMessage DEF Ordinary
<1>2. ASSUME NEW m \in {"announceMax", "select", "pin none", "methods select", "hello ready", "hello pending",
                        "hello prolongation", "access methods request", "access methods response",
                        "access request", "access methods", "access methods without id"}
      PROVE  Ordinary(<<m>>)
  <2>1. m \in Messages /\ m \notin {"init", "close"}
    BY MessagesAre
  <2> QED BY <2>1, OneOrdinary
<1> QED BY <1>1, <1>2

\* Two messages, and three.
LEMMA SeveralOrdinary ==
  ASSUME NEW a \in Messages \ {"init", "close"}, NEW b \in Messages \ {"init", "close"},
         NEW c \in Messages \ {"init", "close"}
  PROVE  Ordinary(<<a, b>>) /\ Ordinary(<<a, b, c>>)
<1>1. ToSet(<<a, b>>) = {a, b} /\ ToSet(<<a, b, c>>) = {a, b, c}
  BY DEF ToSet
<1>2. IsSequence(<<a, b>>) /\ IsSequence(<<a, b, c>>)
  BY <1>1 DEF IsSequence
<1> QED BY <1>1, <1>2 DEF Ordinary, IsChannel

\* What may become of a client c that takes m, with those of C behind it.
ClientReactsWell(r, c, m, C) ==
    /\ r.state \in ClientStates /\ ClientFits(r.state, C \cup {m})
    /\ Ordinary(r.out)
    /\ r.state.stage \notin {"start", "closed"}
    /\ r.state.stage = "done" => c.stage = "done" \/ m = "access methods"

\* A client that goes on to another stage, or fails.
LEMMA ClientGoesOn ==
  ASSUME NEW c \in ClientStates, NEW m, NEW C,
         NEW stage \in ClientStages \ {"start", "closed", "done"},
         ClientFits(At(c, stage), C \cup {m}), NEW out, Ordinary(out)
  PROVE  ClientReactsWell(React(At(c, stage), out), c, m, C)
<1> DEFINE t == At(c, stage)
<1>1. t \in ClientStates /\ t.stage = stage
  BY DEF ClientStates, At
<1> HIDE DEF t
<1>2. React(t, out).state = t /\ React(t, out).out = out
  BY Reactions
<1>3. ClientFits(t, C \cup {m})
  BY DEF t
<1> QED BY <1>1, <1>2, <1>3 DEF ClientReactsWell, t

\* The stage of a client is what it fits by.
LEMMA StageFits ==
  ASSUME NEW c \in ClientStates, NEW C, NEW m, ClientFits(c, C),
         NEW stage \in ClientStages \ {"start", "done"}
  PROVE  LET T == C \cup {m}
         IN  /\ stage \in {"hello", "pending", "protocol", "pin", "access"} => "init" \in T
             /\ stage \in {"protocol", "pin", "access"} => "hello ready" \in T
             /\ stage \in {"pin", "access"} => "select" \in T
             /\ stage = "access" => "pin none" \in T
             => ClientFits(At(c, stage), T)
<1>1. At(c, stage).stage = stage
  BY DEF ClientStates, At
<1> HIDE DEF At
<1> QED BY <1>1 DEF ClientFits

\* A client that fails breaks nothing.
LEMMA ClientGivesIn ==
  ASSUME NEW c \in ClientStates, NEW m, NEW C, ClientFits(c, C)
  PROVE  ClientReactsWell(ClientFails(c), c, m, C)
<1>1. ClientFails(c) = React(At(c, "failed"), <<>>)
  BY DEF ClientFails, At
<1>2. ClientFits(At(c, "failed"), C \cup {m})
  BY StageFits DEF ClientStages
<1>3. "failed" \in ClientStages \ {"start", "closed", "done"}
  BY DEF ClientStages
<1> QED BY <1>1, <1>2, <1>3, ClientGoesOn, ClientMessages

\* The stages up to the pin.
LEMMA ClientOpens ==
  ASSUME NEW c \in ClientStates, NEW m, NEW C, ClientFits(c, C), m # "close",
         c.stage \in {"init", "hello", "pending", "protocol", "pin"}
  PROVE  ClientReactsWell(ClientReaction(c, m), c, m, C)
<1> DEFINE r == ClientReaction(c, m)
           Goal == ClientReactsWell(r, c, m, C)
<1>1. ClientReactsWell(ClientFails(c), c, m, C)
  BY ClientGivesIn
<1>2. /\ \A x \in {"hello", "pending", "protocol", "pin", "access"} :
            x \in ClientStages \ {"start", "closed", "done"}
      /\ "done" \notin {"hello", "pending", "protocol", "pin", "access"}
  BY DEF ClientStages
<1>3. ASSUME c.stage = "init" PROVE Goal
  <2>1. CASE m = "init"
    <3>1. r = React(At(c, "hello"), <<"hello ready">>)
      BY <1>3, <2>1 DEF ClientReaction
    <3>2. ClientFits(At(c, "hello"), C \cup {m})
      BY <1>2, <2>1, StageFits
    <3> HIDE DEF r
    <3> QED BY <1>2, <3>1, <3>2, ClientGoesOn, ClientMessages
  <2>2. CASE m # "init"
    BY <1>1, <1>3, <2>2 DEF ClientReaction
  <2> QED BY <2>1, <2>2
<1>4. ASSUME c.stage \in {"hello", "pending"}, m = "hello ready" PROVE Goal
  <2>1. r = React(At(c, "protocol"), <<"announceMax">>)
    BY <1>4 DEF ClientReaction, ClientHello, ClientPending
  <2>2. "init" \in C
    BY <1>4 DEF ClientFits
  <2>3. ClientFits(At(c, "protocol"), C \cup {m})
    BY <1>2, <1>4, <2>2, StageFits
  <2> HIDE DEF r
  <2> QED BY <1>2, <2>1, <2>3, ClientGoesOn, ClientMessages
<1>5. ASSUME c.stage = "hello", m # "hello ready" PROVE Goal
  <2>1. CASE m \in {"hello pending", "hello prolongation"} /\ ~deadline
    <3>1. r = React(At(c, "pending"), <<>>)
      BY <1>5, <2>1 DEF ClientReaction, ClientHello
    <3>2. "init" \in C
      BY <1>5 DEF ClientFits
    <3>3. ClientFits(At(c, "pending"), C \cup {m})
      BY <1>2, <3>2, StageFits
    <3> HIDE DEF r
    <3> QED BY <1>2, <3>1, <3>3, ClientGoesOn, ClientMessages
  <2>2. CASE ~(m \in {"hello pending", "hello prolongation"} /\ ~deadline)
    <3>1. r = ClientFails(c)
      BY <1>5, <2>2 DEF ClientReaction, ClientHello
    <3> QED BY <1>1, <3>1
  <2> QED BY <2>1, <2>2
<1>6. ASSUME c.stage = "pending", m # "hello ready" PROVE Goal
  <2>1. "init" \in C
    BY <1>6 DEF ClientFits
  <2>2. CASE m = "hello prolongation"
    <3>1. r = React(At(c, "hello"), <<"hello pending">>)
      BY <1>6, <2>2 DEF ClientReaction, ClientPending
    <3>2. ClientFits(At(c, "hello"), C \cup {m})
      BY <1>2, <2>1, StageFits
    <3> HIDE DEF r
    <3> QED BY <1>2, <3>1, <3>2, ClientGoesOn, ClientMessages
  <2>3. CASE m = "hello pending"
    <3>1. r = React(c, <<>>)
      BY <1>6, <2>3 DEF ClientReaction, ClientPending
    <3>2. At(c, "pending") = c
      BY <1>6 DEF At, ClientStates
    <3>3. ClientFits(At(c, "pending"), C \cup {m})
      BY <1>2, <2>1, StageFits
    <3> HIDE DEF r
    <3>4. ClientReactsWell(React(At(c, "pending"), <<>>), c, m, C)
      BY <1>2, <3>3, ClientGoesOn, ClientMessages
    <3> QED BY <3>1, <3>2, <3>4
  <2>4. CASE m \notin {"hello prolongation", "hello pending"}
    <3>1. r = ClientFails(c)
      BY <1>6, <2>4 DEF ClientReaction, ClientPending
    <3> QED BY <1>1, <3>1
  <2> QED BY <2>2, <2>3, <2>4
<1>7. ASSUME c.stage = "protocol" PROVE Goal
  <2>1. CASE m = "select"
    <3> DEFINE out == <<"select", "pin none">>
    <3>1. r = React(At(c, "pin"), out)
      BY <1>7, <2>1 DEF ClientReaction, ClientProtocol
    <3>2. "init" \in C /\ "hello ready" \in C
      BY <1>7 DEF ClientFits
    <3>3. ClientFits(At(c, "pin"), C \cup {m})
      BY <1>2, <2>1, <3>2, StageFits
    <3>4. Ordinary(out)
      <4>1. {"select", "pin none"} \subseteq Messages \ {"init", "close"}
        BY MessagesAre
      <4> QED BY <4>1, SeveralOrdinary
    <3> HIDE DEF r, out
    <3> QED BY <1>2, <3>1, <3>3, <3>4, ClientGoesOn
  <2>2. CASE m # "select"
    BY <1>1, <1>7, <2>2 DEF ClientReaction, ClientProtocol
  <2> QED BY <2>1, <2>2
<1>8. ASSUME c.stage = "pin" PROVE Goal
  <2>1. CASE m = "pin none"
    <3>1. r = React(At(c, "access"), <<"access methods request">>)
      BY <1>8, <2>1 DEF ClientReaction, ClientPin
    <3>2. "init" \in C /\ "hello ready" \in C /\ "select" \in C
      BY <1>8 DEF ClientFits
    <3>3. ClientFits(At(c, "access"), C \cup {m})
      BY <1>2, <2>1, <3>2, StageFits
    <3> HIDE DEF r
    <3> QED BY <1>2, <3>1, <3>3, ClientGoesOn, ClientMessages
  <2>2. CASE m # "pin none"
    BY <1>1, <1>8, <2>2 DEF ClientReaction, ClientPin
  <2> QED BY <2>1, <2>2
<1> HIDE DEF Goal
<1>9. Goal
  BY <1>3, <1>4, <1>5, <1>6, <1>7, <1>8
<1> QED BY <1>9 DEF Goal

\* A client that stays in its stage, with other flags.
LEMMA ClientStays ==
  ASSUME NEW c \in ClientStates, NEW m, NEW C, ClientFits(c, C), c.stage \in {"access", "done"},
         NEW t \in ClientStates, t.stage = c.stage, t.remote = c.remote, NEW out, Ordinary(out)
  PROVE  ClientReactsWell(React(t, out), c, m, C)
<1>1. React(t, out).state = t /\ React(t, out).out = out
  BY Reactions
<1>2. ClientFits(t, C \cup {m})
  BY DEF ClientFits
<1> QED BY <1>1, <1>2 DEF ClientReactsWell

\* The stage of the access methods: it opens the session with the peer's own.
LEMMA ClientEnds ==
  ASSUME config \in Options, NEW c \in ClientStates, NEW m, NEW C, ClientFits(c, C), m # "close",
         c.stage \in {"access", "done"}
  PROVE  ClientReactsWell(ClientReaction(c, m), c, m, C)
<1> DEFINE r == ClientReaction(c, m)
           Goal == ClientReactsWell(r, c, m, C)
           local == If(config.methods /\ ~c.local, "access methods")
           answer == If(config.response, "access methods response")
           told == [c EXCEPT !.local = config.methods]
           timed == [c EXCEPT !.timer = TRUE]
           done == [c EXCEPT !.stage = "done", !.remote = "server"]
<1>1. ASSUME c.stage = "done" PROVE Goal
  <2>1. r = React(c, <<>>)
    BY <1>1 DEF ClientReaction
  <2> HIDE DEF r
  <2> QED BY <2>1, ClientStays, ClientMessages
<1>2. c.stage = "access" => r = ClientAccess(c, m)
  BY DEF ClientReaction
<1>3. Ordinary(local)
  <2>1. local = <<"access methods">> \/ local = <<>>
    BY DEF If
  <2> HIDE DEF local
  <2> QED BY <2>1, ClientMessages
<1>4. Ordinary(answer)
  <2>1. answer = <<"access methods response">> \/ answer = <<>>
    BY DEF If
  <2> HIDE DEF answer
  <2> QED BY <2>1, ClientMessages
<1>5. told \in ClientStates /\ told.stage = c.stage /\ told.remote = c.remote
  <2>1. config.methods \in BOOLEAN
    BY DEF Options
  <2> QED BY <2>1 DEF ClientStates
<1>6. timed \in ClientStates /\ timed.stage = c.stage /\ timed.remote = c.remote
  BY DEF ClientStates
<1>7. done \in ClientStates /\ done.stage = "done" /\ done.remote = "server"
  BY DEF ClientStates, ClientStages
<1>8. ASSUME c.stage = "access", m = "access methods request", config.client = "compatibility"
      PROVE  Goal
  <2>1. r = React(timed, CompatibilitySequence)
    BY <1>2, <1>8 DEF ClientAccess
  <2>2. Ordinary(CompatibilitySequence)
    BY SeveralOrdinary, MessagesAre DEF CompatibilitySequence
  <2> HIDE DEF r, timed
  <2> QED BY <1>6, <2>1, <2>2, ClientStays
<1>9. ASSUME c.stage = "access", m = "access methods request", config.client = "standard" PROVE Goal
  <2>1. r = React(told, answer \o local)
    BY <1>2, <1>9 DEF ClientAccess
  <2> HIDE DEF r, told, answer, local
  <2>2. Ordinary(answer \o local)
    BY <1>3, <1>4, MoreOrdinary
  <2> QED BY <1>5, <2>1, <2>2, ClientStays
<1>10. ASSUME c.stage = "access", m = "access methods response" PROVE Goal
  <2>1. r = React(c, <<"access request">>)
    BY <1>2, <1>10 DEF ClientAccess
  <2> HIDE DEF r
  <2> QED BY <2>1, ClientStays, ClientMessages
<1>11. ASSUME c.stage = "access", m = "access request" PROVE Goal
  <2>1. r = React(told, local)
    BY <1>2, <1>11 DEF ClientAccess
  <2> HIDE DEF r, told, local
  <2> QED BY <1>3, <1>5, <2>1, ClientStays
<1>12. ASSUME c.stage = "access", m \in {"access granted", "access status"} PROVE Goal
  <2>1. r = React(c, <<>>)
    BY <1>2, <1>12 DEF ClientAccess
  <2> HIDE DEF r
  <2> QED BY <2>1, ClientStays, ClientMessages
<1>13. ASSUME c.stage = "access", m = "access methods" PROVE Goal
  <2>1. r = React(done, <<>>)
    BY <1>2, <1>13 DEF ClientAccess
  <2> HIDE DEF r, done
  <2>2. {"init", "hello ready", "select", "pin none"} \subseteq C
    BY <1>13 DEF ClientFits
  <2>3. ClientFits(done, C \cup {m})
    BY <1>7, <1>13, <2>2 DEF ClientFits
  <2>4. r.state = done /\ r.out = <<>>
    BY <2>1, Reactions
  <2> QED BY <1>7, <1>13, <2>3, <2>4, ClientMessages DEF ClientReactsWell
<1>14. ASSUME c.stage = "access",
              m \notin {"access methods response", "access request", "access granted", "access status",
                        "access methods"},
              ~(m = "access methods request" /\ config.client \in {"compatibility", "standard"})
       PROVE Goal
  <2>1. r = ClientFails(c)
    BY <1>2, <1>14 DEF ClientAccess
  <2> HIDE DEF r
  <2> QED BY <2>1, ClientGivesIn
<1> HIDE DEF Goal
<1>15. Goal
  BY <1>1, <1>8, <1>9, <1>10, <1>11, <1>12, <1>13, <1>14
<1> QED BY <1>15 DEF Goal

\* Every message of a client that waits, or whose session is open.
LEMMA ClientReacts ==
  ASSUME config \in Options, NEW c \in ClientStates, NEW m, NEW C, ClientFits(c, C),
         c.stage \in {"init", "hello", "pending", "protocol", "pin", "access", "done"}
  PROVE  ClientReactsWell(ClientReaction(c, m), c, m, C)
<1>1. CASE m = "close"
  BY <1>1, ClientGivesIn DEF ClientReaction
<1>2. CASE m # "close"
  BY <1>2, ClientOpens, ClientEnds
<1> QED BY <1>1, <1>2

\* A client that gives up waiting.
LEMMA ClientIsSilent ==
  ASSUME NEW c \in ClientStates, NEW C, ClientFits(c, C)
  PROVE  LET r == Silence(c)
         IN  /\ r.state \in ClientStates /\ ClientFits(r.state, C) /\ Ordinary(r.out)
             /\ r.state.stage \in {"hello", "failed"}
<1>1. c.stage = "pending" => "init" \in C
  BY DEF ClientFits
<1>2. "hello" \in ClientStages /\ "failed" \in ClientStages
  BY DEF ClientStages
<1>3. ASSUME NEW stage \in {"hello", "failed"}, stage = "hello" => "init" \in C
      PROVE  At(c, stage) \in ClientStates /\ At(c, stage).stage = stage
             /\ ClientFits(At(c, stage), C)
  <2> DEFINE t == At(c, stage)
  <2>1. t \in ClientStates /\ t.stage = stage
    BY <1>2 DEF ClientStates, At
  <2> HIDE DEF t
  <2>2. ClientFits(t, C)
    BY <1>3, <2>1 DEF ClientFits
  <2> QED BY <2>1, <2>2 DEF t
<1> DEFINE h == At(c, "hello")
           f == At(c, "failed")
<1>4. f \in ClientStates /\ f.stage = "failed" /\ ClientFits(f, C)
  BY <1>3
<1>5. CASE c.stage = "pending"
  <2>1. Silence(c) = React(h, <<"hello prolongation">>)
    BY <1>5 DEF Silence
  <2>2. h \in ClientStates /\ h.stage = "hello" /\ ClientFits(h, C)
    BY <1>1, <1>3, <1>5
  <2> HIDE DEF h
  <2>3. Silence(c).state = h /\ Silence(c).out = <<"hello prolongation">>
    BY <2>1, Reactions
  <2>4. Ordinary(<<"hello prolongation">>)
    BY ClientMessages
  <2> QED BY <2>2, <2>3, <2>4
<1>6. CASE c.stage # "pending"
  <2>1. Silence(c) = React(f, <<>>)
    BY <1>6 DEF Silence, ClientFails, At
  <2> HIDE DEF f
  <2>2. Silence(c).state = f /\ Silence(c).out = <<>>
    BY <2>1, Reactions
  <2>3. Ordinary(<<>>)
    BY ClientMessages
  <2> QED BY <1>4, <2>2, <2>3
<1> QED BY <1>5, <1>6

-----------------------------------------------------------------------------
(* The steps. *)

\* The places of two channels, one behind the other.
LEMMA JoinedPlaces ==
  ASSUME NEW c, NEW d, IsChannel(c), IsChannel(d), NEW i \in DOMAIN (c \o d)
  PROVE  (i \in DOMAIN c /\ (c \o d)[i] = c[i]) \/ (c \o d)[i] \in ToSet(d)
<1>1. c \in Seq(Messages) /\ d \in Seq(Messages)
  BY DEF IsChannel, IsSequence
<1> QED BY <1>1 DEF ToSet

\* A reaction of the server.
LEMMA ServerMoves ==
  ASSUME IInv, NEW r, ServerApply(r),
         seenByServer' \subseteq Messages, ReactsWell(r, seenByServer'),
         IsChannel(toServer'), ToSet(toServer') \subseteq ToSet(toServer),
         SdkClient => cli.stage # "start" /\ \A i \in DOMAIN toServer' : toServer'[i] # "init",
         config.peering = "sdk" /\ cli.stage # "closed" /\ ServerIsTold
            => r.state.stage \in {"access", "ready"} /\ r.state.local
  PROVE  IInv'
<1>1. /\ srv' = r.state /\ config' = config /\ cli' = cli /\ seenByClient' = seenByClient
      /\ toClient' = IF SdkClient THEN toClient \o r.out ELSE <<>>
  BY DEF ServerApply
<1>2. /\ r.state \in ServerStates /\ ServerFits(r.state, seenByServer') /\ IsChannel(r.out)
      /\ "access methods" \in ToSet(r.out) => r.state.stage \in {"access", "ready"} /\ r.state.local
  BY DEF ReactsWell, ServerGood
<1>3. IsChannel(toClient') /\ ToSet(toClient') \subseteq ToSet(toClient) \cup ToSet(r.out)
  <2>1. IsChannel(toClient) /\ IsChannel(r.out)
    BY <1>2 DEF IInv, Types
  <2>2. IsChannel(toClient \o r.out) /\ ToSet(toClient \o r.out) = ToSet(toClient) \cup ToSet(r.out)
    BY <2>1, MoreMessages
  <2>3. toClient' = toClient \o r.out \/ toClient' = <<>>
    BY <1>1
  <2> QED BY <2>2, <2>3, NoMessage
<1>4. Types'
  BY <1>1, <1>2, <1>3 DEF IInv, Types
<1>5. ClientFits(cli, seenByClient)' /\ ServerFits(srv, seenByServer)'
  <2>1. ClientFits(cli, seenByClient)'
    BY <1>1 DEF IInv, ClientFits
  <2>2. ServerFits(srv, seenByServer)'
    BY <1>1, <1>2 DEF ServerFits
  <2> QED BY <2>1, <2>2
<1>6. ClientOpensOnce'
  BY <1>1 DEF IInv, ClientOpensOnce, SdkClient
<1>7. ToldServerGoesOn'
  BY <1>1, <1>2, <1>3 DEF IInv, ToldServerGoesOn, ServerIsTold
<1> QED BY <1>4, <1>5, <1>6, <1>7 DEF IInv

\* A reaction of the client, once it has sent its init.
LEMMA ClientMoves ==
  ASSUME IInv, NEW r, ClientApply(r), cli.stage # "start",
         r.state \in ClientStates, ClientFits(r.state, seenByClient'), Ordinary(r.out),
         r.state.stage # "start", cli.stage = "closed" => r.state.stage = "closed",
         r.state.stage = "done" => cli.stage = "done" \/ "access methods" \in ToSet(toClient),
         IsChannel(toClient'), ToSet(toClient') \subseteq ToSet(toClient)
  PROVE  IInv'
<1>1. /\ cli' = r.state /\ config' = config /\ srv' = srv /\ seenByServer' = seenByServer
      /\ toServer' = IF SdkServer THEN toServer \o r.out ELSE <<>>
  BY DEF ClientApply
<1>2. IsChannel(r.out) /\ "init" \notin ToSet(r.out) /\ "close" \notin ToSet(r.out)
  BY DEF Ordinary
<1>3. IsChannel(toServer') /\ ToSet(toServer') \subseteq ToSet(toServer) \cup ToSet(r.out)
  BY <1>1, <1>2, NoMessage, MoreMessages DEF IInv, Types
<1>4. Types'
  BY <1>1, <1>3 DEF IInv, Types
<1>5. ClientFits(cli, seenByClient)' /\ ServerFits(srv, seenByServer)'
  BY <1>1 DEF IInv, ClientFits, ServerFits
<1>6. ASSUME SdkClient, NEW i \in DOMAIN toServer', toServer'[i] = "init"
      PROVE  i = 1 /\ srv.stage = "init"
  <2>1. SdkServer
    <3>1. DOMAIN <<>> = {}
      BY Places
    <3>2. toServer' # <<>>
      BY <1>6, <3>1
    <3> QED BY <1>1, <3>2
  <2>2. toServer' = toServer \o r.out /\ IsChannel(toServer)
    BY <1>1, <2>1 DEF IInv, Types
  <2>3. i \in DOMAIN toServer /\ toServer[i] = "init"
    BY <1>2, <1>6, <2>2, JoinedPlaces
  <2> QED BY <1>6, <2>3 DEF IInv, ClientOpensOnce
<1>7. ClientOpensOnce'
  BY <1>1, <1>2, <1>3, <1>6 DEF IInv, ClientOpensOnce, SdkClient
<1>8. ToldServerGoesOn'
  BY <1>1 DEF IInv, ToldServerGoesOn, ServerIsTold
<1> QED BY <1>4, <1>5, <1>7, <1>8 DEF IInv

\* The invariant holds at first.
LEMMA InitHolds == Init => IInv
<1> SUFFICES ASSUME Init PROVE IInv
  OBVIOUS
<1>1. toServer = <<>> /\ toClient = <<>> /\ cli = ClientStart /\ srv = ServerStart
      /\ seenByServer = {}
  BY DEF Init
<1>2. /\ cli \in ClientStates /\ cli.stage = "start" /\ ~cli.timer
  BY <1>1 DEF ClientStart, ClientStates, ClientStages
<1>3. /\ srv \in ServerStates /\ srv.stage = "init" /\ srv.pend = None
      /\ ~srv.selected /\ ~srv.local /\ ~srv.progress
  BY <1>1 DEF ServerStart, ServerStates, ServerStages
<1>4. Types
  BY <1>1, <1>2, <1>3, NoMessage DEF Types, Init
<1>5. ClientFits(cli, seenByClient)
  BY <1>2 DEF ClientFits
<1>6. ServerFits(srv, seenByServer)
  BY <1>3, MessagesAre DEF ServerFits, Loops
<1>7. ClientOpensOnce
  <2> QED BY <1>1, <1>3, Places, NoMessage DEF ClientOpensOnce
<1>8. ToldServerGoesOn
  BY <1>1, <1>2, NoMessage DEF ToldServerGoesOn
<1> QED BY <1>4, <1>5, <1>6, <1>7, <1>8 DEF IInv

\* The client sends its init.
LEMMA ConnectSteps ==
  ASSUME IInv, ClientConnects
  PROVE  IInv'
<1> DEFINE c == At(cli, "init")
<1>1. /\ SdkClient /\ cli.stage = "start" /\ toServer = <<>> /\ srv.stage = "init"
  BY DEF ClientConnects, IInv, ClientOpensOnce
<1>2. c \in ClientStates /\ c.stage = "init"
  BY DEF IInv, Types, ClientStates, ClientStages, At
<1>3. /\ cli' = c /\ config' = config /\ srv' = srv /\ seenByServer' = seenByServer
      /\ toClient' = toClient /\ seenByClient' = seenByClient
      /\ toServer' = IF SdkServer THEN toServer \o <<"init">> ELSE <<>>
  BY Reactions DEF ClientConnects, ClientApply
<1> HIDE DEF c
<1>4. IsChannel(<<"init">>) /\ ToSet(<<"init">>) = {"init"} /\ DOMAIN <<"init">> = {1}
  <2>1. IsChannel(<<"init">>) /\ ToSet(<<"init">>) = {"init"}
    BY OneMessage, MessagesAre
  <2>2. DOMAIN <<"init">> = {1}
    BY Places
  <2> QED BY <2>1, <2>2
<1>5. toServer' = <<"init">> \/ toServer' = <<>>
  BY <1>1, <1>3
<1>6. Types'
  BY <1>2, <1>3, <1>4, <1>5, NoMessage DEF IInv, Types
<1>7. ClientFits(cli, seenByClient)' /\ ServerFits(srv, seenByServer)'
  BY <1>2, <1>3 DEF IInv, ClientFits, ServerFits
<1>8. ClientOpensOnce'
  <2>1. \A i \in DOMAIN toServer' : i = 1
    BY <1>4, <1>5, Places
  <2>2. "close" \notin ToSet(toServer')
    BY <1>4, <1>5, NoMessage
  <2>3. srv'.stage = "init" /\ cli'.stage = "init"
    BY <1>1, <1>2, <1>3
  <2> QED BY <2>1, <2>2, <2>3 DEF ClientOpensOnce
<1>9. ToldServerGoesOn'
  BY <1>1, <1>2, <1>3 DEF IInv, ToldServerGoesOn, ServerIsTold
<1> QED BY <1>6, <1>7, <1>8, <1>9 DEF IInv

\* The client takes a message.
LEMMA ReceiveSteps ==
  ASSUME IInv, ClientReceives
  PROVE  IInv'
<1> DEFINE m == Head(toClient)
           r == ClientReaction(cli, m)
<1>1. /\ cli.stage \in {"init", "hello", "pending", "protocol", "pin", "access", "done"}
      /\ toClient # <<>> /\ ClientApply(r) /\ toClient' = Tail(toClient)
      /\ seenByClient' = seenByClient \cup {m}
  BY DEF ClientReceives, ClientWaits
<1>2. ClientReactsWell(r, cli, m, seenByClient)
  BY <1>1, ClientReacts DEF IInv, Types
<1>3. m \in ToSet(toClient) /\ IsChannel(toClient') /\ ToSet(toClient') \subseteq ToSet(toClient)
  BY <1>1, TakenItem DEF IInv, Types, IsChannel
<1> HIDE DEF m, r
<1>4. /\ r.state \in ClientStates /\ ClientFits(r.state, seenByClient') /\ Ordinary(r.out)
      /\ r.state.stage # "start"
      /\ r.state.stage = "done" => cli.stage = "done" \/ m = "access methods"
  BY <1>1, <1>2 DEF ClientReactsWell
<1> QED BY <1>1, <1>3, <1>4, ClientMoves

\* The client gives up waiting.
LEMMA TimeoutSteps ==
  ASSUME IInv, ClientTimeout
  PROVE  IInv'
<1> DEFINE r == Silence(cli)
<1>1. cli.stage \notin {"start", "closed"} /\ ClientApply(r) /\ toClient' = toClient
      /\ seenByClient' = seenByClient
  BY DEF ClientTimeout, ClientWaits
<1>2. /\ r.state \in ClientStates /\ ClientFits(r.state, seenByClient) /\ Ordinary(r.out)
      /\ r.state.stage \in {"hello", "failed"}
  BY ClientIsSilent DEF IInv, Types
<1>3. IsChannel(toClient)
  BY DEF IInv, Types
<1> HIDE DEF r
<1> QED BY <1>1, <1>2, <1>3, ClientMoves

\* The delayed selection.
LEMMA SelectSteps ==
  ASSUME IInv, ClientSelects
  PROVE  IInv'
<1> DEFINE c == [cli EXCEPT !.timer = FALSE]
           out == <<"methods select">>
           r == React(c, out)
<1>1. cli.timer /\ ClientApply(r) /\ toClient' = toClient /\ seenByClient' = seenByClient
  BY DEF ClientSelects
<1>2. c \in ClientStates /\ c.stage = cli.stage /\ c.remote = cli.remote
  BY DEF IInv, Types, ClientStates
<1>3. r.state = c /\ r.out = out
  BY Reactions
<1>4. Ordinary(out)
  BY ClientMessages
<1> HIDE DEF c, out, r
<1>5. cli.stage # "start" /\ ClientFits(c, seenByClient)
  BY <1>1, <1>2 DEF IInv, ClientFits
<1>6. ToldServerGoesOn /\ IsChannel(toClient)
  BY DEF IInv, Types
<1> QED BY <1>1, <1>2, <1>3, <1>4, <1>5, <1>6, ClientMoves

\* The client closes its session.
LEMMA CloseSteps ==
  ASSUME IInv, ClientCloses
  PROVE  IInv'
<1> DEFINE c == [cli EXCEPT !.stage = "closed", !.timer = FALSE]
           out == <<"close">>
<1>1. /\ SdkClient /\ cli.stage # "start" /\ toClient' = toClient /\ seenByClient' = seenByClient
      /\ cli' = c /\ config' = config /\ srv' = srv /\ seenByServer' = seenByServer
      /\ toServer' = IF SdkServer THEN toServer \o out ELSE <<>>
  BY Reactions DEF ClientCloses, ClientApply
<1>2. c \in ClientStates /\ c.stage = "closed"
  BY DEF IInv, Types, ClientStates, ClientStages
<1>3. IsChannel(out) /\ ToSet(out) = {"close"}
  BY OneMessage, MessagesAre
<1> HIDE DEF c, out
<1>4. IsChannel(toServer') /\ IsChannel(toServer)
  BY <1>1, <1>3, NoMessage, MoreMessages DEF IInv, Types
<1>5. Types'
  BY <1>1, <1>2, <1>4 DEF IInv, Types
<1>6. ClientFits(cli, seenByClient)' /\ ServerFits(srv, seenByServer)'
  BY <1>1, <1>2 DEF IInv, ClientFits, ServerFits
<1>7. ASSUME NEW i \in DOMAIN toServer', toServer'[i] = "init"
      PROVE  i = 1 /\ srv.stage = "init"
  <2>1. SdkServer
    <3>1. DOMAIN <<>> = {}
      BY Places
    <3>2. toServer' # <<>>
      BY <1>7, <3>1
    <3> QED BY <1>1, <3>2
  <2>2. i \in DOMAIN toServer /\ toServer[i] = "init"
    BY <1>1, <1>3, <1>4, <1>7, <2>1, JoinedPlaces
  <2> QED BY <1>1, <2>2 DEF IInv, ClientOpensOnce
<1>8. ClientOpensOnce'
  BY <1>1, <1>2, <1>7 DEF ClientOpensOnce
<1>9. ToldServerGoesOn'
  BY <1>1, <1>2 DEF ToldServerGoesOn
<1> QED BY <1>5, <1>6, <1>8, <1>9 DEF IInv

\* The server takes the message that was left to its stage, or the next one.
LEMMA ServerReceiveSteps ==
  ASSUME IInv, ServerReceives
  PROVE  IInv'
<1>1. srv \in ServerStates /\ ServerFits(srv, seenByServer) /\ srv.stage # "failed"
      /\ IsChannel(toServer)
      /\ seenByServer \subseteq Messages
  BY DEF ServerReceives, IInv, Types
<1>2. ASSUME srv.pend # None, ServerApply(ServerReaction(srv, srv.pend)),
             UNCHANGED <<toServer, seenByServer>>
      PROVE  IInv'
  <2> DEFINE r == ServerReaction(srv, srv.pend)
  <2>1. srv.pend \in seenByServer \ {"init", "close"} /\ srv.stage # "init"
    BY <1>1, <1>2 DEF ServerFits
  <2>2. /\ ReactsWell(r, seenByServer)
        /\ srv.stage \in {"access", "ready"} /\ srv.local =>
             r.state.stage \in {"access", "ready"} /\ r.state.local
    BY <1>1, <2>1, ServerReacts
  <2>3. SdkClient => cli.stage # "start" /\ \A i \in DOMAIN toServer : toServer[i] # "init"
    BY <2>1 DEF IInv, ClientOpensOnce
  <2> HIDE DEF r
  <2>4. ServerApply(r)
    BY <1>2 DEF r
  <2> QED BY <1>1, <1>2, <2>2, <2>3, <2>4, ServerMoves DEF ServerIsTold
<1>3. ASSUME toServer # <<>>, ServerApply(ServerReaction(srv, Head(toServer))),
             toServer' = Tail(toServer),
             seenByServer' = seenByServer \cup {Head(toServer)}
      PROVE  IInv'
  <2> DEFINE m == Head(toServer)
             r == ServerReaction(srv, m)
  <2>1. /\ m \in ToSet(toServer) /\ m \in Messages /\ IsChannel(toServer')
        /\ ToSet(toServer') \subseteq ToSet(toServer)
    BY <1>1, <1>3, TakenItem DEF IsChannel
  <2>2. /\ 1 \in DOMAIN toServer /\ m = toServer[1]
        /\ \A i \in DOMAIN toServer' :
              i \in Nat \ {0} /\ i + 1 \in DOMAIN toServer /\ toServer'[i] = toServer[i + 1]
    BY <1>1, <1>3, TakenPlaces DEF IsChannel
  <2> HIDE DEF m, r
  <2>3. m \in seenByServer' /\ seenByServer' \subseteq Messages
        /\ seenByServer \subseteq seenByServer'
    BY <1>1, <1>3, <2>1 DEF m
  <2>4. ServerFits(srv, seenByServer')
    BY <1>1, <2>3, MoreTaken
  <2>5. /\ ReactsWell(r, seenByServer')
        /\ srv.stage \in {"access", "ready"} /\ srv.local /\ m \notin {"init", "close"}
           => r.state.stage \in {"access", "ready"} /\ r.state.local
    BY <1>1, <2>3, <2>4, ServerReacts DEF r
  <2>6. SdkClient => cli.stage # "start" /\ \A i \in DOMAIN toServer' : toServer'[i] # "init"
    <3>1. \A i \in Nat \ {0} : i + 1 # 1
      OBVIOUS
    <3> QED BY <1>3, <2>2, <3>1 DEF IInv, ClientOpensOnce
  <2>7. config.peering = "sdk" /\ cli.stage # "closed" /\ ServerIsTold => m \notin {"init", "close"}
    BY <2>1, <2>2 DEF IInv, ClientOpensOnce, ServerIsTold, SdkClient
  <2>8. ServerApply(r)
    BY <1>3 DEF r, m
  <2> QED BY <2>1, <2>3, <2>5, <2>6, <2>7, <2>8, ServerMoves DEF ServerIsTold
<1> QED BY <1>2, <1>3 DEF ServerReceives

\* The server gives up waiting.
LEMMA ServerTimeoutSteps ==
  ASSUME IInv, ServerTimeout
  PROVE  IInv'
<1>1. /\ srv \in ServerStates /\ ServerFits(srv, seenByServer) /\ IsChannel(toServer)
      /\ seenByServer \subseteq Messages /\ toServer' = toServer /\ seenByServer' = seenByServer
      /\ toServer = <<>>
  BY DEF ServerTimeout, IInv, Types
<1>2. srv.stage \in {"followup", "protocol", "access"}
  BY DEF ServerTimeout
<1>3. SdkClient => cli.stage # "start" /\ \A i \in DOMAIN toServer' : toServer'[i] # "init"
  BY <1>1, <1>2 DEF IInv, ClientOpensOnce
<1>4. ASSUME srv.stage = "followup", ServerApply(React(Enter(srv, "protocol", None), <<>>))
      PROVE  IInv'
  <2> DEFINE r == React(Enter(srv, "protocol", None), <<>>)
  <2>1. ReactsWell(r, seenByServer')
    BY <1>1, <1>4, ServerGivesUp
  <2> HIDE DEF r
  <2>2. ServerApply(r)
    BY <1>4 DEF r
  <2> QED BY <1>1, <1>3, <1>4, <2>1, <2>2, ServerMoves DEF ServerIsTold
<1>5. ASSUME srv.stage = "protocol",
             ServerApply(IF srv.announced THEN ServerFails(srv)
                         ELSE Again([srv EXCEPT !.announced = TRUE], <<"announceMax">>))
      PROVE  IInv'
  <2> DEFINE r == IF srv.announced THEN ServerFails(srv)
                  ELSE Again([srv EXCEPT !.announced = TRUE], <<"announceMax">>)
  <2>1. ReactsWell(r, seenByServer')
    BY <1>1, <1>5, ServerGivesUp
  <2>2. ServerApply(r)
    BY <1>5
  <2> HIDE DEF r
  <2> QED BY <1>1, <1>3, <1>5, <2>1, <2>2, ServerMoves DEF ServerIsTold
<1>6. ASSUME srv.stage = "access", ServerApply(AccessTimeout(srv))
      PROVE  IInv'
  <2> DEFINE r == AccessTimeout(srv)
  <2>1. ReactsWell(r, seenByServer') /\ (srv.local => r.state.stage \in {"access", "ready"} /\ r.state.local)
    BY <1>1, <1>6, ServerGivesUp
  <2>2. ServerApply(r)
    BY <1>6
  <2> HIDE DEF r
  <2> QED BY <1>1, <1>3, <1>6, <2>1, <2>2, ServerMoves DEF ServerIsTold
<1> QED BY <1>4, <1>5, <1>6 DEF ServerTimeout

\* A foreign peer sends, or only time passes.
LEMMA OtherSteps ==
  ASSUME IInv, ForeignSends \/ DeadlinePasses \/ UNCHANGED vars
  PROVE  IInv'
<1>1. CASE ForeignSends
  <2>1. \A m \in ServerSends \cup ClientSends : IsChannel(<<m>>)
    BY SendsAssumption, OneMessage
  <2>2. config' = config /\ cli' = cli /\ srv' = srv /\ seenByServer' = seenByServer
        /\ seenByClient' = seenByClient
    BY <1>1 DEF ForeignSends
  <2>3. \/ ~SdkClient /\ IsChannel(toServer') /\ toClient' = toClient
        \/ ~SdkServer /\ IsChannel(toClient') /\ toServer' = toServer
    BY <1>1, <2>1 DEF ForeignSends
  <2>4. Types'
    BY <2>2, <2>3 DEF IInv, Types
  <2>5. ClientFits(cli, seenByClient)' /\ ServerFits(srv, seenByServer)'
    BY <2>2 DEF IInv, ClientFits, ServerFits
  <2>6. ClientOpensOnce'
    BY <2>2, <2>3 DEF IInv, ClientOpensOnce, SdkClient
  <2>7. ToldServerGoesOn'
    BY <2>2, <2>3 DEF IInv, ToldServerGoesOn, ServerIsTold, SdkServer, SdkClient
  <2> QED BY <2>4, <2>5, <2>6, <2>7 DEF IInv
<1>2. CASE DeadlinePasses \/ UNCHANGED vars
  <2>1. UNCHANGED <<config, cli, srv, toServer, toClient, seenByServer, seenByClient>>
    BY <1>2 DEF DeadlinePasses, vars
  <2>2. Types'
    BY <2>1 DEF IInv, Types
  <2>3. ClientFits(cli, seenByClient)' /\ ServerFits(srv, seenByServer)'
    BY <2>1 DEF IInv, ClientFits, ServerFits
  <2>4. ClientOpensOnce'
    BY <2>1 DEF IInv, ClientOpensOnce, SdkClient
  <2>5. ToldServerGoesOn'
    BY <2>1 DEF IInv, ToldServerGoesOn, ServerIsTold
  <2> QED BY <2>2, <2>3, <2>4, <2>5 DEF IInv
<1> QED BY <1>1, <1>2

-----------------------------------------------------------------------------
(* Two sides of the library that nothing disturbs. *)

\* Two sides of the library that no timeout disturbs, a standard client that
\* tells its own access methods.
Undisturbed ==
    /\ config.peering = "sdk" /\ ~config.slow
    /\ config.client = "standard" /\ config.methods

\* Where the two sides are, and what is under way between them.
Place(c, s, n, left, up, down) ==
    /\ cli.stage = c /\ srv.stage = s /\ srv.n = n /\ srv.pend = left
    /\ toServer = up /\ toClient = down

Request == "access methods request"

\* The server has asked for the client's access methods, and waits for them:
\* the client takes the question next.
Asked ==
    /\ cli.stage = "access" /\ srv.stage = "access"
    /\ toClient # <<>> /\ Head(toClient) = Request
    /\ \/ srv.n = 0 /\ srv.pend = None /\ toServer = <<Request>>
       \/ srv.n = 0 /\ srv.pend = Request /\ toServer = <<>>
       \/ srv.n = 1 /\ srv.pend = None /\ toServer = <<>>

\* The places the two sides go through until then.
Early ==
    /\ ~srv.selected
    /\ \/ Place("start", "init", 0, None, <<>>, <<>>)
       \/ Place("init", "init", 0, None, <<"init">>, <<>>)
       \/ Place("init", "hello", 0, None, <<>>, <<"init">>)
       \/ Place("hello", "hello", 0, None, <<"hello ready">>, <<>>)
       \/ Place("hello", "followup", 0, None, <<>>, <<"hello ready">>)
       \/ Place("protocol", "followup", 0, None, <<"announceMax">>, <<>>)
       \/ Place("protocol", "protocol", 0, "announceMax", <<>>, <<>>)

Standard ==
    /\ config.server = "standard"
    /\ \/ Place("protocol", "select", 0, None, <<>>, <<"select">>)
       \/ Place("pin", "select", 0, None, <<"select", "pin none">>, <<>>)
       \/ Place("pin", "pin", 0, None, <<"pin none">>, <<>>)
       \/ Place("pin", "access", 0, None, <<>>, <<"pin none", Request>>)

Compatible ==
    /\ config.server # "standard" /\ srv.selected
    /\ \/ Place("protocol", "protocol", 1, None, <<>>, <<"select">>)
       \/ Place("pin", "protocol", 1, None, <<"select", "pin none">>, <<>>)
       \/ Place("pin", "pin", 0, None, <<"pin none">>, <<"pin none">>)
       \/ Place("pin", "pin", 1, None, <<>>, <<"pin none">>)
       \/ Place("access", "pin", 0, None, <<"pin none", Request>>, <<>>)
       \/ Place("access", "pin", 1, None, <<Request>>, <<>>)

Opening == ~cli.local /\ ~cli.timer /\ (Early \/ Standard \/ Compatible \/ Asked)

\* The client's access methods are under way, with nothing before them that the
\* server would end its stage for, or they have been taken.
Left == IF srv.pend = None THEN 0 ELSE 1
ToldAt(q, p) ==
    /\ p \in DOMAIN q /\ q[p] = "access methods"
    /\ \A i \in 1 .. p - 1 : q[i] \in {Request, "access methods response"}
Telling ==
    /\ srv.stage = "access" /\ srv.pend \in {None, Request}
    /\ \E p \in Nat : ToldAt(toServer, p) /\ srv.n + Left + p < 12
Told == cli.local /\ (Telling \/ srv.stage = "failed" \/ (srv.stage = "ready" /\ srv.remote = "client"))

IdsInv == Undisturbed => Opening \/ Told

\* Short channels.
LEMMA ShortChannels ==
  /\ \A a : /\ Head(<<a>>) = a /\ Tail(<<a>>) = <<>> /\ <<a>> # <<>>
            /\ <<>> \o <<a>> = <<a>> /\ <<a>> \o <<>> = <<a>>
  /\ \A a, b : /\ Head(<<a, b>>) = a /\ Tail(<<a, b>>) = <<b>> /\ <<a, b>> # <<>>
               /\ <<>> \o <<a, b>> = <<a, b>> /\ <<a>> \o <<b>> = <<a, b>>
  /\ \A a, b, c : <<a>> \o <<b, c>> = <<a, b, c>>
  /\ <<>> \o <<>> = <<>>
<1>1. ASSUME NEW a
      PROVE  Head(<<a>>) = a /\ Tail(<<a>>) = <<>> /\ <<>> \o <<a>> = <<a>>
             /\ <<a>> \o <<>> = <<a>> /\ <<a>> # <<>>
  OBVIOUS
<1>2. ASSUME NEW a, NEW b
      PROVE  /\ Head(<<a, b>>) = a /\ Tail(<<a, b>>) = <<b>> /\ <<a, b>> # <<>>
             /\ <<>> \o <<a, b>> = <<a, b>> /\ <<a>> \o <<b>> = <<a, b>>
  <2>1. Head(<<a, b>>) = a /\ <<a, b>> # <<>>
    OBVIOUS
  <2>2. Tail(<<a, b>>) = <<b>>
    <3> DEFINE d == Tail(<<a, b>>)
    <3>1. d \in Seq({a, b}) /\ Len(d) = 1 /\ d[1] = b
      OBVIOUS
    <3> HIDE DEF d
    <3>2. d = <<b>>
      BY <3>1
    <3> QED BY <3>2 DEF d
  <2>3. <<>> \o <<a, b>> = <<a, b>>
    OBVIOUS
  <2>4. <<a>> \o <<b>> = <<a, b>>
    <3> DEFINE d == <<a>> \o <<b>>
    <3>1. d \in Seq({a, b}) /\ Len(d) = 2 /\ d[1] = a /\ d[2] = b
      OBVIOUS
    <3> HIDE DEF d
    <3>2. d = <<a, b>>
      BY <3>1
    <3> QED BY <3>2 DEF d
  <2> QED BY <2>1, <2>2, <2>3, <2>4
<1>3. ASSUME NEW a, NEW b, NEW c PROVE <<a>> \o <<b, c>> = <<a, b, c>>
  <2> DEFINE d == <<a>> \o <<b, c>>
  <2>1. d \in Seq({a, b, c}) /\ Len(d) = 3 /\ d[1] = a /\ d[2] = b /\ d[3] = c
    OBVIOUS
  <2> HIDE DEF d
  <2>2. d = <<a, b, c>>
    BY <2>1
  <2> QED BY <2>2 DEF d
<1>4. <<>> \o <<>> = <<>>
  OBVIOUS
<1> QED BY <1>1, <1>2, <1>3, <1>4

\* Before it is asked for its access methods, nothing but the next message moves
\* the two sides.
LEMMA OpeningSteps ==
  ASSUME IInv, Undisturbed, Opening, Next
  PROVE  ClientConnects \/ ClientReceives \/ ServerReceives
         \/ UNCHANGED <<config, cli, srv, toServer, toClient>>
<1>1. ~Quiet
  BY ShortChannels DEF Opening, Early, Standard, Compatible, Asked, Place, Quiet, None, Request
<1>2. cli.stage \notin {"failed", "done"} /\ ~cli.timer
  BY DEF Opening, Early, Standard, Compatible, Asked, Place
<1>3. ~ClientTimeout /\ ~ServerTimeout /\ ~ClientSelects /\ ~ClientCloses
  BY <1>1, <1>2 DEF ClientTimeout, ServerTimeout, ClientSelects, ClientCloses, Undisturbed
<1>4. ~ForeignSends
  BY DEF ForeignSends, SdkClient, SdkServer, Undisturbed
<1> QED BY <1>3, <1>4 DEF Next, DeadlinePasses

\* What a step of a side does when both are of the library.
LEMMA BothSides ==
  ASSUME Undisturbed
  PROVE  /\ ClientConnects => /\ cli.stage = "start" /\ cli' = At(cli, "init")
                              /\ toServer' = toServer \o <<"init">>
                              /\ UNCHANGED <<config, srv, toClient>>
         /\ ClientReceives => LET r == ClientReaction(cli, Head(toClient))
                              IN  /\ toClient # <<>> /\ toClient' = Tail(toClient)
                                  /\ cli' = r.state /\ toServer' = toServer \o r.out
                                  /\ cli.stage # "start"
                                  /\ UNCHANGED <<config, srv>>
         /\ ServerReceives =>
              \/ LET r == ServerReaction(srv, srv.pend)
                 IN  /\ srv.pend # None /\ toServer' = toServer
                     /\ srv' = r.state /\ toClient' = toClient \o r.out
                     /\ UNCHANGED <<config, cli>>
              \/ LET r == ServerReaction(srv, Head(toServer))
                 IN  /\ srv.pend = None /\ toServer # <<>> /\ toServer' = Tail(toServer)
                     /\ srv' = r.state /\ toClient' = toClient \o r.out
                     /\ UNCHANGED <<config, cli>>
<1>1. SdkClient /\ SdkServer
  BY DEF Undisturbed, SdkClient, SdkServer
<1>2. \A s, o : React(s, o).state = s /\ React(s, o).out = o
  BY Reactions
<1> QED BY <1>1, <1>2 DEF ClientConnects, ClientReceives, ClientWaits, ServerReceives, ClientApply,
           ServerApply

\* What the client does with the messages it gets until it is asked.
LEMMA ClientOpening ==
  ASSUME NEW c
  PROVE  /\ c.stage = "init" => ClientReaction(c, "init") = React(At(c, "hello"), <<"hello ready">>)
         /\ c.stage = "hello" =>
              ClientReaction(c, "hello ready") = React(At(c, "protocol"), <<"announceMax">>)
         /\ c.stage = "protocol" =>
              ClientReaction(c, "select") = React(At(c, "pin"), <<"select", "pin none">>)
         /\ c.stage = "pin" => ClientReaction(c, "pin none") = React(At(c, "access"), <<Request>>)
<1>1. c.stage = "init" => ClientReaction(c, "init") = React(At(c, "hello"), <<"hello ready">>)
  BY DEF ClientReaction
<1>2. c.stage = "hello" =>
        ClientReaction(c, "hello ready") = React(At(c, "protocol"), <<"announceMax">>)
  BY DEF ClientReaction, ClientHello
<1>3. c.stage = "protocol" =>
        ClientReaction(c, "select") = React(At(c, "pin"), <<"select", "pin none">>)
  BY DEF ClientReaction, ClientProtocol
<1>4. c.stage = "pin" => ClientReaction(c, "pin none") = React(At(c, "access"), <<Request>>)
  BY DEF ClientReaction, ClientPin, Request
<1> QED BY <1>1, <1>2, <1>3, <1>4

\* What a server has before it that goes to the next stage, or to its next turn.
Moved(t, g, k, left) == t.stage = g /\ t.n = k /\ t.pend = left

\* A stage that is entered.
LEMMA StageEntered ==
  ASSUME NEW t \in ServerStates, NEW g, NEW m
  PROVE  Moved(Enter(t, g, m), g, 0, m) /\ Enter(t, g, m).selected = t.selected
<1> DEFINE u == Enter(t, g, m)
<1>1. u.stage = g
  BY DEF Enter, ServerStates
<1>2. u.n = 0
  BY DEF Enter, ServerStates
<1>3. u.pend = m
  BY DEF Enter, ServerStates
<1>4. u.selected = t.selected
  BY DEF Enter, ServerStates
<1>5. Moved(u, g, 0, m)
  BY <1>1, <1>2, <1>3 DEF Moved
<1> QED BY <1>4, <1>5

\* A turn of a loop that is not its last one.
LEMMA TurnsGoOn ==
  ASSUME NEW t \in ServerStates, t.n + 1 < Attempts(t.stage), NEW out
  PROVE  \E u : /\ Again(t, out) = React(u, out)
                /\ Moved(u, t.stage, t.n + 1, None) /\ u.selected = t.selected
<1> DEFINE u == [t EXCEPT !.n = @ + 1, !.pend = None]
<1>1. Moved(u, t.stage, t.n + 1, None) /\ u.selected = t.selected
  BY DEF ServerStates, Moved
<1>2. Again(t, out) = React(u, out)
  BY <1>1 DEF Again, Moved
<1> HIDE DEF u
<1> QED BY <1>1, <1>2

\* The server's first stages.
LEMMA ServerOpening ==
  ASSUME NEW s
  PROVE  /\ s.stage = "init" => ServerReaction(s, "init") = React(Enter(s, "hello", None), <<"init">>)
         /\ s.stage = "hello" =>
              ServerReaction(s, "hello ready") = React(Enter(s, "followup", None), <<"hello ready">>)
         /\ s.stage = "followup" =>
              ServerReaction(s, "announceMax") = React(Enter(s, "protocol", "announceMax"), <<>>)
<1>1. s.stage = "init" => ServerReaction(s, "init") = React(Enter(s, "hello", None), <<"init">>)
  BY DEF ServerReaction
<1>2. s.stage = "hello" =>
        ServerReaction(s, "hello ready") = React(Enter(s, "followup", None), <<"hello ready">>)
  BY DEF ServerReaction, ServerHello
<1>3. s.stage = "followup" =>
        ServerReaction(s, "announceMax") = React(Enter(s, "protocol", "announceMax"), <<>>)
  BY DEF ServerReaction, ServerFollowup, Hellos
<1> QED BY <1>1, <1>2, <1>3

\* A server that has selected the version.
LEMMA Selecting ==
  ASSUME NEW s \in ServerStates, NEW t, t = [s EXCEPT !.selected = TRUE]
  PROVE  t \in ServerStates /\ t.selected /\ t.stage = s.stage /\ t.n = s.n
  BY DEF ServerStates

\* The later stages of a standard server.
LEMMA StandardOpening ==
  ASSUME NEW s \in ServerStates, config.server = "standard"
  PROVE  /\ s.stage = "protocol" =>
              \E t : /\ ServerReaction(s, "announceMax") = React(t, <<"select">>)
                     /\ Moved(t, "select", 0, None)
         /\ s.stage = "select" =>
              \E t : ServerReaction(s, "select") = React(t, <<>>) /\ Moved(t, "pin", 0, None)
         /\ s.stage = "pin" =>
              \E t : /\ ServerReaction(s, "pin none") = React(t, <<"pin none", Request>>)
                     /\ Moved(t, "access", 0, None)
<1>1. ASSUME s.stage = "protocol"
      PROVE  \E t : /\ ServerReaction(s, "announceMax") = React(t, <<"select">>)
                    /\ Moved(t, "select", 0, None)
  <2> DEFINE c == [s EXCEPT !.selected = TRUE]
  <2>1. c \in ServerStates
    BY Selecting
  <2>2. ServerReaction(s, "announceMax") = React(Enter(c, "select", None), <<"select">>)
    BY <1>1 DEF ServerReaction, ServerProtocol
  <2> HIDE DEF c
  <2>3. Moved(Enter(c, "select", None), "select", 0, None)
    BY <2>1, StageEntered
  <2> QED BY <2>2, <2>3
<1>2. ASSUME s.stage = "select"
      PROVE  \E t : ServerReaction(s, "select") = React(t, <<>>) /\ Moved(t, "pin", 0, None)
  <2>1. ServerReaction(s, "select") = React(Enter(s, "pin", None), <<>>)
    BY <1>2 DEF ServerReaction, ServerSelect, EnterPin, If
  <2>2. Moved(Enter(s, "pin", None), "pin", 0, None)
    BY StageEntered
  <2> QED BY <2>1, <2>2
<1>3. ASSUME s.stage = "pin"
      PROVE  \E t : /\ ServerReaction(s, "pin none") = React(t, <<"pin none", Request>>)
                    /\ Moved(t, "access", 0, None)
  <2>1. ServerReaction(s, "pin none") =
          React(EnterAccess(s, None).state, <<"pin none">> \o EnterAccess(s, None).out)
    BY <1>3 DEF ServerReaction, ServerPin
  <2>2. EnterAccess(s, None).state = Enter(s, "access", None)
        /\ EnterAccess(s, None).out = <<Request>>
    BY DEF EnterAccess, React, Request
  <2>3. <<"pin none">> \o <<Request>> = <<"pin none", Request>>
    BY ShortChannels
  <2>4. Moved(Enter(s, "access", None), "access", 0, None)
    BY StageEntered
  <2> QED BY <2>1, <2>2, <2>3, <2>4
<1> QED BY <1>1, <1>2, <1>3

\* Those of a server that is not.
LEMMA CompatibleOpening ==
  ASSUME NEW s \in ServerStates, config.server # "standard"
  PROVE  /\ s.stage = "protocol" /\ s.n = 0 /\ ~s.selected =>
              \E t : /\ ServerReaction(s, "announceMax") = React(t, <<"select">>)
                     /\ Moved(t, "protocol", 1, None) /\ t.selected
         /\ s.stage = "protocol" /\ s.selected =>
              \E t : /\ ServerReaction(s, "select") = React(t, <<"pin none">>)
                     /\ Moved(t, "pin", 0, None) /\ t.selected
         /\ s.stage = "pin" /\ s.n = 0 =>
              \E t : /\ ServerReaction(s, "pin none") = React(t, <<>>)
                     /\ Moved(t, "pin", 1, None) /\ t.selected = s.selected
         /\ s.stage = "pin" =>
              \E t : /\ ServerReaction(s, Request) = React(t, <<Request>>)
                     /\ Moved(t, "access", 0, Request)
<1>1. ASSUME s.stage = "protocol", s.n = 0, ~s.selected
      PROVE  \E t : /\ ServerReaction(s, "announceMax") = React(t, <<"select">>)
                    /\ Moved(t, "protocol", 1, None) /\ t.selected
  <2> DEFINE c == [s EXCEPT !.selected = TRUE]
  <2>1. c \in ServerStates /\ c.selected /\ c.stage = "protocol" /\ c.n = 0
    BY <1>1, Selecting
  <2>2. SelectOnce(s) = <<"select">>
    BY <1>1 DEF SelectOnce, If
  <2>3. ServerReaction(s, "announceMax") = Again(c, SelectOnce(s))
    <3>1. ServerReaction(s, "announceMax") = ServerProtocol(s, "announceMax")
      BY <1>1 DEF ServerReaction
    <3>2. ServerProtocol(s, "announceMax") = Again(c, SelectOnce(s))
      BY <1>1, SMTT(40) DEF ServerProtocol, Hellos
    <3> QED BY <3>1, <3>2
  <2> HIDE DEF c
  <2>4. c.n + 1 < Attempts(c.stage)
    BY <2>1 DEF Attempts
  <2>5. PICK u : /\ Again(c, <<"select">>) = React(u, <<"select">>)
                 /\ Moved(u, c.stage, c.n + 1, None) /\ u.selected = c.selected
    BY <2>1, <2>4, TurnsGoOn
  <2>6. Moved(u, "protocol", 1, None)
    BY <2>1, <2>5
  <2> QED BY <2>1, <2>2, <2>3, <2>5, <2>6
<1>2. ASSUME s.stage = "protocol", s.selected
      PROVE  \E t : /\ ServerReaction(s, "select") = React(t, <<"pin none">>)
                    /\ Moved(t, "pin", 0, None) /\ t.selected
  <2> DEFINE c == [s EXCEPT !.selected = TRUE]
  <2>1. c \in ServerStates /\ c.selected
    BY Selecting
  <2>2. SelectOnce(s) = <<>>
    BY <1>2 DEF SelectOnce, If
  <2>3. ServerReaction(s, "select") = React(EnterPin(c, None).state, SelectOnce(s) \o EnterPin(c, None).out)
    <3>1. ServerReaction(s, "select") = ServerProtocol(s, "select")
      BY <1>2 DEF ServerReaction
    <3>2. ServerProtocol(s, "select") = React(EnterPin(c, None).state, SelectOnce(s) \o EnterPin(c, None).out)
      BY <1>2, SMTT(40) DEF ServerProtocol, Hellos
    <3> QED BY <3>1, <3>2
  <2> HIDE DEF c
  <2>4. EnterPin(c, None).state = Enter(c, "pin", None) /\ EnterPin(c, None).out = <<"pin none">>
    BY DEF EnterPin, If, React
  <2>5. ServerReaction(s, "select") = React(Enter(c, "pin", None), <<"pin none">>)
    BY <2>2, <2>3, <2>4, ShortChannels
  <2>6. Moved(Enter(c, "pin", None), "pin", 0, None) /\ Enter(c, "pin", None).selected = c.selected
    BY <2>1, StageEntered
  <2> QED BY <2>1, <2>5, <2>6
<1>3. ASSUME s.stage = "pin", s.n = 0
      PROVE  \E t : /\ ServerReaction(s, "pin none") = React(t, <<>>)
                    /\ Moved(t, "pin", 1, None) /\ t.selected = s.selected
  <2> DEFINE c == [s EXCEPT !.pin = TRUE]
  <2>1. c \in ServerStates /\ c.selected = s.selected /\ c.stage = "pin" /\ c.n = 0
    BY <1>3 DEF ServerStates
  <2>2. ServerReaction(s, "pin none") = Again(c, <<>>)
    BY <1>3 DEF ServerReaction, ServerPin
  <2> HIDE DEF c
  <2>3. c.n + 1 < Attempts(c.stage)
    BY <2>1 DEF Attempts
  <2>4. PICK u : /\ Again(c, <<>>) = React(u, <<>>)
                 /\ Moved(u, c.stage, c.n + 1, None) /\ u.selected = c.selected
    BY <2>1, <2>3, TurnsGoOn
  <2>5. Moved(u, "pin", 1, None)
    BY <2>1, <2>4
  <2> QED BY <2>1, <2>2, <2>4, <2>5
<1>4. ASSUME s.stage = "pin"
      PROVE  \E t : ServerReaction(s, Request) = React(t, <<Request>>) /\ Moved(t, "access", 0, Request)
  <2>1. ServerReaction(s, Request) = React(Enter(s, "access", Request), <<Request>>)
    BY <1>4 DEF ServerReaction, ServerPin, AccessMessages, EnterAccess, Request
  <2>2. Moved(Enter(s, "access", Request), "access", 0, Request)
    BY StageEntered
  <2> QED BY <2>1, <2>2
<1> QED BY <1>1, <1>2, <1>3, <1>4


\* A client that has told nothing and has no task of its own.
Untold == ~cli.local /\ ~cli.timer

\* The client takes the next message and goes to the next stage.
LEMMA OpeningClient ==
  ASSUME IInv, Undisturbed, Untold, ClientReceives,
         NEW c, NEW s, NEW n, NEW left, NEW up, NEW down, Place(c, s, n, left, up, down),
         NEW m, NEW g, NEW out, Head(down) = m, ClientReaction(cli, m) = React(At(cli, g), out),
         NEW up2, NEW down2, up \o out = up2, Tail(down) = down2
  PROVE  Place(g, s, n, left, up2, down2)' /\ Untold' /\ config' = config /\ srv' = srv
<1>1. /\ cli' = At(cli, g) /\ toServer' = toServer \o out /\ toClient' = Tail(toClient)
      /\ config' = config /\ srv' = srv
  <2>1. LET r == ClientReaction(cli, Head(toClient))
        IN  /\ toClient' = Tail(toClient) /\ cli' = r.state /\ toServer' = toServer \o r.out
            /\ config' = config /\ srv' = srv
    BY BothSides
  <2>2. ClientReaction(cli, Head(toClient)) = React(At(cli, g), out)
    BY DEF Place
  <2> QED BY <2>1, <2>2, Reactions
<1>2. At(cli, g).stage = g /\ At(cli, g).local = cli.local /\ At(cli, g).timer = cli.timer
  BY DEF IInv, Types, ClientStates, At
<1>3. Untold'
  BY <1>1, <1>2 DEF Untold
<1>4. Place(g, s, n, left, up2, down2)'
  BY <1>1, <1>2 DEF Place
<1> QED BY <1>1, <1>3, <1>4

\* The server takes the next message.
LEMMA OpeningServer ==
  ASSUME Undisturbed, Untold, ServerReceives,
         NEW c, NEW s, NEW n, NEW up, NEW down, Place(c, s, n, None, up, down),
         NEW m, NEW t, NEW g, NEW k, NEW x, NEW out,
         Head(up) = m, ServerReaction(srv, m) = React(t, out), Moved(t, g, k, x),
         NEW up2, NEW down2, Tail(up) = up2, down \o out = down2
  PROVE  Place(c, g, k, x, up2, down2)' /\ Untold' /\ config' = config /\ srv' = t
<1>1. /\ srv' = t /\ toServer' = Tail(toServer) /\ toClient' = toClient \o out
      /\ config' = config /\ cli' = cli
  <2>1. LET r == ServerReaction(srv, Head(toServer))
        IN  /\ toServer' = Tail(toServer) /\ srv' = r.state /\ toClient' = toClient \o r.out
            /\ config' = config /\ cli' = cli
    BY BothSides DEF Place
  <2>2. ServerReaction(srv, Head(toServer)) = React(t, out)
    BY DEF Place
  <2> QED BY <2>1, <2>2, Reactions
<1>2. Untold'
  BY <1>1 DEF Untold
<1>3. Place(c, g, k, x, up2, down2)'
  BY <1>1 DEF Place, Moved
<1> QED BY <1>1, <1>2, <1>3

\* It takes the message that was left to its stage.
LEMMA OpeningStage ==
  ASSUME Undisturbed, Untold, ServerReceives,
         NEW c, NEW s, NEW n, NEW left, NEW up, NEW down, Place(c, s, n, left, up, down), left # None,
         NEW t, NEW g, NEW k, NEW x, NEW out,
         ServerReaction(srv, left) = React(t, out), Moved(t, g, k, x),
         NEW down2, down \o out = down2
  PROVE  Place(c, g, k, x, up, down2)' /\ Untold' /\ config' = config /\ srv' = t
<1>1. srv' = t /\ toServer' = toServer /\ toClient' = toClient \o out /\ config' = config
      /\ cli' = cli
  <2>1. LET r == ServerReaction(srv, left)
        IN  /\ toServer' = toServer /\ srv' = r.state /\ toClient' = toClient \o r.out
            /\ config' = config /\ cli' = cli
    BY BothSides DEF Place
  <2> QED BY <2>1, Reactions
<1>2. Untold'
  BY <1>1 DEF Untold
<1>3. Place(c, g, k, x, up, down2)'
  BY <1>1 DEF Place, Moved
<1> QED BY <1>1, <1>2, <1>3

\* Who can move: the server when nothing is under way to the client, and the
\* client when nothing is to the server.
LEMMA WhoMoves ==
  ASSUME Undisturbed, ClientConnects \/ ClientReceives \/ ServerReceives
  PROVE  /\ cli.stage = "start" /\ srv.pend = None /\ toServer = <<>> => ClientConnects
         /\ cli.stage # "start" /\ toClient = <<>> => ServerReceives
         /\ cli.stage # "start" /\ srv.pend = None /\ toServer = <<>> => ClientReceives
         /\ cli.stage # "start" => ClientReceives \/ ServerReceives
<1>1. cli.stage # "start" => ~ClientConnects
  BY BothSides
<1>2. cli.stage = "start" \/ toClient = <<>> => ~ClientReceives
  BY BothSides
<1>3. srv.pend = None /\ toServer = <<>> => ~ServerReceives
  BY BothSides
<1> QED BY <1>1, <1>2, <1>3

\* The first places: what is taken there, and where the two sides are then.
LEMMA EarlySteps ==
  ASSUME IInv, Undisturbed, Untold, Early, ClientConnects \/ ClientReceives \/ ServerReceives
  PROVE  Untold' /\ (Early \/ Standard \/ Compatible)'
<1>1. srv \in ServerStates /\ ~srv.selected
  BY DEF IInv, Types, Early
<1>2. CASE Place("start", "init", 0, None, <<>>, <<>>)
  <2>1. ClientConnects
    BY <1>2, WhoMoves DEF Place
  <2>2. cli' = At(cli, "init") /\ toServer' = <<"init">> /\ UNCHANGED <<config, srv, toClient>>
    BY <1>2, <2>1, BothSides, ShortChannels DEF Place
  <2>3. At(cli, "init").stage = "init" /\ At(cli, "init").local = cli.local
        /\ At(cli, "init").timer = cli.timer
    BY DEF IInv, Types, ClientStates, At
  <2>4. Untold'
    BY <2>2, <2>3 DEF Untold
  <2>5. Place("init", "init", 0, None, <<"init">>, <<>>)' /\ ~srv'.selected
    BY <1>1, <1>2, <2>2, <2>3 DEF Place
  <2> QED BY <2>4, <2>5 DEF Early
<1>3. CASE Place("init", "init", 0, None, <<"init">>, <<>>)
  <2>1. ServerReceives
    BY <1>3, WhoMoves DEF Place
  <2> DEFINE t == Enter(srv, "hello", None)
  <2>a. ServerReaction(srv, "init") = React(t, <<"init">>)
    BY <1>3, ServerOpening DEF Place
  <2>b. Moved(t, "hello", 0, None) /\ ~t.selected
    BY <1>1, StageEntered
  <2>2. ServerReaction(srv, "init") = React(t, <<"init">>) /\ Moved(t, "hello", 0, None)
        /\ ~t.selected
    BY <2>a, <2>b
  <2> HIDE DEF t
  <2>3. Head(<<"init">>) = "init" /\ Tail(<<"init">>) = <<>> /\ <<>> \o <<"init">> = <<"init">>
    BY ShortChannels
  <2>4. Place("init", "hello", 0, None, <<>>, <<"init">>)' /\ Untold' /\ config' = config
        /\ srv' = t
    BY <1>3, <2>1, <2>2, <2>3, OpeningServer
  <2> QED BY <2>2, <2>4 DEF Early
<1>4. CASE Place("init", "hello", 0, None, <<>>, <<"init">>)
  <2>1. ClientReceives
    BY <1>4, WhoMoves DEF Place
  <2>2. ClientReaction(cli, "init") = React(At(cli, "hello"), <<"hello ready">>)
    BY <1>4, ClientOpening DEF Place
  <2>3. Head(<<"init">>) = "init" /\ Tail(<<"init">>) = <<>>
        /\ <<>> \o <<"hello ready">> = <<"hello ready">>
    BY ShortChannels
  <2>4. Place("hello", "hello", 0, None, <<"hello ready">>, <<>>)' /\ Untold' /\ config' = config
        /\ srv' = srv
    BY <1>4, <2>1, <2>2, <2>3, OpeningClient
  <2> QED BY <1>1, <2>4 DEF Early
<1>5. CASE Place("hello", "hello", 0, None, <<"hello ready">>, <<>>)
  <2>1. ServerReceives
    BY <1>5, WhoMoves DEF Place
  <2> DEFINE t == Enter(srv, "followup", None)
  <2>a. ServerReaction(srv, "hello ready") = React(t, <<"hello ready">>)
    BY <1>5, ServerOpening DEF Place
  <2>b. Moved(t, "followup", 0, None) /\ ~t.selected
    BY <1>1, StageEntered
  <2>2. ServerReaction(srv, "hello ready") = React(t, <<"hello ready">>)
        /\ Moved(t, "followup", 0, None) /\ ~t.selected
    BY <2>a, <2>b
  <2> HIDE DEF t
  <2>3. Head(<<"hello ready">>) = "hello ready" /\ Tail(<<"hello ready">>) = <<>>
        /\ <<>> \o <<"hello ready">> = <<"hello ready">>
    BY ShortChannels
  <2>4. Place("hello", "followup", 0, None, <<>>, <<"hello ready">>)' /\ Untold'
        /\ config' = config /\ srv' = t
    BY <1>5, <2>1, <2>2, <2>3, OpeningServer
  <2> QED BY <2>2, <2>4 DEF Early
<1>6. CASE Place("hello", "followup", 0, None, <<>>, <<"hello ready">>)
  <2>1. ClientReceives
    BY <1>6, WhoMoves DEF Place
  <2>2. ClientReaction(cli, "hello ready") = React(At(cli, "protocol"), <<"announceMax">>)
    BY <1>6, ClientOpening DEF Place
  <2>3. Head(<<"hello ready">>) = "hello ready" /\ Tail(<<"hello ready">>) = <<>>
        /\ <<>> \o <<"announceMax">> = <<"announceMax">>
    BY ShortChannels
  <2>4. Place("protocol", "followup", 0, None, <<"announceMax">>, <<>>)' /\ Untold'
        /\ config' = config /\ srv' = srv
    BY <1>6, <2>1, <2>2, <2>3, OpeningClient
  <2> QED BY <1>1, <2>4 DEF Early
<1>7. CASE Place("protocol", "followup", 0, None, <<"announceMax">>, <<>>)
  <2>1. ServerReceives
    BY <1>7, WhoMoves DEF Place
  <2> DEFINE t == Enter(srv, "protocol", "announceMax")
  <2>a. ServerReaction(srv, "announceMax") = React(t, <<>>)
    BY <1>7, ServerOpening DEF Place
  <2>b. Moved(t, "protocol", 0, "announceMax") /\ ~t.selected
    BY <1>1, StageEntered
  <2>2. ServerReaction(srv, "announceMax") = React(t, <<>>)
        /\ Moved(t, "protocol", 0, "announceMax") /\ ~t.selected
    BY <2>a, <2>b
  <2> HIDE DEF t
  <2>3. Head(<<"announceMax">>) = "announceMax" /\ Tail(<<"announceMax">>) = <<>>
        /\ <<>> \o <<>> = <<>>
    BY ShortChannels
  <2>4. Place("protocol", "protocol", 0, "announceMax", <<>>, <<>>)' /\ Untold' /\ config' = config
        /\ srv' = t
    BY <1>7, <2>1, <2>2, <2>3, OpeningServer
  <2> QED BY <2>2, <2>4 DEF Early
<1>8. CASE Place("protocol", "protocol", 0, "announceMax", <<>>, <<>>)
  <2>1. ServerReceives /\ "announceMax" # None /\ <<>> \o <<"select">> = <<"select">>
    BY <1>8, WhoMoves, ShortChannels DEF Place, None
  <2>2. CASE config.server = "standard"
    <3>1. PICK t : /\ ServerReaction(srv, "announceMax") = React(t, <<"select">>)
                   /\ Moved(t, "select", 0, None)
      BY <1>1, <1>8, <2>2, StandardOpening DEF Place
    <3>2. Place("protocol", "select", 0, None, <<>>, <<"select">>)' /\ Untold' /\ config' = config
      BY <1>8, <2>1, <3>1, OpeningStage
    <3> QED BY <2>2, <3>2 DEF Standard
  <2>3. CASE config.server # "standard"
    <3>1. PICK t : /\ ServerReaction(srv, "announceMax") = React(t, <<"select">>)
                   /\ Moved(t, "protocol", 1, None) /\ t.selected
      BY <1>1, <1>8, <2>3, CompatibleOpening DEF Place
    <3>2. /\ Place("protocol", "protocol", 1, None, <<>>, <<"select">>)' /\ Untold' /\ config' = config
          /\ srv' = t
      BY <1>8, <2>1, <3>1, OpeningStage
    <3> QED BY <2>3, <3>1, <3>2 DEF Compatible
  <2> QED BY <2>2, <2>3
<1> QED BY <1>2, <1>3, <1>4, <1>5, <1>6, <1>7, <1>8 DEF Early

\* The places of a standard server.
LEMMA StandardSteps ==
  ASSUME IInv, Undisturbed, Untold, Standard, ClientConnects \/ ClientReceives \/ ServerReceives
  PROVE  Untold' /\ (Standard \/ Asked)'
<1>1. srv \in ServerStates /\ config.server = "standard"
  BY DEF IInv, Types, Standard
<1>2. CASE Place("protocol", "select", 0, None, <<>>, <<"select">>)
  <2>1. ClientReceives
    BY <1>2, WhoMoves DEF Place
  <2>2. ClientReaction(cli, "select") = React(At(cli, "pin"), <<"select", "pin none">>)
    BY <1>2, ClientOpening DEF Place
  <2>3. Head(<<"select">>) = "select" /\ Tail(<<"select">>) = <<>>
        /\ <<>> \o <<"select", "pin none">> = <<"select", "pin none">>
    BY ShortChannels
  <2>4. Place("pin", "select", 0, None, <<"select", "pin none">>, <<>>)' /\ Untold'
        /\ config' = config /\ srv' = srv
    BY <1>2, <2>1, <2>2, <2>3, OpeningClient
  <2> QED BY <1>1, <2>4 DEF Standard
<1>3. CASE Place("pin", "select", 0, None, <<"select", "pin none">>, <<>>)
  <2>1. ServerReceives
    BY <1>3, WhoMoves DEF Place
  <2>2. PICK t : ServerReaction(srv, "select") = React(t, <<>>) /\ Moved(t, "pin", 0, None)
    BY <1>1, <1>3, StandardOpening DEF Place
  <2>3. Head(<<"select", "pin none">>) = "select"
        /\ Tail(<<"select", "pin none">>) = <<"pin none">> /\ <<>> \o <<>> = <<>>
    BY ShortChannels
  <2>4. Place("pin", "pin", 0, None, <<"pin none">>, <<>>)' /\ Untold' /\ config' = config
        /\ srv' = t
    BY <1>3, <2>1, <2>2, <2>3, OpeningServer
  <2> QED BY <1>1, <2>2, <2>4 DEF Standard
<1>4. CASE Place("pin", "pin", 0, None, <<"pin none">>, <<>>)
  <2>1. ServerReceives
    BY <1>4, WhoMoves DEF Place
  <2>2. PICK t : /\ ServerReaction(srv, "pin none") = React(t, <<"pin none", Request>>)
                 /\ Moved(t, "access", 0, None)
    BY <1>1, <1>4, StandardOpening DEF Place
  <2>3. Head(<<"pin none">>) = "pin none" /\ Tail(<<"pin none">>) = <<>>
        /\ <<>> \o <<"pin none", Request>> = <<"pin none", Request>>
    BY ShortChannels
  <2>4. Place("pin", "access", 0, None, <<>>, <<"pin none", Request>>)' /\ Untold'
        /\ config' = config /\ srv' = t
    BY <1>4, <2>1, <2>2, <2>3, OpeningServer
  <2> QED BY <1>1, <2>2, <2>4 DEF Standard
<1>5. CASE Place("pin", "access", 0, None, <<>>, <<"pin none", Request>>)
  <2>1. ClientReceives
    BY <1>5, WhoMoves DEF Place
  <2>2. ClientReaction(cli, "pin none") = React(At(cli, "access"), <<Request>>)
    BY <1>5, ClientOpening DEF Place
  <2>3. Head(<<"pin none", Request>>) = "pin none" /\ Tail(<<"pin none", Request>>) = <<Request>>
        /\ <<>> \o <<Request>> = <<Request>>
    BY ShortChannels
  <2>4. Place("access", "access", 0, None, <<Request>>, <<Request>>)' /\ Untold'
        /\ config' = config /\ srv' = srv
    BY <1>5, <2>1, <2>2, <2>3, OpeningClient
  <2> QED BY <1>1, <2>4, ShortChannels DEF Asked, Place
<1> QED BY <1>2, <1>3, <1>4, <1>5 DEF Standard

\* The places of one that is not.
LEMMA CompatibleSteps ==
  ASSUME IInv, Undisturbed, Untold, Compatible, ClientConnects \/ ClientReceives \/ ServerReceives
  PROVE  Untold' /\ (Compatible \/ Asked)'
<1>1. srv \in ServerStates /\ config.server # "standard" /\ srv.selected
  BY DEF IInv, Types, Compatible
<1>2. CASE Place("protocol", "protocol", 1, None, <<>>, <<"select">>)
  <2>1. ClientReceives
    BY <1>2, WhoMoves DEF Place
  <2>2. ClientReaction(cli, "select") = React(At(cli, "pin"), <<"select", "pin none">>)
    BY <1>2, ClientOpening DEF Place
  <2>3. Head(<<"select">>) = "select" /\ Tail(<<"select">>) = <<>>
        /\ <<>> \o <<"select", "pin none">> = <<"select", "pin none">>
    BY ShortChannels
  <2>4. Place("pin", "protocol", 1, None, <<"select", "pin none">>, <<>>)' /\ Untold'
        /\ config' = config /\ srv' = srv
    BY <1>2, <2>1, <2>2, <2>3, OpeningClient
  <2> QED BY <1>1, <2>4 DEF Compatible
<1>3. CASE Place("pin", "protocol", 1, None, <<"select", "pin none">>, <<>>)
  <2>1. ServerReceives
    BY <1>3, WhoMoves DEF Place
  <2>2. PICK t : /\ ServerReaction(srv, "select") = React(t, <<"pin none">>)
                 /\ Moved(t, "pin", 0, None)
                 /\ t.selected
    BY <1>1, <1>3, CompatibleOpening DEF Place
  <2>3. Head(<<"select", "pin none">>) = "select"
        /\ Tail(<<"select", "pin none">>) = <<"pin none">> /\ <<>> \o <<"pin none">> = <<"pin none">>
    BY ShortChannels
  <2>4. Place("pin", "pin", 0, None, <<"pin none">>, <<"pin none">>)' /\ Untold'
        /\ config' = config /\ srv' = t
    BY <1>3, <2>1, <2>2, <2>3, OpeningServer
  <2> QED BY <1>1, <2>2, <2>4 DEF Compatible
<1>4. CASE Place("pin", "pin", 0, None, <<"pin none">>, <<"pin none">>)
  <2>1. CASE ClientReceives
    <3>2. ClientReaction(cli, "pin none") = React(At(cli, "access"), <<Request>>)
      BY <1>4, ClientOpening DEF Place
    <3>3. Head(<<"pin none">>) = "pin none" /\ Tail(<<"pin none">>) = <<>>
          /\ <<"pin none">> \o <<Request>> = <<"pin none", Request>>
      BY ShortChannels
    <3>4. Place("access", "pin", 0, None, <<"pin none", Request>>, <<>>)' /\ Untold'
          /\ config' = config /\ srv' = srv
      BY <1>4, <2>1, <3>2, <3>3, OpeningClient
    <3> QED BY <1>1, <3>4 DEF Compatible
  <2>2. CASE ServerReceives
    <3>2. PICK t : /\ ServerReaction(srv, "pin none") = React(t, <<>>)
                   /\ Moved(t, "pin", 1, None)
                   /\ t.selected = srv.selected
      BY <1>1, <1>4, CompatibleOpening DEF Place
    <3>3. Head(<<"pin none">>) = "pin none" /\ Tail(<<"pin none">>) = <<>>
          /\ <<"pin none">> \o <<>> = <<"pin none">>
      BY ShortChannels
    <3>4. Place("pin", "pin", 1, None, <<>>, <<"pin none">>)' /\ Untold' /\ config' = config
          /\ srv' = t
      BY <1>4, <2>2, <3>2, <3>3, OpeningServer
    <3> QED BY <1>1, <3>2, <3>4 DEF Compatible
  <2>3. ClientReceives \/ ServerReceives
    BY <1>4, WhoMoves DEF Place
  <2> QED BY <2>1, <2>2, <2>3
<1>5. CASE Place("pin", "pin", 1, None, <<>>, <<"pin none">>)
  <2>1. ClientReceives
    BY <1>5, WhoMoves DEF Place
  <2>2. ClientReaction(cli, "pin none") = React(At(cli, "access"), <<Request>>)
    BY <1>5, ClientOpening DEF Place
  <2>3. Head(<<"pin none">>) = "pin none" /\ Tail(<<"pin none">>) = <<>>
        /\ <<>> \o <<Request>> = <<Request>>
    BY ShortChannels
  <2>4. Place("access", "pin", 1, None, <<Request>>, <<>>)' /\ Untold' /\ config' = config
        /\ srv' = srv
    BY <1>5, <2>1, <2>2, <2>3, OpeningClient
  <2> QED BY <1>1, <2>4 DEF Compatible
<1>6. CASE Place("access", "pin", 0, None, <<"pin none", Request>>, <<>>)
  <2>1. ServerReceives
    BY <1>6, WhoMoves DEF Place
  <2>2. PICK t : /\ ServerReaction(srv, "pin none") = React(t, <<>>)
                 /\ Moved(t, "pin", 1, None)
                 /\ t.selected = srv.selected
    BY <1>1, <1>6, CompatibleOpening DEF Place
  <2>3. Head(<<"pin none", Request>>) = "pin none" /\ Tail(<<"pin none", Request>>) = <<Request>>
        /\ <<>> \o <<>> = <<>>
    BY ShortChannels
  <2>4. Place("access", "pin", 1, None, <<Request>>, <<>>)' /\ Untold' /\ config' = config
        /\ srv' = t
    BY <1>6, <2>1, <2>2, <2>3, OpeningServer
  <2> QED BY <1>1, <2>2, <2>4 DEF Compatible
<1>7. CASE Place("access", "pin", 1, None, <<Request>>, <<>>)
  <2>1. ServerReceives
    BY <1>7, WhoMoves DEF Place
  <2>2. PICK t : ServerReaction(srv, Request) = React(t, <<Request>>) /\ Moved(t, "access", 0, Request)
    BY <1>1, <1>7, CompatibleOpening DEF Place
  <2>3. Head(<<Request>>) = Request /\ Tail(<<Request>>) = <<>> /\ <<>> \o <<Request>> = <<Request>>
    BY ShortChannels
  <2>4. Place("access", "access", 0, Request, <<>>, <<Request>>)' /\ Untold' /\ config' = config
        /\ srv' = t
    BY <1>7, <2>1, <2>2, <2>3, OpeningServer
  <2> QED BY <1>1, <2>2, <2>4, ShortChannels DEF Asked, Place
<1> QED BY <1>2, <1>3, <1>4, <1>5, <1>6, <1>7 DEF Compatible

\* What the client does when it is asked: it tells its access methods.
LEMMA ClientIsAsked ==
  ASSUME Undisturbed, NEW c \in ClientStates, c.stage = "access", ~c.local
  PROVE  \E t, out : /\ ClientReaction(c, Request) = React(t, out) /\ t.local
                     /\ out = <<"access methods">> \/ out = <<"access methods response", "access methods">>
<1> DEFINE t == [c EXCEPT !.local = config.methods]
           out == If(config.response, "access methods response")
                  \o If(config.methods /\ ~c.local, "access methods")
<1>1. ClientReaction(c, Request) = React(t, out)
  BY DEF ClientReaction, ClientAccess, Request, Undisturbed
<1>2. t.local
  BY DEF ClientStates, Undisturbed
<1>3. out = <<"access methods">> \/ out = <<"access methods response", "access methods">>
  <2>1. If(config.methods /\ ~c.local, "access methods") = <<"access methods">>
    BY DEF If, Undisturbed
  <2>2. /\ If(config.response, "access methods response") = <<>>
        \/ If(config.response, "access methods response") = <<"access methods response">>
    BY DEF If
  <2>3. (\A a : <<>> \o <<a>> = <<a>>) /\ (\A a, b : <<a>> \o <<b>> = <<a, b>>)
    BY ShortChannels
  <2> QED BY <2>1, <2>2, <2>3
<1> HIDE DEF t, out
<1> QED BY <1>1, <1>2, <1>3

\* A turn of the server's access stage that is not the last one.
LEMMA AccessGoesOn ==
  ASSUME NEW s \in ServerStates, s.stage = "access", s.n < 11, NEW t \in ServerStates,
         t.stage = "access", t.n = s.n, NEW out
  PROVE  \E u : Again(t, out) = React(u, out) /\ Moved(u, "access", s.n + 1, None)
<1>1. t.n + 1 < Attempts(t.stage)
  BY DEF Attempts, ServerStates
<1>2. PICK u : Again(t, out) = React(u, out) /\ Moved(u, t.stage, t.n + 1, None)
  BY <1>1, TurnsGoOn
<1> QED BY <1>2

\* What it takes while it waits for the client's access methods.
LEMMA ServerWaiting ==
  ASSUME NEW s \in ServerStates, s.stage = "access", s.n < 11
  PROVE  /\ \A m \in {Request, "access methods response"} :
              \E u, out : /\ ServerReaction(s, m) = React(u, out)
                          /\ Moved(u, "access", s.n + 1, None)
                          /\ IsChannel(out)
         /\ \E u, out : /\ ServerReaction(s, "access methods") = React(u, out)
                        /\ u.stage = "ready"
                        /\ u.remote = "client"
<1> DEFINE told == [s EXCEPT !.local = TRUE, !.progress = TRUE]
           go == [s EXCEPT !.progress = TRUE]
           local == If(~s.local, "access methods")
<1>1. /\ told \in ServerStates /\ told.stage = "access" /\ told.n = s.n
      /\ go \in ServerStates /\ go.stage = "access" /\ go.n = s.n
  BY DEF ServerStates
<1>2. ServerReaction(s, Request) = Again(told, local)
  BY DEF ServerReaction, ServerAccess, Request
<1>3. ServerReaction(s, "access methods response") = Again(go, <<"access request">>)
  BY DEF ServerReaction, ServerAccess
<1>4. ServerReaction(s, "access methods") = React(Ready(told, "client"), local)
  BY DEF ServerReaction, ServerAccess
<1>5. IsChannel(local) /\ IsChannel(<<"access request">>)
  BY PerhapsOneMessage, OneMessage, MessagesAre DEF If
<1> HIDE DEF told, go, local
<1>6. Ready(told, "client").stage = "ready" /\ Ready(told, "client").remote = "client"
  BY <1>1 DEF Ready, ServerStates
<1>7. \E u, out : /\ ServerReaction(s, Request) = React(u, out)
                  /\ Moved(u, "access", s.n + 1, None)
                  /\ IsChannel(out)
  <2>1. PICK u : Again(told, local) = React(u, local) /\ Moved(u, "access", s.n + 1, None)
    BY <1>1, AccessGoesOn
  <2> QED BY <1>2, <1>5, <2>1
<1>8. \E u, out : /\ ServerReaction(s, "access methods response") = React(u, out)
                  /\ Moved(u, "access", s.n + 1, None) /\ IsChannel(out)
  <2> DEFINE out == <<"access request">>
  <2>1. PICK u : Again(go, out) = React(u, out) /\ Moved(u, "access", s.n + 1, None)
    BY <1>1, AccessGoesOn
  <2>2. ServerReaction(s, "access methods response") = Again(go, out) /\ IsChannel(out)
    BY <1>3, <1>5
  <2> HIDE DEF out
  <2> QED BY <2>1, <2>2
<1> QED BY <1>4, <1>6, <1>7, <1>8

\* A reaction after which a client has told its access methods.
TellsAlready(r) == \E t, out : r = React(t, out) /\ t.local

\* A client that has told its access methods stays one.
LEMMA ClientHasTold ==
  ASSUME config.methods, NEW c \in ClientStates, c.local, NEW m,
         c.stage \in {"init", "hello", "pending", "protocol", "pin", "access", "done"}
  PROVE  TellsAlready(ClientReaction(c, m))
<1>1. ASSUME NEW t, t.local, NEW out PROVE TellsAlready(React(t, out))
  BY <1>1 DEF TellsAlready
<1>2. ASSUME NEW stage, NEW out PROVE TellsAlready(React(At(c, stage), out))
  <2>1. At(c, stage).local
    BY DEF At, ClientStates
  <2> QED BY <1>1, <2>1
<1>3. TellsAlready(ClientFails(c))
  <2>1. [c EXCEPT !.stage = "failed"].local
    BY DEF ClientStates
  <2> QED BY <1>1, <2>1 DEF ClientFails
<1>4. ASSUME NEW out PROVE TellsAlready(React([c EXCEPT !.local = config.methods], out))
  <2>1. [c EXCEPT !.local = config.methods].local
    BY DEF ClientStates
  <2> QED BY <1>1, <2>1
<1>5. ASSUME NEW out PROVE TellsAlready(React([c EXCEPT !.timer = TRUE], out))
  <2>1. [c EXCEPT !.timer = TRUE].local
    BY DEF ClientStates
  <2> QED BY <1>1, <2>1
<1>6. TellsAlready(React([c EXCEPT !.stage = "done", !.remote = "server"], <<>>))
  <2>1. [c EXCEPT !.stage = "done", !.remote = "server"].local
    BY DEF ClientStates
  <2> QED BY <1>1, <2>1
<1>7. \A out : TellsAlready(React(c, out))
  BY <1>1
<1>8. TellsAlready(ClientHello(c, m))
  BY <1>2, <1>3 DEF ClientHello
<1>9. TellsAlready(ClientPending(c, m))
  BY <1>2, <1>3, <1>7 DEF ClientPending
<1>10. TellsAlready(ClientProtocol(c, m)) /\ TellsAlready(ClientPin(c, m))
  BY <1>2, <1>3 DEF ClientProtocol, ClientPin
<1>11. TellsAlready(ClientAccess(c, m))
  BY <1>3, <1>4, <1>5, <1>6, <1>7 DEF ClientAccess
<1>12. c.stage = "init" => TellsAlready(ClientReaction(c, m))
  BY <1>2, <1>3 DEF ClientReaction
<1> QED BY <1>3, <1>7, <1>8, <1>9, <1>10, <1>11, <1>12 DEF ClientReaction

\* Where the client's access methods are when it has just sent them.
LEMMA ToldPlaces ==
  /\ ToldAt(<<"access methods">>, 1)
  /\ ToldAt(<<"access methods response", "access methods">>, 2)
  /\ ToldAt(<<Request, "access methods">>, 2)
  /\ ToldAt(<<Request, "access methods response", "access methods">>, 3)
<1>1. ToldAt(<<"access methods">>, 1)
  BY DEF ToldAt
<1>2. ASSUME NEW a, a \in {Request, "access methods response"}
      PROVE  ToldAt(<<a, "access methods">>, 2)
  <2> DEFINE q == <<a, "access methods">>
  <2>1. DOMAIN q = 1 .. 2
    OBVIOUS
  <2>2. q[1] = a
    OBVIOUS
  <2>3. q[2] = "access methods"
    OBVIOUS
  <2> HIDE DEF q
  <2>4. 2 \in DOMAIN q
    BY <2>1
  <2>5. \A i \in 1 .. 2 - 1 : q[i] = a
    BY <2>2
  <2>6. ToldAt(q, 2)
    BY <1>2, <2>3, <2>4, <2>5 DEF ToldAt
  <2> QED BY <2>6 DEF q
<1>3. ASSUME NEW a, NEW b, {a, b} \subseteq {Request, "access methods response"}
      PROVE  ToldAt(<<a, b, "access methods">>, 3)
  <2> DEFINE q == <<a, b, "access methods">>
  <2>1. DOMAIN q = 1 .. 3
    OBVIOUS
  <2>2. q[1] = a /\ q[2] = b
    OBVIOUS
  <2>3. q[3] = "access methods"
    OBVIOUS
  <2> HIDE DEF q
  <2>4. 3 \in DOMAIN q
    BY <2>1
  <2>5. \A i \in 1 .. 3 - 1 : q[i] = a \/ q[i] = b
    BY <2>2
  <2>6. ToldAt(q, 3)
    BY <1>3, <2>3, <2>4, <2>5 DEF ToldAt
  <2> QED BY <2>6 DEF q
<1> QED BY <1>1, <1>2, <1>3

\* The client is asked, or the server takes the client's own question.
LEMMA AskedSteps ==
  ASSUME IInv, Undisturbed, Untold, Asked, ClientConnects \/ ClientReceives \/ ServerReceives
  PROVE  (Untold /\ Asked)' \/ (cli'.local /\ Telling')
<1>1. cli \in ClientStates /\ srv \in ServerStates /\ IsChannel(toClient)
  BY DEF IInv, Types
<1>2. ~ClientConnects
  BY BothSides DEF Asked
<1>3. CASE ClientReceives
  <2>1. PICK t, out : /\ ClientReaction(cli, Request) = React(t, out) /\ t.local
                      /\ out = <<"access methods">> \/ out = <<"access methods response", "access methods">>
    BY <1>1, ClientIsAsked DEF Asked, Untold
  <2>2. /\ ClientReaction(cli, Head(toClient)) = React(t, out)
    BY <2>1 DEF Asked
  <2>3. cli' = t /\ toServer' = toServer \o out /\ srv' = srv
    <3>1. LET r == ClientReaction(cli, Head(toClient))
          IN  cli' = r.state /\ toServer' = toServer \o r.out /\ srv' = srv
      BY <1>3, BothSides
    <3> QED BY <2>2, <3>1, Reactions
  <2>4. toServer = <<>> \/ toServer = <<Request>>
    BY DEF Asked
  <2>5. \/ toServer' = <<"access methods">> \/ toServer' = <<"access methods response", "access methods">>
        \/ toServer' = <<Request, "access methods">>
        \/ toServer' = <<Request, "access methods response", "access methods">>
    <3>1. toServer = <<>> => toServer' = out
      <4>1. <<>> \o out = out
        <5>1. (\A a : <<>> \o <<a>> = <<a>>) /\ (\A a, b : <<>> \o <<a, b>> = <<a, b>>)
          BY ShortChannels
        <5> QED BY <2>1, <5>1
      <4> QED BY <2>3, <4>1
    <3>2. toServer = <<Request>> => \/ toServer' = <<Request, "access methods">>
                                    \/ toServer' = <<Request, "access methods response", "access methods">>
      <4>1. \A a, b : <<a>> \o <<b>> = <<a, b>>
        BY ShortChannels
      <4>3. \A a, b, c : <<a>> \o <<b, c>> = <<a, b, c>>
        BY ShortChannels
      <4>2. toServer = <<Request>> => toServer' = <<Request>> \o out
        BY <2>3
      <4> QED BY <2>1, <4>1, <4>2, <4>3
    <3> QED BY <2>1, <2>4, <3>1, <3>2
  <2>6. PICK p \in {1, 2, 3} : ToldAt(toServer', p)
    BY <2>5, ToldPlaces
  <2>7. srv'.stage = "access" /\ srv'.pend \in {None, Request} /\ srv'.n \in {0, 1}
    BY <2>3 DEF Asked
  <2>8. Left' \in {0, 1}
    BY DEF Left
  <2>9. p \in Nat /\ srv'.n + Left' + p < 12
    BY <2>7, <2>8
  <2>10. Telling'
    BY <2>6, <2>7, <2>9 DEF Telling
  <2> QED BY <2>1, <2>3, <2>10
<1>4. CASE ServerReceives
  <2>1. srv.pend # None \/ toServer # <<>>
    BY <1>4, BothSides
  <2>2. /\ srv.stage = "access" /\ srv.n = 0
        /\ (srv.pend = None /\ toServer = <<Request>>) \/ (srv.pend = Request /\ toServer = <<>>)
    BY <2>1 DEF Asked
  <2>3. PICK u, out : /\ ServerReaction(srv, Request) = React(u, out)
                      /\ Moved(u, "access", 1, None)
                      /\ IsChannel(out)
    <3>1. srv.n < 11 /\ srv.n + 1 = 1
      BY <2>2
    <3>2. \E u, out : /\ ServerReaction(srv, Request) = React(u, out)
                      /\ Moved(u, "access", srv.n + 1, None)
                      /\ IsChannel(out)
      BY <1>1, <2>2, <3>1, ServerWaiting
    <3> QED BY <3>1, <3>2
  <2>4. srv' = u /\ toServer' = <<>> /\ toClient' = toClient \o out /\ cli' = cli
    <3>1. CASE srv.pend = None /\ toServer = <<Request>>
      <4>1. Head(toServer) = Request /\ Tail(toServer) = <<>>
        BY <3>1, ShortChannels
      <4> QED BY <1>4, <2>3, <3>1, <4>1, BothSides, Reactions
    <3>2. CASE srv.pend = Request /\ toServer = <<>>
      <4>1. srv.pend # None
        BY <3>2 DEF None, Request
      <4> QED BY <1>4, <2>3, <3>2, <4>1, BothSides, Reactions
    <3> QED BY <2>2, <3>1, <3>2
  <2>5. toClient' # <<>> /\ Head(toClient') = Request
    <3>1. toClient \in Seq(Messages) /\ out \in Seq(Messages) /\ toClient # <<>>
          /\ Head(toClient) = Request
      BY <1>1, <2>3 DEF IsChannel, IsSequence, Asked
    <3>2. toClient \o out # <<>> /\ Head(toClient \o out) = Head(toClient)
      BY <3>1
    <3> QED BY <2>4, <3>1, <3>2
  <2>6. Asked'
    BY <2>3, <2>4, <2>5 DEF Asked, Moved
  <2> QED BY <2>4, <2>6 DEF Untold
<1> QED BY <1>2, <1>3, <1>4

\* The client's access methods stay where they are while more is sent.
LEMMA ToldAtGrows ==
  ASSUME NEW q \in Seq(Messages), NEW out \in Seq(Messages), NEW p \in Nat, ToldAt(q, p)
  PROVE  ToldAt(q \o out, p)
<1>1. p \in DOMAIN q /\ DOMAIN q \subseteq DOMAIN (q \o out)
      /\ \A i \in DOMAIN q : (q \o out)[i] = q[i]
  <2>1. p \in DOMAIN q
    BY DEF ToldAt
  <2>2. DOMAIN q \subseteq DOMAIN (q \o out)
    OBVIOUS
  <2>3. \A i \in DOMAIN q : (q \o out)[i] = q[i]
    OBVIOUS
  <2> QED BY <2>1, <2>2, <2>3
<1>2. \A i \in 1 .. p - 1 : i \in DOMAIN q
  BY <1>1
<1> QED BY <1>1, <1>2 DEF ToldAt

\* They come nearer when a message before them is taken.
LEMMA ToldAtMoves ==
  ASSUME NEW q \in Seq(Messages), NEW p \in Nat, p # 1, ToldAt(q, p)
  PROVE  p >= 2 /\ ToldAt(Tail(q), p - 1) /\ q # <<>>
         /\ Head(q) \in {Request, "access methods response"}
<1>1. p \in DOMAIN q /\ p >= 2 /\ q # <<>> /\ Head(q) = q[1]
  <2>1. p \in DOMAIN q
    BY DEF ToldAt
  <2> QED BY <2>1
<1>2. 1 \in 1 .. p - 1
  BY <1>1
<1>3. q[1] \in {Request, "access methods response"}
  BY <1>2 DEF ToldAt
<1>4. /\ p - 1 \in DOMAIN Tail(q) /\ Tail(q)[p - 1] = q[p]
      /\ \A i \in 1 .. (p - 1) - 1 : Tail(q)[i] = q[i + 1] /\ i + 1 \in 1 .. p - 1
  BY <1>1
<1>5. ToldAt(Tail(q), p - 1)
  BY <1>4 DEF ToldAt
<1> QED BY <1>1, <1>3, <1>5

\* What the client sends later comes behind them.
LEMMA TellingGrows ==
  ASSUME Telling, IsChannel(toServer), NEW out, IsChannel(out), toServer' = toServer \o out,
         srv' = srv
  PROVE  Telling'
<1>1. PICK p \in Nat : ToldAt(toServer, p) /\ srv.n + Left + p < 12
  BY DEF Telling
<1>2. toServer \in Seq(Messages) /\ out \in Seq(Messages)
  BY DEF IsChannel, IsSequence
<1>3. ToldAt(toServer', p)
  BY <1>1, <1>2, ToldAtGrows
<1>4. Left' = Left
  BY DEF Left
<1> QED BY <1>1, <1>3, <1>4 DEF Telling

\* The server takes what comes before them, and then them.
LEMMA ToldServerSteps ==
  ASSUME IInv, Undisturbed, Telling, ServerReceives
  PROVE  Telling' \/ (srv'.stage = "ready" /\ srv'.remote = "client")
<1>1. srv \in ServerStates /\ toServer \in Seq(Messages)
  BY DEF IInv, Types, IsChannel, IsSequence
<1>2. PICK p \in Nat : ToldAt(toServer, p) /\ srv.n + Left + p < 12
  BY DEF Telling
<1>3. p >= 1 /\ p \in DOMAIN toServer
  <2>1. p \in DOMAIN toServer
    BY <1>2 DEF ToldAt
  <2> QED BY <1>1, <2>1
<1>4. srv.n \in Nat /\ Left \in {0, 1}
  BY <1>1 DEF Left, ServerStates
<1>5. srv.n + Left + p < 12
  BY <1>2
<1>6. srv.n < 11
  BY <1>3, <1>4, <1>5
<1>7. srv.stage = "access"
  BY DEF Telling
<1>8. CASE srv.pend # None
  <2>1. srv.pend = Request /\ Left = 1
    BY <1>8 DEF Telling, Left
  <2>2. PICK u, out : /\ ServerReaction(srv, Request) = React(u, out)
                      /\ Moved(u, "access", srv.n + 1, None)
    BY <1>1, <1>6, <1>7, ServerWaiting
  <2>3. srv' = u /\ toServer' = toServer
    BY <1>8, <2>1, <2>2, BothSides, Reactions
  <2>4. srv'.stage = "access" /\ srv'.n = srv.n + 1 /\ srv'.pend = None
    BY <2>2, <2>3 DEF Moved
  <2>5. Left' = 0
    BY <2>4 DEF Left
  <2>6. srv'.n + Left' + p < 12
    BY <1>4, <1>5, <2>1, <2>4, <2>5
  <2>7. ToldAt(toServer', p)
    BY <1>2, <2>3
  <2> QED BY <2>4, <2>6, <2>7 DEF Telling
<1>9. CASE srv.pend = None
  <2>1. Left = 0
    BY <1>9 DEF Left
  <2>2. CASE p = 1
    <3>1. PICK u, out : /\ ServerReaction(srv, "access methods") = React(u, out)
                        /\ u.stage = "ready"
                        /\ u.remote = "client"
      BY <1>1, <1>6, <1>7, ServerWaiting
    <3>2. Head(toServer) = "access methods" /\ toServer # <<>>
      <4>1. 1 \in DOMAIN toServer /\ toServer[1] = "access methods"
        BY <1>2, <2>2 DEF ToldAt
      <4>2. toServer # <<>> /\ Head(toServer) = toServer[1]
        <5>1. \A q \in Seq(Messages) : 1 \in DOMAIN q => q # <<>> /\ Head(q) = q[1]
          OBVIOUS
        <5> QED BY <1>1, <4>1, <5>1
      <4> QED BY <4>1, <4>2
    <3>3. srv' = u
      <4>1. srv' = ServerReaction(srv, Head(toServer)).state
        BY <1>9, BothSides
      <4>2. ServerReaction(srv, Head(toServer)) = React(u, out)
        BY <3>1, <3>2
      <4> QED BY <4>1, <4>2, Reactions
    <3> QED BY <3>1, <3>3
  <2>3. CASE p # 1
    <3>1. p >= 2 /\ ToldAt(Tail(toServer), p - 1)
          /\ Head(toServer) \in {Request, "access methods response"}
      BY <1>1, <1>2, <2>3, ToldAtMoves
    <3>2. PICK u, out : /\ ServerReaction(srv, Head(toServer)) = React(u, out)
                        /\ Moved(u, "access", srv.n + 1, None)
      BY <1>1, <1>6, <1>7, <3>1, ServerWaiting
    <3>3. srv' = u /\ toServer' = Tail(toServer)
      BY <1>9, <3>2, BothSides, Reactions
    <3>4. srv'.stage = "access" /\ srv'.n = srv.n + 1 /\ srv'.pend = None
      BY <3>2, <3>3 DEF Moved
    <3>5. Left' = 0
      BY <3>4 DEF Left
    <3>6. p - 1 \in Nat /\ srv'.n + Left' + (p - 1) < 12
      <4>1. p >= 2 /\ srv'.n = srv.n + 1
        BY <3>1, <3>4
      <4> QED BY <1>4, <1>5, <2>1, <3>5, <4>1
    <3>7. ToldAt(toServer', p - 1)
      BY <3>1, <3>3
    <3> QED BY <3>4, <3>6, <3>7 DEF Telling
  <2> QED BY <2>2, <2>3
<1> QED BY <1>8, <1>9

\* What the client does later comes behind its access methods.
LEMMA ToldClientSteps ==
  ASSUME IInv, Undisturbed, Told,
         ClientConnects \/ ClientReceives \/ ClientTimeout \/ ClientSelects \/ ClientCloses
  PROVE  Told'
<1>1. SdkClient /\ SdkServer /\ config.methods /\ cli \in ClientStates /\ cli.local
      /\ IsChannel(toServer)
  BY DEF Undisturbed, SdkClient, SdkServer, Told, IInv, Types
<1>2. ASSUME NEW t, NEW out, ClientApply(React(t, out)), t.local, IsChannel(out)
      PROVE  Told'
  <2>1. cli' = t /\ toServer' = toServer \o out /\ srv' = srv
    BY <1>1, <1>2, Reactions DEF ClientApply
  <2>2. CASE Telling
    <3>1. Telling'
      BY <1>1, <1>2, <2>1, <2>2, TellingGrows
    <3> QED BY <1>2, <2>1, <3>1 DEF Told
  <2>3. CASE ~Telling
    BY <1>2, <2>1, <2>3 DEF Told
  <2> QED BY <2>2, <2>3
<1>3. IsChannel(<<"init">>) /\ IsChannel(<<"methods select">>) /\ IsChannel(<<"close">>)
  BY OneMessage, MessagesAre
<1>4. CASE ClientConnects
  <2>1. At(cli, "init").local
    BY <1>1 DEF At, ClientStates
  <2> QED BY <1>2, <1>3, <1>4, <2>1 DEF ClientConnects
<1>5. CASE ClientReceives
  <2> DEFINE r == ClientReaction(cli, Head(toClient))
  <2>1. /\ cli.stage \in {"init", "hello", "pending", "protocol", "pin", "access", "done"}
        /\ ClientApply(r)
    BY <1>5 DEF ClientReceives, ClientWaits
  <2>2. PICK t, out : r = React(t, out) /\ t.local
    BY <1>1, <2>1, ClientHasTold DEF TellsAlready
  <2>3. ClientReactsWell(r, cli, Head(toClient), seenByClient)
    BY <2>1, ClientReacts DEF IInv, Types
  <2> HIDE DEF r
  <2>4. IsChannel(out)
    <3>1. r.out = out
      BY <2>2, Reactions
    <3>2. IsChannel(r.out)
      BY <2>3 DEF ClientReactsWell, Ordinary
    <3> QED BY <3>1, <3>2
  <2> QED BY <1>2, <2>1, <2>2, <2>4
<1>6. CASE ClientTimeout
  <2> DEFINE r == Silence(cli)
  <2>1. ClientApply(r)
    BY <1>6 DEF ClientTimeout
  <2>2. PICK t, out : r = React(t, out) /\ t.local
    <3>1. At(cli, "hello").local /\ [cli EXCEPT !.stage = "failed"].local
      BY <1>1 DEF At, ClientStates
    <3> QED BY <3>1 DEF Silence, ClientFails
  <2>3. Ordinary(r.out)
    BY ClientIsSilent DEF IInv, Types
  <2> HIDE DEF r
  <2>4. IsChannel(out)
    BY <2>2, <2>3, Reactions DEF Ordinary
  <2> QED BY <1>2, <2>1, <2>2, <2>4
<1>7. CASE ClientSelects
  <2>1. [cli EXCEPT !.timer = FALSE].local
    BY <1>1 DEF ClientStates
  <2> QED BY <1>2, <1>3, <1>7, <2>1 DEF ClientSelects
<1>8. CASE ClientCloses
  <2>1. [cli EXCEPT !.stage = "closed", !.timer = FALSE].local
    BY <1>1 DEF ClientStates
  <2> QED BY <1>2, <1>3, <1>8, <2>1 DEF ClientCloses
<1> QED BY <1>4, <1>5, <1>6, <1>7, <1>8

\* A server that is ready with the client's access methods, or has failed, is
\* not moved by what is still under way.
LEMMA SettledServer ==
  ASSUME Undisturbed, srv \in ServerStates, ServerReceives,
         srv.stage = "failed" \/ (srv.stage = "ready" /\ srv.remote = "client")
  PROVE  srv'.stage = "failed" \/ (srv'.stage = "ready" /\ srv'.remote = "client")
<1>1. srv.stage = "ready" /\ srv.remote = "client"
  BY DEF ServerReceives
<1>2. ASSUME NEW m
      PROVE  LET r == ServerReaction(srv, m)
             IN  r.state.stage = "failed" \/ (r.state.stage = "ready" /\ r.state.remote = "client")
  <2>1. CASE m = "close"
    <3>1. ServerReaction(srv, m) = ServerFails(srv)
      BY <2>1 DEF ServerReaction
    <3>2. ServerFails(srv).state.stage = "failed"
      <4>1. [srv EXCEPT !.stage = "failed", !.pend = None].stage = "failed"
        BY DEF ServerStates
      <4> QED BY <4>1, Reactions DEF ServerFails
    <3> QED BY <3>1, <3>2
  <2>2. CASE m # "close"
    <3>1. ServerReaction(srv, m) = React(srv, <<>>)
      BY <1>1, <2>2 DEF ServerReaction
    <3> QED BY <1>1, <3>1, Reactions
  <2> QED BY <2>1, <2>2
<1>3. \E m : srv' = ServerReaction(srv, m).state
  BY BothSides
<1> QED BY <1>2, <1>3

\* Once the client has told its access methods they reach the server, or its
\* handshake has ended.
LEMMA ToldSteps ==
  ASSUME IInv, Undisturbed, Told, Next
  PROVE  Told'
<1>1. srv \in ServerStates /\ SdkClient /\ SdkServer /\ cli.local
  BY DEF IInv, Types, Undisturbed, SdkClient, SdkServer, Told
<1>2. CASE ClientConnects \/ ClientReceives \/ ClientTimeout \/ ClientSelects \/ ClientCloses
  BY <1>2, ToldClientSteps
<1>3. CASE DeadlinePasses
  <2>1. UNCHANGED <<cli, srv, toServer>>
    BY <1>3 DEF DeadlinePasses
  <2> QED BY <2>1 DEF Told, Telling, Left
<1>4. CASE ServerReceives
  <2>1. cli' = cli
    BY <1>4, BothSides
  <2>2. CASE Telling
    BY <1>1, <1>4, <2>1, <2>2, ToldServerSteps DEF Told
  <2>3. CASE ~Telling
    BY <1>1, <1>4, <2>1, <2>3, SettledServer DEF Told
  <2> QED BY <2>2, <2>3
<1>5. ~ServerTimeout
  <2>1. SUFFICES ASSUME ServerTimeout PROVE FALSE
    OBVIOUS
  <2>2. toServer = <<>> /\ srv.stage \in {"followup", "access", "protocol"}
    BY <2>1 DEF ServerTimeout, ServerTimed
  <2>3. Telling
    BY <2>2 DEF Told
  <2>4. DOMAIN toServer = {}
    BY <2>2, Places
  <2> QED BY <2>3, <2>4 DEF Telling, ToldAt
<1>6. ~ForeignSends
  BY <1>1 DEF ForeignSends
<1> QED BY <1>2, <1>3, <1>4, <1>5, <1>6 DEF Next

\* Until it is asked, and when it is.
LEMMA OpeningGoesOn ==
  ASSUME IInv, Undisturbed, Opening, Next
  PROVE  (Opening \/ Told)'
<1>1. Untold
  BY DEF Opening, Untold
<1>2. CASE UNCHANGED <<config, cli, srv, toServer, toClient>>
  <2>1. (Early' <=> Early) /\ (Standard' <=> Standard) /\ (Compatible' <=> Compatible)
    BY <1>2 DEF Early, Standard, Compatible, Place
  <2>2. Asked' <=> Asked
    BY <1>2 DEF Asked
  <2> QED BY <1>2, <2>1, <2>2 DEF Opening
<1>3. CASE ClientConnects \/ ClientReceives \/ ServerReceives
  <2>1. CASE Early
    BY <1>1, <1>3, <2>1, EarlySteps DEF Opening, Untold
  <2>2. CASE Standard
    BY <1>1, <1>3, <2>2, StandardSteps DEF Opening, Untold
  <2>3. CASE Compatible
    BY <1>1, <1>3, <2>3, CompatibleSteps DEF Opening, Untold
  <2>4. CASE Asked
    BY <1>1, <1>3, <2>4, AskedSteps DEF Opening, Untold, Told
  <2> QED BY <2>1, <2>2, <2>3, <2>4 DEF Opening
<1> QED BY <1>2, <1>3, OpeningSteps

\* The two sides exchange their access methods, step by step.
LEMMA IdsSteps ==
  ASSUME IInv, IdsInv, [Next]_vars
  PROVE  IdsInv'
<1>1. config' = config
  BY DEF Next, vars, ClientConnects, ClientReceives, ClientTimeout, ClientSelects, ClientCloses,
     ClientApply,
         DeadlinePasses, ServerReceives, ServerTimeout, ServerApply, ForeignSends
<1>2. Undisturbed' = Undisturbed
  BY <1>1 DEF Undisturbed
<1>3. CASE UNCHANGED vars
  <2>1. UNCHANGED <<config, cli, srv, toServer, toClient>>
    BY <1>3 DEF vars
  <2>2. (Opening' <=> Opening) /\ (Told' <=> Told)
    BY <2>1 DEF Opening, Early, Standard, Compatible, Asked, Place, Told, Telling, Left
  <2> QED BY <1>2, <2>2 DEF IdsInv
<1>4. CASE Next
  BY <1>2, <1>4, OpeningGoesOn, ToldSteps DEF IdsInv
<1> QED BY <1>3, <1>4

\* At first nothing is under way.
LEMMA IdsInit == Init => IdsInv
<1> SUFFICES ASSUME Init PROVE Opening
  BY DEF IdsInv
<1>1. toServer = <<>> /\ toClient = <<>> /\ cli = ClientStart /\ srv = ServerStart
  BY DEF Init
<1>2. cli.stage = "start" /\ ~cli.local /\ ~cli.timer
  BY <1>1 DEF ClientStart
<1>3. srv.stage = "init" /\ srv.n = 0 /\ srv.pend = None /\ ~srv.selected
  BY <1>1 DEF ServerStart
<1>4. Place("start", "init", 0, None, <<>>, <<>>)
  BY <1>1, <1>2, <1>3 DEF Place
<1> QED BY <1>2, <1>3, <1>4 DEF Opening, Early

-----------------------------------------------------------------------------
(* The theorems. *)

\* What the stages, the flags and the channels say of each other holds in every
\* state, whatever a foreign peer sends.
THEOREM Invariant == Spec => []IInv
<1>1. IInv /\ [Next]_vars => IInv'
  BY ConnectSteps, ReceiveSteps, TimeoutSteps, SelectSteps, CloseSteps, ServerReceiveSteps,
     ServerTimeoutSteps, OtherSteps DEF Next
<1> QED BY InitHolds, <1>1, PTL DEF Spec

\* A session of the server that is ready, and one of the client that is open,
\* rest on a negotiation (server.py _handle_client, ship.py connect).
THEOREM SessionsAreSound == Spec => []SessionsAreNegotiated
<1>1. IInv => SessionsAreNegotiated
  BY DEF IInv, ClientFits, ServerFits, SessionsAreNegotiated
<1> QED BY Invariant, <1>1, PTL

\* Once the client's session is open, the server's handshake fails only when
\* the client closes it (server.py _perform_access_methods_handshake).
THEOREM NoSessionIsHalfOpen == Spec => []NoHalfOpenSession
<1>1. IInv => NoHalfOpenSession
  BY DEF IInv, ToldServerGoesOn, ServerIsTold, NoHalfOpenSession
<1> QED BY Invariant, <1>1, PTL

\* The types, and every loop of the server within its attempts.
THEOREM TypeCorrect == Spec => []TypeOK
<1>1. IInv => cli \in ClientStates /\ srv \in ServerStates /\ ServerFits(srv, seenByServer)
  BY DEF IInv, Types
<1>2. IInv => /\ \A i \in DOMAIN toServer : toServer[i] \in Messages
              /\ \A i \in DOMAIN toClient : toClient[i] \in Messages
  BY DEF IInv, Types, IsChannel, ToSet
<1>3. ASSUME srv \in ServerStates PROVE \A f \in Flags : srv[f] \in BOOLEAN
  BY <1>3 DEF Flags, ServerStates
<1>4. srv \in ServerStates =>
        srv.stage \in ServerStages /\ srv.pend \in Messages \cup {None} /\ srv.remote \in {None, "client"}
  BY DEF ServerStates
<1>5. ServerFits(srv, seenByServer) =>
        (srv.stage \in {"followup", "protocol", "pin", "access"} => srv.n < Attempts(srv.stage))
  BY DEF ServerFits, Loops
<1>6. IInv => TypeOK
  BY <1>1, <1>2, <1>3, <1>4, <1>5 DEF TypeOK, ClientStates
<1> QED BY Invariant, <1>6, PTL

\* Each side learns the SHIP id of the other one in a handshake that no timeout
\* cuts short, when the client is a standard one that tells it (ship.py
\* _access_methods_handshake, server.py _perform_access_methods_handshake).
THEOREM IdsAreLearned == Spec => []IdsAreExchanged
<1>1. Spec => []IdsInv
  <2>1. IInv /\ IInv' /\ IdsInv /\ [Next]_vars => IdsInv'
    BY IdsSteps
  <2> QED BY Invariant, IdsInit, <2>1, PTL DEF Spec
<1>2. IdsInv => IdsAreExchanged
  <2>1. Opening => srv.stage # "ready"
    BY DEF Opening, Early, Standard, Compatible, Asked, Place
  <2>2. Told /\ srv.stage = "ready" => srv.remote = "client"
    BY DEF Told, Telling
  <2> QED BY <2>1, <2>2 DEF IdsInv, IdsAreExchanged, Undisturbed
<1> QED BY <1>1, <1>2, PTL

-----------------------------------------------------------------------------
(* The frames. *)

\* What is under way, all of it still to be read.
Stream == wire \o transit

FrameOps == {"data", "continuation", "ping", "pong"}
Frames == [op : FrameOps, fin : BOOLEAN, id : Nat \X Nat]
FrameParts == [part : {"head", "mask", "payload"}, frame : Frames]

ReaderTypes ==
    /\ wire \in Seq(FrameParts) /\ transit \in Seq(FrameParts)
    /\ frame \in Frames \cup {NoFrame} /\ part \in 1 .. 3
    /\ fragments \in Seq(Nat \X Nat) /\ delivered \in Seq(Seq(Nat \X Nat))
    /\ sent \in Seq(Seq(Nat \X Nat)) /\ piece \in Nat
    /\ phase \in {"reading", "failed"} /\ others \in Nat

\* The pieces of a message are numbered; the last message may still run.
SentInOrder ==
    /\ \A m \in DOMAIN sent : Len(sent[m]) > 0 /\ sent[m] = [p \in 1 .. Len(sent[m]) |-> <<m, p>>]
    /\ piece > 0 => sent # <<>> /\ piece = Len(sent[Len(sent)])

\* What was returned is what was sent first.
DeliveredAsSent ==
    /\ Len(delivered) <= Len(sent)
    /\ \A n \in DOMAIN delivered : delivered[n] = sent[n]
    /\ piece > 0 => Len(delivered) < Len(sent)

\* The next part on the way is the one that is read next; after it the parts of
\* each frame follow one another.
NextPart == [head |-> "mask", mask |-> "payload", payload |-> "head"]
InStep ==
    /\ Stream # <<>> => Stream[1].part = Parts[part]
    /\ part > 1 => Stream # <<>> /\ Stream[1].frame = frame
    /\ \A i \in 1 .. Len(Stream) - 1 :
           /\ Stream[i + 1].part = NextPart[Stream[i].part]
           /\ Stream[i].part # "payload" => Stream[i + 1].frame = Stream[i].frame
    /\ Stream # <<>> => Stream[Len(Stream)].part = "payload"

\* The last part of a frame that carries a piece; the first piece of a message
\* and the last one are marked.
HoldsPiece(x) == x.part = "payload" /\ x.frame.op \in {"data", "continuation"}
IsLast(messages, running, id) ==
    id[2] = Len(messages[id[1]]) /\ (id[1] < Len(messages) \/ running = 0)
IsSent(messages, id) == id[1] \in DOMAIN messages /\ id[2] \in DOMAIN messages[id[1]]
PiecesMarked ==
    \A i \in DOMAIN Stream : HoldsPiece(Stream[i]) =>
        LET f == Stream[i].frame
        IN  /\ IsSent(sent, f.id)
            /\ f.op = "data" <=> f.id[2] = 1
            /\ f.fin <=> IsLast(sent, piece, f.id)

\* They come in the order they were sent in.
Earlier(a, b) == a[1] < b[1] \/ (a[1] = b[1] /\ a[2] < b[2])
PiecesInOrder ==
    \A i \in DOMAIN Stream, k \in DOMAIN Stream :
        i < k /\ HoldsPiece(Stream[i]) /\ HoldsPiece(Stream[k]) =>
            Earlier(Stream[i].frame.id, Stream[k].frame.id)

\* The reader has taken j pieces of the message it is reading.  It has kept
\* them, or lost them all to a timeout; what is under way is every later piece,
\* and nothing else.
Taken(j) ==
    LET at == <<Len(delivered) + 1, j>>
    IN  /\ IF at[1] \in DOMAIN sent
           THEN j <= Len(sent[at[1]]) /\ (j > 0 => ~IsLast(sent, piece, at))
           ELSE j = 0
        /\ fragments = <<>> \/ fragments = [p \in 1 .. j |-> <<at[1], p>>]
        /\ \A i \in DOMAIN Stream : HoldsPiece(Stream[i]) => Earlier(at, Stream[i].frame.id)
        /\ \A id \in Nat \X Nat :
               IsSent(sent, id) /\ Earlier(at, id) =>
                   \E i \in DOMAIN Stream : HoldsPiece(Stream[i]) /\ Stream[i].frame.id = id

-----------------------------------------------------------------------------
(* What happens to what is under way. *)

\* A frame that is sent comes last.
LEMMA StreamGrows ==
  ASSUME ReaderTypes, NEW f \in Frames,
         wire' = wire, transit' = transit \o Encoded(f.op, f.fin, f.id)
  PROVE  /\ Encoded(f.op, f.fin, f.id) \in Seq(FrameParts)
         /\ Stream \in Seq(FrameParts) /\ Stream' \in Seq(FrameParts)
         /\ Len(Stream') = Len(Stream) + 3
         /\ \A i \in DOMAIN Stream : Stream'[i] = Stream[i]
         /\ \A i \in 1 .. 3 : Stream'[Len(Stream) + i] = [part |-> Parts[i], frame |-> f]
<1> DEFINE e == Encoded(f.op, f.fin, f.id)
<1>1. f = [op |-> f.op, fin |-> f.fin, id |-> f.id]
  BY DEF Frames
<1>2. \A i \in 1 .. 3 : [part |-> Parts[i], frame |-> f] \in FrameParts
  <2>1. \A i \in 1 .. 3 : Parts[i] \in {"head", "mask", "payload"}
    BY DEF Parts
  <2> QED BY <2>1 DEF FrameParts
<1>3. /\ DOMAIN e = 1 .. 3
      /\ \A i \in 1 .. 3 : e[i] = [part |-> Parts[i], frame |-> f]
      /\ e = [i \in 1 .. 3 |-> e[i]]
  BY <1>1 DEF Encoded
<1> HIDE DEF e
<1>4. e \in Seq(FrameParts) /\ Len(e) = 3
  BY <1>2, <1>3
<1>5. wire \in Seq(FrameParts) /\ transit \in Seq(FrameParts)
  BY DEF ReaderTypes
<1> DEFINE FP == FrameParts
           s == wire \o transit
           s2 == wire \o (transit \o e)
<1> HIDE DEF FP
<1>6. /\ s \in Seq(FP) /\ s2 \in Seq(FP)
      /\ Len(s2) = Len(s) + 3
      /\ \A i \in DOMAIN s : s2[i] = s[i]
      /\ \A i \in 1 .. 3 : s2[Len(s) + i] = e[i]
  <2>1. wire \in Seq(FP) /\ transit \in Seq(FP) /\ e \in Seq(FP)
    BY <1>4, <1>5 DEF FP
  <2>2. s \in Seq(FP) /\ transit \o e \in Seq(FP) /\ s2 = s \o e
    BY <2>1
  <2> HIDE DEF s, s2
  <2>3. /\ s \o e \in Seq(FP) /\ Len(s \o e) = Len(s) + Len(e)
        /\ \A i \in DOMAIN s : (s \o e)[i] = s[i]
        /\ \A i \in DOMAIN e : (s \o e)[Len(s) + i] = e[i]
    BY <2>1, <2>2, JoinedSequences
  <2> QED BY <1>3, <1>4, <2>2, <2>3
<1>7. Stream = s /\ Stream' = s2
  BY DEF Stream, e
<1> HIDE DEF s, s2
<1>8. Encoded(f.op, f.fin, f.id) \in Seq(FrameParts)
  BY <1>4 DEF e
<1> QED BY <1>3, <1>6, <1>7, <1>8 DEF FP

\* A part that is read came first.
LEMMA StreamTaken ==
  ASSUME ReaderTypes, wire # <<>>, wire' = Tail(wire), transit' = transit
  PROVE  /\ Stream \in Seq(FrameParts) /\ Stream' \in Seq(FrameParts)
         /\ wire' \in Seq(FrameParts)
         /\ Stream # <<>> /\ Stream[1] = Head(wire)
         /\ Len(Stream) = Len(Stream') + 1
         /\ \A i \in DOMAIN Stream' : i + 1 \in DOMAIN Stream /\ Stream'[i] = Stream[i + 1]
<1> DEFINE FP == FrameParts
           s == wire \o transit
           s2 == Tail(wire) \o transit
<1>1. wire \in Seq(FP) /\ transit \in Seq(FP)
  BY DEF ReaderTypes
<1> HIDE DEF FP
<1>2. /\ s \in Seq(FP) /\ s2 \in Seq(FP) /\ Tail(wire) \in Seq(FP)
      /\ s # <<>> /\ s[1] = Head(wire)
      /\ Len(s) = Len(s2) + 1
      /\ \A i \in DOMAIN s2 : i + 1 \in DOMAIN s /\ s2[i] = s[i + 1]
  BY <1>1
<1>3. Stream = s /\ Stream' = s2
  BY DEF Stream
<1> HIDE DEF s, s2
<1> QED BY <1>2, <1>3 DEF FP

\* What arrives was under way before.
LEMMA StreamArrives ==
  ASSUME ReaderTypes, Arrive
  PROVE  Stream' = Stream /\ wire' \in Seq(FrameParts) /\ transit' \in Seq(FrameParts)
<1> DEFINE FP == FrameParts
<1>1. wire \in Seq(FP) /\ transit \in Seq(FP) /\ transit # <<>>
  BY DEF ReaderTypes, Arrive
<1> HIDE DEF FP
<1>2. Append(wire, Head(transit)) \in Seq(FP) /\ Tail(transit) \in Seq(FP)
  BY <1>1
<1>3. IsSequence(wire) /\ IsSequence(transit)
  <2>1. \A s \in Seq(FP) : s \in Seq(ToSet(s))
    BY DEF ToSet
  <2> QED BY <1>1, <2>1 DEF IsSequence
<1>4. Append(wire, Head(transit)) \o Tail(transit) = wire \o transit
  BY <1>1, <1>3, NextIsMoved
<1> QED BY <1>2, <1>4 DEF Stream, Arrive, FP

\* The reader stays in step when the peer sends a frame.
LEMMA InStepGrows ==
  ASSUME ReaderTypes, InStep, NEW f \in Frames,
         wire' = wire, transit' = transit \o Encoded(f.op, f.fin, f.id), UNCHANGED <<part, frame>>
  PROVE  InStep'
<1> DEFINE s == Stream
           s2 == Stream'
           n == Len(s)
<1>1. /\ s \in Seq(FrameParts) /\ s2 \in Seq(FrameParts)
      /\ Len(s2) = n + 3
      /\ \A i \in DOMAIN s : s2[i] = s[i]
      /\ \A i \in 1 .. 3 : s2[n + i] = [part |-> Parts[i], frame |-> f]
  <2> HIDE DEF s, s2
  <2>1. wire' = wire /\ transit' = transit \o Encoded(f.op, f.fin, f.id)
    OBVIOUS
  <2> QED BY <2>1, StreamGrows DEF s, s2
<1>2. /\ s # <<>> => s[1].part = Parts[part]
      /\ part > 1 => s # <<>> /\ s[1].frame = frame
      /\ \A i \in 1 .. n - 1 :
             /\ s[i + 1].part = NextPart[s[i].part]
             /\ s[i].part # "payload" => s[i + 1].frame = s[i].frame
      /\ s # <<>> => s[n].part = "payload"
      /\ part \in 1 .. 3
  BY DEF InStep, ReaderTypes
<1> HIDE DEF s, s2
<1>3. n \in Nat /\ DOMAIN s = 1 .. n /\ (s # <<>> <=> n > 0) /\ s2 # <<>>
  BY <1>1
<1>4. /\ s2[n + 1].part = "head" /\ s2[n + 2].part = "mask" /\ s2[n + 3].part = "payload"
      /\ s2[n + 2].frame = s2[n + 1].frame /\ s2[n + 3].frame = s2[n + 2].frame
  BY <1>1 DEF Parts
<1>5. s2[1].part = Parts[part] /\ (part > 1 => s2[1].frame = frame)
  <2>1. CASE n > 0
    <3>1. 1 \in DOMAIN s /\ s # <<>>
      BY <1>3, <2>1
    <3> QED BY <1>1, <1>2, <3>1
  <2>2. CASE n = 0
    <3>1. part = 1
      BY <1>2, <1>3, <2>2
    <3> QED BY <1>3, <1>4, <2>2, <3>1 DEF Parts
  <2> QED BY <1>3, <2>1, <2>2
<1>6. ASSUME NEW i \in 1 .. (n + 3) - 1
      PROVE  /\ s2[i + 1].part = NextPart[s2[i].part]
             /\ s2[i].part # "payload" => s2[i + 1].frame = s2[i].frame
  <2>1. CASE i < n
    <3>1. i \in 1 .. n - 1 /\ i \in DOMAIN s /\ i + 1 \in DOMAIN s
      BY <1>3, <2>1
    <3> QED BY <1>1, <1>2, <3>1
  <2>2. CASE i = n
    <3>1. s2[i].part = "payload"
      <4>1. i \in DOMAIN s /\ s # <<>> /\ i = n
        BY <1>3, <2>2
      <4> QED BY <1>1, <1>2, <1>3, <2>2, <4>1, SMTT(30)
    <3> QED BY <1>4, <2>2, <3>1 DEF NextPart
  <2>3. CASE i = n + 1
    BY <1>4, <2>3 DEF NextPart
  <2>4. CASE i = n + 2
    BY <1>4, <2>4 DEF NextPart
  <2>5. i < n \/ i = n \/ i = n + 1 \/ i = n + 2
    <3> HIDE DEF n
    <3> QED BY <1>3
  <2> QED BY <2>1, <2>2, <2>3, <2>4, <2>5
<1>7. part' = part /\ frame' = frame
  OBVIOUS
<1> QED
  <2>1. /\ s2[1].part = Parts[part'] /\ (part' > 1 => s2 # <<>> /\ s2[1].frame = frame')
        /\ s2[Len(s2)].part = "payload"
        /\ \A i \in 1 .. Len(s2) - 1 :
               /\ s2[i + 1].part = NextPart[s2[i].part]
               /\ s2[i].part # "payload" => s2[i + 1].frame = s2[i].frame
    BY <1>1, <1>3, <1>4, <1>5, <1>6, <1>7
  <2> QED BY <2>1 DEF InStep, s2

\* And when it reads a part.
LEMMA InStepTaken ==
  ASSUME ReaderTypes, InStep, wire # <<>>, wire' = Tail(wire), transit' = transit,
         part' = IF part = 3 THEN 1 ELSE part + 1,
         frame' = IF part = 3 THEN NoFrame ELSE Head(wire).frame
  PROVE  InStep'
<1> DEFINE s == Stream
           s2 == Stream'
<1>1. /\ s \in Seq(FrameParts) /\ s2 \in Seq(FrameParts)
      /\ s # <<>> /\ s[1] = Head(wire)
      /\ Len(s) = Len(s2) + 1
      /\ \A i \in DOMAIN s2 : i + 1 \in DOMAIN s /\ s2[i] = s[i + 1]
  BY StreamTaken
<1>2. /\ s[1].part = Parts[part]
      /\ \A i \in 1 .. Len(s) - 1 :
             /\ s[i + 1].part = NextPart[s[i].part]
             /\ s[i].part # "payload" => s[i + 1].frame = s[i].frame
      /\ s[Len(s)].part = "payload"
      /\ part \in 1 .. 3
  BY <1>1 DEF InStep, ReaderTypes
<1> HIDE DEF s, s2
<1>3. /\ Len(s2) \in Nat /\ DOMAIN s2 = 1 .. Len(s2) /\ Len(s) \in Nat
      /\ (s2 # <<>> <=> Len(s2) > 0)
  BY <1>1
<1>4. ASSUME NEW i \in 1 .. Len(s2) - 1
      PROVE  /\ s2[i + 1].part = NextPart[s2[i].part]
             /\ s2[i].part # "payload" => s2[i + 1].frame = s2[i].frame
  <2>1. i + 1 \in 1 .. Len(s) - 1 /\ i \in DOMAIN s2 /\ i + 1 \in DOMAIN s2
    BY <1>1, <1>3
  <2> QED BY <1>1, <1>2, <2>1
<1>5. s2 # <<>> => s2[Len(s2)].part = "payload"
  BY <1>1, <1>2, <1>3
<1>6. s2 # <<>> => s2[1] = s[2] /\ s[2].part = NextPart[s[1].part]
                   /\ (s[1].part # "payload" => s[2].frame = s[1].frame)
  BY <1>1, <1>2, <1>3
<1>7. NextPart[Parts[part]] = Parts[part'] /\ part' \in 1 .. 3
  BY <1>2 DEF Parts, NextPart
<1>8. part' > 1 => part # 3 /\ Parts[part] # "payload" /\ frame' = s[1].frame
  BY <1>1, <1>2 DEF Parts
<1>9. part' > 1 => s2 # <<>>
  <2>1. s2 = <<>> => Len(s) = 1
    BY <1>1, <1>3
  <2> QED BY <1>2, <1>8, <2>1
<1>10. /\ s2 # <<>> => s2[1].part = Parts[part']
       /\ part' > 1 => s2 # <<>> /\ s2[1].frame = frame'
  BY <1>2, <1>6, <1>7, <1>8, <1>9
<1> QED BY <1>4, <1>5, <1>10 DEF InStep, s2

-----------------------------------------------------------------------------
(* What the peer sends. *)

\* A piece that is sent comes after all that were sent before; they keep their
\* marks, and the cursor its meaning.
Follows(j, f) ==
    /\ \A x \in Nat \X Nat : IsSent(sent', x) <=> IsSent(sent, x) \/ x = f.id
    /\ \A x \in Nat \X Nat : IsSent(sent, x) => Earlier(x, f.id)
    /\ \A x \in Nat \X Nat : IsSent(sent, x) =>
           (IsLast(sent, piece, x) <=> IsLast(sent', piece', x))
    /\ f.op = "data" <=> f.id[2] = 1
    /\ f.fin <=> IsLast(sent', piece', f.id)
    /\ Earlier(<<Len(delivered) + 1, j>>, f.id)
    /\ IF Len(delivered) + 1 \in DOMAIN sent'
       THEN /\ j <= Len(sent'[Len(delivered) + 1])
            /\ j > 0 => ~IsLast(sent', piece', <<Len(delivered) + 1, j>>)
       ELSE j = 0

\* Another piece is under way.
LEMMA PieceGrows ==
  ASSUME ReaderTypes, PiecesMarked, PiecesInOrder, NEW j \in Nat, Taken(j),
         NEW f \in Frames, f.op \in {"data", "continuation"},
         wire' = wire, transit' = transit \o Encoded(f.op, f.fin, f.id), UNCHANGED <<fragments, delivered>>,
         Follows(j, f)
  PROVE  PiecesMarked' /\ PiecesInOrder' /\ Taken(j)'
<1> DEFINE s == Stream
           s2 == Stream'
           n == Len(s)
           at == <<Len(delivered) + 1, j>>
<1>1. /\ s \in Seq(FrameParts) /\ s2 \in Seq(FrameParts)
      /\ Len(s2) = n + 3
      /\ \A i \in DOMAIN s : s2[i] = s[i]
      /\ \A i \in 1 .. 3 : s2[n + i] = [part |-> Parts[i], frame |-> f]
  <2> HIDE DEF s, s2
  <2>1. wire' = wire /\ transit' = transit \o Encoded(f.op, f.fin, f.id)
    OBVIOUS
  <2> QED BY <2>1, StreamGrows DEF s, s2
<1>2. /\ \A i \in DOMAIN s : HoldsPiece(s[i]) =>
             /\ IsSent(sent, s[i].frame.id)
             /\ s[i].frame.op = "data" <=> s[i].frame.id[2] = 1
             /\ s[i].frame.fin <=> IsLast(sent, piece, s[i].frame.id)
             /\ Earlier(at, s[i].frame.id)
      /\ \A i \in DOMAIN s, k \in DOMAIN s :
             i < k /\ HoldsPiece(s[i]) /\ HoldsPiece(s[k]) => Earlier(s[i].frame.id, s[k].frame.id)
      /\ \A x \in Nat \X Nat : IsSent(sent, x) /\ Earlier(at, x) =>
             \E i \in DOMAIN s : HoldsPiece(s[i]) /\ s[i].frame.id = x
      /\ fragments = <<>> \/ fragments = [p \in 1 .. j |-> <<at[1], p>>]
  BY DEF PiecesMarked, PiecesInOrder, Taken
<1> HIDE DEF s, s2
<1>3. n \in Nat /\ DOMAIN s = 1 .. n /\ DOMAIN s2 = 1 .. (n + 3)
  BY <1>1
<1>4. ASSUME NEW i \in DOMAIN s PROVE s[i].frame.id \in Nat \X Nat
  <2>1. s[i] \in FrameParts
    BY <1>1
  <2> QED BY <2>1 DEF FrameParts, Frames
<1>5. ASSUME NEW i \in DOMAIN s2, HoldsPiece(s2[i])
      PROVE  \/ i \in DOMAIN s /\ s2[i] = s[i] /\ HoldsPiece(s[i])
             \/ i = n + 3 /\ s2[i].frame = f
  <2>1. CASE i \in DOMAIN s
    BY <1>1, <1>5, <2>1
  <2>2. CASE i = n + 3
    <3>1. s2[n + 3] = [part |-> Parts[3], frame |-> f]
      BY <1>1
    <3> QED BY <2>2, <3>1
  <2>3. CASE i = n + 1 \/ i = n + 2
    <3>1. s2[n + 1].part = Parts[1] /\ s2[n + 2].part = Parts[2]
      BY <1>1
    <3> QED BY <1>5, <2>3, <3>1 DEF HoldsPiece, Parts
  <2> QED BY <1>3, <2>1, <2>2, <2>3
<1>6. n + 3 \in DOMAIN s2 /\ s2[n + 3].frame = f /\ HoldsPiece(s2[n + 3])
  <2>1. s2[n + 3] = [part |-> Parts[3], frame |-> f]
    BY <1>1
  <2> QED BY <1>3, <2>1 DEF HoldsPiece, Parts
<1>8. ASSUME NEW i \in DOMAIN s2, HoldsPiece(s2[i])
      PROVE  LET g == s2[i].frame
             IN  /\ IsSent(sent', g.id)
                 /\ g.op = "data" <=> g.id[2] = 1
                 /\ g.fin <=> IsLast(sent', piece', g.id)
                 /\ Earlier(at, g.id)
  <2>1. CASE i \in DOMAIN s /\ s2[i] = s[i] /\ HoldsPiece(s[i])
    <3>1. /\ IsSent(sent, s[i].frame.id)
          /\ s[i].frame.op = "data" <=> s[i].frame.id[2] = 1
          /\ s[i].frame.fin <=> IsLast(sent, piece, s[i].frame.id)
          /\ Earlier(at, s[i].frame.id)
      BY <1>2, <2>1
    <3>2. s[i].frame.id \in Nat \X Nat
      BY <1>4, <2>1
    <3>3. /\ IsSent(sent', s[i].frame.id)
          /\ IsLast(sent, piece, s[i].frame.id) <=> IsLast(sent', piece', s[i].frame.id)
      BY <3>1, <3>2 DEF Follows
    <3> QED BY <2>1, <3>1, <3>3
  <2>2. CASE s2[i].frame = f
    <3>1. f.id \in Nat \X Nat
      BY DEF Frames
    <3> QED BY <2>2, <3>1, SMTT(30) DEF Follows
  <2> QED BY <1>5, <1>8, <2>1, <2>2
<1>9. PiecesMarked'
  BY <1>8 DEF PiecesMarked, s2, HoldsPiece, IsSent, IsLast
<1>10. ASSUME NEW i \in DOMAIN s2, NEW k \in DOMAIN s2, i < k, HoldsPiece(s2[i]), HoldsPiece(s2[k])
       PROVE  Earlier(s2[i].frame.id, s2[k].frame.id)
  <2>1. i \in DOMAIN s /\ s2[i] = s[i] /\ HoldsPiece(s[i])
    BY <1>3, <1>5, <1>10
  <2>2. CASE k \in DOMAIN s /\ s2[k] = s[k] /\ HoldsPiece(s[k])
    BY <1>2, <1>10, <2>1, <2>2
  <2>3. CASE s2[k].frame = f
    BY <1>2, <1>4, <2>1, <2>3 DEF Follows
  <2> QED BY <1>5, <1>10, <2>2, <2>3
<1>11. PiecesInOrder'
  BY <1>10 DEF PiecesInOrder, s2, HoldsPiece
<1>12. ASSUME NEW x \in Nat \X Nat, IsSent(sent', x), Earlier(at, x)
       PROVE  \E i \in DOMAIN s2 : HoldsPiece(s2[i]) /\ s2[i].frame.id = x
  <2>1. CASE x = f.id
    BY <1>6, <2>1
  <2>2. CASE IsSent(sent, x)
    <3>1. PICK i \in DOMAIN s : HoldsPiece(s[i]) /\ s[i].frame.id = x
      BY <1>2, <1>12, <2>2
    <3> QED BY <1>1, <1>3, <3>1
  <2> QED BY <1>12, <2>1, <2>2 DEF Follows
<1>13. delivered' = delivered /\ fragments' = fragments
  OBVIOUS
<1>14. Taken(j)'
  <2>1. /\ IF at[1] \in DOMAIN sent'
           THEN j <= Len(sent'[at[1]]) /\ (j > 0 => ~IsLast(sent', piece', at))
           ELSE j = 0
        /\ fragments' = <<>> \/ fragments' = [p \in 1 .. j |-> <<at[1], p>>]
        /\ \A i \in DOMAIN s2 : HoldsPiece(s2[i]) => Earlier(at, s2[i].frame.id)
        /\ \A x \in Nat \X Nat : IsSent(sent', x) /\ Earlier(at, x) =>
               \E i \in DOMAIN s2 : HoldsPiece(s2[i]) /\ s2[i].frame.id = x
    BY <1>2, <1>8, <1>12, <1>13 DEF Follows
  <2>2. at = <<Len(delivered') + 1, j>>
    BY <1>13
  <2> HIDE DEF at
  <2> QED BY <2>1, <2>2 DEF Taken, s2, HoldsPiece, IsSent, IsLast, Earlier
<1> QED BY <1>9, <1>11, <1>14

\* A control frame is no piece.
LEMMA OtherGrows ==
  ASSUME ReaderTypes, PiecesMarked, PiecesInOrder, NEW j \in Nat, Taken(j),
         NEW f \in Frames, f.op \in {"ping", "pong"},
         wire' = wire, transit' = transit \o Encoded(f.op, f.fin, f.id),
         UNCHANGED <<fragments, delivered, sent, piece>>
  PROVE  PiecesMarked' /\ PiecesInOrder' /\ Taken(j)'
<1> DEFINE s == Stream
           s2 == Stream'
           n == Len(s)
<1>1. /\ s \in Seq(FrameParts) /\ s2 \in Seq(FrameParts)
      /\ Len(s2) = n + 3
      /\ \A i \in DOMAIN s : s2[i] = s[i]
      /\ \A i \in 1 .. 3 : s2[n + i] = [part |-> Parts[i], frame |-> f]
  <2> HIDE DEF s, s2
  <2>1. wire' = wire /\ transit' = transit \o Encoded(f.op, f.fin, f.id)
    OBVIOUS
  <2> QED BY <2>1, StreamGrows DEF s, s2
<1>2. /\ \A i \in DOMAIN s : HoldsPiece(s[i]) =>
             LET g == s[i].frame
             IN  /\ IsSent(sent, g.id)
                 /\ g.op = "data" <=> g.id[2] = 1
                 /\ g.fin <=> IsLast(sent, piece, g.id)
      /\ \A i \in DOMAIN s, k \in DOMAIN s :
             i < k /\ HoldsPiece(s[i]) /\ HoldsPiece(s[k]) => Earlier(s[i].frame.id, s[k].frame.id)
  BY DEF PiecesMarked, PiecesInOrder
<1> HIDE DEF s, s2
<1>3. n \in Nat /\ DOMAIN s = 1 .. n /\ DOMAIN s2 = 1 .. (n + 3)
  BY <1>1
<1>4. ASSUME NEW i \in DOMAIN s2, HoldsPiece(s2[i])
      PROVE  i \in DOMAIN s /\ s2[i] = s[i]
  <2>1. CASE i \in DOMAIN s
    BY <1>1, <2>1
  <2>2. CASE i \notin DOMAIN s
    <3>1. \A k \in 1 .. 3 : s2[n + k].frame.op = f.op
      BY <1>1
    <3>2. i = n + 1 \/ i = n + 2 \/ i = n + 3
      BY <1>3, <2>2
    <3> QED BY <1>4, <3>1, <3>2 DEF HoldsPiece
  <2> QED BY <2>1, <2>2
<1>5. ASSUME NEW i \in DOMAIN s PROVE i \in DOMAIN s2 /\ s2[i] = s[i]
  BY <1>1, <1>3
<1>6. PiecesMarked'
  <2>1. \A i \in DOMAIN s2 : HoldsPiece(s2[i]) =>
             LET g == s2[i].frame
             IN  /\ IsSent(sent, g.id)
                 /\ g.op = "data" <=> g.id[2] = 1
                 /\ g.fin <=> IsLast(sent, piece, g.id)
    BY <1>2, <1>4
  <2> QED BY <2>1 DEF PiecesMarked, s2, HoldsPiece, IsSent, IsLast
<1>7. PiecesInOrder'
  BY <1>2, <1>4 DEF PiecesInOrder, s2, HoldsPiece
<1>8. Taken(j)'
  <2> DEFINE at == <<Len(delivered) + 1, j>>
  <2>1. /\ IF at[1] \in DOMAIN sent
           THEN j <= Len(sent[at[1]]) /\ (j > 0 => ~IsLast(sent, piece, at))
           ELSE j = 0
        /\ fragments = <<>> \/ fragments = [p \in 1 .. j |-> <<at[1], p>>]
        /\ \A i \in DOMAIN s : HoldsPiece(s[i]) => Earlier(at, s[i].frame.id)
        /\ \A x \in Nat \X Nat : IsSent(sent, x) /\ Earlier(at, x) =>
               \E i \in DOMAIN s : HoldsPiece(s[i]) /\ s[i].frame.id = x
    BY DEF Taken, s
  <2>2. \A i \in DOMAIN s2 : HoldsPiece(s2[i]) => Earlier(at, s2[i].frame.id)
    BY <1>4, <2>1
  <2>3. \A x \in Nat \X Nat : IsSent(sent, x) /\ Earlier(at, x) =>
             \E i \in DOMAIN s2 : HoldsPiece(s2[i]) /\ s2[i].frame.id = x
    BY <1>5, <2>1
  <2>4. delivered' = delivered /\ fragments' = fragments /\ sent' = sent /\ piece' = piece
    OBVIOUS
  <2>5. at = <<Len(delivered') + 1, j>>
    BY <2>4
  <2> HIDE DEF at
  <2> QED BY <2>1, <2>2, <2>3, <2>4, <2>5 DEF Taken, s2, HoldsPiece, IsSent, IsLast, Earlier
<1> QED BY <1>6, <1>7, <1>8

\* A message begins: its first piece follows.
LEMMA FirstFollows ==
  ASSUME ReaderTypes, SentInOrder, DeliveredAsSent, NEW j \in Nat, Taken(j),
         NEW fin \in BOOLEAN, SendFirst(fin)
  PROVE  /\ Follows(j, [op |-> "data", fin |-> fin, id |-> <<Len(sent) + 1, 1>>])
         /\ sent' \in Seq(Seq(Nat \X Nat)) /\ SentInOrder' /\ DeliveredAsSent'
<1> DEFINE n == Len(sent)
           id == <<n + 1, 1>>
           f == [op |-> "data", fin |-> fin, id |-> id]
<1>1. /\ sent \in Seq(Seq(Nat \X Nat)) /\ n \in Nat /\ DOMAIN sent = 1 .. n
      /\ delivered \in Seq(Seq(Nat \X Nat)) /\ Len(delivered) \in 0 .. n
      /\ DOMAIN delivered = 1 .. Len(delivered)
      /\ piece = 0 /\ piece' = (IF fin THEN 0 ELSE 1) /\ delivered' = delivered
      /\ sent' = Append(sent, <<id>>)
  BY DEF ReaderTypes, DeliveredAsSent, SendFirst
<1>2. /\ id \in Nat \X Nat /\ id[1] = n + 1 /\ id[2] = 1
      /\ <<id>> \in Seq(Nat \X Nat) /\ Len(<<id>>) = 1 /\ DOMAIN <<id>> = 1 .. 1
      /\ <<id>> = [p \in 1 .. 1 |-> <<n + 1, p>>]
  BY <1>1
<1>3. f.op = "data" /\ f.fin = fin /\ f.id = id
  OBVIOUS
<1> HIDE DEF id, f
<1>4. /\ sent' \in Seq(Seq(Nat \X Nat)) /\ Len(sent') = n + 1 /\ DOMAIN sent' = 1 .. (n + 1)
      /\ \A m \in 1 .. n : sent'[m] = sent[m]
      /\ sent'[n + 1] = <<id>>
  BY <1>1, <1>2
<1> HIDE DEF n
<1>5. \A m \in 1 .. n : /\ sent[m] \in Seq(Nat \X Nat) /\ Len(sent[m]) \in Nat
                        /\ DOMAIN sent[m] = 1 .. Len(sent[m])
                        /\ Len(sent[m]) > 0
                        /\ sent[m] = [p \in 1 .. Len(sent[m]) |-> <<m, p>>]
  <2>1. ASSUME NEW m \in 1 .. n PROVE sent[m] \in Seq(Nat \X Nat)
    <3> DEFINE S == Seq(Nat \X Nat)
    <3>1. sent \in Seq(S) /\ m \in DOMAIN sent
      BY <1>1
    <3> HIDE DEF S
    <3>2. sent[m] \in S
      BY <3>1
    <3> QED BY <3>2 DEF S
  <2>2. \A m \in 1 .. n : Len(sent[m]) > 0 /\ sent[m] = [p \in 1 .. Len(sent[m]) |-> <<m, p>>]
    BY <1>1 DEF SentInOrder
  <2> QED BY <2>1, <2>2
<1>6. SentInOrder'
  <2>1. ASSUME NEW m \in 1 .. (n + 1)
        PROVE  Len(sent'[m]) > 0 /\ sent'[m] = [p \in 1 .. Len(sent'[m]) |-> <<m, p>>]
    <3>1. CASE m = n + 1
      <4>1. sent'[m] = <<id>> /\ Len(sent'[m]) = 1
        BY <1>2, <1>4, <3>1
      <4> QED BY <1>2, <3>1, <4>1
    <3>2. CASE m # n + 1
      <4>1. m \in 1 .. n
        BY <1>1, <3>2
      <4> QED BY <1>4, <1>5, <4>1
    <3> QED BY <3>1, <3>2
  <2>2. piece' > 0 => sent' # <<>> /\ piece' = Len(sent'[Len(sent')])
    BY <1>1, <1>2, <1>4
  <2> QED BY <1>4, <2>1, <2>2 DEF SentInOrder
<1>7. DeliveredAsSent'
  BY <1>1, <1>4 DEF DeliveredAsSent
<1>8. ASSUME NEW x \in Nat \X Nat
      PROVE  /\ IsSent(sent', x) <=> IsSent(sent, x) \/ x = id
             /\ IsSent(sent, x) => Earlier(x, id)
             /\ IsSent(sent, x) => (IsLast(sent, piece, x) <=> IsLast(sent', piece', x))
  <2>1. IsSent(sent, x) => x[1] \in 1 .. n
    BY <1>1 DEF IsSent
  <2>2. x = id <=> x[1] = n + 1 /\ x[2] = 1
    BY <1>2
  <2>3. IsSent(sent', x) <=> IsSent(sent, x) \/ x = id
    <3>1. CASE x[1] = n + 1
      BY <1>1, <1>2, <1>4, <2>1, <2>2, <3>1 DEF IsSent
    <3>2. CASE x[1] # n + 1
      <4>1. x[1] \in 1 .. (n + 1) <=> x[1] \in 1 .. n
        BY <1>1, <3>2
      <4> QED BY <1>1, <1>4, <2>2, <3>2, <4>1 DEF IsSent
    <3> QED BY <3>1, <3>2
  <2>4. IsSent(sent, x) => Earlier(x, id)
    BY <1>1, <1>2, <2>1 DEF Earlier
  <2>5. IsSent(sent, x) => (IsLast(sent, piece, x) <=> IsLast(sent', piece', x))
    <3>1. ASSUME IsSent(sent, x) PROVE x[1] < n + 1 /\ sent'[x[1]] = sent[x[1]]
      BY <1>1, <1>4, <2>1, <3>1
    <3> QED BY <1>1, <1>4, <3>1 DEF IsLast
  <2> QED BY <2>3, <2>4, <2>5
<1>9. fin <=> IsLast(sent', piece', id)
  BY <1>1, <1>2, <1>4 DEF IsLast
<1> DEFINE k == Len(delivered) + 1
           at == <<k, j>>
<1>10. /\ IF k \in 1 .. n THEN j <= Len(sent[k]) /\ (j > 0 => ~IsLast(sent, piece, at)) ELSE j = 0
       /\ at[1] = k /\ at[2] = j /\ k \in 1 .. (n + 1)
  <2>1. at[1] = k /\ at[2] = j /\ k \in 1 .. (n + 1)
    BY <1>1
  <2> QED BY <1>1, <2>1 DEF Taken
<1> HIDE DEF k, at
<1>11. Earlier(at, id)
  BY <1>1, <1>2, <1>10 DEF Earlier
<1>12. j <= Len(sent'[k]) /\ (j > 0 => ~IsLast(sent', piece', at))
  <2>1. CASE k \in 1 .. n
    <3>1. sent'[k] = sent[k] /\ k < n + 1
      BY <1>1, <1>4, <2>1
    <3>2. IsLast(sent, piece, at) <=> IsLast(sent', piece', at)
      BY <1>1, <1>4, <1>10, <3>1 DEF IsLast
    <3> QED BY <1>10, <2>1, <3>1, <3>2
  <2>2. CASE k \notin 1 .. n
    BY <1>1, <1>2, <1>4, <1>10, <2>2
  <2> QED BY <2>1, <2>2
<1>13. k \in DOMAIN sent'
  BY <1>4, <1>10
<1>14. Follows(j, f)
  BY <1>3, <1>8, <1>9, <1>2, <1>11, <1>12, <1>13 DEF Follows, k, at
<1> QED BY <1>4, <1>6, <1>7, <1>14 DEF f, id, n

\* It continues: the next piece follows.
LEMMA ContinuationFollows ==
  ASSUME ReaderTypes, SentInOrder, DeliveredAsSent, NEW j \in Nat, Taken(j),
         NEW fin \in BOOLEAN, SendContinuation(fin)
  PROVE  /\ Follows(j, [op |-> "continuation", fin |-> fin, id |-> <<Len(sent), piece + 1>>])
         /\ sent' \in Seq(Seq(Nat \X Nat)) /\ SentInOrder' /\ DeliveredAsSent'
<1> DEFINE n == Len(sent)
           id == <<n, piece + 1>>
           f == [op |-> "continuation", fin |-> fin, id |-> id]
<1>1. /\ sent \in Seq(Seq(Nat \X Nat)) /\ n \in Nat \ {0} /\ DOMAIN sent = 1 .. n
      /\ delivered \in Seq(Seq(Nat \X Nat)) /\ Len(delivered) \in 0 .. n - 1
      /\ DOMAIN delivered = 1 .. Len(delivered)
      /\ piece \in Nat \ {0} /\ piece' = (IF fin THEN 0 ELSE piece + 1) /\ delivered' = delivered
      /\ sent' = [sent EXCEPT ![n] = Append(@, id)]
      /\ piece = Len(sent[n])
  BY SMTT(30) DEF ReaderTypes, DeliveredAsSent, SentInOrder, SendContinuation
<1>2. id \in Nat \X Nat /\ id[1] = n /\ id[2] = piece + 1
  BY <1>1
<1>3. f.op = "continuation" /\ f.fin = fin /\ f.id = id
  OBVIOUS
<1>4. \A m \in 1 .. n : /\ sent[m] \in Seq(Nat \X Nat) /\ Len(sent[m]) \in Nat
                        /\ DOMAIN sent[m] = 1 .. Len(sent[m])
                        /\ Len(sent[m]) > 0
                        /\ sent[m] = [p \in 1 .. Len(sent[m]) |-> <<m, p>>]
  <2>1. ASSUME NEW m \in 1 .. n PROVE sent[m] \in Seq(Nat \X Nat)
    <3> DEFINE S == Seq(Nat \X Nat)
    <3>1. sent \in Seq(S) /\ m \in DOMAIN sent
      BY <1>1
    <3> HIDE DEF S
    <3>2. sent[m] \in S
      BY <3>1
    <3> QED BY <3>2 DEF S
  <2>2. \A m \in 1 .. n : Len(sent[m]) > 0 /\ sent[m] = [p \in 1 .. Len(sent[m]) |-> <<m, p>>]
    BY <1>1 DEF SentInOrder
  <2>3. \A x \in Seq(Nat \X Nat) : Len(x) \in Nat /\ DOMAIN x = 1 .. Len(x)
    OBVIOUS
  <2> QED BY <2>1, <2>2, <2>3
<1> HIDE DEF f
<1>5. /\ Append(sent[n], id) \in Seq(Nat \X Nat) /\ Len(Append(sent[n], id)) = piece + 1
      /\ DOMAIN Append(sent[n], id) = 1 .. (piece + 1)
      /\ Append(sent[n], id) = [p \in 1 .. (piece + 1) |-> <<n, p>>]
  <2> DEFINE a == Append(sent[n], id)
  <2>1. sent[n] \in Seq(Nat \X Nat) /\ Len(sent[n]) = piece
        /\ sent[n] = [p \in 1 .. piece |-> <<n, p>>]
    <3>1. n \in 1 .. n
      BY <1>1
    <3> HIDE DEF n
    <3> QED BY <1>1, <1>4, <3>1
  <2> HIDE DEF id
  <2>2. /\ a \in Seq(Nat \X Nat) /\ Len(a) = piece + 1 /\ DOMAIN a = 1 .. (piece + 1)
        /\ \A p \in 1 .. piece : a[p] = sent[n][p]
        /\ a[piece + 1] = id
    BY <1>1, <1>2, <2>1
  <2>3. \A p \in 1 .. (piece + 1) : a[p] = <<n, p>>
    <3>1. \A p \in 1 .. piece : a[p] = <<n, p>>
      BY <2>1, <2>2
    <3>2. a[piece + 1] = <<n, piece + 1>>
      BY <2>2 DEF id
    <3>3. \A p \in 1 .. (piece + 1) : p \in 1 .. piece \/ p = piece + 1
      BY <1>1
    <3> QED BY <3>1, <3>2, <3>3
  <2>4. a = [p \in 1 .. (piece + 1) |-> a[p]]
    <3> HIDE DEF a
    <3> QED BY <2>2
  <2> HIDE DEF a
  <2>5. a = [p \in 1 .. (piece + 1) |-> <<n, p>>]
    BY <2>3, <2>4
  <2> QED BY <2>2, <2>5 DEF a
<1> HIDE DEF id
<1>6. /\ sent' \in Seq(Seq(Nat \X Nat)) /\ Len(sent') = n /\ DOMAIN sent' = 1 .. n
      /\ \A m \in 1 .. n : m # n => sent'[m] = sent[m]
      /\ sent'[n] = Append(sent[n], id)
  <2>1. n \in DOMAIN sent
    BY <1>1
  <2> DEFINE S == Seq(Nat \X Nat)
  <2>2. sent \in Seq(S) /\ Append(sent[n], id) \in S
    BY <1>1, <1>5
  <2> HIDE DEF S
  <2>3. [sent EXCEPT ![n] = Append(sent[n], id)] \in Seq(S)
    BY <2>1, <2>2
  <2>4. sent' \in Seq(S) /\ DOMAIN sent' = DOMAIN sent
    BY <1>1, <2>3
  <2>5. Len(sent') = n
    BY <1>1, <2>4
  <2>6. sent'[n] = Append(sent[n], id) /\ \A m \in 1 .. n : m # n => sent'[m] = sent[m]
    BY <1>1, <2>1
  <2> QED BY <1>1, <2>4, <2>5, <2>6 DEF S
<1> HIDE DEF n
<1>7. SentInOrder'
  <2>1. ASSUME NEW m \in 1 .. n
        PROVE  Len(sent'[m]) > 0 /\ sent'[m] = [p \in 1 .. Len(sent'[m]) |-> <<m, p>>]
    <3>1. CASE m = n
      BY <1>1, <1>5, <1>6, <3>1
    <3>2. CASE m # n
      BY <1>4, <1>6, <3>2
    <3> QED BY <3>1, <3>2
  <2>2. piece' > 0 => sent' # <<>> /\ piece' = Len(sent'[Len(sent')])
    <3>1. Len(sent') # 0
      BY <1>1, <1>6
    <3> QED BY <1>1, <1>5, <1>6, <3>1
  <2> QED BY <1>6, <2>1, <2>2 DEF SentInOrder
<1>8. DeliveredAsSent'
  <2>1. \A m \in DOMAIN delivered : m \in 1 .. n /\ m # n
    <3>1. Len(delivered) \in 0 .. n - 1 /\ DOMAIN delivered = 1 .. Len(delivered) /\ n \in Nat
      BY <1>1
    <3> QED BY <3>1
  <2>2. \A m \in DOMAIN delivered : sent'[m] = sent[m]
    <3>1. \A m \in 1 .. n : m # n => sent'[m] = sent[m]
      BY <1>6
    <3> QED BY <2>1, <3>1
  <2>3. /\ Len(delivered) <= Len(sent) /\ (piece > 0 => Len(delivered) < Len(sent))
        /\ \A m \in DOMAIN delivered : delivered[m] = sent[m]
    BY DEF DeliveredAsSent
  <2>4. Len(delivered) < Len(sent') /\ delivered' = delivered
    BY <1>1, <1>6
  <2> QED BY <2>2, <2>3, <2>4 DEF DeliveredAsSent
<1>9. ASSUME NEW x \in Nat \X Nat
      PROVE  /\ IsSent(sent', x) <=> IsSent(sent, x) \/ x = id
             /\ IsSent(sent, x) => Earlier(x, id)
             /\ IsSent(sent, x) => (IsLast(sent, piece, x) <=> IsLast(sent', piece', x))
  <2>1. x = id <=> x[1] = n /\ x[2] = piece + 1
    BY <1>2
  <2>2. CASE x[1] = n
    <3>1. IsSent(sent, x) <=> x[2] \in 1 .. piece
      <4>1. n \in DOMAIN sent /\ DOMAIN sent[n] = 1 .. piece
        BY <1>1, <1>4
      <4> QED BY <2>2, <4>1 DEF IsSent
    <3>2. IsSent(sent', x) <=> x[2] \in 1 .. (piece + 1)
      BY <1>1, <1>5, <1>6, <2>2 DEF IsSent
    <3>3. IsSent(sent, x) => ~IsLast(sent, piece, x) /\ ~IsLast(sent', piece', x)
      BY <1>1, <1>5, <1>6, <2>2, <3>1 DEF IsLast
    <3>4. x[2] \in 1 .. (piece + 1) <=> x[2] \in 1 .. piece \/ x[2] = piece + 1
      BY <1>1
    <3> QED BY <1>1, <1>2, <2>1, <2>2, <3>1, <3>2, <3>3, <3>4 DEF Earlier
  <2>3. CASE x[1] # n
    <3>1. IsSent(sent, x) <=> IsSent(sent', x)
      BY <1>1, <1>6, <2>3 DEF IsSent
    <3>2. IsSent(sent, x) => x[1] \in 1 .. n /\ sent'[x[1]] = sent[x[1]] /\ x[1] < n
      BY <1>1, <1>6, <2>3 DEF IsSent
    <3>3. IsSent(sent, x) => (IsLast(sent, piece, x) <=> IsLast(sent', piece', x))
      BY <1>1, <1>6, <3>2 DEF IsLast, n
    <3> QED BY <1>2, <2>1, <2>3, <3>1, <3>2, <3>3 DEF Earlier
  <2> QED BY <2>2, <2>3
<1>10. fin <=> IsLast(sent', piece', id)
  BY <1>1, <1>2, <1>5, <1>6 DEF IsLast
<1> DEFINE k == Len(delivered) + 1
           at == <<k, j>>
<1>11. /\ j <= Len(sent[k]) /\ (j > 0 => ~IsLast(sent, piece, at))
       /\ at[1] = k /\ at[2] = j /\ k \in 1 .. n
  <2>1. at[1] = k /\ at[2] = j /\ k \in 1 .. n
    BY <1>1
  <2> QED BY <1>1, <2>1 DEF Taken
<1> HIDE DEF k, at
<1>12. Earlier(at, id)
  BY <1>1, <1>2, <1>11 DEF Earlier
<1>13. j <= Len(sent'[k]) /\ (j > 0 => ~IsLast(sent', piece', at))
  <2>1. CASE k = n
    BY <1>1, <1>5, <1>6, <1>11, <2>1 DEF IsLast
  <2>2. CASE k # n
    <3>1. sent'[k] = sent[k] /\ k < n
      BY <1>1, <1>6, <1>11, <2>2
    <3>2. IsLast(sent, piece, at) <=> IsLast(sent', piece', at)
      BY <1>6, <1>11, <3>1 DEF IsLast, n
    <3> QED BY <1>11, <3>1, <3>2
  <2> QED BY <2>1, <2>2
<1>14. Follows(j, f)
  <2>1. k \in DOMAIN sent' /\ piece + 1 # 1
    BY <1>1, <1>6, <1>11
  <2> QED BY <1>2, <1>3, <1>9, <1>10, <1>12, <1>13, <2>1 DEF Follows, k, at
<1> QED BY <1>6, <1>7, <1>8, <1>14 DEF f, id, n

-----------------------------------------------------------------------------
(* What the reader does. *)

\* The pieces keep their marks and their order when a part is taken.
LEMMA PiecesTaken ==
  ASSUME ReaderTypes, PiecesMarked, PiecesInOrder, wire # <<>>,
         wire' = Tail(wire), transit' = transit, UNCHANGED <<sent, piece>>
  PROVE  PiecesMarked' /\ PiecesInOrder'
<1> DEFINE s == Stream
           s2 == Stream'
<1>1. /\ s \in Seq(FrameParts) /\ s2 \in Seq(FrameParts)
      /\ \A i \in DOMAIN s2 : i + 1 \in DOMAIN s /\ s2[i] = s[i + 1]
  BY StreamTaken
<1>2. /\ \A i \in DOMAIN s : HoldsPiece(s[i]) =>
             LET g == s[i].frame
             IN  /\ IsSent(sent, g.id)
                 /\ g.op = "data" <=> g.id[2] = 1
                 /\ g.fin <=> IsLast(sent, piece, g.id)
      /\ \A i \in DOMAIN s, k \in DOMAIN s :
             i < k /\ HoldsPiece(s[i]) /\ HoldsPiece(s[k]) => Earlier(s[i].frame.id, s[k].frame.id)
  BY DEF PiecesMarked, PiecesInOrder
<1> HIDE DEF s, s2
<1>3. \A i \in DOMAIN s2 : HoldsPiece(s2[i]) =>
           LET g == s2[i].frame
           IN  /\ IsSent(sent, g.id)
               /\ g.op = "data" <=> g.id[2] = 1
               /\ g.fin <=> IsLast(sent, piece, g.id)
  BY <1>1, <1>2
<1>4. ASSUME NEW i \in DOMAIN s2, NEW k \in DOMAIN s2, i < k, HoldsPiece(s2[i]), HoldsPiece(s2[k])
      PROVE  Earlier(s2[i].frame.id, s2[k].frame.id)
  <2>1. i + 1 \in DOMAIN s /\ k + 1 \in DOMAIN s /\ s2[i] = s[i + 1] /\ s2[k] = s[k + 1]
    BY <1>1
  <2>2. i + 1 < k + 1
    BY <1>1, <1>4
  <2> QED BY <1>2, <1>4, <2>1, <2>2
<1> QED BY <1>3, <1>4 DEF PiecesMarked, PiecesInOrder, s2

\* When a part is taken that is no piece, the same pieces are under way.
LEMMA OtherTaken ==
  ASSUME ReaderTypes, NEW j \in Nat, Taken(j), wire # <<>>, ~HoldsPiece(Head(wire)),
         wire' = Tail(wire), transit' = transit, UNCHANGED <<sent, piece, fragments, delivered>>
  PROVE  Taken(j)'
<1> DEFINE s == Stream
           s2 == Stream'
           at == <<Len(delivered) + 1, j>>
<1>1. /\ s \in Seq(FrameParts) /\ s2 \in Seq(FrameParts) /\ s[1] = Head(wire)
      /\ Len(s) = Len(s2) + 1
      /\ \A i \in DOMAIN s2 : i + 1 \in DOMAIN s /\ s2[i] = s[i + 1]
  BY StreamTaken
<1>2. /\ IF at[1] \in DOMAIN sent
         THEN j <= Len(sent[at[1]]) /\ (j > 0 => ~IsLast(sent, piece, at))
         ELSE j = 0
      /\ fragments = <<>> \/ fragments = [p \in 1 .. j |-> <<at[1], p>>]
      /\ \A i \in DOMAIN s : HoldsPiece(s[i]) => Earlier(at, s[i].frame.id)
      /\ \A x \in Nat \X Nat : IsSent(sent, x) /\ Earlier(at, x) =>
             \E i \in DOMAIN s : HoldsPiece(s[i]) /\ s[i].frame.id = x
  BY DEF Taken
<1> HIDE DEF s, s2
<1>3. \A i \in DOMAIN s2 : HoldsPiece(s2[i]) => Earlier(at, s2[i].frame.id)
  BY <1>1, <1>2
<1>4. ASSUME NEW x \in Nat \X Nat, IsSent(sent, x), Earlier(at, x)
      PROVE  \E i \in DOMAIN s2 : HoldsPiece(s2[i]) /\ s2[i].frame.id = x
  <2>1. PICK i \in DOMAIN s : HoldsPiece(s[i]) /\ s[i].frame.id = x
    BY <1>2, <1>4
  <2>2. i # 1
    BY <1>1, <2>1
  <2>3. i - 1 \in DOMAIN s2 /\ (i - 1) + 1 = i
    BY <1>1, <2>2
  <2> QED BY <1>1, <2>1, <2>3
<1>5. delivered' = delivered /\ fragments' = fragments /\ sent' = sent /\ piece' = piece
  OBVIOUS
<1>6. at = <<Len(delivered') + 1, j>>
  BY <1>5
<1> HIDE DEF at
<1> QED BY <1>2, <1>3, <1>4, <1>5, <1>6 DEF Taken, s2, HoldsPiece, IsSent, IsLast, Earlier

\* A piece that is read is the next one.
LEMMA NextIsRead ==
  ASSUME ReaderTypes, SentInOrder, DeliveredAsSent, PiecesMarked, PiecesInOrder,
         NEW j \in Nat, Taken(j), wire # <<>>, HoldsPiece(Head(wire))
  PROVE  Head(wire).frame.id = <<Len(delivered) + 1, j + 1>>
<1> DEFINE s == Stream
           k == Len(delivered) + 1
           at == <<k, j>>
           next == <<k, j + 1>>
           id == Head(wire).frame.id
<1>1. s \in Seq(FrameParts) /\ s # <<>> /\ s[1] = Head(wire)
  <2> DEFINE FP == FrameParts
  <2>1. wire \in Seq(FP) /\ transit \in Seq(FP)
    BY DEF ReaderTypes
  <2> HIDE DEF FP
  <2>2. s \in Seq(FP) /\ s # <<>> /\ s[1] = Head(wire)
    BY <2>1 DEF Stream
  <2> QED BY <2>2 DEF FP
<1>2. /\ IsSent(sent, id) /\ Earlier(at, id)
      /\ \A i \in DOMAIN s : 1 < i /\ HoldsPiece(s[i]) => Earlier(id, s[i].frame.id)
      /\ IF k \in DOMAIN sent THEN j <= Len(sent[k]) /\ (j > 0 => ~IsLast(sent, piece, at)) ELSE j = 0
      /\ \A x \in Nat \X Nat : IsSent(sent, x) /\ Earlier(at, x) =>
             \E i \in DOMAIN s : HoldsPiece(s[i]) /\ s[i].frame.id = x
  <2>1. 1 \in DOMAIN s
    BY <1>1
  <2> QED BY <1>1, <2>1 DEF PiecesMarked, PiecesInOrder, Taken
<1> HIDE DEF s
<1>3. id \in Nat \X Nat
  <2>1. s[1] \in FrameParts
    BY <1>1
  <2> QED BY <1>1, <2>1 DEF FrameParts, Frames
<1>4. /\ k \in Nat /\ at[1] = k /\ at[2] = j /\ next[1] = k /\ next[2] = j + 1 /\ next \in Nat \X Nat
      /\ DOMAIN sent = 1 .. Len(sent) /\ Len(sent) \in Nat /\ k \in 1 .. (Len(sent) + 1)
  BY DEF ReaderTypes, DeliveredAsSent
<1>5. ASSUME NEW m \in DOMAIN sent PROVE Len(sent[m]) \in Nat /\ DOMAIN sent[m] = 1 .. Len(sent[m])
  <2> DEFINE S == Seq(Nat \X Nat)
  <2>1. sent \in Seq(S)
    BY DEF ReaderTypes
  <2> HIDE DEF S
  <2>2. sent[m] \in S
    BY <1>5, <2>1
  <2> QED BY <2>2 DEF S
<1> HIDE DEF id, at, next, k
<1>6. id[1] \in DOMAIN sent /\ id[2] \in 1 .. Len(sent[id[1]])
  BY <1>2, <1>5 DEF IsSent
<1>7. id[1] > k \/ (id[1] = k /\ id[2] > j)
  BY <1>2, <1>3, <1>4 DEF Earlier
<1>8. k \in DOMAIN sent
  BY <1>3, <1>4, <1>6, <1>7
<1>9. ASSUME id # next PROVE IsSent(sent, next)
  <2>1. CASE id[1] > k
    <3>1. k < Len(sent)
      BY <1>3, <1>4, <1>6, <2>1
    <3>2. 0 < j => j # Len(sent[k])
      BY <1>2, <1>4, <1>8, <3>1 DEF IsLast
    <3>3. Len(sent[k]) > 0
      BY <1>8 DEF SentInOrder
    <3> QED BY <1>2, <1>4, <1>5, <1>8, <3>2, <3>3 DEF IsSent
  <2>2. CASE id[1] = k
    <3>1. id[2] # j + 1
      BY <1>3, <1>4, <1>9, <2>2
    <3> QED BY <1>3, <1>4, <1>5, <1>6, <1>7, <1>8, <2>2, <3>1 DEF IsSent
  <2> QED BY <1>7, <2>1, <2>2
<1>10. ASSUME id # next PROVE FALSE
  <2>1. Earlier(at, next)
    BY <1>4 DEF Earlier
  <2>2. PICK i \in DOMAIN s : HoldsPiece(s[i]) /\ s[i].frame.id = next
    BY <1>2, <1>4, <1>9, <1>10, <2>1
  <2>3. i # 1
    BY <1>1, <1>10, <2>2 DEF id
  <2>4. Earlier(id, next)
    <3>1. 1 < i
      BY <1>1, <2>3
    <3> QED BY <1>2, <2>2, <3>1
  <2> QED BY <1>3, <1>4, <1>7, <2>4 DEF Earlier
<1> QED BY <1>10 DEF id, next, k

\* A piece is kept, ends its message, or is refused because those before it were
\* lost.
LEMMA PieceRead ==
  ASSUME ReaderTypes, SentInOrder, DeliveredAsSent, InStep, PiecesMarked, PiecesInOrder,
         NEW j \in Nat, Taken(j), ReadPayload, frame.op \in {"data", "continuation"}
  PROVE  /\ fragments' \in Seq(Nat \X Nat) /\ delivered' \in Seq(Seq(Nat \X Nat))
         /\ DeliveredAsSent'
         /\ phase' = "reading" => \E i \in Nat : Taken(i)'
<1> DEFINE s == Stream
           s2 == Stream'
           k == Len(delivered) + 1
           at == <<k, j>>
           id == <<k, j + 1>>
           message == [p \in 1 .. (j + 1) |-> <<k, p>>]
           kept == IF frame.op = "data" THEN <<>> ELSE fragments
           orphan == frame.op = "continuation" /\ fragments = <<>>
<1>1. /\ s \in Seq(FrameParts) /\ s2 \in Seq(FrameParts) /\ s # <<>> /\ s[1] = Head(wire)
      /\ Len(s) = Len(s2) + 1
      /\ \A i \in DOMAIN s2 : i + 1 \in DOMAIN s /\ s2[i] = s[i + 1]
  BY StreamTaken DEF ReadPayload
<1>2. /\ s[1].part = "payload" /\ s[1].frame = frame
      /\ HoldsPiece(s[1]) /\ 1 \in DOMAIN s
  BY <1>1 DEF InStep, ReadPayload, Parts, HoldsPiece
<1>3. frame.id = id
  BY <1>1, <1>2, NextIsRead DEF ReadPayload
<1>4. /\ IsSent(sent, id) /\ (frame.op = "data" <=> id[2] = 1)
      /\ (frame.fin <=> IsLast(sent, piece, id))
      /\ \A i \in DOMAIN s :
            1 < i /\ HoldsPiece(s[i]) => Earlier(id, s[i].frame.id) /\ IsSent(sent, s[i].frame.id)
      /\ fragments = <<>> \/ fragments = [p \in 1 .. j |-> <<k, p>>]
      /\ \A x \in Nat \X Nat : IsSent(sent, x) /\ Earlier(at, x) =>
             \E i \in DOMAIN s : HoldsPiece(s[i]) /\ s[i].frame.id = x
  <2>1. /\ IsSent(sent, frame.id) /\ (frame.op = "data" <=> frame.id[2] = 1)
        /\ (frame.fin <=> IsLast(sent, piece, frame.id))
    BY <1>2 DEF PiecesMarked
  <2>2. \A i \in DOMAIN s : 1 < i /\ HoldsPiece(s[i]) => Earlier(frame.id, s[i].frame.id)
    BY <1>2 DEF PiecesInOrder
  <2>3. \A i \in DOMAIN s : HoldsPiece(s[i]) => IsSent(sent, s[i].frame.id)
    BY DEF PiecesMarked
  <2>4. /\ fragments = <<>> \/ fragments = [p \in 1 .. j |-> <<k, p>>]
        /\ \A x \in Nat \X Nat : IsSent(sent, x) /\ Earlier(at, x) =>
               \E i \in DOMAIN s : HoldsPiece(s[i]) /\ s[i].frame.id = x
    BY DEF Taken
  <2> HIDE DEF s, id
  <2> QED BY <1>3, <2>1, <2>2, <2>3, <2>4
<1>5. /\ phase' = (IF orphan THEN "failed" ELSE "reading")
      /\ delivered' = IF frame.fin /\ ~orphan THEN Append(delivered, Append(kept, id)) ELSE delivered
      /\ fragments' = IF frame.fin \/ orphan THEN <<>> ELSE Append(kept, id)
      /\ sent' = sent /\ piece' = piece
  BY <1>3 DEF ReadPayload
<1>6. /\ k \in Nat /\ id[1] = k /\ id[2] = j + 1 /\ at[1] = k /\ at[2] = j /\ id \in Nat \X Nat
      /\ delivered \in Seq(Seq(Nat \X Nat)) /\ fragments \in Seq(Nat \X Nat)
      /\ Len(delivered) \in Nat /\ DOMAIN delivered = 1 .. Len(delivered)
      /\ DOMAIN sent = 1 .. Len(sent) /\ Len(sent) \in Nat
  BY DEF ReaderTypes
<1>7. ASSUME NEW m \in DOMAIN sent
      PROVE  /\ sent[m] \in Seq(Nat \X Nat) /\ Len(sent[m]) \in Nat /\ DOMAIN sent[m] = 1 .. Len(sent[m])
             /\ sent[m] = [p \in 1 .. Len(sent[m]) |-> <<m, p>>]
  <2> DEFINE S == Seq(Nat \X Nat)
  <2>1. sent \in Seq(S)
    BY DEF ReaderTypes
  <2> HIDE DEF S
  <2>2. sent[m] \in S
    BY <1>7, <2>1
  <2> QED BY <2>2 DEF S, SentInOrder
<1>8. k \in DOMAIN sent /\ j + 1 \in 1 .. Len(sent[k])
  BY <1>4, <1>6, <1>7 DEF IsSent
<1>9. ASSUME ~orphan PROVE Append(kept, id) = message /\ message \in Seq(Nat \X Nat)
  <2>1. kept \in Seq(Nat \X Nat) /\ Len(kept) = j /\ \A p \in 1 .. j : kept[p] = <<k, p>>
    <3>1. CASE frame.op = "data"
      <4>1. j = 0 /\ kept = <<>>
        BY <1>4, <1>6, <3>1
      <4> HIDE DEF kept
      <4> QED BY <4>1
    <3>2. CASE frame.op # "data"
      <4>1. kept = fragments /\ fragments = [p \in 1 .. j |-> <<k, p>>]
        BY <1>4, <1>9, <3>2
      <4>2. Len(fragments) = j
        BY <1>6, <4>1
      <4> QED BY <1>6, <4>1, <4>2
    <3> QED BY <3>1, <3>2
  <2> DEFINE a == Append(kept, id)
  <2> HIDE DEF kept, id
  <2>2. /\ a \in Seq(Nat \X Nat) /\ Len(a) = j + 1 /\ DOMAIN a = 1 .. (j + 1)
        /\ \A p \in 1 .. j : a[p] = <<k, p>>
        /\ a[j + 1] = id
    <3> DEFINE P == Nat \X Nat
    <3>1. kept \in Seq(P) /\ id \in P /\ Len(kept) = j /\ \A p \in 1 .. j : kept[p] = <<k, p>>
      BY <1>6, <2>1
    <3> HIDE DEF P
    <3>2. a \in Seq(P) /\ Len(a) = j + 1 /\ a[j + 1] = id /\ \A p \in 1 .. j : a[p] = kept[p]
      BY <3>1
    <3> QED BY <3>1, <3>2 DEF P
  <2>3. \A p \in 1 .. (j + 1) : a[p] = <<k, p>>
    <3>1. a[j + 1] = <<k, j + 1>>
      BY <2>2 DEF id
    <3>2. \A p \in 1 .. (j + 1) : p \in 1 .. j \/ p = j + 1
      OBVIOUS
    <3> QED BY <2>2, <3>1, <3>2
  <2>4. a = [p \in 1 .. (j + 1) |-> a[p]]
    <3> HIDE DEF a
    <3> QED BY <2>2
  <2> HIDE DEF a
  <2>5. a = message
    BY <2>3, <2>4
  <2> HIDE DEF message
  <2> QED BY <2>2, <2>5 DEF a
<1>10. ASSUME NEW i \in DOMAIN s2, HoldsPiece(s2[i])
       PROVE  Earlier(id, s2[i].frame.id) /\ IsSent(sent, s2[i].frame.id)
  <2>1. i + 1 \in DOMAIN s /\ s2[i] = s[i + 1] /\ 1 < i + 1
    BY <1>1
  <2> HIDE DEF s, s2
  <2> QED BY <1>4, <1>10, <2>1
<1>11. ASSUME NEW x \in Nat \X Nat, IsSent(sent, x), Earlier(id, x)
       PROVE  \E i \in DOMAIN s2 : HoldsPiece(s2[i]) /\ s2[i].frame.id = x
  <2>1. Earlier(at, x) /\ x # id
    BY <1>6, <1>11 DEF Earlier
  <2>2. PICK i \in DOMAIN s : HoldsPiece(s[i]) /\ s[i].frame.id = x
    BY <1>4, <1>11, <2>1
  <2> HIDE DEF s, s2, id
  <2>3. i # 1
    BY <1>2, <1>3, <2>1, <2>2
  <2>4. i - 1 \in DOMAIN s2 /\ (i - 1) + 1 = i
    BY <1>1, <2>3
  <2> QED BY <1>1, <2>2, <2>4
<1> HIDE DEF s, s2, message, kept, orphan, k, id, at
<1>12. CASE orphan
  <2>1. delivered' = delivered /\ fragments' = <<>> /\ phase' = "failed"
    BY <1>5, <1>12
  <2>2. DeliveredAsSent'
    BY <1>5, <2>1 DEF DeliveredAsSent
  <2> QED BY <1>6, <2>1, <2>2
<1>13. CASE ~orphan /\ ~frame.fin
  <2>1. delivered' = delivered /\ fragments' = message
    BY <1>5, <1>9, <1>13
  <2>2. Taken(j + 1)'
    <3>1. /\ k \in DOMAIN sent' /\ j + 1 <= Len(sent'[k]) /\ ~IsLast(sent', piece', id)
          /\ fragments' = [p \in 1 .. (j + 1) |-> <<k, p>>]
          /\ \A i \in DOMAIN s2 : HoldsPiece(s2[i]) => Earlier(id, s2[i].frame.id)
          /\ \A x \in Nat \X Nat : IsSent(sent', x) /\ Earlier(id, x) =>
                 \E i \in DOMAIN s2 : HoldsPiece(s2[i]) /\ s2[i].frame.id = x
      <4>1. sent' = sent /\ piece' = piece /\ ~IsLast(sent, piece, id)
        BY <1>4, <1>5, <1>13
      <4>2. j + 1 <= Len(sent[k])
        BY <1>7, <1>8
      <4> QED BY <1>8, <1>10, <1>11, <2>1, <4>1, <4>2 DEF message
    <3>2. id = <<Len(delivered') + 1, j + 1>> /\ id[1] = k
      BY <1>6, <2>1 DEF id, k
    <3> QED BY <3>1, <3>2 DEF Taken, s2, HoldsPiece, IsSent, IsLast, Earlier
  <2> QED BY <1>5, <1>6, <1>9, <1>13, <2>1, <2>2 DEF DeliveredAsSent
<1>14. CASE ~orphan /\ frame.fin
  <2>1. delivered' = Append(delivered, message) /\ fragments' = <<>>
    BY <1>5, <1>9, <1>14
  <2>2. IsLast(sent, piece, id)
    BY <1>4, <1>14
  <2>3. message = sent[k]
    <3>1. Len(sent[k]) = j + 1
      BY <1>6, <2>2 DEF IsLast
    <3> QED BY <1>7, <1>8, <3>1 DEF message
  <2>4. /\ delivered' \in Seq(Seq(Nat \X Nat)) /\ Len(delivered') = k /\ DOMAIN delivered' = 1 .. k
        /\ \A n \in DOMAIN delivered : delivered'[n] = delivered[n]
        /\ delivered'[k] = message
    BY <1>6, <1>9, <1>14, <2>1 DEF k
  <2>5. DeliveredAsSent'
    <3>1. k <= Len(sent) /\ (piece > 0 => k < Len(sent))
      BY <1>6, <1>8, <2>2 DEF IsLast, ReaderTypes
    <3>2. \A n \in 1 .. k : delivered'[n] = sent[n]
      <4>1. \A n \in DOMAIN delivered : delivered'[n] = sent[n]
        BY <2>4 DEF DeliveredAsSent
      <4>2. \A n \in 1 .. k : n \in DOMAIN delivered \/ n = k
        BY <1>6 DEF k
      <4> QED BY <2>3, <2>4, <4>1, <4>2
    <3> QED BY <1>5, <2>4, <3>1, <3>2 DEF DeliveredAsSent
  <2>6. Taken(0)'
    <3> DEFINE then == <<k + 1, 0>>
    <3>1. then[1] = k + 1 /\ then[2] = 0
      OBVIOUS
    <3>2. then = <<Len(delivered') + 1, 0>>
      BY <2>4
    <3> HIDE DEF then
    <3>3. ASSUME NEW x \in Nat \X Nat, IsSent(sent, x) PROVE Earlier(id, x) <=> Earlier(then, x)
      <4>1. x[1] = k => x[2] <= j + 1
        <5>1. Len(sent[k]) = j + 1
          BY <1>6, <2>2 DEF IsLast
        <5> QED BY <1>7, <3>3, <5>1 DEF IsSent
      <4>2. x[2] > 0
        BY <1>7, <3>3 DEF IsSent
      <4> QED BY <1>6, <3>1, <4>1, <4>2 DEF Earlier
    <3>4. ASSUME NEW i \in DOMAIN s2, HoldsPiece(s2[i]) PROVE Earlier(then, s2[i].frame.id)
      <4>1. s2[i] \in FrameParts
        BY <1>1
      <4>2. s2[i].frame.id \in Nat \X Nat
        BY <4>1 DEF FrameParts, Frames
      <4> QED BY <1>10, <3>3, <3>4, <4>2
    <3>5. /\ IF then[1] \in DOMAIN sent'
             THEN 0 <= Len(sent'[then[1]]) /\ (0 > 0 => ~IsLast(sent', piece', then))
             ELSE 0 = 0
          /\ fragments' = <<>>
          /\ \A i \in DOMAIN s2 : HoldsPiece(s2[i]) => Earlier(then, s2[i].frame.id)
          /\ \A x \in Nat \X Nat : IsSent(sent', x) /\ Earlier(then, x) =>
                 \E i \in DOMAIN s2 : HoldsPiece(s2[i]) /\ s2[i].frame.id = x
      BY <1>5, <1>7, <1>11, <2>1, <3>3, <3>4
    <3> QED BY <3>2, <3>5 DEF Taken, s2, HoldsPiece, IsSent, IsLast, Earlier
  <2> QED BY <2>1, <2>4, <2>5, <2>6
<1> QED BY <1>12, <1>13, <1>14

-----------------------------------------------------------------------------
(* The invariant. *)

\* While the reader reads and no frame was cut.
Reading ==
    /\ ReaderTypes /\ SentInOrder /\ DeliveredAsSent
    /\ InStep /\ PiecesMarked /\ PiecesInOrder
    /\ \E j \in Nat : Taken(j)

\* The peer sends a frame.
LEMMA SendingStep ==
  ASSUME Reading, phase = "reading",
         \/ \E fin \in BOOLEAN : SendFirst(fin) \/ SendContinuation(fin)
         \/ \E op \in {"ping", "pong"} : SendOther(op)
  PROVE  Reading'
<1>1. ReaderTypes /\ SentInOrder /\ DeliveredAsSent /\ InStep /\ PiecesMarked /\ PiecesInOrder
  BY DEF Reading
<1>2. PICK j \in Nat : Taken(j)
  BY DEF Reading
<1>3. Len(sent) \in Nat /\ piece \in Nat /\ others \in Nat
  BY <1>1 DEF ReaderTypes
<1>4. ASSUME NEW f \in Frames, wire' = wire, transit' = transit \o Encoded(f.op, f.fin, f.id)
      PROVE  wire' \in Seq(FrameParts) /\ transit' \in Seq(FrameParts)
  <2> DEFINE FP == FrameParts
             e == Encoded(f.op, f.fin, f.id)
  <2>1. wire \in Seq(FP) /\ transit \in Seq(FP) /\ e \in Seq(FP)
    BY <1>1, <1>4, StreamGrows DEF ReaderTypes
  <2> HIDE DEF FP, e
  <2>2. transit \o e \in Seq(FP)
    BY <2>1
  <2> QED BY <1>4, <2>1, <2>2 DEF FP, e
<1>5. ASSUME NEW f \in Frames, f.op \in {"data", "continuation"}, Follows(j, f),
             wire' = wire, transit' = transit \o Encoded(f.op, f.fin, f.id),
             UNCHANGED <<frame, part, fragments, phase, delivered>>,
             sent' \in Seq(Seq(Nat \X Nat)), piece' \in Nat, others' \in Nat, SentInOrder', DeliveredAsSent'
      PROVE  Reading'
  <2>1. ReaderTypes'
    BY <1>1, <1>4, <1>5 DEF ReaderTypes
  <2>2. InStep'
    BY <1>1, <1>5, InStepGrows
  <2>3. PiecesMarked' /\ PiecesInOrder' /\ Taken(j)'
    BY <1>1, <1>2, <1>5, PieceGrows
  <2> QED BY <1>5, <2>1, <2>2, <2>3 DEF Reading
<1>6. ASSUME NEW fin \in BOOLEAN, SendFirst(fin) PROVE Reading'
  <2> DEFINE f == [op |-> "data", fin |-> fin, id |-> <<Len(sent) + 1, 1>>]
  <2>1. f \in Frames /\ f.op = "data" /\ f.fin = fin /\ f.id = <<Len(sent) + 1, 1>>
    BY <1>3 DEF Frames, FrameOps
  <2>2. Follows(j, f) /\ sent' \in Seq(Seq(Nat \X Nat)) /\ SentInOrder' /\ DeliveredAsSent'
    BY <1>1, <1>2, <1>6, FirstFollows
  <2> HIDE DEF f
  <2>3. /\ wire' = wire /\ transit' = transit \o Encoded(f.op, f.fin, f.id) /\ piece' \in Nat
        /\ others' \in Nat
        /\ UNCHANGED <<frame, part, fragments, phase, delivered>>
    BY <1>3, <1>6, <2>1 DEF SendFirst
  <2> QED BY <1>5, <2>1, <2>2, <2>3
<1>7. ASSUME NEW fin \in BOOLEAN, SendContinuation(fin) PROVE Reading'
  <2> DEFINE f == [op |-> "continuation", fin |-> fin, id |-> <<Len(sent), piece + 1>>]
  <2>1. f \in Frames /\ f.op = "continuation" /\ f.fin = fin /\ f.id = <<Len(sent), piece + 1>>
    BY <1>3 DEF Frames, FrameOps
  <2>2. Follows(j, f) /\ sent' \in Seq(Seq(Nat \X Nat)) /\ SentInOrder' /\ DeliveredAsSent'
    BY <1>1, <1>2, <1>7, ContinuationFollows
  <2> HIDE DEF f
  <2>3. /\ wire' = wire /\ transit' = transit \o Encoded(f.op, f.fin, f.id) /\ piece' \in Nat
        /\ others' \in Nat
        /\ UNCHANGED <<frame, part, fragments, phase, delivered>>
    BY <1>3, <1>7, <2>1 DEF SendContinuation
  <2> QED BY <1>5, <2>1, <2>2, <2>3
<1>8. ASSUME NEW op \in {"ping", "pong"}, SendOther(op) PROVE Reading'
  <2> DEFINE f == [op |-> op, fin |-> TRUE, id |-> <<0, others + 1>>]
  <2>1. f \in Frames /\ f.op = op /\ f.fin = TRUE /\ f.id = <<0, others + 1>>
    BY <1>3 DEF Frames, FrameOps
  <2> HIDE DEF f
  <2>2. /\ wire' = wire /\ transit' = transit \o Encoded(f.op, f.fin, f.id)
        /\ UNCHANGED <<frame, part, fragments, phase, delivered, sent, piece>> /\ others' \in Nat
    <3>1. others' \in Nat
      BY <1>3, <1>8 DEF SendOther
    <3>2. Encoded(f.op, f.fin, f.id) = Encoded(op, TRUE, <<0, others + 1>>)
      BY <2>1, Zenon
    <3> QED BY <1>8, <3>1, <3>2 DEF SendOther
  <2>3. ReaderTypes'
    BY <1>1, <1>4, <2>1, <2>2 DEF ReaderTypes
  <2>4. InStep'
    BY <1>1, <2>1, <2>2, InStepGrows
  <2>5. PiecesMarked' /\ PiecesInOrder' /\ Taken(j)'
    BY <1>1, <1>2, <2>1, <2>2, OtherGrows
  <2>6. SentInOrder' /\ DeliveredAsSent'
    BY <1>1, <2>2 DEF SentInOrder, DeliveredAsSent
  <2> QED BY <2>3, <2>4, <2>5, <2>6 DEF Reading
<1> QED BY <1>6, <1>7, <1>8

\* The head or the mask of a frame is read.
LEMMA PartStep ==
  ASSUME Reading, ReadPart
  PROVE  Reading'
<1>1. ReaderTypes /\ SentInOrder /\ DeliveredAsSent /\ InStep /\ PiecesMarked /\ PiecesInOrder
  BY DEF Reading
<1>2. PICK j \in Nat : Taken(j)
  BY DEF Reading
<1>3. /\ part \in {1, 2} /\ wire # <<>> /\ wire' = Tail(wire) /\ transit' = transit
      /\ part' = part + 1 /\ frame' = (IF part = 1 THEN Head(wire).frame ELSE frame)
      /\ UNCHANGED <<fragments, phase, delivered, piece, sent, others>>
  BY <1>1 DEF ReadPart, ReaderTypes
<1>4. /\ Stream # <<>> /\ Stream[1] = Head(wire) /\ wire' \in Seq(FrameParts)
      /\ Head(wire) \in FrameParts
  <2>1. /\ Stream \in Seq(FrameParts) /\ Stream # <<>> /\ Stream[1] = Head(wire)
        /\ wire' \in Seq(FrameParts)
    BY <1>1, <1>3, StreamTaken
  <2>2. wire \in Seq(FrameParts)
    BY <1>1 DEF ReaderTypes
  <2> QED BY <1>3, <2>1, <2>2
<1>5. Head(wire).part = Parts[part] /\ (part > 1 => Head(wire).frame = frame)
  BY <1>1, <1>4 DEF InStep
<1>6. frame' = Head(wire).frame /\ frame' \in Frames
  BY <1>3, <1>4, <1>5 DEF FrameParts
<1>7. InStep'
  BY <1>1, <1>3, <1>6, InStepTaken
<1>8. ~HoldsPiece(Head(wire))
  BY <1>3, <1>5 DEF HoldsPiece, Parts
<1>9. PiecesMarked' /\ PiecesInOrder'
  BY <1>1, <1>3, PiecesTaken
<1>10. Taken(j)'
  BY <1>1, <1>2, <1>3, <1>8, OtherTaken
<1>11. SentInOrder' /\ DeliveredAsSent'
  BY <1>1, <1>3 DEF SentInOrder, DeliveredAsSent
<1>12. ReaderTypes'
  BY <1>1, <1>3, <1>4, <1>6 DEF ReaderTypes
<1> QED BY <1>7, <1>9, <1>10, <1>11, <1>12 DEF Reading

\* The payload is read.
LEMMA PayloadStep ==
  ASSUME Reading, ReadPayload
  PROVE  ReaderTypes' /\ SentInOrder' /\ DeliveredAsSent' /\ (phase' = "reading" => Reading')
<1>1. ReaderTypes /\ SentInOrder /\ DeliveredAsSent /\ InStep /\ PiecesMarked /\ PiecesInOrder
  BY DEF Reading
<1>2. PICK j \in Nat : Taken(j)
  BY DEF Reading
<1>3. /\ part = 3 /\ wire # <<>> /\ wire' = Tail(wire) /\ transit' = transit
      /\ part' = 1 /\ frame' = NoFrame /\ sent' = sent /\ piece' = piece /\ others' = others
      /\ phase' \in {"reading", "failed"}
  BY DEF ReadPayload
<1>4. /\ Stream # <<>> /\ Stream[1] = Head(wire) /\ wire' \in Seq(FrameParts)
  BY <1>1, <1>3, StreamTaken
<1>5. Head(wire).part = "payload" /\ Head(wire).frame = frame
  BY <1>1, <1>3, <1>4 DEF InStep, Parts
<1>6. InStep'
  BY <1>1, <1>3, InStepTaken
<1>7. PiecesMarked' /\ PiecesInOrder'
  BY <1>1, <1>3, PiecesTaken
<1>8. SentInOrder'
  BY <1>1, <1>3 DEF SentInOrder
<1>9. frame.op \in FrameOps
  <2>1. wire \in Seq(FrameParts)
    BY <1>1 DEF ReaderTypes
  <2>2. Head(wire) \in FrameParts
    BY <1>3, <2>1
  <2> QED BY <1>5, <2>2 DEF FrameParts, Frames
<1>10. /\ fragments' \in Seq(Nat \X Nat) /\ delivered' \in Seq(Seq(Nat \X Nat))
       /\ DeliveredAsSent'
       /\ phase' = "reading" => \E i \in Nat : Taken(i)'
  <2>1. CASE frame.op \in {"data", "continuation"}
    BY <1>1, <1>2, <2>1, PieceRead
  <2>2. CASE frame.op \in {"ping", "pong"}
    <3>1. UNCHANGED <<fragments, delivered>>
      BY <2>2 DEF ReadPayload
    <3>2. ~HoldsPiece(Head(wire))
      BY <1>5, <2>2 DEF HoldsPiece
    <3>3. Taken(j)'
      BY <1>1, <1>2, <1>3, <3>1, <3>2, OtherTaken
    <3> QED BY <1>1, <1>3, <3>1, <3>3 DEF ReaderTypes, DeliveredAsSent
  <2> QED BY <1>9, <2>1, <2>2 DEF FrameOps
<1>11. ReaderTypes'
  BY <1>1, <1>3, <1>4, <1>10 DEF ReaderTypes
<1> QED BY <1>6, <1>7, <1>8, <1>10, <1>11 DEF Reading

\* The whole invariant: nothing is said once a frame was cut; once the reader
\* has failed, only that what it returned was right.
FramesInv ==
    ~cut => /\ ReaderTypes /\ SentInOrder /\ DeliveredAsSent
            /\ phase = "reading" => Reading

\* At the start nothing is under way.
LEMMA FramesInit == ReaderInit => FramesInv
<1> SUFFICES ASSUME ReaderInit PROVE FramesInv
  OBVIOUS
<1>1. /\ wire = <<>> /\ transit = <<>> /\ frame = NoFrame /\ part = 1 /\ fragments = <<>>
      /\ phase = "reading" /\ delivered = <<>> /\ piece = 0 /\ sent = <<>> /\ others = 0
  BY DEF ReaderInit
<1>2. ReaderTypes
  BY <1>1 DEF ReaderTypes
<1>3. SentInOrder /\ DeliveredAsSent
  BY <1>1 DEF SentInOrder, DeliveredAsSent
<1>4. Stream = <<>>
  BY <1>1 DEF Stream
<1>5. InStep /\ PiecesMarked /\ PiecesInOrder
  BY <1>1, <1>4 DEF InStep, PiecesMarked, PiecesInOrder
<1>6. Taken(0)
  <2>1. ASSUME NEW id PROVE ~IsSent(sent, id)
    BY <1>1 DEF IsSent
  <2>2. Len(delivered) + 1 \notin DOMAIN sent /\ <<Len(delivered) + 1, 0>>[1] = Len(delivered) + 1
    BY <1>1
  <2> QED BY <1>1, <1>4, <2>1, <2>2 DEF Taken
<1> QED BY <1>2, <1>3, <1>5, <1>6 DEF FramesInv, Reading

\* Every step keeps it.
LEMMA FramesStep == FramesInv /\ [ReaderNext]_readerVars => FramesInv'
<1> SUFFICES ASSUME FramesInv, [ReaderNext]_readerVars, ~cut' PROVE FramesInv'
  BY DEF FramesInv
<1>1. CASE UNCHANGED readerVars
  <2>1. /\ Stream' = Stream
        /\ UNCHANGED <<wire, transit, frame, part, fragments, phase, delivered, piece, sent, others, cut>>
    BY <1>1 DEF readerVars, Stream
  <2>2. ReaderTypes <=> ReaderTypes'
    BY <2>1 DEF ReaderTypes
  <2>3. (SentInOrder <=> SentInOrder') /\ (DeliveredAsSent <=> DeliveredAsSent')
    BY <2>1 DEF SentInOrder, DeliveredAsSent
  <2>4. (InStep <=> InStep') /\ (PiecesMarked <=> PiecesMarked') /\ (PiecesInOrder <=> PiecesInOrder')
    BY <2>1 DEF InStep, PiecesMarked, PiecesInOrder
  <2>5. \A j \in Nat : Taken(j) => Taken(j)'
    BY <2>1 DEF Taken
  <2> QED BY <2>1, <2>2, <2>3, <2>4, <2>5 DEF FramesInv, Reading
<1>2. CASE ReaderNext
  <2>1. ~cut
    BY <1>2 DEF ReaderNext, SendFirst, SendContinuation, SendOther, Arrive, ReadMore, ReadPart,
                ReadPayload, ReadGarbage, Timeout
  <2>2. ReaderTypes /\ SentInOrder /\ DeliveredAsSent /\ (phase = "reading" => Reading)
    BY <2>1 DEF FramesInv
  <2>3. CASE \/ \E fin \in BOOLEAN : SendFirst(fin) \/ SendContinuation(fin)
             \/ \E op \in {"ping", "pong"} : SendOther(op)
    <3>1. phase = "reading"
      BY <2>3 DEF SendFirst, SendContinuation, SendOther
    <3>2. Reading'
      BY <2>2, <2>3, <3>1, SendingStep
    <3> QED BY <3>2 DEF FramesInv, Reading
  <2>4. CASE Arrive
    <3>1. /\ Stream' = Stream /\ wire' \in Seq(FrameParts) /\ transit' \in Seq(FrameParts)
          /\ UNCHANGED <<frame, part, fragments, phase, delivered, piece, sent, others>>
      BY <2>2, <2>4, StreamArrives DEF Arrive
    <3>2. ReaderTypes' /\ SentInOrder' /\ DeliveredAsSent'
      BY <2>2, <3>1 DEF ReaderTypes, SentInOrder, DeliveredAsSent
    <3>3. (InStep => InStep') /\ (PiecesMarked => PiecesMarked') /\ (PiecesInOrder => PiecesInOrder')
      BY <3>1 DEF InStep, PiecesMarked, PiecesInOrder
    <3>4. \A j \in Nat : Taken(j) => Taken(j)'
      BY <3>1 DEF Taken
    <3> QED BY <2>2, <3>1, <3>2, <3>3, <3>4 DEF FramesInv, Reading
  <2>5. CASE ReadPart
    <3>1. Reading'
      BY <2>2, <2>5, PartStep DEF ReadPart
    <3> QED BY <3>1 DEF FramesInv, Reading
  <2>6. CASE ReadPayload
    BY <2>2, <2>6, PayloadStep DEF ReadPayload, FramesInv
  <2>7. CASE ReadGarbage
    BY <2>1, <2>7 DEF ReadGarbage
  <2>8. CASE Timeout
    <3>0. part \in 1 .. 3 /\ ~(part > 1)
      BY <2>2, <2>8 DEF Timeout, ReaderTypes
    <3>1. /\ part = 1 /\ part' = 1 /\ frame' = NoFrame /\ fragments' = <<>> /\ phase = "reading"
          /\ UNCHANGED <<transit, wire, phase, delivered, piece, sent, others>>
      BY <2>8, <3>0 DEF Timeout
    <3>2. ReaderTypes' /\ SentInOrder' /\ DeliveredAsSent'
      BY <2>2, <3>1 DEF ReaderTypes, SentInOrder, DeliveredAsSent
    <3>3. Stream' = Stream
      BY <3>1 DEF Stream
    <3>4. InStep' /\ PiecesMarked' /\ PiecesInOrder'
      BY <2>2, <3>1, <3>3 DEF Reading, InStep, PiecesMarked, PiecesInOrder
    <3>5. PICK j \in Nat : Taken(j)
      BY <2>2, <3>1 DEF Reading
    <3>6. Taken(j)'
      BY <3>1, <3>3, <3>5 DEF Taken
    <3> QED BY <3>2, <3>4, <3>6 DEF FramesInv, Reading
  <2> QED BY <1>2, <2>3, <2>4, <2>5, <2>6, <2>7, <2>8 DEF ReaderNext, ReadMore
<1> QED BY <1>1, <1>2

\* The reader is where the wire is, what it has kept are the pieces before the
\* next one, and what it has returned is what was sent.
THEOREM FramesInvariant == ReaderSpec => []FramesInv
  BY FramesInit, FramesStep, PTL DEF ReaderSpec

\* Messages are returned whole, once, and in the order they were sent, whatever
\* comes between their pieces, unless a timeout cut a frame.
THEOREM FramesAreIntact == ReaderSpec => []FramesIntact
<1>1. FramesInv => FramesIntact
  <2> SUFFICES ASSUME FramesInv, ~cut PROVE IsPrefix(delivered, Complete)
    BY DEF FramesIntact
  <2> DEFINE S == Seq(Nat \X Nat)
  <2>1. /\ delivered \in Seq(S) /\ sent \in Seq(S) /\ piece \in Nat
        /\ Len(delivered) <= Len(sent) /\ (piece > 0 => Len(delivered) < Len(sent))
        /\ \A n \in DOMAIN delivered : delivered[n] = sent[n]
    BY DEF FramesInv, ReaderTypes, DeliveredAsSent
  <2> HIDE DEF S
  <2>2. /\ Complete \in Seq(S) /\ Len(delivered) <= Len(Complete)
        /\ \A n \in DOMAIN delivered : delivered[n] = Complete[n]
    <3>1. CASE piece = 0
      BY <2>1, <3>1 DEF Complete
    <3>2. CASE piece # 0
      <4>1. Complete = SubSeq(sent, 1, Len(sent) - 1) /\ Len(delivered) <= Len(sent) - 1
        BY <2>1, <3>2 DEF Complete, Front
      <4>2. /\ SubSeq(sent, 1, Len(sent) - 1) \in Seq(S)
            /\ Len(SubSeq(sent, 1, Len(sent) - 1)) = Len(sent) - 1
            /\ \A n \in 1 .. Len(sent) - 1 : SubSeq(sent, 1, Len(sent) - 1)[n] = sent[n]
        <5> DEFINE l == Len(sent) - 1
        <5>1. l \in Nat /\ l <= Len(sent) /\ Len(sent) \in Nat /\ DOMAIN sent = 1 .. Len(sent)
          BY <2>1, <4>1
        <5>2. \A n \in 1 .. l : sent[n] \in S
          BY <2>1, <5>1
        <5> HIDE DEF l
        <5>3. SubSeq(sent, 1, l) = [n \in 1 .. l |-> sent[n]]
          BY <2>1, <5>1
        <5> QED BY <5>1, <5>2, <5>3 DEF l
      <4> QED BY <2>1, <4>1, <4>2
    <3> QED BY <3>1, <3>2
  <2> DEFINE c == Complete
             d == SubSeq(delivered, 1, Len(delivered))
             e == SubSeq(c, 1, Len(delivered))
  <2> HIDE DEF c
  <2>3. /\ d \in Seq(S) /\ e \in Seq(S) /\ Len(d) = Len(delivered) /\ Len(e) = Len(delivered)
        /\ \A n \in 1 .. Len(delivered) : d[n] = delivered[n] /\ e[n] = c[n]
    <3>1. c \in Seq(S) /\ Len(delivered) \in Nat /\ Len(delivered) <= Len(c)
      BY <2>1, <2>2 DEF c
    <3>2. /\ d = [n \in 1 .. Len(delivered) |-> delivered[n]]
          /\ \A n \in 1 .. Len(delivered) : delivered[n] \in S
      BY <2>1
    <3>3. e = [n \in 1 .. Len(delivered) |-> c[n]] /\ \A n \in 1 .. Len(delivered) : c[n] \in S
      BY <3>1
    <3> HIDE DEF d, e
    <3> QED BY <3>1, <3>2, <3>3
  <2> HIDE DEF d, e
  <2>4. d = e
    <3>1. \A n \in 1 .. Len(delivered) : d[n] = e[n]
      BY <2>1, <2>2, <2>3 DEF c
    <3> QED BY <2>3, <3>1
  <2> QED BY <2>2, <2>4 DEF IsPrefix, c, d, e
<1> QED BY <1>1, FramesInvariant, PTL

\* The types hold, cut or not.
THEOREM FrameTypes == ReaderSpec => []ReaderTypeOK
<1> DEFINE Bounds ==
             /\ part \in 1 .. 3 /\ phase \in {"reading", "failed", "garbled"}
             /\ cut \in BOOLEAN /\ piece \in 0 .. MaxPieces
<1>1. ReaderInit => Bounds
  <2> SUFFICES ASSUME ReaderInit PROVE Bounds
    OBVIOUS
  <2>1. part = 1 /\ phase = "reading" /\ cut = FALSE /\ piece = 0
    BY DEF ReaderInit
  <2>2. piece \in 0 .. MaxPieces
    BY <2>1, PiecesAssumption
  <2>3. part \in 1 .. 3 /\ phase \in {"reading", "failed", "garbled"}
    BY <2>1
  <2>4. cut \in BOOLEAN
    BY DEF ReaderInit
  <2> QED BY <2>2, <2>3, <2>4
<1>2. Bounds /\ [ReaderNext]_readerVars => Bounds'
  <2> SUFFICES ASSUME Bounds, [ReaderNext]_readerVars PROVE Bounds'
    OBVIOUS
  <2>1. CASE UNCHANGED readerVars
    BY <2>1 DEF readerVars
  <2>2. ASSUME NEW fin \in BOOLEAN, SendFirst(fin) \/ SendContinuation(fin) PROVE Bounds'
    BY <2>2, PiecesAssumption DEF SendFirst, SendContinuation
  <2>3. ASSUME NEW op, SendOther(op) PROVE Bounds'
    BY <2>3 DEF SendOther
  <2>4. CASE Arrive
    BY <2>4 DEF Arrive
  <2>5. CASE ReadMore
    BY <2>5 DEF ReadMore, ReadPart, ReadPayload, ReadGarbage
  <2>6. CASE Timeout
    BY <2>6 DEF Timeout
  <2> QED BY <2>1, <2>2, <2>3, <2>4, <2>5, <2>6 DEF ReaderNext
<1>3. FramesInv /\ Bounds => ReaderTypeOK
  <2> SUFFICES ASSUME FramesInv, Bounds PROVE ReaderTypeOK
    OBVIOUS
  <2>1. ASSUME ~cut, phase = "reading", wire # <<>>
        PROVE  Head(wire).part = Parts[part] /\ (part > 1 => Head(wire).frame = frame)
    <3>1. ReaderTypes /\ InStep
      BY <2>1 DEF FramesInv, Reading
    <3> DEFINE FP == FrameParts
               s == wire \o transit
    <3>2. wire \in Seq(FP) /\ transit \in Seq(FP)
      BY <3>1 DEF ReaderTypes
    <3> HIDE DEF FP
    <3>3. s # <<>> /\ s[1] = Head(wire)
      BY <2>1, <3>2
    <3> QED BY <3>1, <3>3 DEF InStep, Stream
  <2> QED BY <2>1 DEF ReaderTypeOK
<1>4. ReaderSpec => []Bounds
  BY <1>1, <1>2, PTL DEF ReaderSpec
<1> QED BY <1>3, <1>4, FramesInvariant, PTL
=============================================================================
