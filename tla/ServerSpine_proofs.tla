------------------------- MODULE ServerSpine_proofs --------------------------
(***************************************************************************)
(* The msgCounters of a ShipServer session: for any peer and any number of *)
(* callers and commands, no two datagrams share one, no answer is taken    *)
(* for another's, no command is told the state of an older one, and the    *)
(* forwarded commands keep the promise of LimitCommands.                   *)
(*                                                                         *)
(* The invariant adds to the checked ones that every number in use has     *)
(* been counted (Counted), that a command's numbers are known only when it *)
(* was prepared (AutoCommand), and that what a sender has left of a        *)
(* command is the rest of it, with its write sent and not overtaken by an  *)
(* older one (CommandsInOrder).                                            *)
(***************************************************************************)
EXTENDS ServerSpine, TLAPS

Kinds == {"reply", "result", "read", "bind", "subscribe", "write", "readback"}
Names == Features \cup {"discovery", "bindings", "NodeManagement"}
Data == [kind : Kinds, feature : Names, ctr : Nat]
Output == [kind : Kinds \cup {"event"}, feature : Names, ctr : Nat]
LogKinds == {"writeSent", "writeResult", "readback"}

Types ==
    /\ auto \in BOOLEAN /\ counter \in Nat
    /\ outbox \in [Senders -> Seq(Output)] /\ wire \subseteq Data
    /\ pendingBind \subseteq [ctr : Nat, feature : Features]
    /\ pendingW \subseteq Nat /\ pendingR \subseteq Nat
    /\ autoWrite \in Nat /\ autoRead \in Nat /\ lastWrite \in Nat
    /\ log \subseteq LogKinds \X (Nat \ {NoCounter})

\* Every number in use has been counted.
Used == 1 .. counter
Counted ==
    /\ OnWire \subseteq Used
    /\ \A s \in Senders : \A i \in DOMAIN outbox[s] : outbox[s][i].ctr \in Used
    /\ \A e \in log : e[2] \in Used
    /\ {autoWrite, autoRead} \subseteq Used \cup {NoCounter}

\* The numbers of the configured command are known when it was prepared.
AutoCommand ==
    /\ ~autoSent => autoWrite = NoCounter
    /\ autoWrite = NoCounter <=> autoRead = NoCounter

\* What is left of a command in an outbox, if anything.
OfCommand(d) == d.kind \in {"write", "readback", "event"}
Entry(kind, ctr) == [kind |-> kind, feature |-> "LoadControl", ctr |-> ctr]
NotStale(w) == lastWrite >= w \/ (autoWrite # NoCounter /\ lastWrite = autoWrite)
Rest(s, w) ==
    \/ /\ outbox[s] = <<Entry("readback", w + 1), Entry("event", w)>>
       /\ w \in Sent({"write"}) /\ NotStale(w)
    \/ outbox[s] = <<Entry("event", w)>>
HandlerInOrder ==
    \/ /\ \A i \in DOMAIN outbox[Handler] : ~OfCommand(outbox[Handler][i])
       /\ autoWrite # NoCounter => <<"writeSent", autoWrite>> \in log
    \/ /\ autoWrite # NoCounter
       /\ outbox[Handler] = CommandOutput(autoWrite) \/ Rest(Handler, autoWrite)
CallersInOrder ==
    \A c \in Callers : outbox[c] = <<>> \/ \E w \in Used : Rest(c, w)
CommandsInOrder == HandlerInOrder /\ CallersInOrder

IInv == /\ Types /\ Counted /\ AutoCommand /\ CommandsInOrder
        /\ CountersUnique /\ RefsUnambiguous /\ ReadsFollowBinding

\* The promise, when counters are never used up.
Wide == INSTANCE LimitCommands WITH
          Counters <- Nat \ {NoCounter}, writes <- pendingW, readbacks <- pendingR,
          acked <- Forwarded, reported <- ReadBackLog

-----------------------------------------------------------------------------
(* What the handlers prepare. *)

Asks == {a \in [kind : Kinds \ {"write", "readback"}, feature : Names] :
             a.kind = "bind" => a.feature \in Features}

\* The features that the peer and the server may have.
LEMMA FeaturesAre ==
  Features = {"DeviceDiagnosis", "LoadControl", "DeviceConfiguration",
              "ElectricalConnection", "Measurement"}
<1>1. DOMAIN FeatureOrder = 1 .. 5
  BY DEF FeatureOrder
<1>2. 1 .. 5 = {1, 2, 3, 4, 5}
  OBVIOUS
<1> QED BY <1>1, <1>2 DEF Features, FeatureOrder

\* Elements of sequences, and sequences of one element.
LEMMA Elements ==
  ASSUME NEW S, NEW s \in Seq(S)
  PROVE  /\ Len(s) \in Nat /\ DOMAIN s = 1 .. Len(s)
         /\ \A i \in 1 .. Len(s) : s[i] \in S
  OBVIOUS

\* The sequence of one element.
LEMMA Singleton ==
  ASSUME NEW S, NEW e \in S
  PROVE  <<e>> \in Seq(S)
  OBVIOUS

\* A sequence of a set is one of every larger set.
LEMMA LargerSet ==
  ASSUME NEW S, NEW T, S \subseteq T, NEW s \in Seq(S)
  PROVE  s \in Seq(T)
  OBVIOUS

\* What the server asks for are items of its queue.
LEMMA AsksAreItems == \A s \in Seq(Asks) : s \in Seq([kind : Kinds, feature : Names])
<1>1. Asks \subseteq [kind : Kinds, feature : Names]
  BY DEF Asks
<1> QED BY <1>1, LargerSet

\* A bootstrap only asks: it contains no command.
LEMMA BootstrapsAsk ==
  /\ CommonBootstrap \in Seq(Asks)
  /\ \A f \in Features : FeatureBootstrap(f) \in Seq(Asks)
  /\ \A disc : BindingBootstrap(disc) \in Seq(Asks)
<1>1. CommonBootstrap \in Seq(Asks)
  <2>1. Item("subscribe", "NodeManagement") \in Asks
    BY DEF Item, Asks, Kinds, Names
  <2> QED BY <2>1, Singleton DEF CommonBootstrap
<1>2. ASSUME NEW f \in Features PROVE FeatureBootstrap(f) \in Seq(Asks)
  <2>1. /\ Item("subscribe", f) \in Asks
        /\ Item("read", f) \in Asks
    BY DEF Item, Asks, Kinds, Names
  <2> QED BY <2>1, <1>2 DEF FeatureBootstrap
<1>3. ASSUME NEW disc PROVE BindingBootstrap(disc) \in Seq(Asks)
  <2>1. ASSUME NEW f \in Features PROVE BindingRequest(disc, f) \in Seq(Asks)
    <3>1. Item("bind", f) \in Asks
      BY DEF Item, Asks, Kinds, Names
    <3> QED BY <3>1, Singleton DEF BindingRequest
  <2>2. \A i \in 1 .. 5 : FeatureOrder[i] \in Features
    BY DEF FeatureOrder, Features
  <2>3. <<Item("read", "bindings")>> \in Seq(Asks)
    BY DEF Item, Asks, Kinds, Names
  <2>4. \A i \in 1 .. 5 : BindingRequest(disc, FeatureOrder[i]) \in Seq(Asks)
    BY <2>1, <2>2
  <2> QED BY <2>3, <2>4 DEF BindingBootstrap
<1> QED BY <1>1, <1>2, <1>3

\* Numbering gives every item the next counter.
LEMMA NumberedItems ==
  ASSUME NEW items \in Seq([kind : Kinds, feature : Names]), counter \in Nat
  PROVE  /\ Numbered(items) \in Seq(Output)
         /\ Len(items) \in Nat /\ DOMAIN Numbered(items) = 1 .. Len(items)
         /\ \A i \in 1 .. Len(items) :
              /\ Numbered(items)[i].ctr = counter + i
              /\ Numbered(items)[i].kind = items[i].kind
              /\ Numbered(items)[i].feature = items[i].feature
              /\ items[i] \in [kind : Kinds, feature : Names]
<1>1. Len(items) \in Nat /\ DOMAIN items = 1 .. Len(items)
      /\ \A i \in 1 .. Len(items) : items[i] \in [kind : Kinds, feature : Names]
  BY Elements
<1>2. Numbered(items) \in [1 .. Len(items) -> Output]
  BY <1>1 DEF Numbered, Output
<1>3. Numbered(items) \in Seq(Output)
  BY <1>1, <1>2
<1> QED BY <1>1, <1>3 DEF Numbered

\* A handler that prepares what it asks and answers.
Handles(items) ==
    /\ Reading /\ items \in Seq(Asks)
    /\ HandOver(Handler, Numbered(items)) /\ counter' = counter + Len(items)
    /\ UNCHANGED <<auto, autoSent, autoWrite, autoRead>>

\* What a handler asks for is a sequence of such requests.
LEMMA HandlersAsk ==
  ASSUME Types
  PROVE  /\ RecvDiscoveryRead => \E items : Handles(items)
         /\ \A update : RecvDiscovery(update) => Handles(BindingBootstrap(MergeDiscovery(known, update)))
         /\ \A ref, ok : RecvResult(ref, ok) => \E items : Handles(items)
         /\ \A nonEmpty : RecvBindingTable(nonEmpty) => \E items : Handles(items)
         /\ \A ref, h, ack : RecvLimits(ref, h, ack) /\ ~CommandDue => \E items : Handles(items)
<1>1. ASSUME RecvDiscoveryRead PROVE \E items : Handles(items)
  <2> DEFINE items == <<Item("reply", "discovery")>>
                      \o (IF discoveryRead THEN <<>> ELSE <<Item("read", "discovery")>>)
  <2>1. items \in Seq(Asks)
    <3>1. Item("reply", "discovery") \in Asks /\ Item("read", "discovery") \in Asks
      BY DEF Item, Asks, Kinds, Names
    <3>2. <<Item("reply", "discovery")>> \in Seq(Asks) /\ <<Item("read", "discovery")>> \in Seq(Asks)
      BY <3>1, Singleton
    <3> QED BY <3>2
  <2>2. Handles(items)
    BY <1>1, <2>1 DEF RecvDiscoveryRead, Handles
  <2> QED BY <2>2
<1>2. ASSUME NEW update, RecvDiscovery(update)
      PROVE  Handles(BindingBootstrap(MergeDiscovery(known, update)))
  BY <1>2, BootstrapsAsk DEF RecvDiscovery, Handles
<1>3. ASSUME NEW ref, NEW ok, RecvResult(ref, ok) PROVE \E items : Handles(items)
  <2> DEFINE asked == {b.feature : b \in {p \in pendingBind : p.ctr = ref}}
             items == IF Grants(asked, ok)
                      THEN CommonBootstrap \o FeatureBootstrap(CHOOSE f \in asked : TRUE)
                      ELSE <<>>
  <2>1. Grants(asked, ok) => (CHOOSE f \in asked : TRUE) \in Features
    <3>1. asked \subseteq Features
      BY DEF Types
    <3> QED BY <3>1 DEF Grants
  <2>2. items \in Seq(Asks)
    BY <2>1, BootstrapsAsk
  <2>3. Handles(items)
    BY <1>3, <2>2 DEF RecvResult, Handles
  <2> QED BY <2>3
<1>4. ASSUME NEW nonEmpty, RecvBindingTable(nonEmpty) PROVE \E items : Handles(items)
  <2> DEFINE items == IF nonEmpty
                      THEN CommonBootstrap \o FeatureBootstrap("DeviceDiagnosis")
                           \o FeatureBootstrap("LoadControl")
                           \o FeatureBootstrap("DeviceConfiguration")
                           \o FeatureBootstrap("ElectricalConnection")
                           \o FeatureBootstrap("Measurement")
                      ELSE <<>>
  <2>1. items \in Seq(Asks)
    BY BootstrapsAsk, FeaturesAre
  <2>2. Handles(items)
    BY <1>4, <2>1 DEF RecvBindingTable, Handles
  <2> QED BY <2>2
<1>5. ASSUME NEW ref, NEW h, NEW ack, RecvLimits(ref, h, ack), ~CommandDue
      PROVE  \E items : Handles(items)
  <2> DEFINE items == IF ack THEN <<Item("result", "LoadControl")>> ELSE <<>>
  <2>1. items = <<>> /\ items \in Seq(Asks)
    BY <1>5 DEF RecvLimits
  <2>2. Handles(items)
    BY <1>5, <2>1 DEF RecvLimits, Handles
  <2> QED BY <2>2
<1> QED BY <1>1, <1>2, <1>3, <1>4, <1>5

-----------------------------------------------------------------------------
(* Senders that begin: they hand over what they have just numbered. *)

Fresh(s, sends) ==
    /\ s \in Senders /\ outbox[s] = <<>>
    /\ sends \in Seq(Output) /\ HandOver(s, sends)
    /\ counter' \in Nat /\ counter <= counter'
    /\ \A i \in DOMAIN sends : sends[i].ctr \in (counter + 1) .. counter'
    /\ \A i, j \in DOMAIN sends :
         /\ sends[i].kind # "event" /\ sends[j].kind # "event" /\ sends[i].ctr = sends[j].ctr
         => i = j
    /\ sends # <<>> => sends[1].kind # "event"

\* A handler asks for nothing of a command, under new numbers.
LEMMA HandlesFresh ==
  ASSUME Types, NEW items, Handles(items)
  PROVE  /\ Fresh(Handler, Numbered(items))
         /\ \A i \in DOMAIN Numbered(items) : ~OfCommand(Numbered(items)[i])
<1>1. items \in Seq([kind : Kinds, feature : Names])
  BY AsksAreItems DEF Handles
<1>2. \A i \in 1 .. Len(items) : items[i].kind \notin {"write", "readback", "event"}
  <2>1. \A i \in 1 .. Len(items) : items[i] \in Asks
    BY Elements DEF Handles
  <2> QED BY <2>1 DEF Asks, Kinds
<1>3. counter \in Nat
  BY DEF Types
<1>4. /\ Numbered(items) \in Seq(Output)
      /\ Len(items) \in Nat /\ DOMAIN Numbered(items) = 1 .. Len(items)
      /\ \A i \in 1 .. Len(items) :
           /\ Numbered(items)[i].ctr = counter + i
           /\ Numbered(items)[i].kind = items[i].kind
  BY <1>1, <1>3, NumberedItems
<1>5. outbox[Handler] = <<>> /\ HandOver(Handler, Numbered(items)) /\ counter' = counter + Len(items)
  BY DEF Handles, Reading
<1> HIDE DEF Handles
<1> DEFINE sends == Numbered(items)
<1>6. \A i \in DOMAIN sends : /\ sends[i].ctr \in (counter + 1) .. counter'
                             /\ sends[i].kind \notin {"write", "readback", "event"}
  BY <1>2, <1>3, <1>4, <1>5
<1>7. \A i, j \in DOMAIN sends : sends[i].ctr = sends[j].ctr => i = j
  BY <1>3, <1>4
<1>8. counter' \in Nat /\ counter <= counter'
  BY <1>3, <1>4, <1>5
<1>9. sends # <<>> => sends[1].kind # "event"
  <2>1. sends # <<>> => 1 \in DOMAIN sends
    BY <1>4
  <2> QED BY <1>6, <2>1
<1>10. Handler \in Senders /\ sends \in Seq(Output)
  BY <1>4 DEF Senders
<1> HIDE DEF sends
<1>11. \A i \in DOMAIN sends : ~OfCommand(sends[i])
  BY <1>6 DEF OfCommand
<1>12. Fresh(Handler, sends)
  BY <1>5, <1>6, <1>7, <1>8, <1>9, <1>10 DEF Fresh, sends
<1> QED BY <1>11, <1>12 DEF sends

\* The command's output: a write, a readback and an event.
LEMMA CommandIs ==
  ASSUME NEW w \in Nat
  PROVE  /\ CommandOutput(w) = <<Entry("write", w), Entry("readback", w + 1), Entry("event", w)>>
         /\ CommandOutput(w) \in Seq(Output) /\ CommandOutput(w) # <<>>
         /\ DOMAIN CommandOutput(w) = {1, 2, 3}
         /\ Tail(CommandOutput(w)) = <<Entry("readback", w + 1), Entry("event", w)>>
         /\ Head(CommandOutput(w)) = Entry("write", w) /\ CommandOutput(w)[1] = Entry("write", w)
<1> DEFINE x == Entry("write", w)
           y == Entry("readback", w + 1)
           z == Entry("event", w)
<1>1. CommandOutput(w) = <<x, y, z>>
  BY DEF CommandOutput, Entry
<1>2. x \in Output /\ y \in Output /\ z \in Output
  BY FeaturesAre DEF Entry, Output, Kinds, Names
<1> HIDE DEF x, y, z
<1>3. /\ <<x, y, z>> \in Seq(Output) /\ <<x, y, z>> # <<>> /\ DOMAIN <<x, y, z>> = {1, 2, 3}
      /\ Tail(<<x, y, z>>) = <<y, z>> /\ Head(<<x, y, z>>) = x /\ <<x, y, z>>[1] = x
  BY <1>2
<1> QED BY <1>1, <1>3 DEF x, y, z

\* A caller hands over its command under two new numbers.
LEMMA ForwardIsFresh ==
  ASSUME Types, NEW c \in Callers, ForwardBegins(c)
  PROVE  Fresh(c, CommandOutput(counter + 1))
<1>1. counter \in Nat /\ counter + 1 \in Nat
  BY DEF Types
<1> DEFINE w == counter + 1
           sends == CommandOutput(w)
<1>2. /\ sends \in Seq(Output) /\ DOMAIN sends = {1, 2, 3}
      /\ sends = <<Entry("write", w), Entry("readback", w + 1), Entry("event", w)>>
  BY <1>1, CommandIs
<1>3. /\ sends[1].ctr = w /\ sends[2].ctr = w + 1 /\ sends[3].ctr = w
      /\ sends[1].kind = "write" /\ sends[2].kind = "readback" /\ sends[3].kind = "event"
  BY <1>2 DEF Entry
<1> HIDE DEF sends
<1>4. outbox[c] = <<>> /\ HandOver(c, sends) /\ counter' = counter + 2 /\ c \in Senders
  BY DEF ForwardBegins, sends, Senders
<1>5. /\ \A i \in DOMAIN sends : sends[i].ctr \in (counter + 1) .. counter'
      /\ \A i, j \in DOMAIN sends :
           /\ sends[i].kind # "event" /\ sends[j].kind # "event" /\ sends[i].ctr = sends[j].ctr
           => i = j
  BY <1>1, <1>2, <1>3, <1>4
<1>6. counter' \in Nat /\ counter <= counter' /\ sends[1].kind # "event"
  BY <1>1, <1>3, <1>4
<1>7. Fresh(c, sends)
  BY <1>2, <1>4, <1>5, <1>6 DEF Fresh
<1> QED BY <1>7 DEF sends

\* A sequence after one more element.
LEMMA Prepended ==
  ASSUME NEW S, NEW e \in S, NEW q \in Seq(S)
  PROVE  /\ <<e>> \o q \in Seq(S) /\ <<e>> \o q # <<>> /\ DOMAIN (<<e>> \o q) = 1 .. (Len(q) + 1)
         /\ (<<e>> \o q)[1] = e /\ Tail(<<e>> \o q) = q
         /\ \A i \in 1 .. Len(q) : (<<e>> \o q)[i + 1] = q[i]
  OBVIOUS

\* The handler hands over the configured command, perhaps after a result.
Result == [kind |-> "result", feature |-> "LoadControl", ctr |-> counter + 1]
LEMMA ConfiguredIsFresh ==
  ASSUME Types, NEW ref, NEW h, NEW ack, RecvLimits(ref, h, ack), CommandDue
  PROVE  \E w \in Nat : \E sends :
           /\ w > counter /\ counter' = w + 1
           /\ autoWrite' = w /\ autoRead' = w + 1 /\ autoSent'
           /\ Fresh(Handler, sends)
           /\ sends = CommandOutput(w) \/ sends = <<Result>> \o CommandOutput(w)
<1>1. counter \in Nat
  BY DEF Types
<1>2. outbox[Handler] = <<>> /\ Handler \in Senders
  BY DEF RecvLimits, Reading, Senders
<1>3. CASE ~ack
  <2> DEFINE w == counter + 1
             sends == CommandOutput(w)
  <2>1. Numbered(<<>>) = <<>>
    BY DEF Numbered
  <2>2. w \in Nat /\ w > counter
    BY <1>1
  <2>3. /\ sends \in Seq(Output) /\ DOMAIN sends = {1, 2, 3}
        /\ sends = <<Entry("write", w), Entry("readback", w + 1), Entry("event", w)>>
    BY <2>2, CommandIs
  <2>4. <<>> \o sends = sends
    BY <2>3
  <2>5. /\ HandOver(Handler, <<>> \o sends) /\ counter' = w + 1
        /\ autoWrite' = w /\ autoRead' = w + 1 /\ autoSent'
    <3>1. Len(<<>>) = 0 /\ counter + 0 + 1 = w /\ w + 1 = counter + 2
      BY <1>1
    <3> HIDE DEF sends
    <3>2. /\ HandOver(Handler, <<>> \o CommandOutput(counter + 0 + 1))
          /\ counter' = counter + 0 + 1 + 1
          /\ autoWrite' = counter + 0 + 1 /\ autoRead' = counter + 0 + 1 + 1 /\ autoSent'
      BY <1>3, <2>1, <3>1 DEF RecvLimits
    <3> QED BY <3>1, <3>2 DEF sends
  <2>6. /\ sends[1].ctr = w /\ sends[2].ctr = w + 1 /\ sends[3].ctr = w
        /\ sends[1].kind = "write" /\ sends[2].kind = "readback" /\ sends[3].kind = "event"
    BY <2>3 DEF Entry
  <2> HIDE DEF sends
  <2>7. /\ \A i \in DOMAIN sends : sends[i].ctr \in (counter + 1) .. counter'
        /\ \A i, j \in DOMAIN sends :
             /\ sends[i].kind # "event" /\ sends[j].kind # "event" /\ sends[i].ctr = sends[j].ctr
             => i = j
    BY <1>1, <2>3, <2>5, <2>6
  <2>8. counter' \in Nat /\ counter <= counter' /\ sends[1].kind # "event"
    BY <1>1, <2>5, <2>6
  <2>9. Fresh(Handler, sends)
    BY <1>2, <2>3, <2>4, <2>5, <2>7, <2>8 DEF Fresh
  <2> QED BY <2>2, <2>5, <2>9 DEF sends
<1>4. CASE ack
  <2> DEFINE w == counter + 2
             x == Entry("write", w)
             y == Entry("readback", w + 1)
             z == Entry("event", w)
             sends == <<Result>> \o CommandOutput(w)
  <2>1. Numbered(<<Item("result", "LoadControl")>>) = <<Result>>
    BY <1>1 DEF Numbered, Item, Result
  <2>2. w \in Nat /\ w > counter
    BY <1>1
  <2>3. CommandOutput(w) = <<x, y, z>> /\ x \in Output /\ y \in Output /\ z \in Output
    BY <2>2, CommandIs, FeaturesAre DEF Entry, Output, Kinds, Names
  <2>4. Result \in Output
    BY <1>1, FeaturesAre DEF Result, Output, Kinds, Names
  <2>5. /\ HandOver(Handler, sends) /\ counter' = w + 1
        /\ autoWrite' = w /\ autoRead' = w + 1 /\ autoSent'
    <3>1. Len(<<Item("result", "LoadControl")>>) = 1
      OBVIOUS
    <3>2. counter + 1 + 1 = w
      BY <1>1
    <3> QED BY <1>4, <2>1, <3>1, <3>2 DEF RecvLimits
  <2>6. /\ x.ctr = w /\ y.ctr = w + 1 /\ z.ctr = w /\ Result.ctr = counter + 1
        /\ x.kind = "write" /\ y.kind = "readback" /\ z.kind = "event" /\ Result.kind = "result"
    BY DEF Entry, Result
  <2> HIDE DEF x, y, z
  <2>7. /\ <<x, y, z>> \in Seq(Output) /\ Len(<<x, y, z>>) = 3
        /\ <<x, y, z>>[1] = x /\ <<x, y, z>>[2] = y /\ <<x, y, z>>[3] = z
    BY <2>3
  <2>8. /\ sends \in Seq(Output) /\ DOMAIN sends = {1, 2, 3, 4}
        /\ sends[1] = Result /\ sends[2] = x /\ sends[3] = y /\ sends[4] = z
    <3> DEFINE q == <<x, y, z>>
               e == Result
    <3>1. q \in Seq(Output) /\ Len(q) = 3 /\ q[1] = x /\ q[2] = y /\ q[3] = z /\ sends = <<e>> \o q
      BY <2>3, <2>7
    <3>2. e \in Output /\ q \in Seq(Output)
      BY <2>4, <2>7
    <3> HIDE DEF q, e, sends
    <3>3. /\ <<e>> \o q \in Seq(Output) /\ DOMAIN (<<e>> \o q) = 1 .. (Len(q) + 1)
          /\ (<<e>> \o q)[1] = e
          /\ \A i \in 1 .. Len(q) : (<<e>> \o q)[i + 1] = q[i]
      BY ONLY <3>2, Prepended, SMTT(30)
    <3>4. /\ sends \in Seq(Output) /\ DOMAIN sends = 1 .. 4
          /\ sends[1] = e /\ sends[1 + 1] = q[1] /\ sends[2 + 1] = q[2] /\ sends[3 + 1] = q[3]
      BY <3>1, <3>3
    <3>5. 1 .. 4 = {1, 2, 3, 4} /\ 1 + 1 = 2 /\ 2 + 1 = 3 /\ 3 + 1 = 4
      OBVIOUS
    <3> QED BY <3>1, <3>4, <3>5 DEF e
  <2> HIDE DEF sends
  <2>9. /\ \A i \in DOMAIN sends : sends[i].ctr \in (counter + 1) .. counter'
        /\ \A i, j \in DOMAIN sends :
             /\ sends[i].kind # "event" /\ sends[j].kind # "event" /\ sends[i].ctr = sends[j].ctr
             => i = j
    BY <1>1, <2>5, <2>6, <2>8
  <2>10. counter' \in Nat /\ counter <= counter' /\ sends[1].kind # "event"
    BY <1>1, <2>5, <2>6, <2>8
  <2>11. Fresh(Handler, sends)
    BY <1>2, <2>5, <2>8, <2>9, <2>10 DEF Fresh
  <2> QED BY <2>2, <2>5, <2>11 DEF sends
<1> QED BY <1>3, <1>4

-----------------------------------------------------------------------------
(* What the senders do. *)

\* A datagram handed over is on the wire, and the rest of its sender's waits.
LEMMA Sending ==
  ASSUME Types, NEW s \in Senders, NEW sends \in Seq(Output), sends # <<>>,
         sends[1].kind # "event", Send(s, sends)
  PROVE  /\ 1 \in DOMAIN sends /\ sends[1] \in Data
         /\ wire' = wire \cup {sends[1]}
         /\ lastWrite' = IF sends[1].kind = "write" THEN sends[1].ctr ELSE lastWrite
         /\ outbox' \in [Senders -> Seq(Output)] /\ outbox'[s] = Tail(sends)
         /\ \A t \in Senders \ {s} : outbox'[t] = outbox[t]
         /\ \A i \in DOMAIN outbox'[s] : i + 1 \in DOMAIN sends /\ i + 1 # 1 /\ outbox'[s][i] = sends[i + 1]
         /\ \A i \in DOMAIN sends : i = 1 \/ (i - 1 \in DOMAIN outbox'[s] /\ outbox'[s][i - 1] = sends[i])
<1>1. /\ 1 \in DOMAIN sends /\ sends[1] \in Output /\ Head(sends) = sends[1]
      /\ Tail(sends) \in Seq(Output) /\ DOMAIN Tail(sends) = 1 .. (Len(sends) - 1)
      /\ Len(sends) \in Nat /\ DOMAIN sends = 1 .. Len(sends)
      /\ \A i \in DOMAIN Tail(sends) : Tail(sends)[i] = sends[i + 1]
  OBVIOUS
<1>2. sends[1] \in Data
  BY <1>1 DEF Output, Data
<1>3. outbox' = [outbox EXCEPT ![s] = Tail(sends)] /\ outbox \in [Senders -> Seq(Output)]
  BY DEF Send, Types
<1>4. wire' = wire \cup {sends[1]}
  <2>1. {sends[i] : i \in DOMAIN sends \cap {1}} = {sends[1]}
    BY <1>1
  <2> QED BY <2>1 DEF Send
<1>5. lastWrite' = IF sends[1].kind = "write" THEN sends[1].ctr ELSE lastWrite
  BY <1>1 DEF Send
<1> DEFINE rest == Tail(sends)
<1> HIDE DEF rest
<1>6. /\ outbox' \in [Senders -> Seq(Output)] /\ outbox'[s] = rest
      /\ \A t \in Senders \ {s} : outbox'[t] = outbox[t]
  BY <1>1, <1>3 DEF rest
<1>7. /\ \A i \in DOMAIN rest : i + 1 \in DOMAIN sends /\ i + 1 # 1 /\ rest[i] = sends[i + 1]
      /\ \A i \in DOMAIN sends : i = 1 \/ (i - 1 \in DOMAIN rest /\ rest[i - 1] = sends[i])
  BY <1>1 DEF rest
<1> QED BY <1>1, <1>2, <1>4, <1>5, <1>6, <1>7 DEF rest

\* A sender that begins sends the first of its datagrams, or has none.
LEMMA Begins ==
  ASSUME Types, NEW s, NEW sends, Fresh(s, sends)
  PROVE  \/ UNCHANGED <<wire, lastWrite, outbox>> /\ sends = <<>>
         \/ /\ sends # <<>> /\ sends[1].kind # "event" /\ sends \in Seq(Output) /\ s \in Senders
            /\ Send(s, sends)
<1>1. Send(s, sends) /\ s \in Senders /\ outbox[s] = <<>> /\ sends \in Seq(Output)
  BY DEF Fresh, HandOver
<1>2. CASE sends # <<>>
  BY <1>1, <1>2 DEF Fresh
<1>3. CASE sends = <<>>
  <2>1. DOMAIN sends \cap {1} = {}
    BY <1>3
  <2>2. wire' = wire /\ lastWrite' = lastWrite /\ outbox' = [outbox EXCEPT ![s] = <<>>]
    BY <1>1, <1>3, <2>1 DEF Send
  <2>3. outbox' = outbox
    BY <1>1, <2>2 DEF Types
  <2> QED BY <1>3, <2>2, <2>3
<1> QED BY <1>2, <1>3

\* A sender that goes on sends its next datagram, or emits its event.
LEMMA GoesOn ==
  ASSUME Types, NEW s \in Senders, SendNext(s)
  PROVE  /\ outbox[s] # <<>> /\ outbox[s] \in Seq(Output) /\ 1 \in DOMAIN outbox[s]
         /\ outbox[s][1] \in Output
         /\ UNCHANGED <<auto, counter, session, pendingW, pendingR, peer>>
         /\ outbox[s][1].kind # "event" => Send(s, outbox[s]) /\ UNCHANGED log
         /\ outbox[s][1].kind = "event" =>
              /\ UNCHANGED <<wire, lastWrite>> /\ log' = log \cup {<<"writeSent", outbox[s][1].ctr>>}
              /\ outbox' \in [Senders -> Seq(Output)] /\ outbox'[s] = Tail(outbox[s])
              /\ \A t \in Senders \ {s} : outbox'[t] = outbox[t]
              /\ \A i \in DOMAIN outbox'[s] :
                   i + 1 \in DOMAIN outbox[s] /\ i + 1 # 1 /\ outbox'[s][i] = outbox[s][i + 1]
              /\ \A i \in DOMAIN outbox[s] :
                   i = 1 \/ (i - 1 \in DOMAIN outbox'[s] /\ outbox'[s][i - 1] = outbox[s][i])
<1> DEFINE q == outbox[s]
<1>1. q \in Seq(Output) /\ q # <<>>
  BY DEF Types, SendNext
<1>2. /\ UNCHANGED <<auto, counter, session, pendingW, pendingR, peer>>
      /\ IF Head(q).kind = "event"
         THEN /\ Emit({<<"writeSent", Head(q).ctr>>})
              /\ outbox' = [outbox EXCEPT ![s] = Tail(@)] /\ UNCHANGED <<wire, lastWrite>>
         ELSE Send(s, q) /\ UNCHANGED log
  BY DEF SendNext
<1>3. outbox \in [Senders -> Seq(Output)]
  BY DEF Types
<1>4. outbox' = [outbox EXCEPT ![s] = Tail(@)] =>
        /\ outbox' \in [Senders -> Seq(Output)] /\ outbox'[s] = Tail(q)
        /\ \A t \in Senders \ {s} : outbox'[t] = outbox[t]
  <2>1. Tail(q) \in Seq(Output)
    BY <1>1
  <2> QED BY <1>3, <2>1
<1> HIDE DEF q
<1>5. /\ 1 \in DOMAIN q /\ q[1] \in Output /\ Head(q) = q[1]
      /\ \A i \in DOMAIN Tail(q) : i + 1 \in DOMAIN q /\ i + 1 # 1 /\ Tail(q)[i] = q[i + 1]
      /\ \A i \in DOMAIN q : i = 1 \/ (i - 1 \in DOMAIN Tail(q) /\ Tail(q)[i - 1] = q[i])
  BY <1>1
<1>6. q = outbox[s]
  BY DEF q
<1> QED BY <1>1, <1>2, <1>4, <1>5, <1>6 DEF Emit

\* Every step is of a sender that begins or goes on, or leaves all as it is.
LEMMA Steps ==
  ASSUME Types, [Next]_vars
  PROVE  \/ \E s, sends : Fresh(s, sends)
         \/ \E s \in Senders : SendNext(s) /\ UNCHANGED counter
         \/ UNCHANGED vars
<1>1. ASSUME NEW items, Handles(items) PROVE \E s, sends : Fresh(s, sends)
  BY <1>1, HandlesFresh
<1>2. ASSUME NEW ref, NEW h, NEW ack, RecvLimits(ref, h, ack) PROVE \E s, sends : Fresh(s, sends)
  BY <1>1, <1>2, HandlersAsk, ConfiguredIsFresh
<1>3. ASSUME NEW s \in Senders, SendNext(s) PROVE UNCHANGED counter
  BY <1>3 DEF SendNext
<1> QED BY <1>1, <1>2, <1>3, HandlersAsk, ForwardIsFresh DEF Next

\* Before the first datagram nothing is asked and nothing answered.
LEMMA InitIInv == Init => IInv
<1> SUFFICES ASSUME Init PROVE IInv
  OBVIOUS
<1>1. OnWire = {} /\ Waiting = {} /\ \A s \in Senders : outbox[s] = <<>> /\ DOMAIN outbox[s] = {}
  <2>1. \A s \in Senders : outbox[s] = <<>> /\ DOMAIN outbox[s] = {}
    BY DEF Init
  <2>2. Waiting = {}
    BY <2>1 DEF Waiting
  <2> QED BY <2>1, <2>2 DEF Init, OnWire
<1>2. Types
  <2>1. outbox \in [Senders -> Seq(Output)]
    BY DEF Init
  <2> QED BY <2>1 DEF Init, Types, NoCounter
<1>3. Counted /\ AutoCommand
  BY <1>1 DEF Init, Counted, AutoCommand, NoCounter, Used
<1>4. CommandsInOrder
  BY <1>1 DEF Init, CommandsInOrder, HandlerInOrder, CallersInOrder, Senders
<1>5. CountersUnique /\ RefsUnambiguous /\ ReadsFollowBinding
  BY <1>1 DEF Init, CountersUnique, RefsUnambiguous, ReadsFollowBinding
<1> QED BY <1>2, <1>3, <1>4, <1>5 DEF IInv

-----------------------------------------------------------------------------
(* The steps. *)

\* Every sending step keeps the types of what is sent, and its numbers counted.
LEMMA SentTypes ==
  ASSUME Types, Counted, [Next]_vars
  PROVE  /\ counter' \in Nat /\ Used \subseteq Used'
         /\ outbox' \in [Senders -> Seq(Output)] /\ wire' \subseteq Data /\ wire \subseteq wire'
         /\ lastWrite' \in Nat
         /\ OnWire' \subseteq Used'
         /\ \A s \in Senders : \A i \in DOMAIN outbox'[s] : outbox'[s][i].ctr \in Used'
<1>0. /\ counter \in Nat /\ outbox \in [Senders -> Seq(Output)] /\ wire \subseteq Data
      /\ lastWrite \in Nat
      /\ \A s \in Senders : outbox[s] \in Seq(Output)
      /\ \A s \in Senders : \A i \in DOMAIN outbox[s] : outbox[s][i].ctr \in Used
  BY DEF Types, Counted
<1>1. ASSUME counter' \in Nat, counter <= counter', NEW s \in Senders, NEW sends \in Seq(Output),
             sends # <<>>, sends[1].kind # "event", Send(s, sends),
             \A i \in DOMAIN sends : sends[i].ctr \in Used'
      PROVE  /\ outbox' \in [Senders -> Seq(Output)] /\ wire' \subseteq Data /\ wire \subseteq wire'
             /\ lastWrite' \in Nat /\ OnWire' \subseteq Used'
             /\ \A t \in Senders : \A i \in DOMAIN outbox'[t] : outbox'[t][i].ctr \in Used'
  <2>0. Used \subseteq Used'
    BY <1>0, <1>1 DEF Used
  <2>1. /\ 1 \in DOMAIN sends /\ sends[1] \in Data
        /\ wire' = wire \cup {sends[1]}
        /\ lastWrite' = IF sends[1].kind = "write" THEN sends[1].ctr ELSE lastWrite
        /\ outbox' \in [Senders -> Seq(Output)]
        /\ \A t \in Senders \ {s} : outbox'[t] = outbox[t]
        /\ \A i \in DOMAIN outbox'[s] : i + 1 \in DOMAIN sends /\ outbox'[s][i] = sends[i + 1]
    BY <1>1, Sending
  <2>2. lastWrite' \in Nat
    BY <1>0, <2>1 DEF Data
  <2>3. OnWire' \subseteq Used'
    BY <1>1, <2>0, <2>1 DEF OnWire, Counted
  <2>4. ASSUME NEW t \in Senders, NEW i \in DOMAIN outbox'[t] PROVE outbox'[t][i].ctr \in Used'
    <3>1. CASE t = s
      BY <1>1, <2>1, <2>4, <3>1
    <3>2. CASE t # s
      BY <1>0, <2>0, <2>1, <2>4, <3>2
    <3> QED BY <3>1, <3>2
  <2> QED BY <1>0, <2>1, <2>2, <2>3, <2>4
<1>2. ASSUME NEW s, NEW sends, Fresh(s, sends)
      PROVE  counter' \in Nat /\ counter <= counter' /\ \A i \in DOMAIN sends : sends[i].ctr \in Used'
  <2>1. counter' \in Nat /\ counter <= counter'
        /\ \A i \in DOMAIN sends : sends[i].ctr \in (counter + 1) .. counter'
    BY <1>2 DEF Fresh
  <2> QED BY <1>0, <2>1 DEF Used
<1>3. ASSUME UNCHANGED <<wire, lastWrite, outbox>>, counter' \in Nat, counter <= counter'
      PROVE  /\ outbox' \in [Senders -> Seq(Output)] /\ wire' \subseteq Data /\ wire \subseteq wire'
             /\ lastWrite' \in Nat /\ OnWire' \subseteq Used'
             /\ \A t \in Senders : \A i \in DOMAIN outbox'[t] : outbox'[t][i].ctr \in Used'
  <2>1. Used \subseteq Used' /\ UNCHANGED OnWire
    BY <1>0, <1>3 DEF Used, OnWire
  <2> QED BY <1>0, <1>3, <2>1 DEF Counted
<1>4. counter' \in Nat /\ counter <= counter'
  <2>1. CASE UNCHANGED counter
    BY <1>0, <2>1
  <2> QED BY <1>2, <2>1, Steps DEF vars
<1>5. ASSUME NEW s, NEW sends, Fresh(s, sends)
      PROVE  /\ outbox' \in [Senders -> Seq(Output)] /\ wire' \subseteq Data /\ wire \subseteq wire'
             /\ lastWrite' \in Nat /\ OnWire' \subseteq Used'
             /\ \A t \in Senders : \A i \in DOMAIN outbox'[t] : outbox'[t][i].ctr \in Used'
  BY <1>1, <1>2, <1>3, <1>4, <1>5, Begins
<1>6. ASSUME NEW s \in Senders, SendNext(s), UNCHANGED counter
      PROVE  /\ outbox' \in [Senders -> Seq(Output)] /\ wire' \subseteq Data /\ wire \subseteq wire'
             /\ lastWrite' \in Nat /\ OnWire' \subseteq Used'
             /\ \A t \in Senders : \A i \in DOMAIN outbox'[t] : outbox'[t][i].ctr \in Used'
  <2>1. UNCHANGED Used
    BY <1>6 DEF Used
  <2>2. CASE outbox[s][1].kind # "event"
    BY <1>0, <1>1, <1>4, <1>6, <2>1, <2>2, GoesOn
  <2>3. CASE outbox[s][1].kind = "event"
    <3>1. /\ UNCHANGED <<wire, lastWrite>> /\ outbox' \in [Senders -> Seq(Output)]
          /\ \A t \in Senders \ {s} : outbox'[t] = outbox[t]
          /\ \A i \in DOMAIN outbox'[s] : i + 1 \in DOMAIN outbox[s] /\ outbox'[s][i] = outbox[s][i + 1]
      BY <1>6, <2>3, GoesOn
    <3>2. ASSUME NEW t \in Senders, NEW i \in DOMAIN outbox'[t] PROVE outbox'[t][i].ctr \in Used
      <4>1. CASE t = s
        BY <1>0, <3>1, <3>2, <4>1
      <4>2. CASE t # s
        BY <1>0, <3>1, <3>2, <4>2
      <4> QED BY <4>1, <4>2
    <3>3. UNCHANGED OnWire
      BY <3>1 DEF OnWire
    <3> QED BY <1>0, <2>1, <3>1, <3>2, <3>3 DEF Counted
  <2> QED BY <2>2, <2>3
<1>7. Used \subseteq Used'
  BY <1>0, <1>4 DEF Used
<1>8. CASE UNCHANGED vars
  BY <1>3, <1>4, <1>7, <1>8 DEF vars
<1> QED BY <1>4, <1>5, <1>6, <1>7, <1>8, Steps

\* Every step keeps the types, and what it logs and knows is counted.
LEMMA TypesStep == Types /\ Counted /\ [Next]_vars => Types' /\ Counted'
<1> SUFFICES ASSUME Types, Counted, [Next]_vars PROVE Types' /\ Counted'
  OBVIOUS
<1>0. /\ counter' \in Nat /\ Used \subseteq Used'
      /\ outbox' \in [Senders -> Seq(Output)] /\ wire' \subseteq Data
      /\ lastWrite' \in Nat
      /\ OnWire' \subseteq Used'
      /\ \A s \in Senders : \A i \in DOMAIN outbox'[s] : outbox'[s][i].ctr \in Used'
  BY SentTypes
<1>1. ASSUME auto' \in BOOLEAN, pendingBind' \subseteq [ctr : Nat, feature : Features],
             pendingW' \subseteq Nat, pendingR' \subseteq Nat, autoWrite' \in Nat, autoRead' \in Nat,
             \A e \in log' : e \in log \/ (e \in LogKinds \X (Nat \ {NoCounter}) /\ e[2] \in Used),
             {autoWrite', autoRead'} \subseteq Used' \cup {NoCounter}
      PROVE  Types' /\ Counted'
  <2>1. log' \subseteq LogKinds \X (Nat \ {NoCounter}) /\ \A e \in log' : e[2] \in Used'
    BY <1>0, <1>1 DEF Types, Counted
  <2> QED BY <1>0, <1>1, <2>1 DEF Types, Counted
<1>2. ASSUME UNCHANGED <<auto, autoWrite, autoRead>>, pendingBind' \subseteq pendingBind,
             pendingW' \subseteq pendingW, pendingR' \subseteq pendingR,
             \A e \in log' : e \in log \/ (e \in LogKinds \X (Nat \ {NoCounter}) /\ e[2] \in Used)
      PROVE  Types' /\ Counted'
  BY <1>0, <1>1, <1>2 DEF Types, Counted
<1>3. CASE RecvDiscoveryRead
  BY <1>2, <1>3 DEF RecvDiscoveryRead
<1>4. ASSUME NEW update \in Updates, RecvDiscovery(update) PROVE Types' /\ Counted'
  <2> DEFINE items == BindingBootstrap(MergeDiscovery(known, update))
             sends == Numbered(items)
  <2>1. ASSUME NEW j \in DOMAIN sends, sends[j].kind = "bind"
        PROVE  sends[j].ctr \in Nat /\ sends[j].feature \in Features
    <3>1. items \in Seq(Asks)
      BY BootstrapsAsk
    <3>2. items \in Seq([kind : Kinds, feature : Names])
      <4> HIDE DEF items
      <4> QED BY <3>1, AsksAreItems
    <3>3. \A i \in 1 .. Len(items) : items[i] \in Asks
      BY <3>1, Elements
    <3>4. counter \in Nat
      BY DEF Types
    <3>5. /\ DOMAIN sends = 1 .. Len(items)
          /\ \A i \in 1 .. Len(items) :
               /\ sends[i].ctr = counter + i
               /\ sends[i].kind = items[i].kind
               /\ sends[i].feature = items[i].feature
          /\ Len(items) \in Nat
      BY <3>2, <3>4, NumberedItems
    <3> HIDE DEF items, sends
    <3> QED BY <2>1, <3>3, <3>4, <3>5 DEF Asks
  <2> HIDE DEF items
  <2>2. pendingBind' = pendingBind \cup
          {[ctr |-> d.ctr, feature |-> d.feature] :
              d \in {sends[i] : i \in {j \in DOMAIN sends : sends[j].kind = "bind"}}}
    BY <1>4 DEF RecvDiscovery, items
  <2>3. pendingBind' \subseteq [ctr : Nat, feature : Features]
    <3> HIDE DEF sends
    <3>1. pendingBind \subseteq [ctr : Nat, feature : Features]
      BY DEF Types
    <3> QED BY <2>1, <2>2, <3>1
  <2>4. UNCHANGED <<auto, autoWrite, autoRead, pendingW, pendingR, log>>
    BY <1>4 DEF RecvDiscovery
  <2> QED BY <1>0, <1>1, <2>3, <2>4 DEF Types, Counted
<1>5. ASSUME NEW ref, NEW ok, RecvResult(ref, ok) PROVE Types' /\ Counted'
  <2>1. ref \in Used /\ ref \in Nat \ {NoCounter}
    <3>1. ref \in OnWire
      BY <1>5 DEF RecvResult
    <3> QED BY <3>1 DEF Counted, Used, NoCounter
  <2>2. \A e \in log' : e \in log \/ (e \in LogKinds \X (Nat \ {NoCounter}) /\ e[2] \in Used)
    BY <1>5, <2>1 DEF RecvResult, Emit, LogKinds
  <2> QED BY <1>2, <1>5, <2>2 DEF RecvResult, StillPending
<1>6. ASSUME NEW ref, NEW h, NEW ack, RecvLimits(ref, h, ack) PROVE Types' /\ Counted'
  <2>1. ref \in Used /\ ref \in Nat \ {NoCounter}
    BY <1>6 DEF RecvLimits, Counted, Used, NoCounter
  <2>2. /\ \A e \in log' : e \in log \/ (e \in LogKinds \X (Nat \ {NoCounter}) /\ e[2] \in Used)
        /\ UNCHANGED <<auto, pendingBind, pendingW>> /\ pendingR' \subseteq pendingR
    BY <1>6, <2>1 DEF RecvLimits, Emit, LogKinds
  <2>3. CASE ~CommandDue
    <3>1. UNCHANGED <<autoWrite, autoRead>>
      BY <1>6, <2>3 DEF RecvLimits
    <3> QED BY <1>2, <2>2, <3>1
  <2>4. CASE CommandDue
    <3>1. PICK w \in Nat : /\ w > counter /\ counter' = w + 1 /\ autoWrite' = w /\ autoRead' = w + 1
      BY <1>6, <2>4, ConfiguredIsFresh
    <3>2. {autoWrite', autoRead'} \subseteq Used' \cup {NoCounter} /\ autoWrite' \in Nat /\ autoRead' \in Nat
      <4>1. counter \in Nat
        BY DEF Types
      <4> QED BY <3>1, <4>1 DEF Used
    <3> QED BY <1>1, <2>2, <3>2 DEF Types
  <2> QED BY <2>3, <2>4
<1>7. ASSUME NEW b, RecvBindingTable(b) PROVE Types' /\ Counted'
  BY <1>2, <1>7 DEF RecvBindingTable
<1>8. ASSUME NEW s \in Senders, SendNext(s) PROVE Types' /\ Counted'
  <2>1. UNCHANGED <<auto, autoWrite, autoRead, pendingBind, pendingW, pendingR>>
    BY <1>8, GoesOn DEF session
  <2>2. outbox[s][1].ctr \in Used /\ outbox[s][1].ctr \in Nat \ {NoCounter}
    <3>1. 1 \in DOMAIN outbox[s]
      BY <1>8, GoesOn
    <3> QED BY <3>1 DEF Counted, Used, NoCounter
  <2>3. \A e \in log' : e \in log \/ e = <<"writeSent", outbox[s][1].ctr>>
    BY <1>8, GoesOn
  <2> QED BY <1>2, <2>1, <2>2, <2>3 DEF LogKinds
<1>9. ASSUME NEW c \in Callers, ForwardBegins(c) PROVE Types' /\ Counted'
  <2>1. /\ pendingW' = pendingW \cup {counter + 1} /\ pendingR' = pendingR \cup {counter + 2}
        /\ UNCHANGED <<auto, autoWrite, autoRead, pendingBind, log>>
    BY <1>9 DEF ForwardBegins, session
  <2> QED BY <1>0, <1>1, <2>1 DEF Types, Counted
<1>10. CASE UNCHANGED vars
  BY <1>2, <1>10 DEF vars, session
<1> QED BY <1>3, <1>4, <1>5, <1>6, <1>7, <1>8, <1>9, <1>10 DEF Next

\* The configured command is prepared once.
LEMMA AutoCommandStep == Types /\ Counted /\ AutoCommand /\ [Next]_vars => AutoCommand'
<1> SUFFICES ASSUME Types, Counted, AutoCommand, [Next]_vars PROVE AutoCommand'
  OBVIOUS
<1>1. CASE UNCHANGED <<autoSent, autoWrite, autoRead>>
  BY <1>1 DEF AutoCommand
<1>2. ASSUME NEW ref, NEW h, NEW ack, RecvLimits(ref, h, ack) PROVE AutoCommand'
  <2>1. CASE ~CommandDue
    BY <1>1, <1>2, <2>1 DEF RecvLimits
  <2>2. CASE CommandDue
    <3>1. PICK w \in Nat : w > counter /\ autoWrite' = w /\ autoRead' = w + 1 /\ autoSent'
      BY <1>2, <2>2, ConfiguredIsFresh
    <3>2. counter \in Nat
      BY DEF Types
    <3> QED BY <3>1, <3>2 DEF AutoCommand, NoCounter
  <2> QED BY <2>1, <2>2
<1> QED BY <1>1, <1>2 DEF Next, vars, session, RecvDiscoveryRead, RecvDiscovery, RecvResult,
                          RecvBindingTable, SendNext, ForwardBegins

\* What the head of an outbox is: no command of the handler's, the configured
\* command's write, or what follows a write.
LEMMA NextOf ==
  ASSUME Types, Counted, CommandsInOrder, NEW s \in Senders, outbox[s] # <<>>
  PROVE  \/ s = Handler /\ \A i \in DOMAIN outbox[s] : ~OfCommand(outbox[s][i])
         \/ s = Handler /\ autoWrite # NoCounter /\ outbox[s] = CommandOutput(autoWrite)
         \/ \E w \in Used : Rest(s, w) /\ (s = Handler => autoWrite # NoCounter /\ w = autoWrite)
<1>1. CASE s = Handler
  <2>1. autoWrite # NoCounter => autoWrite \in Used
    BY DEF Counted
  <2> QED BY <1>1, <2>1 DEF CommandsInOrder, HandlerInOrder
<1>2. CASE s # Handler
  BY <1>2 DEF CommandsInOrder, CallersInOrder, Senders
<1> QED BY <1>1, <1>2

\* What a step of a sender with a rest of a command does.
LEMMA RestGoesOn ==
  ASSUME Types, NEW s \in Senders, NEW w \in Nat, Rest(s, w), SendNext(s)
  PROVE  /\ UNCHANGED lastWrite
         /\ \/ outbox'[s] = <<Entry("event", w)>>
            \/ outbox'[s] = <<>> /\ <<"writeSent", w>> \in log'
<1>1. CASE outbox[s] = <<Entry("readback", w + 1), Entry("event", w)>>
  <2>1. outbox[s][1].kind = "readback" /\ Tail(outbox[s]) = <<Entry("event", w)>>
    <3>1. outbox[s][1] = Entry("readback", w + 1) /\ Tail(outbox[s]) = <<Entry("event", w)>>
      <4> DEFINE a == Entry("readback", w + 1)
                 b == Entry("event", w)
      <4> HIDE DEF a, b
      <4>1. <<a, b>>[1] = a /\ Tail(<<a, b>>) = <<b>>
        OBVIOUS
      <4> QED BY <1>1, <4>1 DEF a, b
    <3> QED BY <3>1 DEF Entry
  <2>2. outbox[s] \in Seq(Output) /\ outbox[s] # <<>> /\ Send(s, outbox[s])
    BY <2>1, GoesOn
  <2> QED BY <2>1, <2>2, Sending
<1>2. CASE outbox[s] = <<Entry("event", w)>>
  <2>1. outbox[s][1] = Entry("event", w) /\ Tail(outbox[s]) = <<>>
    <3> DEFINE b == Entry("event", w)
    <3> HIDE DEF b
    <3>1. <<b>>[1] = b /\ Tail(<<b>>) = <<>>
      OBVIOUS
    <3> QED BY <1>2, <3>1 DEF b
  <2>2. outbox[s][1].kind = "event" /\ outbox[s][1].ctr = w
    BY <2>1 DEF Entry
  <2> QED BY <2>1, <2>2, GoesOn
<1> QED BY <1>1, <1>2 DEF Rest

\* A handler that asks for something writes nothing.
LEMMA HandlesNoWrite ==
  ASSUME Types, NEW items, Handles(items)
  PROVE  /\ UNCHANGED lastWrite
         /\ \A i \in DOMAIN outbox'[Handler] : ~OfCommand(outbox'[Handler][i])
         /\ \A t \in Senders \ {Handler} : outbox'[t] = outbox[t]
<1> DEFINE sends == Numbered(items)
<1>1. Fresh(Handler, sends) /\ \A i \in DOMAIN sends : ~OfCommand(sends[i])
  BY HandlesFresh
<1> HIDE DEF sends
<1>2. outbox[Handler] = <<>>
  BY <1>1 DEF Fresh
<1>3. CASE UNCHANGED <<wire, lastWrite, outbox>>
  BY <1>2, <1>3
<1>4. CASE /\ sends # <<>> /\ sends[1].kind # "event" /\ sends \in Seq(Output) /\ Handler \in Senders
           /\ Send(Handler, sends)
  <2>1. /\ 1 \in DOMAIN sends
        /\ lastWrite' = IF sends[1].kind = "write" THEN sends[1].ctr ELSE lastWrite
        /\ \A t \in Senders \ {Handler} : outbox'[t] = outbox[t]
        /\ \A i \in DOMAIN outbox'[Handler] : i + 1 \in DOMAIN sends /\ outbox'[Handler][i] = sends[i + 1]
    BY <1>4, Sending
  <2>2. sends[1].kind # "write"
    BY <1>1, <2>1 DEF OfCommand
  <2> QED BY <1>1, <2>1, <2>2
<1> QED BY <1>1, <1>3, <1>4, Begins

\* What the handler sends and keeps of the configured command.
LEMMA ConfiguredBegins ==
  ASSUME Types, AutoCommand, NEW ref, NEW h, NEW ack, RecvLimits(ref, h, ack), CommandDue
  PROVE  \E w \in Nat :
           /\ w > counter /\ counter' = w + 1 /\ autoWrite' = w /\ autoWrite = NoCounter
           /\ \A t \in Senders \ {Handler} : outbox'[t] = outbox[t]
           /\ \/ /\ outbox'[Handler] = <<Entry("readback", w + 1), Entry("event", w)>>
                 /\ lastWrite' = w /\ w \in Sent({"write"})'
              \/ outbox'[Handler] = CommandOutput(w) /\ UNCHANGED lastWrite
<1>0. PICK w \in Nat : \E sends :
           /\ w > counter /\ counter' = w + 1
           /\ autoWrite' = w /\ autoRead' = w + 1 /\ autoSent'
           /\ Fresh(Handler, sends)
           /\ sends = CommandOutput(w) \/ sends = <<Result>> \o CommandOutput(w)
  BY ConfiguredIsFresh
<1>1. PICK sends :
           /\ w > counter /\ counter' = w + 1
           /\ autoWrite' = w /\ autoRead' = w + 1 /\ autoSent'
           /\ Fresh(Handler, sends)
           /\ sends = CommandOutput(w) \/ sends = <<Result>> \o CommandOutput(w)
  BY <1>0
<1>2. autoWrite = NoCounter /\ counter \in Nat
  BY DEF AutoCommand, CommandDue, Types
<1>3. CommandOutput(w) \in Seq(Output) /\ CommandOutput(w) # <<>> /\ CommandOutput(w)[1] = Entry("write", w)
      /\ Tail(CommandOutput(w)) = <<Entry("readback", w + 1), Entry("event", w)>>
  BY CommandIs
<1>4. CASE sends = CommandOutput(w)
  <2>1. sends # <<>> /\ sends[1].kind # "event" /\ sends \in Seq(Output) /\ Send(Handler, sends)
        /\ Handler \in Senders
    BY <1>1, <1>3, <1>4, Begins
  <2>2. /\ wire' = wire \cup {sends[1]}
        /\ lastWrite' = IF sends[1].kind = "write" THEN sends[1].ctr ELSE lastWrite
        /\ outbox'[Handler] = Tail(sends)
        /\ \A t \in Senders \ {Handler} : outbox'[t] = outbox[t]
    BY <2>1, Sending
  <2>3. sends[1].kind = "write" /\ sends[1].ctr = w /\ sends[1] \in wire'
    BY <1>3, <1>4, <2>2 DEF Entry
  <2>4. w \in Sent({"write"})'
    BY <2>3 DEF Sent
  <2> QED BY <1>1, <1>2, <1>3, <1>4, <2>2, <2>3, <2>4
<1>5. CASE sends = <<Result>> \o CommandOutput(w)
  <2> DEFINE q == CommandOutput(w)
             e == Result
  <2>1. e \in Output
    BY <1>2, FeaturesAre DEF Result, Output, Kinds, Names
  <2>2. q \in Seq(Output) /\ sends = <<e>> \o q
    BY <1>3, <1>5
  <2>3. e.kind = "result"
    BY DEF Result
  <2> HIDE DEF q, e
  <2>4. sends # <<>> /\ sends[1] = e /\ Tail(sends) = q
    BY <2>1, <2>2
  <2>5. sends \in Seq(Output) /\ Send(Handler, sends) /\ Handler \in Senders
    BY <1>1 DEF Fresh, HandOver
  <2>6. /\ lastWrite' = IF sends[1].kind = "write" THEN sends[1].ctr ELSE lastWrite
        /\ outbox'[Handler] = Tail(sends)
        /\ \A t \in Senders \ {Handler} : outbox'[t] = outbox[t]
    BY <2>3, <2>4, <2>5, Sending
  <2> QED BY <1>1, <1>2, <2>3, <2>4, <2>6 DEF q
<1> QED BY <1>1, <1>4, <1>5

\* A caller's command begins with its write.
LEMMA ForwardSends ==
  ASSUME Types, NEW c \in Callers, ForwardBegins(c)
  PROVE  LET w == counter + 1
         IN  /\ w \in Nat /\ counter' = w + 1
             /\ outbox'[c] = <<Entry("readback", w + 1), Entry("event", w)>>
             /\ lastWrite' = w /\ w \in Sent({"write"})'
             /\ \A t \in Senders \ {c} : outbox'[t] = outbox[t]
<1> DEFINE w == counter + 1
           sends == CommandOutput(w)
<1>1. w \in Nat /\ counter' = w + 1
  BY DEF Types, ForwardBegins
<1>2. sends # <<>> /\ sends[1] = Entry("write", w)
      /\ Tail(sends) = <<Entry("readback", w + 1), Entry("event", w)>>
  BY <1>1, CommandIs
<1>3. Fresh(c, sends)
  BY ForwardIsFresh
<1> HIDE DEF sends
<1>4. sends \in Seq(Output) /\ Send(c, sends) /\ c \in Senders /\ sends[1].kind # "event"
  BY <1>2, <1>3, Begins
<1>5. /\ wire' = wire \cup {sends[1]}
      /\ lastWrite' = IF sends[1].kind = "write" THEN sends[1].ctr ELSE lastWrite
      /\ outbox'[c] = Tail(sends)
      /\ \A t \in Senders \ {c} : outbox'[t] = outbox[t]
  BY <1>2, <1>4, Sending
<1>6. sends[1].kind = "write" /\ sends[1].ctr = w /\ sends[1] \in wire'
  BY <1>2, <1>5 DEF Entry
<1>7. w \in Sent({"write"})'
  BY <1>6 DEF Sent
<1> QED BY <1>1, <1>2, <1>5, <1>6, <1>7

\* A command that was not overtaken by an older one stays so: every write after
\* it has a larger number, or is the configured command's.
LEMMA NotStaleStep ==
  ASSUME Types, Counted, AutoCommand, CommandsInOrder, [Next]_vars, NEW w \in Used, NotStale(w)
  PROVE  NotStale(w)'
<1>0. counter \in Nat /\ w \in Nat /\ w <= counter
  BY DEF Types, Used
<1>1. CASE UNCHANGED <<lastWrite, autoWrite>>
  BY <1>1 DEF NotStale
<1>2. ASSUME NEW items, Handles(items) PROVE NotStale(w)'
  <2>1. UNCHANGED <<lastWrite, autoWrite>>
    BY <1>2, HandlesNoWrite DEF Handles
  <2> QED BY <1>1, <2>1
<1>3. ASSUME NEW ref, NEW h, NEW ack, RecvLimits(ref, h, ack) PROVE NotStale(w)'
  <2>1. CASE ~CommandDue
    BY <1>2, <1>3, <2>1, HandlersAsk
  <2>2. CASE CommandDue
    <3>1. PICK v \in Nat :
           /\ v > counter /\ autoWrite' = v /\ autoWrite = NoCounter
           /\ lastWrite' = v \/ UNCHANGED lastWrite
      BY <1>3, <2>2, ConfiguredBegins
    <3>2. lastWrite >= w
      BY <3>1 DEF NotStale
    <3>3. v >= w
      BY <1>0, <3>1
    <3> QED BY <3>1, <3>2, <3>3 DEF NotStale
  <2> QED BY <2>1, <2>2
<1>4. ASSUME NEW s \in Senders, SendNext(s) PROVE NotStale(w)'
  <2>0. /\ outbox[s] # <<>> /\ 1 \in DOMAIN outbox[s] /\ UNCHANGED autoWrite
        /\ outbox[s] \in Seq(Output)
    BY <1>4, GoesOn DEF session
  <2>1. CASE outbox[s][1].kind \notin {"write", "event"}
    <3>1. UNCHANGED lastWrite
      BY <1>4, <2>0, <2>1, GoesOn, Sending
    <3> QED BY <1>1, <2>0, <3>1
  <2>2. CASE outbox[s][1].kind = "event"
    BY <1>1, <1>4, <2>0, <2>2, GoesOn
  <2>3. CASE s = Handler /\ \A i \in DOMAIN outbox[s] : ~OfCommand(outbox[s][i])
    <3>1. outbox[s][1].kind \notin {"write", "event"}
      BY <2>0, <2>3 DEF OfCommand
    <3> QED BY <2>1, <3>1
  <2>4. CASE autoWrite # NoCounter /\ outbox[s] = CommandOutput(autoWrite)
    <3>1. outbox[s][1] = Entry("write", autoWrite)
      BY <2>4, CommandIs DEF Types
    <3>2. outbox[s][1].kind = "write" /\ outbox[s][1].ctr = autoWrite
      BY <3>1 DEF Entry
    <3>3. lastWrite' = autoWrite
      BY <1>4, <2>0, <3>2, GoesOn, Sending
    <3> QED BY <2>0, <2>4, <3>3 DEF NotStale
  <2>5. ASSUME NEW v \in Used, Rest(s, v) PROVE NotStale(w)'
    <3>1. v \in Nat
      BY DEF Used
    <3>2. UNCHANGED lastWrite
      BY <1>4, <2>5, <3>1, RestGoesOn
    <3> QED BY <1>1, <2>0, <3>2
  <2> QED BY <2>0, <2>3, <2>4, <2>5, NextOf
<1>5. ASSUME NEW c \in Callers, ForwardBegins(c) PROVE NotStale(w)'
  <2>1. lastWrite' = counter + 1
    BY <1>5, ForwardSends
  <2> QED BY <1>0, <2>1 DEF NotStale
<1>6. CASE UNCHANGED vars
  BY <1>1, <1>6 DEF vars, session
<1> QED BY <1>2, <1>3, <1>4, <1>5, <1>6, HandlersAsk DEF Next

\* What is left of a command stays so while its sender does not send.
LEMMA RestStays ==
  ASSUME Types, Counted, AutoCommand, CommandsInOrder, [Next]_vars, NEW t, NEW w \in Used, Rest(t, w),
         outbox'[t] = outbox[t]
  PROVE  Rest(t, w)'
<1>1. wire \subseteq wire'
  BY SentTypes
<1>2. Sent({"write"}) \subseteq Sent({"write"})'
  BY <1>1 DEF Sent
<1>3. NotStale(w) => NotStale(w)'
  BY NotStaleStep
<1> QED BY <1>2, <1>3 DEF Rest, Entry

\* A step emits events and takes none back.
LEMMA LogGrows == [Next]_vars => log \subseteq log'
  BY DEF Next, vars, Emit, RecvDiscoveryRead, RecvDiscovery, RecvResult, RecvLimits, RecvBindingTable,
         SendNext, ForwardBegins

\* The outboxes hold the rests of commands, each after its write.
LEMMA CommandsInOrderStep ==
  Types /\ Counted /\ AutoCommand /\ CommandsInOrder /\ [Next]_vars => CommandsInOrder'
<1> SUFFICES ASSUME Types, Counted, AutoCommand, CommandsInOrder, [Next]_vars
             PROVE  CommandsInOrder'
  OBVIOUS
<1>0. counter \in Nat /\ Used \subseteq Used' /\ log \subseteq log' /\ Used \subseteq Nat /\ Used' \subseteq Nat
      /\ Handler \notin Callers /\ Handler \in Senders /\ Callers \subseteq Senders
  BY SentTypes, LogGrows, CallersAssumption DEF Types, Used, Senders
<1>1. ASSUME NEW c \in Callers, outbox'[c] = outbox[c]
      PROVE  outbox'[c] = <<>> \/ \E w \in Used' : Rest(c, w)'
  <2>1. CASE outbox[c] = <<>>
    BY <1>1, <2>1
  <2>2. ASSUME NEW w \in Used, Rest(c, w) PROVE \E v \in Used' : Rest(c, v)'
    <3>1. Rest(c, w)'
      BY <1>1, <2>2, RestStays
    <3> QED BY <1>0, <3>1
  <2> QED BY <2>1, <2>2 DEF CommandsInOrder, CallersInOrder
<1>2. ASSUME outbox'[Handler] = outbox[Handler], UNCHANGED autoWrite PROVE HandlerInOrder'
  <2>1. CASE /\ \A i \in DOMAIN outbox[Handler] : ~OfCommand(outbox[Handler][i])
             /\ autoWrite # NoCounter => <<"writeSent", autoWrite>> \in log
    BY <1>0, <1>2, <2>1 DEF HandlerInOrder, OfCommand
  <2>2. CASE autoWrite # NoCounter /\ outbox[Handler] = CommandOutput(autoWrite)
    BY <1>2, <2>2 DEF HandlerInOrder, CommandOutput
  <2>3. CASE autoWrite # NoCounter /\ Rest(Handler, autoWrite)
    <3>1. autoWrite \in Used
      BY <2>3 DEF Counted
    <3>2. Rest(Handler, autoWrite)'
      BY <1>2, <2>3, <3>1, RestStays DEF Rest, NotStale, Entry
    <3> QED BY <1>2, <2>3, <3>2 DEF HandlerInOrder
  <2> QED BY <2>1, <2>2, <2>3 DEF CommandsInOrder, HandlerInOrder
<1>3. ASSUME NEW items, Handles(items) PROVE CommandsInOrder'
  <2>1. /\ \A i \in DOMAIN outbox'[Handler] : ~OfCommand(outbox'[Handler][i])
        /\ \A t \in Senders \ {Handler} : outbox'[t] = outbox[t]
    BY <1>3, HandlesNoWrite
  <2>2. outbox[Handler] = <<>> /\ UNCHANGED autoWrite
    BY <1>3 DEF Handles, Reading
  <2>3. autoWrite # NoCounter => <<"writeSent", autoWrite>> \in log
    <3>1. autoWrite # NoCounter => autoWrite \in Nat /\ CommandOutput(autoWrite) # <<>>
      BY CommandIs DEF Types
    <3>2. ~Rest(Handler, autoWrite)
      BY <2>2 DEF Rest
    <3> QED BY <2>2, <3>1, <3>2 DEF CommandsInOrder, HandlerInOrder
  <2>4. HandlerInOrder'
    BY <1>0, <2>1, <2>2, <2>3 DEF HandlerInOrder, OfCommand
  <2> QED BY <1>0, <1>1, <2>1, <2>4 DEF CommandsInOrder, CallersInOrder
<1>4. ASSUME NEW ref, NEW h, NEW ack, RecvLimits(ref, h, ack) PROVE CommandsInOrder'
  <2>1. CASE ~CommandDue
    BY <1>3, <1>4, <2>1, HandlersAsk
  <2>2. CASE CommandDue
    <3>1. PICK w \in Nat :
           /\ w > counter /\ autoWrite' = w
           /\ \A t \in Senders \ {Handler} : outbox'[t] = outbox[t]
           /\ \/ /\ outbox'[Handler] = <<Entry("readback", w + 1), Entry("event", w)>>
                 /\ lastWrite' = w /\ w \in Sent({"write"})'
              \/ outbox'[Handler] = CommandOutput(w) /\ UNCHANGED lastWrite
      BY <1>4, <2>2, ConfiguredBegins
    <3>2. HandlerInOrder'
      BY <1>0, <3>1 DEF HandlerInOrder, Rest, NotStale, NoCounter, CommandOutput, Entry
    <3> QED BY <1>0, <1>1, <3>1, <3>2 DEF CommandsInOrder, CallersInOrder
  <2> QED BY <2>1, <2>2
<1>5. ASSUME NEW s \in Senders, SendNext(s) PROVE CommandsInOrder'
  <2>0. /\ UNCHANGED autoWrite /\ \A t \in Senders \ {s} : outbox'[t] = outbox[t]
        /\ outbox[s] # <<>> /\ outbox[s] \in Seq(Output) /\ 1 \in DOMAIN outbox[s]
        /\ \A i \in DOMAIN outbox'[s] : i + 1 \in DOMAIN outbox[s] /\ outbox'[s][i] = outbox[s][i + 1]
    BY <1>5, GoesOn, Sending DEF session
  <2>1. CASE s = Handler
    <3>1. ASSUME NEW c \in Callers PROVE outbox'[c] = <<>> \/ \E w \in Used' : Rest(c, w)'
      BY <1>0, <1>1, <2>0, <2>1, <3>1
    <3>2. ASSUME \A i \in DOMAIN outbox[s] : ~OfCommand(outbox[s][i]),
                 autoWrite # NoCounter => <<"writeSent", autoWrite>> \in log
          PROVE  HandlerInOrder'
      BY <1>0, <2>0, <2>1, <3>2 DEF HandlerInOrder, OfCommand
    <3>3. ASSUME autoWrite # NoCounter, outbox[s] = CommandOutput(autoWrite)
          PROVE  HandlerInOrder'
      <4>1. autoWrite \in Nat
        BY DEF Types
      <4>2. /\ outbox[s][1] = Entry("write", autoWrite)
            /\ Tail(outbox[s]) = <<Entry("readback", autoWrite + 1), Entry("event", autoWrite)>>
        BY <3>3, <4>1, CommandIs
      <4>3. outbox[s][1].kind = "write" /\ outbox[s][1].ctr = autoWrite
        BY <4>2 DEF Entry
      <4>4. Send(s, outbox[s])
        BY <1>5, <4>3, GoesOn
      <4>5. /\ outbox'[s] = Tail(outbox[s]) /\ lastWrite' = autoWrite /\ outbox[s][1] \in wire'
        BY <2>0, <4>3, <4>4, Sending
      <4>6. autoWrite \in Sent({"write"})'
        BY <4>3, <4>5 DEF Sent
      <4>7. Rest(Handler, autoWrite)'
        BY <2>0, <2>1, <3>3, <4>2, <4>5, <4>6 DEF Rest, NotStale, Entry, Sent
      <4> QED BY <2>0, <3>3, <4>7 DEF HandlerInOrder, Rest, NotStale, Sent
    <3>4. ASSUME autoWrite # NoCounter, Rest(s, autoWrite)
          PROVE  HandlerInOrder'
      <4>1. autoWrite \in Nat
        BY DEF Types
      <4>2. \/ outbox'[s] = <<Entry("event", autoWrite)>>
            \/ outbox'[s] = <<>> /\ <<"writeSent", autoWrite>> \in log'
        BY <1>5, <3>4, <4>1, RestGoesOn
      <4>3. CASE outbox'[s] = <<Entry("event", autoWrite)>>
        BY <2>0, <2>1, <3>4, <4>3 DEF HandlerInOrder, Rest, Entry
      <4>4. CASE outbox'[s] = <<>> /\ <<"writeSent", autoWrite>> \in log'
        BY <2>0, <2>1, <4>4 DEF HandlerInOrder
      <4> QED BY <4>2, <4>3, <4>4
    <3>5. HandlerInOrder'
      BY <2>1, <3>2, <3>3, <3>4 DEF CommandsInOrder, HandlerInOrder
    <3> QED BY <3>1, <3>5 DEF CommandsInOrder, CallersInOrder
  <2>2. CASE s # Handler
    <3>1. HandlerInOrder'
      BY <1>0, <1>2, <2>0, <2>2
    <3>2. PICK w \in Used : Rest(s, w)
      BY <2>0, <2>2, NextOf
    <3>3. outbox'[s] = <<Entry("event", w)>> \/ outbox'[s] = <<>>
      BY <1>0, <1>5, <3>2, RestGoesOn
    <3>4. outbox'[s] = <<>> \/ Rest(s, w)'
      BY <3>3 DEF Rest, Entry
    <3>5. ASSUME NEW c \in Callers PROVE outbox'[c] = <<>> \/ \E v \in Used' : Rest(c, v)'
      BY <1>0, <1>1, <2>0, <3>2, <3>4, <3>5
    <3> QED BY <3>1, <3>5 DEF CommandsInOrder, CallersInOrder
  <2> QED BY <2>1, <2>2
<1>6. ASSUME NEW c \in Callers, ForwardBegins(c) PROVE CommandsInOrder'
  <2>1. PICK w \in Nat :
        /\ counter' = w + 1
        /\ outbox'[c] = <<Entry("readback", w + 1), Entry("event", w)>>
        /\ lastWrite' = w /\ w \in Sent({"write"})' /\ w = counter + 1
        /\ \A t \in Senders \ {c} : outbox'[t] = outbox[t]
    BY <1>6, ForwardSends
  <2>2. HandlerInOrder'
    BY <1>0, <1>2, <1>6, <2>1 DEF ForwardBegins, session
  <2>3. w \in Used' /\ Rest(c, w)'
    BY <1>0, <2>1 DEF Used, Rest, NotStale, Entry, Sent
  <2>4. ASSUME NEW d \in Callers PROVE outbox'[d] = <<>> \/ \E v \in Used' : Rest(d, v)'
    <3>1. CASE d = c
      BY <2>3, <3>1
    <3>2. CASE d # c
      BY <1>0, <1>1, <2>1, <3>2
    <3> QED BY <3>1, <3>2
  <2> QED BY <2>2, <2>4 DEF CommandsInOrder, CallersInOrder
<1>7. CASE UNCHANGED vars
  BY <1>1, <1>2, <1>7 DEF vars, session, CommandsInOrder, CallersInOrder
<1> QED BY <1>3, <1>4, <1>5, <1>6, <1>7, HandlersAsk DEF Next

\* The datagrams that wait, without their places.
WaitsIn(s, i) == i \in DOMAIN outbox[s] /\ outbox[s][i].kind # "event"
Distinct ==
    /\ \A d, e \in wire : d.ctr = e.ctr => d = e
    /\ \A s, t \in Senders : \A i \in DOMAIN outbox[s], j \in DOMAIN outbox[t] :
         WaitsIn(s, i) /\ WaitsIn(t, j) /\ outbox[s][i].ctr = outbox[t][j].ctr => s = t /\ i = j
    /\ \A s \in Senders : \A i \in DOMAIN outbox[s] : WaitsIn(s, i) => outbox[s][i].ctr \notin OnWire

\* What may be answered has been or will be sent.
Open == OnWire \cup {At(p).ctr : p \in Waiting}

\* Waiting, by sender and place.
LEMMA WaitingIs ==
  /\ \A p \in Waiting : \E s \in Senders : \E i \in DOMAIN outbox[s] : p = <<s, i>> /\ WaitsIn(s, i)
  /\ \A s \in Senders : \A i \in DOMAIN outbox[s] :
       WaitsIn(s, i) => <<s, i>> \in Waiting /\ At(<<s, i>>) = outbox[s][i]
<1>1. ASSUME NEW p \in Waiting
      PROVE  \E s \in Senders : \E i \in DOMAIN outbox[s] : p = <<s, i>> /\ WaitsIn(s, i)
  BY <1>1 DEF Waiting, WaitsIn
<1>2. ASSUME NEW s \in Senders, NEW i \in DOMAIN outbox[s], WaitsIn(s, i)
      PROVE  <<s, i>> \in Waiting
  <2> DEFINE mine == {k \in DOMAIN outbox[s] : outbox[s][k].kind # "event"}
  <2>1. <<s, i>> \in {s} \X mine
    BY <1>2 DEF WaitsIn
  <2> QED BY <2>1 DEF Waiting
<1>3. ASSUME NEW s, NEW i PROVE At(<<s, i>>) = outbox[s][i]
  BY DEF At
<1> QED BY <1>1, <1>2, <1>3

\* The unique counters are distinct ones.
LEMMA DistinctIs == Distinct <=> CountersUnique
<1>1. ASSUME Distinct PROVE CountersUnique
  <2>1. ASSUME NEW p \in Waiting, NEW q \in Waiting, At(p).ctr = At(q).ctr PROVE p = q
    <3>1. PICK s \in Senders : \E i \in DOMAIN outbox[s] : p = <<s, i>> /\ WaitsIn(s, i)
      BY WaitingIs
    <3>1a. PICK i \in DOMAIN outbox[s] : p = <<s, i>> /\ WaitsIn(s, i)
      BY <3>1
    <3>2. PICK t \in Senders : \E j \in DOMAIN outbox[t] : q = <<t, j>> /\ WaitsIn(t, j)
      BY WaitingIs
    <3>2a. PICK j \in DOMAIN outbox[t] : q = <<t, j>> /\ WaitsIn(t, j)
      BY <3>2
    <3>3. At(p) = outbox[s][i] /\ At(q) = outbox[t][j]
      BY <3>1a, <3>2a, WaitingIs
    <3>4. s = t /\ i = j
      BY <1>1, <2>1, <3>1a, <3>2a, <3>3 DEF Distinct
    <3> QED BY <3>1a, <3>2a, <3>4
  <2>2. ASSUME NEW p \in Waiting PROVE At(p).ctr \notin OnWire
    <3>1. PICK s \in Senders : \E i \in DOMAIN outbox[s] : p = <<s, i>> /\ WaitsIn(s, i)
      BY WaitingIs
    <3>1a. PICK i \in DOMAIN outbox[s] : p = <<s, i>> /\ WaitsIn(s, i)
      BY <3>1
    <3>2. At(p) = outbox[s][i]
      BY <3>1a, WaitingIs
    <3> QED BY <1>1, <3>1a, <3>2 DEF Distinct
  <2> QED BY <1>1, <2>1, <2>2 DEF CountersUnique, Distinct
<1>2. ASSUME CountersUnique PROVE Distinct
  <2>1. ASSUME NEW s \in Senders, NEW t \in Senders, NEW i \in DOMAIN outbox[s], NEW j \in DOMAIN outbox[t],
               WaitsIn(s, i), WaitsIn(t, j), outbox[s][i].ctr = outbox[t][j].ctr
        PROVE  s = t /\ i = j
    <3>1. /\ <<s, i>> \in Waiting /\ At(<<s, i>>) = outbox[s][i]
          /\ <<t, j>> \in Waiting /\ At(<<t, j>>) = outbox[t][j]
      BY <2>1, WaitingIs
    <3>2. <<s, i>> = <<t, j>>
      BY <1>2, <2>1, <3>1 DEF CountersUnique
    <3> QED BY <3>2
  <2>2. ASSUME NEW s \in Senders, NEW i \in DOMAIN outbox[s], WaitsIn(s, i)
        PROVE  outbox[s][i].ctr \notin OnWire
    BY <1>2, <2>2, WaitingIs DEF CountersUnique
  <2> QED BY <1>2, <2>1, <2>2 DEF CountersUnique, Distinct
<1> QED BY <1>1, <1>2

\* And so they are after the step.
LEMMA DistinctIsNext == Distinct' <=> CountersUnique'
  BY DistinctIs, PTL

\* What is open is on the wire or waits.
LEMMA OpenIs ==
  \A c : c \in Open <=> \/ c \in OnWire
                        \/ \E s \in Senders : \E i \in DOMAIN outbox[s] : WaitsIn(s, i) /\ outbox[s][i].ctr = c
<1> SUFFICES ASSUME NEW c
             PROVE  c \in {At(p).ctr : p \in Waiting} <=>
                      \E s \in Senders : \E i \in DOMAIN outbox[s] : WaitsIn(s, i) /\ outbox[s][i].ctr = c
  BY DEF Open
<1>1. ASSUME c \in {At(p).ctr : p \in Waiting}
      PROVE  \E s \in Senders : \E i \in DOMAIN outbox[s] : WaitsIn(s, i) /\ outbox[s][i].ctr = c
  <2>1. PICK p \in Waiting : At(p).ctr = c
    BY <1>1
  <2>2. PICK s \in Senders : \E i \in DOMAIN outbox[s] : p = <<s, i>> /\ WaitsIn(s, i)
    BY WaitingIs
  <2>2a. PICK i \in DOMAIN outbox[s] : p = <<s, i>> /\ WaitsIn(s, i)
    BY <2>2
  <2>3. At(p) = outbox[s][i]
    BY <2>2a, WaitingIs
  <2> QED BY <2>1, <2>2a, <2>3
<1>2. ASSUME NEW s \in Senders, NEW i \in DOMAIN outbox[s], WaitsIn(s, i), outbox[s][i].ctr = c
      PROVE  c \in {At(p).ctr : p \in Waiting}
  BY <1>2, WaitingIs
<1> QED BY <1>1, <1>2

\* And so it is after the step.
OpenMeans ==
    \A c : c \in Open <=> \/ c \in OnWire
                          \/ \E s \in Senders : \E i \in DOMAIN outbox[s] : WaitsIn(s, i) /\ outbox[s][i].ctr = c
LEMMA OpenIsNext ==
  \A c : c \in Open' <=> \/ c \in OnWire'
                         \/ \E s \in Senders : \E i \in DOMAIN outbox'[s] : WaitsIn(s, i)' /\ outbox'[s][i].ctr = c
<1>1. OpenMeans
  BY OpenIs DEF OpenMeans
<1>2. OpenMeans'
  BY <1>1, PTL
<1> QED BY <1>2 DEF OpenMeans

\* What is open was counted.
LEMMA OpenIsUsed == Types /\ Counted => Open \subseteq Used
  BY OpenIs DEF Counted

\* Handing over what has numbers of its own keeps all numbers distinct.
LEMMA SendKeepsDistinct ==
  ASSUME Types, Distinct, NEW s \in Senders, NEW sends \in Seq(Output),
         sends # <<>>, sends[1].kind # "event", Send(s, sends),
         \A i, j \in DOMAIN sends :
            /\ sends[i].kind # "event" /\ sends[j].kind # "event" /\ sends[i].ctr = sends[j].ctr
            => i = j,
         \A i \in DOMAIN sends : sends[i].kind # "event" =>
            /\ sends[i].ctr \notin OnWire
            /\ \A t \in Senders \ {s} : \A j \in DOMAIN outbox[t] :
                 WaitsIn(t, j) => outbox[t][j].ctr # sends[i].ctr
  PROVE  /\ Distinct'
         /\ OnWire' = OnWire \cup {sends[1].ctr}
<1>1. /\ 1 \in DOMAIN sends /\ wire' = wire \cup {sends[1]}
      /\ \A t \in Senders \ {s} : outbox'[t] = outbox[t]
      /\ \A i \in DOMAIN outbox'[s] : i + 1 \in DOMAIN sends /\ i + 1 # 1 /\ outbox'[s][i] = sends[i + 1]
  BY Sending
<1>2. OnWire' = OnWire \cup {sends[1].ctr}
  BY <1>1 DEF OnWire
<1>3. \A d, e \in wire' : d.ctr = e.ctr => d = e
  <2>1. \A d \in wire : d.ctr # sends[1].ctr
    BY <1>1 DEF OnWire
  <2> QED BY <1>1, <2>1 DEF Distinct
<1>4. \A i \in DOMAIN outbox'[s] : i \in Int
  <2>1. outbox' \in [Senders -> Seq(Output)]
    BY Sending
  <2> QED BY <2>1
<1>5. ASSUME NEW t \in Senders, NEW u \in Senders, NEW i \in DOMAIN outbox'[t], NEW j \in DOMAIN outbox'[u],
             WaitsIn(t, i)', WaitsIn(u, j)', outbox'[t][i].ctr = outbox'[u][j].ctr
      PROVE  t = u /\ i = j
  <2>1. CASE t = s /\ u = s
    <3>1. i + 1 = j + 1
      BY <1>1, <1>5, <2>1 DEF WaitsIn
    <3> QED BY <1>4, <2>1, <3>1
  <2>2. CASE t = s /\ u # s
    BY <1>1, <1>5, <2>2 DEF WaitsIn
  <2>3. CASE t # s /\ u = s
    BY <1>1, <1>5, <2>3 DEF WaitsIn
  <2>4. CASE t # s /\ u # s
    BY <1>1, <1>5, <2>4 DEF WaitsIn, Distinct
  <2> QED BY <2>1, <2>2, <2>3, <2>4
<1>6. ASSUME NEW t \in Senders, NEW i \in DOMAIN outbox'[t], WaitsIn(t, i)'
      PROVE  outbox'[t][i].ctr \notin OnWire'
  <2>1. CASE t = s
    <3>1. outbox'[t][i] = sends[i + 1] /\ i + 1 \in DOMAIN sends /\ i + 1 # 1 /\ sends[i + 1].kind # "event"
      BY <1>1, <1>6, <2>1 DEF WaitsIn
    <3> QED BY <1>1, <1>2, <3>1
  <2>2. CASE t # s
    <3>1. outbox'[t] = outbox[t] /\ WaitsIn(t, i)
      BY <1>1, <1>6, <2>2 DEF WaitsIn
    <3> QED BY <1>1, <1>2, <2>2, <3>1 DEF Distinct, WaitsIn
  <2> QED BY <2>1, <2>2
<1> QED BY <1>2, <1>3, <1>5, <1>6 DEF Distinct

\* No step gives a counter to two datagrams.
LEMMA CountersUniqueStep ==
  Types /\ Counted /\ CountersUnique /\ [Next]_vars => CountersUnique'
<1> SUFFICES ASSUME Types, Counted, Distinct, [Next]_vars PROVE Distinct'
  BY DistinctIs, DistinctIsNext
<1>0. /\ counter \in Nat /\ OnWire \subseteq Used
      /\ \A s \in Senders : \A i \in DOMAIN outbox[s] : outbox[s][i].ctr \in Used
      /\ \A s \in Senders : outbox[s] \in Seq(Output)
  BY DEF Types, Counted
<1>1. CASE UNCHANGED <<wire, outbox>>
  BY <1>1 DEF Distinct, WaitsIn, OnWire
<1>2. ASSUME NEW s, NEW sends, Fresh(s, sends) PROVE Distinct'
  <2>1. \A i \in DOMAIN sends : sends[i].ctr \notin Used
    <3>1. \A i \in DOMAIN sends : sends[i].ctr \in (counter + 1) .. counter' /\ counter' \in Nat
      BY <1>2 DEF Fresh
    <3> QED BY <1>0, <3>1 DEF Used
  <2>2. \A i, j \in DOMAIN sends :
            /\ sends[i].kind # "event" /\ sends[j].kind # "event" /\ sends[i].ctr = sends[j].ctr
            => i = j
    BY <1>2 DEF Fresh
  <2>3. CASE sends # <<>> /\ sends[1].kind # "event" /\ sends \in Seq(Output) /\ s \in Senders
             /\ Send(s, sends)
    BY <1>0, <2>1, <2>2, <2>3, SendKeepsDistinct
  <2> QED BY <1>1, <1>2, <2>3, Begins
<1>3. ASSUME NEW s \in Senders, SendNext(s) PROVE Distinct'
  <2>1. outbox[s] # <<>> /\ outbox[s] \in Seq(Output)
    BY <1>3, GoesOn
  <2>2. CASE outbox[s][1].kind # "event"
    <3>1. Send(s, outbox[s])
      BY <1>3, <2>2, GoesOn
    <3>2. \A i, j \in DOMAIN outbox[s] :
            /\ outbox[s][i].kind # "event" /\ outbox[s][j].kind # "event"
            /\ outbox[s][i].ctr = outbox[s][j].ctr
            => i = j
      BY DEF Distinct, WaitsIn
    <3>3. \A i \in DOMAIN outbox[s] : outbox[s][i].kind # "event" =>
            /\ outbox[s][i].ctr \notin OnWire
            /\ \A t \in Senders \ {s} : \A j \in DOMAIN outbox[t] :
                 WaitsIn(t, j) => outbox[t][j].ctr # outbox[s][i].ctr
      BY DEF Distinct, WaitsIn
    <3> QED BY <2>1, <2>2, <3>1, <3>2, <3>3, SendKeepsDistinct
  <2>3. CASE outbox[s][1].kind = "event"
    <3>1. /\ UNCHANGED wire /\ \A t \in Senders \ {s} : outbox'[t] = outbox[t]
          /\ \A i \in DOMAIN outbox'[s] : i + 1 \in DOMAIN outbox[s] /\ outbox'[s][i] = outbox[s][i + 1]
          /\ outbox' \in [Senders -> Seq(Output)]
      BY <1>3, <2>3, GoesOn
    <3>2. UNCHANGED OnWire /\ \A i \in DOMAIN outbox'[s] : i \in Int
      BY <3>1 DEF OnWire
    <3>3. ASSUME NEW t \in Senders, NEW u \in Senders, NEW i \in DOMAIN outbox'[t], NEW j \in DOMAIN outbox'[u],
                 WaitsIn(t, i)', WaitsIn(u, j)', outbox'[t][i].ctr = outbox'[u][j].ctr
          PROVE  t = u /\ i = j
      <4>1. CASE t = s /\ u = s
        <5>1. i + 1 = j + 1
          BY <3>1, <3>3, <4>1 DEF WaitsIn, Distinct
        <5> QED BY <3>2, <4>1, <5>1
      <4>2. CASE t = s /\ u # s
        BY <3>1, <3>3, <4>2 DEF WaitsIn, Distinct
      <4>3. CASE t # s /\ u = s
        BY <3>1, <3>3, <4>3 DEF WaitsIn, Distinct
      <4>4. CASE t # s /\ u # s
        <5>1. outbox'[t] = outbox[t] /\ outbox'[u] = outbox[u]
          BY <3>1, <4>4
        <5>2. WaitsIn(t, i) /\ WaitsIn(u, j) /\ outbox[t][i].ctr = outbox[u][j].ctr
          BY <3>3, <5>1 DEF WaitsIn
        <5> QED BY <3>3, <5>1, <5>2 DEF Distinct
      <4> QED BY <4>1, <4>2, <4>3, <4>4
    <3>4. ASSUME NEW t \in Senders, NEW i \in DOMAIN outbox'[t], WaitsIn(t, i)'
          PROVE  outbox'[t][i].ctr \notin OnWire'
      <4>1. CASE t = s
        BY <3>1, <3>2, <3>4, <4>1 DEF WaitsIn, Distinct
      <4>2. CASE t # s
        BY <3>1, <3>2, <3>4, <4>2 DEF WaitsIn, Distinct
      <4> QED BY <4>1, <4>2
    <3>5. \A d, e \in wire' : d.ctr = e.ctr => d = e
      BY <3>1 DEF Distinct
    <3> QED BY <3>3, <3>4, <3>5 DEF Distinct
  <2> QED BY <2>2, <2>3
<1> QED BY <1>1, <1>2, <1>3, Steps DEF vars

\* What may be answered stays so.
LEMMA OpenGrows == Types /\ Counted /\ [Next]_vars => Open \subseteq Open'
<1> SUFFICES ASSUME Types, Counted, [Next]_vars, NEW c \in Open PROVE c \in Open'
  OBVIOUS
<1>0. OnWire \subseteq OnWire'
  <2>1. wire \subseteq wire'
    BY SentTypes
  <2> QED BY <2>1 DEF OnWire
<1>1. CASE c \in OnWire
  BY <1>0, <1>1, OpenIsNext
<1>2. ASSUME NEW s \in Senders, NEW i \in DOMAIN outbox[s], WaitsIn(s, i), outbox[s][i].ctr = c
      PROVE  c \in Open'
  <2>1. CASE outbox'[s] = outbox[s]
    BY <1>2, <2>1, OpenIsNext DEF WaitsIn
  <2>2. ASSUME NEW t, NEW sends, Fresh(t, sends) PROVE c \in Open'
    <3>1. s # t
      BY <1>2, <2>2 DEF Fresh
    <3>2. outbox'[s] = outbox[s]
      BY <2>2, <3>1, Begins, Sending
    <3> QED BY <2>1, <3>2
  <2>3. ASSUME NEW t \in Senders, SendNext(t) PROVE c \in Open'
    <3>1. CASE s # t
      BY <2>1, <2>3, <3>1, GoesOn, Sending
    <3>2. CASE s = t
      <4>1. outbox[s] # <<>> /\ outbox[s] \in Seq(Output)
        BY <2>3, <3>2, GoesOn
      <4>2. CASE i = 1
        <5>1. outbox[s][1].kind # "event"
          BY <1>2, <4>2 DEF WaitsIn
        <5>2. outbox[s][1] \in wire'
          BY <2>3, <3>2, <4>1, <5>1, GoesOn, Sending
        <5>3. c \in OnWire'
          BY <1>2, <4>2, <5>2 DEF OnWire
        <5> QED BY <5>3, OpenIsNext
      <4>3. CASE i # 1
        <5>1. i - 1 \in DOMAIN outbox'[s] /\ outbox'[s][i - 1] = outbox[s][i]
          BY <1>2, <2>3, <3>2, <4>1, <4>3, GoesOn, Sending
        <5>2. WaitsIn(s, i - 1)'
          BY <1>2, <5>1 DEF WaitsIn
        <5> QED BY <1>2, <5>1, <5>2, OpenIsNext
      <4> QED BY <4>2, <4>3
    <3> QED BY <3>1, <3>2
  <2> QED BY <2>1, <2>2, <2>3, Steps DEF vars
<1> QED BY <1>1, <1>2, OpenIs

\* The binding requests of a discovery are open, under new numbers.
LEMMA BindsAreOpen ==
  ASSUME Types, Counted, NEW update, RecvDiscovery(update), [Next]_vars
  PROVE  \A b \in pendingBind' : b \in pendingBind \/ (b.ctr \notin Used /\ b.ctr \in Open')
<1> DEFINE sends == Numbered(BindingBootstrap(MergeDiscovery(known, update)))
<1>1. Fresh(Handler, sends)
  BY HandlersAsk, HandlesFresh
<1>2. pendingBind' = pendingBind \cup
          {[ctr |-> d.ctr, feature |-> d.feature] :
              d \in {sends[i] : i \in {j \in DOMAIN sends : sends[j].kind = "bind"}}}
  BY DEF RecvDiscovery
<1> HIDE DEF sends
<1>3. counter \in Nat
  BY DEF Types
<1>4. ASSUME NEW j \in DOMAIN sends, sends[j].kind = "bind"
      PROVE  sends[j].ctr \notin Used /\ sends[j].ctr \in Open'
  <2>1. sends[j].ctr \in (counter + 1) .. counter' /\ counter' \in Nat
    BY <1>1, <1>4 DEF Fresh
  <2>2. sends[j].ctr \notin Used
    BY <1>3, <2>1 DEF Used
  <2>3. sends # <<>> /\ sends[1].kind # "event" /\ sends \in Seq(Output) /\ Send(Handler, sends)
        /\ Handler \in Senders
    BY <1>1, <1>4, Begins
  <2>4. /\ sends[1] \in wire'
        /\ j = 1 \/ (j - 1 \in DOMAIN outbox'[Handler] /\ outbox'[Handler][j - 1] = sends[j])
    BY <1>4, <2>3, Sending
  <2>5. CASE j = 1
    <3>1. sends[j].ctr \in OnWire'
      BY <2>4, <2>5 DEF OnWire
    <3> QED BY <2>2, <3>1, OpenIsNext
  <2>6. CASE j - 1 \in DOMAIN outbox'[Handler] /\ outbox'[Handler][j - 1] = sends[j]
    <3>1. WaitsIn(Handler, j - 1)'
      BY <1>4, <2>6 DEF WaitsIn
    <3> QED BY <2>2, <2>3, <2>6, <3>1, OpenIsNext
  <2> QED BY <2>4, <2>5, <2>6
<1>5. ASSUME NEW b \in pendingBind', b \notin pendingBind
      PROVE  \E j \in DOMAIN sends : sends[j].kind = "bind" /\ b.ctr = sends[j].ctr
  BY <1>2, <1>5
<1> QED BY <1>4, <1>5

\* A caller's two numbers are open.
LEMMA ForwardIsOpen ==
  ASSUME Types, NEW c \in Callers, ForwardBegins(c)
  PROVE  {counter + 1, counter + 2} \subseteq Open'
<1> DEFINE w == counter + 1
<1>1. /\ outbox'[c] = <<Entry("readback", w + 1), Entry("event", w)>>
      /\ w \in Sent({"write"})' /\ w \in Nat /\ c \in Senders
  BY ForwardSends DEF Senders
<1>2. w \in OnWire'
  BY <1>1 DEF Sent, OnWire
<1>3. 1 \in DOMAIN outbox'[c] /\ outbox'[c][1] = Entry("readback", w + 1)
  <2> DEFINE a == Entry("readback", w + 1)
             b == Entry("event", w)
  <2> HIDE DEF a, b
  <2>1. 1 \in DOMAIN <<a, b>> /\ <<a, b>>[1] = a
    OBVIOUS
  <2> QED BY <1>1, <2>1 DEF a, b
<1>4. WaitsIn(c, 1)' /\ outbox'[c][1].ctr = counter + 2
  <2>1. w + 1 = counter + 2
    BY DEF Types
  <2> QED BY <1>3, <2>1 DEF WaitsIn, Entry
<1> QED BY <1>1, <1>2, <1>3, <1>4, OpenIsNext

\* A number becomes pending in one role when it is counted, and only leaves it.
LEMMA RefsUnambiguousStep ==
  Types /\ Counted /\ AutoCommand /\ RefsUnambiguous /\ [Next]_vars => RefsUnambiguous'
<1> SUFFICES ASSUME Types, Counted, AutoCommand, RefsUnambiguous, [Next]_vars PROVE RefsUnambiguous'
  OBVIOUS
<1> DEFINE Ctrs(P) == {b.ctr : b \in P}
           Configured == {autoWrite, autoRead} \ {NoCounter}
<1>0. /\ Ctrs(pendingBind) \cap (pendingW \cup pendingR) = {} /\ pendingW \cap pendingR = {}
      /\ Configured \cap (Ctrs(pendingBind) \cup pendingW \cup pendingR) = {}
      /\ Ctrs(pendingBind) \cup pendingW \cup pendingR \subseteq Open
      /\ Open \subseteq Open' /\ counter \in Nat
      /\ Ctrs(pendingBind) \cup pendingW \cup pendingR \subseteq Used
      /\ Configured \subseteq Used
  BY OpenGrows, OpenIsUsed DEF RefsUnambiguous, Types, Open, Counted
<1>1. ASSUME pendingBind' \subseteq pendingBind, pendingW' \subseteq pendingW, pendingR' \subseteq pendingR,
             Configured' \cap Used \subseteq Configured
      PROVE  RefsUnambiguous'
  <2>1. Ctrs(pendingBind') \subseteq Ctrs(pendingBind)
    BY <1>1
  <2> QED BY <1>0, <1>1, <2>1 DEF RefsUnambiguous, Open
<1>2. CASE RecvDiscoveryRead
  BY <1>1, <1>2 DEF RecvDiscoveryRead
<1>3. ASSUME NEW update \in Updates, RecvDiscovery(update) PROVE RefsUnambiguous'
  <2>1. \A b \in pendingBind' : b \in pendingBind \/ (b.ctr \notin Used /\ b.ctr \in Open')
    BY <1>3, BindsAreOpen
  <2>2. UNCHANGED <<pendingW, pendingR, autoWrite, autoRead>>
    BY <1>3 DEF RecvDiscovery
  <2>3. Ctrs(pendingBind') \cap (pendingW \cup pendingR \cup Configured) = {}
    BY <1>0, <2>1
  <2>4. Ctrs(pendingBind') \subseteq Open'
    BY <1>0, <2>1
  <2> QED BY <1>0, <2>2, <2>3, <2>4 DEF RefsUnambiguous, Open
<1>4. ASSUME NEW ref, NEW ok, RecvResult(ref, ok) PROVE RefsUnambiguous'
  BY <1>1, <1>4 DEF RecvResult, StillPending
<1>5. ASSUME NEW ref, NEW h, NEW ack, RecvLimits(ref, h, ack) PROVE RefsUnambiguous'
  <2>1. Configured' \cap Used \subseteq Configured
    <3>1. CASE ~CommandDue
      BY <1>5, <3>1 DEF RecvLimits
    <3>2. CASE CommandDue
      <4>1. PICK w \in Nat : w > counter /\ autoWrite' = w /\ autoRead' = w + 1
        BY <1>5, <3>2, ConfiguredIsFresh
      <4> QED BY <1>0, <4>1 DEF Used
    <3> QED BY <3>1, <3>2
  <2> QED BY <1>1, <1>5, <2>1 DEF RecvLimits
<1>6. ASSUME NEW b, RecvBindingTable(b) PROVE RefsUnambiguous'
  BY <1>1, <1>6 DEF RecvBindingTable
<1>7. ASSUME NEW s \in Senders, SendNext(s) PROVE RefsUnambiguous'
  BY <1>1, <1>7 DEF SendNext, session
<1>8. ASSUME NEW c \in Callers, ForwardBegins(c) PROVE RefsUnambiguous'
  <2>1. /\ pendingW' = pendingW \cup {counter + 1} /\ pendingR' = pendingR \cup {counter + 2}
        /\ UNCHANGED <<pendingBind, autoWrite, autoRead>>
    BY <1>8 DEF ForwardBegins, session
  <2>2. {counter + 1, counter + 2} \subseteq Open'
    BY <1>8, ForwardIsOpen
  <2>3. counter + 1 \notin Used /\ counter + 2 \notin Used /\ counter + 1 # counter + 2
    BY <1>0 DEF Used
  <2> QED BY <1>0, <2>1, <2>2, <2>3 DEF RefsUnambiguous, Open
<1>9. CASE UNCHANGED vars
  BY <1>1, <1>9 DEF vars, session
<1> QED BY <1>2, <1>3, <1>4, <1>5, <1>6, <1>7, <1>8, <1>9 DEF Next

\* Only a granted binding or a binding table lets a feature be read.
LEMMA ReadsFollowBindingStep == ReadsFollowBinding /\ [Next]_vars => ReadsFollowBinding'
  BY DEF ReadsFollowBinding, Next, vars, session, peer, RecvDiscoveryRead, RecvDiscovery, RecvResult,
         RecvLimits, RecvBindingTable, SendNext, ForwardBegins, Grants

\* The invariant of a session: its numbers are counted, and each has one use.
THEOREM Invariant == Spec => []IInv
<1>1. IInv /\ [Next]_vars => IInv'
  BY TypesStep, AutoCommandStep, CommandsInOrderStep, CountersUniqueStep,
     RefsUnambiguousStep, ReadsFollowBindingStep DEF IInv
<1> QED BY InitIInv, <1>1, PTL DEF Spec

-----------------------------------------------------------------------------
(* What the runs check, for every value of the constants. *)

\* The handler's responses and any number of concurrent callers never send two
\* datagrams with one msgCounter.
THEOREM CountersAreUnique == Spec => []CountersUnique
  BY Invariant, PTL DEF IInv

\* A result or a reply answers one request, which has been or will be sent.
THEOREM AnswersAreUnambiguous == Spec => []RefsUnambiguous
  BY Invariant, PTL DEF IInv

\* Nothing of a feature is read before its binding is granted, or a table seen.
THEOREM ReadsNeedABinding == Spec => []ReadsFollowBinding
  BY Invariant, PTL DEF IInv

\* Whichever callers send commands at the same time: when one reads back, its
\* own write is out, and the last write is its own, a newer command's, or the
\* configured command's that waited behind an acknowledgement.
THEOREM ReadbacksAreNotStale == Spec => ReadbackIsNotStale
<1> DEFINE A == \A d \in wire' \ wire : d.kind = "readback" =>
                   LET write == d.ctr - 1
                   IN  write \in Sent({"write"}) /\ (lastWrite >= write \/ lastWrite = autoWrite)
<1>1. IInv /\ [Next]_vars => [A]_vars
  <2> SUFFICES ASSUME IInv, Next, NEW d \in wire' \ wire, d.kind = "readback"
               PROVE  /\ d.ctr - 1 \in Sent({"write"})
                      /\ lastWrite >= d.ctr - 1 \/ lastWrite = autoWrite
    OBVIOUS
  <2> USE DEF IInv
  <2>1. ASSUME NEW s, NEW sends, Send(s, sends), sends # <<>>, sends \in Seq(Output), s \in Senders,
               sends[1].kind \notin {"readback", "event"}
        PROVE  FALSE
    <3>1. wire' = wire \cup {sends[1]}
      BY <2>1, Sending
    <3> QED BY <2>1, <3>1
  <2>2. ASSUME NEW items, Handles(items) PROVE FALSE
    <3> DEFINE sends == Numbered(items)
    <3>1. Fresh(Handler, sends) /\ \A i \in DOMAIN sends : ~OfCommand(sends[i])
      BY <2>2, HandlesFresh
    <3> HIDE DEF sends
    <3>2. CASE UNCHANGED wire
      BY <3>2
    <3>3. CASE sends # <<>> /\ sends \in Seq(Output) /\ Handler \in Senders /\ Send(Handler, sends)
      <4>1. 1 \in DOMAIN sends
        BY <3>3
      <4>2. sends[1].kind \notin {"readback", "event"}
        BY <3>1, <4>1 DEF OfCommand
      <4> QED BY <2>1, <3>3, <4>2
    <3> QED BY <3>1, <3>2, <3>3, Begins
  <2>3. ASSUME NEW ref, NEW h, NEW ack, RecvLimits(ref, h, ack) PROVE FALSE
    <3>1. CASE ~CommandDue
      BY <2>2, <2>3, <3>1, HandlersAsk
    <3>2. CASE CommandDue
      <4>1. PICK w \in Nat : \E sends :
              Fresh(Handler, sends) /\ (sends = CommandOutput(w) \/ sends = <<Result>> \o CommandOutput(w))
        BY <2>3, <3>2, ConfiguredIsFresh
      <4>2. PICK sends :
              Fresh(Handler, sends) /\ (sends = CommandOutput(w) \/ sends = <<Result>> \o CommandOutput(w))
        BY <4>1
      <4>3. sends # <<>> /\ sends[1].kind \notin {"readback", "event"}
        <5>1. CASE sends = CommandOutput(w)
          <6>1. sends # <<>> /\ sends[1] = Entry("write", w)
            BY <5>1, CommandIs
          <6> QED BY <6>1 DEF Entry
        <5>2. CASE sends = <<Result>> \o CommandOutput(w)
          <6> DEFINE q == CommandOutput(w)
                     e == Result
          <6>1. e \in Output /\ e.kind = "result"
            BY FeaturesAre DEF Result, Output, Kinds, Names, Types
          <6>2. q \in Seq(Output) /\ sends = <<e>> \o q
            BY <5>2, CommandIs
          <6> HIDE DEF q, e
          <6>3. sends # <<>> /\ sends[1] = e
            BY <6>1, <6>2
          <6> QED BY <6>1, <6>3
        <5> QED BY <4>2, <5>1, <5>2
      <4>4. sends \in Seq(Output) /\ Send(Handler, sends) /\ Handler \in Senders
        BY <4>2 DEF Fresh, HandOver
      <4> QED BY <2>1, <4>3, <4>4
    <3> QED BY <3>1, <3>2
  <2>4. ASSUME NEW c \in Callers, ForwardBegins(c) PROVE FALSE
    <3> DEFINE sends == CommandOutput(counter + 1)
    <3>1. sends # <<>> /\ sends[1].kind \notin {"readback", "event"}
      <4>1. counter + 1 \in Nat
        BY DEF Types
      <4>2. sends # <<>> /\ sends[1] = Entry("write", counter + 1)
        BY <4>1, CommandIs
      <4> QED BY <4>2 DEF Entry
    <3>2. Fresh(c, sends)
      BY <2>4, ForwardIsFresh
    <3> HIDE DEF sends
    <3>3. sends \in Seq(Output) /\ Send(c, sends) /\ c \in Senders
      BY <3>2 DEF Fresh, HandOver
    <3> QED BY <2>1, <3>1, <3>3
  <2>5. ASSUME NEW s \in Senders, SendNext(s)
        PROVE  /\ d.ctr - 1 \in Sent({"write"})
               /\ lastWrite >= d.ctr - 1 \/ lastWrite = autoWrite
    <3>1. outbox[s] # <<>> /\ outbox[s] \in Seq(Output) /\ 1 \in DOMAIN outbox[s]
      BY <2>5, GoesOn
    <3>2. outbox[s][1].kind # "event" /\ Send(s, outbox[s])
      BY <2>5, GoesOn
    <3>3. wire' = wire \cup {outbox[s][1]}
      BY <3>1, <3>2, Sending
    <3>4. d = outbox[s][1]
      BY <3>3
    <3>5. CASE \A i \in DOMAIN outbox[s] : ~OfCommand(outbox[s][i])
      BY <3>1, <3>4, <3>5 DEF OfCommand
    <3>6. CASE outbox[s] = CommandOutput(autoWrite)
      <4>1. outbox[s][1] = Entry("write", autoWrite)
        BY <3>6, CommandIs DEF Types
      <4> QED BY <3>4, <4>1 DEF Entry
    <3>7. ASSUME NEW w \in Used, Rest(s, w)
          PROVE  /\ d.ctr - 1 \in Sent({"write"})
                 /\ lastWrite >= d.ctr - 1 \/ lastWrite = autoWrite
      <4>1. w \in Nat
        BY DEF Used
      <4>2. CASE outbox[s] = <<Entry("event", w)>>
        BY <3>4, <4>2 DEF Entry
      <4>3. CASE /\ outbox[s] = <<Entry("readback", w + 1), Entry("event", w)>>
                 /\ w \in Sent({"write"}) /\ NotStale(w)
        <5>1. outbox[s][1] = Entry("readback", w + 1)
          BY <4>3
        <5>2. d.ctr - 1 = w
          <6>1. d.ctr = w + 1
            BY <3>4, <5>1 DEF Entry
          <6> QED BY <4>1, <6>1
        <5> QED BY <4>3, <5>2 DEF NotStale
      <4> QED BY <3>7, <4>2, <4>3 DEF Rest
    <3> QED BY <3>1, <3>5, <3>6, <3>7, NextOf
  <2> QED BY <2>2, <2>3, <2>4, <2>5, HandlersAsk DEF Next
<1> QED BY Invariant, <1>1, PTL DEF ReadbackIsNotStale, Spec

\* The event that the configured command was sent is emitted before the peer's
\* result for it and before the state read back.
THEOREM ReportsAreInOrder == Spec => CommandReportedInOrder
<1> DEFINE A == \A e \in log' \ log :
                  e = <<"writeResult", autoWrite>> \/ e = <<"readback", autoRead>> =>
                     <<"writeSent", autoWrite>> \in log
<1>1. IInv /\ [Next]_vars => [A]_vars
  <2> SUFFICES ASSUME IInv, Next, NEW e \in log' \ log,
                      e = <<"writeResult", autoWrite>> \/ e = <<"readback", autoRead>>
               PROVE  <<"writeSent", autoWrite>> \in log
    OBVIOUS
  <2> USE DEF IInv
  <2>1. outbox[Handler] = <<>> /\ autoWrite # NoCounter
    <3>1. ASSUME NEW ref, NEW ok, RecvResult(ref, ok) PROVE outbox[Handler] = <<>> /\ autoWrite # NoCounter
      <4>1. ref # NoCounter /\ outbox[Handler] = <<>>
        BY <3>1 DEF RecvResult, Reading, Counted, Used, NoCounter
      <4>2. e = <<"writeResult", ref>>
        BY <3>1 DEF RecvResult, Emit
      <4> QED BY <4>1, <4>2
    <3>2. ASSUME NEW ref, NEW h, NEW ack, RecvLimits(ref, h, ack)
          PROVE  outbox[Handler] = <<>> /\ autoWrite # NoCounter
      <4>1. ref # NoCounter /\ outbox[Handler] = <<>>
        BY <3>2 DEF RecvLimits, Reading, Counted, Used, NoCounter
      <4>2. e = <<"readback", ref>>
        BY <3>2 DEF RecvLimits, Emit
      <4> QED BY <4>1, <4>2 DEF AutoCommand
    <3>3. ASSUME NEW s \in Senders, SendNext(s) PROVE FALSE
      BY <3>3, GoesOn
    <3>4. CASE \/ RecvDiscoveryRead \/ \E update \in Updates : RecvDiscovery(update)
               \/ \E b \in BOOLEAN : RecvBindingTable(b)
               \/ \E c \in Callers : ForwardBegins(c)
      BY <3>4 DEF RecvDiscoveryRead, RecvDiscovery, RecvBindingTable, ForwardBegins
    <3> QED BY <3>1, <3>2, <3>3, <3>4 DEF Next
  <2>2. CommandOutput(autoWrite) # <<>>
    BY CommandIs DEF Types
  <2>3. ~Rest(Handler, autoWrite)
    BY <2>1 DEF Rest
  <2> QED BY <2>1, <2>2, <2>3 DEF CommandsInOrder, HandlerInOrder
<1> QED BY Invariant, <1>1, PTL DEF CommandReportedInOrder, Spec

-----------------------------------------------------------------------------
(* The refinement of LimitCommands. *)

\* The forwarded commands that were answered: they are known, and not open.
LEMMA AnsweredCommands ==
  /\ \A c : c \in Forwarded <=> c # autoWrite /\ \E e \in log : e[1] = "writeResult" /\ e[2] = c
  /\ \A c : c \in ReadBackLog <=> c # autoRead /\ \E e \in log : e[1] = "readback" /\ e[2] = c
  /\ IInv => pendingW \cup pendingR \cup Forwarded \cup ReadBackLog \subseteq Used
<1>1. \A c : c \in Forwarded <=> c # autoWrite /\ \E e \in log : e[1] = "writeResult" /\ e[2] = c
  BY DEF Forwarded
<1>2. \A c : c \in ReadBackLog <=> c # autoRead /\ \E e \in log : e[1] = "readback" /\ e[2] = c
  BY DEF ReadBackLog
<1>3. IInv => pendingW \cup pendingR \subseteq Used
  BY OpenIsUsed DEF IInv, RefsUnambiguous, Open
<1>4. IInv => Forwarded \cup ReadBackLog \subseteq Used
  BY DEF IInv, Counted, Forwarded, ReadBackLog
<1> QED BY <1>1, <1>2, <1>3, <1>4

\* And so they are after the step.
LEMMA AnsweredCommandsNext ==
  /\ \A c : c \in Forwarded' <=> c # autoWrite' /\ \E e \in log' : e[1] = "writeResult" /\ e[2] = c
  /\ \A c : c \in ReadBackLog' <=> c # autoRead' /\ \E e \in log' : e[1] = "readback" /\ e[2] = c
<1>1. \A c : c \in Forwarded' <=> c # autoWrite' /\ \E e \in log' : e[1] = "writeResult" /\ e[2] = c
  BY DEF Forwarded
<1>2. \A c : c \in ReadBackLog' <=> c # autoRead' /\ \E e \in log' : e[1] = "readback" /\ e[2] = c
  BY DEF ReadBackLog
<1> QED BY <1>1, <1>2

\* The numbers the configured command takes answered no command before.
LEMMA ConfiguredIsNew ==
  ASSUME IInv, [Next]_vars
  PROVE  \A c \in Used : (c # autoWrite' <=> c # autoWrite) /\ (c # autoRead' <=> c # autoRead)
<1>1. CASE UNCHANGED <<autoWrite, autoRead>>
  BY <1>1
<1>2. ASSUME NEW ref, NEW h, NEW ack, RecvLimits(ref, h, ack), CommandDue
      PROVE  \A c \in Used : (c # autoWrite' <=> c # autoWrite) /\ (c # autoRead' <=> c # autoRead)
  <2>1. PICK w \in Nat : w > counter /\ autoWrite' = w /\ autoRead' = w + 1
    BY <1>2, ConfiguredIsFresh DEF IInv
  <2>2. autoWrite = NoCounter /\ autoRead = NoCounter
    BY <1>2 DEF IInv, AutoCommand, CommandDue
  <2>3. counter \in Nat
    BY DEF IInv, Types
  <2> QED BY <2>1, <2>2, <2>3 DEF Used, NoCounter
<1>3. ASSUME NEW ref, NEW h, NEW ack, RecvLimits(ref, h, ack), ~CommandDue
      PROVE  UNCHANGED <<autoWrite, autoRead>>
  BY <1>3 DEF RecvLimits
<1> QED BY <1>1, <1>2, <1>3 DEF Next, vars, session, RecvDiscoveryRead, RecvDiscovery, RecvResult,
                          RecvBindingTable, SendNext, ForwardBegins

\* A step issues a command under two new numbers, answers one, or concerns none.
IssueStep(w, r) ==
    /\ w \in Used' \ Used /\ r \in Used' \ (Used \cup {w})
    /\ pendingW' = pendingW \cup {w} /\ pendingR' = pendingR \cup {r}
    /\ UNCHANGED <<Forwarded, ReadBackLog>>
AcknowledgeStep(c) ==
    /\ c \in pendingW /\ pendingW' = pendingW \ {c} /\ Forwarded' = Forwarded \cup {c}
    /\ UNCHANGED <<pendingR, ReadBackLog>>
ReadBackStep(c) ==
    /\ c \in pendingR /\ pendingR' = pendingR \ {c}
    /\ ReadBackLog' = ReadBackLog \/ ReadBackLog' = ReadBackLog \cup {c}
    /\ UNCHANGED <<pendingW, Forwarded>>

\* Every step of the server is one of these three, or concerns no command.
LEMMA CommandSteps ==
  ASSUME IInv, [Next]_vars
  PROVE  \/ UNCHANGED <<pendingW, pendingR, Forwarded, ReadBackLog>>
         \/ \E w, r : IssueStep(w, r)
         \/ \E c : AcknowledgeStep(c) \/ ReadBackStep(c)
<1>0. /\ counter \in Nat /\ OnWire \subseteq Used /\ \A e \in log : e[2] \in Used
      /\ \A c \in Used : (c # autoWrite' <=> c # autoWrite) /\ (c # autoRead' <=> c # autoRead)
      /\ \A c \in Used : c # NoCounter
  BY ConfiguredIsNew DEF IInv, Types, Counted, Used, NoCounter
<1>1. /\ \A c : c \in Forwarded <=> c # autoWrite /\ \E e \in log : e[1] = "writeResult" /\ e[2] = c
      /\ \A c : c \in ReadBackLog <=> c # autoRead /\ \E e \in log : e[1] = "readback" /\ e[2] = c
      /\ \A c : c \in Forwarded' <=> c # autoWrite' /\ \E e \in log' : e[1] = "writeResult" /\ e[2] = c
      /\ \A c : c \in ReadBackLog' <=> c # autoRead' /\ \E e \in log' : e[1] = "readback" /\ e[2] = c
  BY AnsweredCommands, AnsweredCommandsNext
<1>2. ASSUME \A e \in log' \cup log : e[1] \in {"writeResult", "readback"} => e \in log \cap log'
      PROVE  UNCHANGED <<Forwarded, ReadBackLog>>
  <2>1. \A c : (c \in Forwarded' <=> c \in Forwarded) /\ (c \in ReadBackLog' <=> c \in ReadBackLog)
    BY <1>0, <1>1, <1>2
  <2> QED BY <2>1
<1>3. ASSUME NEW ref, NEW ok, RecvResult(ref, ok)
      PROVE  AcknowledgeStep(ref) \/ UNCHANGED <<pendingW, pendingR, Forwarded, ReadBackLog>>
  <2>1. ref \in Used /\ pendingW' = pendingW \ {ref} /\ UNCHANGED <<pendingR, autoWrite, autoRead>>
    BY <1>0, <1>3 DEF RecvResult, StillPending
  <2>2. CASE ref \in pendingW
    <3>1. log' = log \cup {<<"writeResult", ref>>}
      BY <1>3, <2>2 DEF RecvResult, Emit
    <3>2. ref # autoWrite
      BY <1>0, <2>1, <2>2 DEF IInv, RefsUnambiguous
    <3>3. \A c : /\ c \in Forwarded' <=> c \in Forwarded \/ c = ref
                 /\ c \in ReadBackLog' <=> c \in ReadBackLog
      <4>1. \A e \in log' : e \in log \/ e = <<"writeResult", ref>>
        BY <3>1
      <4>2. <<"writeResult", ref>> \in log' /\ log \subseteq log'
        BY <3>1
      <4> QED BY <1>1, <2>1, <3>2, <4>1, <4>2
    <3>4. Forwarded' = Forwarded \cup {ref} /\ UNCHANGED ReadBackLog
      BY <3>3
    <3> QED BY <2>1, <2>2, <3>4 DEF AcknowledgeStep
  <2>3. CASE ref \notin pendingW
    <3>1. pendingW' = pendingW
      BY <2>1, <2>3
    <3>2. CASE ref # autoWrite
      <4>1. UNCHANGED log
        BY <1>3, <2>3, <3>2 DEF RecvResult, Emit
      <4> QED BY <1>2, <2>1, <3>1, <4>1
    <3>3. CASE ref = autoWrite
      <4>1. \A e \in log' : e \in log \/ e = <<"writeResult", ref>>
        BY <1>3 DEF RecvResult, Emit
      <4>2. log \subseteq log'
        BY LogGrows
      <4>3. \A c : (c \in Forwarded' <=> c \in Forwarded) /\ (c \in ReadBackLog' <=> c \in ReadBackLog)
        BY <1>1, <2>1, <3>3, <4>1, <4>2
      <4>4. UNCHANGED <<Forwarded, ReadBackLog>>
        BY <4>3
      <4> QED BY <2>1, <3>1, <4>4
    <3> QED BY <3>2, <3>3
  <2> QED BY <2>2, <2>3
<1>4. ASSUME NEW ref, NEW h, NEW ack, RecvLimits(ref, h, ack)
      PROVE  ReadBackStep(ref) \/ UNCHANGED <<pendingW, pendingR, Forwarded, ReadBackLog>>
  <2>1. /\ ref \in Used /\ pendingR' = pendingR \ {ref} /\ UNCHANGED pendingW
        /\ log' = log \/ (log' = log \cup {<<"readback", ref>>} /\ ref \in pendingR \cup {autoRead})
    BY <1>0, <1>4 DEF RecvLimits, Emit
  <2>2. CASE log' = log
    <3>1. UNCHANGED <<Forwarded, ReadBackLog>>
      BY <1>2, <2>2
    <3>2. CASE ref \in pendingR
      BY <2>1, <3>1, <3>2 DEF ReadBackStep
    <3>3. CASE ref \notin pendingR
      BY <2>1, <3>1, <3>3
    <3> QED BY <3>2, <3>3
  <2>3. CASE log' = log \cup {<<"readback", ref>>}
    <3>1. /\ \A e \in log' : e \in log \/ e = <<"readback", ref>>
          /\ <<"readback", ref>> \in log' /\ log \subseteq log'
      BY <2>3
    <3>2. \A c : c \in Forwarded' <=> c \in Forwarded
      BY <1>0, <1>1, <3>1
    <3>3. UNCHANGED Forwarded
      BY <3>2
    <3>4. CASE ref = autoRead
      <4>1. ref \notin pendingR
        BY <1>0, <2>1, <3>4 DEF IInv, RefsUnambiguous
      <4>2. \A c : c \in ReadBackLog' <=> c \in ReadBackLog
        BY <1>0, <1>1, <2>1, <3>1, <3>4
      <4>3. UNCHANGED ReadBackLog
        BY <4>2
      <4> QED BY <2>1, <3>3, <4>1, <4>3
    <3>5. CASE ref # autoRead
      <4>1. \A c : c \in ReadBackLog' <=> c \in ReadBackLog \/ c = ref
        BY <1>0, <1>1, <2>1, <3>1, <3>5
      <4>2. ReadBackLog' = ReadBackLog \cup {ref}
        BY <4>1
      <4>3. CASE ref \in pendingR
        BY <2>1, <3>3, <4>2, <4>3 DEF ReadBackStep
      <4>4. CASE ref \notin pendingR
        <5>1. UNCHANGED <<pendingR, log>>
          BY <2>1, <3>5, <4>4
        <5> QED BY <1>2, <2>1, <5>1
      <4> QED BY <4>3, <4>4
    <3> QED BY <3>4, <3>5
  <2> QED BY <2>1, <2>2, <2>3
<1>5. ASSUME NEW c \in Callers, ForwardBegins(c) PROVE IssueStep(counter + 1, counter + 2)
  <2>1. counter + 1 \in Used' \ Used /\ counter + 2 \in Used' \ (Used \cup {counter + 1})
    BY <1>0, <1>5 DEF ForwardBegins, Used
  <2>2. UNCHANGED <<Forwarded, ReadBackLog>>
    BY <1>2, <1>5 DEF ForwardBegins
  <2> QED BY <1>5, <2>1, <2>2 DEF ForwardBegins, IssueStep
<1>6. ASSUME UNCHANGED <<pendingW, pendingR>>,
             log' = log \/ \E c : log' = log \cup {<<"writeSent", c>>}
      PROVE  UNCHANGED <<pendingW, pendingR, Forwarded, ReadBackLog>>
  BY <1>2, <1>6
<1>7. CASE RecvDiscoveryRead
  BY <1>6, <1>7 DEF RecvDiscoveryRead
<1>8. CASE \E update \in Updates : RecvDiscovery(update)
  BY <1>6, <1>8 DEF RecvDiscovery
<1>9. CASE \E b \in BOOLEAN : RecvBindingTable(b)
  BY <1>6, <1>9 DEF RecvBindingTable
<1>10. ASSUME NEW s \in Senders, SendNext(s)
       PROVE  UNCHANGED <<pendingW, pendingR, Forwarded, ReadBackLog>>
  BY <1>6, <1>10 DEF SendNext, Emit
<1>11. CASE UNCHANGED vars
  BY <1>6, <1>11 DEF vars
<1> QED BY <1>3, <1>4, <1>5, <1>7, <1>8, <1>9, <1>10, <1>11 DEF Next

\* Nothing has been asked or answered.
LEMMA NothingYet ==
  ASSUME Init
  PROVE  pendingW = {} /\ pendingR = {} /\ Forwarded = {} /\ ReadBackLog = {}
  BY DEF Init, Forwarded, ReadBackLog

\* send_load_power_limit_to_peer and the handler's pops of its two dictionaries
\* implement the promise, whatever the peer answers and in whatever order.
THEOREM ForwardsImplementPromise == Spec => Wide!Spec
<1>1. Init => Wide!Init
  BY NothingYet DEF Wide!Init
<1>2. IInv /\ IInv' /\ [Next]_vars => [Wide!Next]_(Wide!vars)
  <2> SUFFICES ASSUME IInv, IInv', [Next]_vars PROVE [Wide!Next]_(Wide!vars)
    OBVIOUS
  <2>1. Used \subseteq Nat \ {NoCounter} /\ Used' \subseteq Nat \ {NoCounter}
    <3>1. counter \in Nat /\ counter' \in Nat
      BY DEF IInv, Types
    <3> QED BY <3>1 DEF Used, NoCounter
  <2>2. Wide!Known \subseteq Used
    BY AnsweredCommands DEF Wide!Known
  <2>3. ASSUME NEW w, NEW r, IssueStep(w, r) PROVE Wide!Issue
    BY <2>1, <2>2, <2>3 DEF IssueStep, Wide!Issue
  <2>4. ASSUME NEW c, AcknowledgeStep(c) PROVE Wide!Acknowledge(c) /\ c \in Nat \ {NoCounter}
    BY <2>1, <2>2, <2>4 DEF AcknowledgeStep, Wide!Acknowledge, Wide!Known
  <2>5. ASSUME NEW c, ReadBackStep(c) PROVE Wide!ReadBack(c) /\ c \in Nat \ {NoCounter}
    BY <2>1, <2>2, <2>5 DEF ReadBackStep, Wide!ReadBack, Wide!Known
  <2> QED BY CommandSteps, <2>3, <2>4, <2>5 DEF Wide!Next, Wide!vars
<1> QED BY Invariant, <1>1, <1>2, PTL DEF Spec, Wide!Spec

\* What the promise of LimitCommands means, of whatever keeps it: a command is
\* never outstanding and answered at once, and no counter is the write of one
\* command and the readback of another: pending_load_power_writes and
\* pending_load_power_readbacks cannot take one answer for another.
THEOREM CommandsAreUnambiguous == Wide!Spec => []Wide!Unambiguous
<1>1. Wide!Init => Wide!Unambiguous
  BY DEF Wide!Init, Wide!Unambiguous
<1>2. Wide!Unambiguous /\ [Wide!Next]_(Wide!vars) => Wide!Unambiguous'
  <2> SUFFICES ASSUME Wide!Unambiguous, [Wide!Next]_(Wide!vars) PROVE Wide!Unambiguous'
    OBVIOUS
  <2>1. CASE Wide!Issue
    <3>1. PICK w, r : /\ w \notin Wide!Known /\ pendingW' = pendingW \cup {w}
                      /\ r \notin Wide!Known \cup {w} /\ pendingR' = pendingR \cup {r}
                      /\ UNCHANGED <<Forwarded, ReadBackLog>>
      BY <2>1 DEF Wide!Issue
    <3> QED BY <3>1 DEF Wide!Unambiguous, Wide!Known
  <2>2. ASSUME NEW c, Wide!Acknowledge(c) PROVE Wide!Unambiguous'
    BY <2>2 DEF Wide!Acknowledge, Wide!Unambiguous
  <2>3. ASSUME NEW c, Wide!ReadBack(c) PROVE Wide!Unambiguous'
    BY <2>3 DEF Wide!ReadBack, Wide!Unambiguous
  <2>4. CASE UNCHANGED Wide!vars
    BY <2>4 DEF Wide!vars, Wide!Unambiguous
  <2> QED BY <2>1, <2>2, <2>3, <2>4 DEF Wide!Next
<1> QED BY <1>1, <1>2, PTL DEF Wide!Spec

\* So no forwarded command is outstanding and answered at once, and no counter
\* is the write of one command and the readback of another.
THEOREM ForwardsAreUnambiguous == Spec => []Wide!Unambiguous
  BY ForwardsImplementPromise, CommandsAreUnambiguous, PTL

\* The checked form, with its finitely many counters: it holds of every
\* behaviour that does not count further than MaxCounter.
THEOREM PromiseIsKept == Spec /\ [](counter <= MaxCounter) => CommandsKeepPromise
<1>1. Init => Promise!Init
  BY NothingYet DEF Promise!Init
<1>2. IInv /\ IInv' /\ [Next]_vars /\ counter <= MaxCounter /\ (counter <= MaxCounter)'
      => [Promise!Next]_(Promise!vars)
  <2> SUFFICES ASSUME IInv, IInv', [Next]_vars, counter <= MaxCounter, (counter <= MaxCounter)'
               PROVE  [Promise!Next]_(Promise!vars)
    OBVIOUS
  <2>1. Used \subseteq 1 .. MaxCounter /\ Used' \subseteq 1 .. MaxCounter
    <3>1. counter \in Nat /\ counter' \in Nat
      BY DEF IInv, Types
    <3> QED BY <3>1, MaxCounterAssumption DEF Used
  <2>2. Promise!Known \subseteq Used
    BY AnsweredCommands DEF Promise!Known
  <2>3. ASSUME NEW w, NEW r, IssueStep(w, r) PROVE Promise!Issue
    BY <2>1, <2>2, <2>3 DEF IssueStep, Promise!Issue
  <2>4. ASSUME NEW c, AcknowledgeStep(c) PROVE Promise!Acknowledge(c) /\ c \in 1 .. MaxCounter
    BY <2>1, <2>2, <2>4 DEF AcknowledgeStep, Promise!Acknowledge, Promise!Known
  <2>5. ASSUME NEW c, ReadBackStep(c) PROVE Promise!ReadBack(c) /\ c \in 1 .. MaxCounter
    BY <2>1, <2>2, <2>5 DEF ReadBackStep, Promise!ReadBack, Promise!Known
  <2> QED BY CommandSteps, <2>3, <2>4, <2>5 DEF Promise!Next, Promise!vars
<1> QED BY Invariant, <1>1, <1>2, PTL DEF Spec, CommandsKeepPromise
=============================================================================
