-------------------------- MODULE LpBridge_proofs ---------------------------
(***************************************************************************)
(* No command is lost, and none goes out of order, in `eebus lp bridge`,   *)
(* for every set of commands and every number of writes, sessions and      *)
(* datagrams.                                                              *)
(*                                                                         *)
(* Only one side's writes are taken up, so the commands are taken up in    *)
(* the order of their numbers (InOrder), the pending one is the newest     *)
(* taken up, and what is handed over is never newer (Books).               *)
(***************************************************************************)
EXTENDS LpBridge, TLAPS

Kinds == {"write", "ready", "summary", "closed"}
Events == [kind : Kinds, n : Nat]
Writes == [peer : Peers, side : {"source", "source-client", "wallbox"}, command : Commands]
Requests == Nat \ {NoRequest}

\* The newest command taken up, and the last one handed over, if any.
LastOf(s) == IF s = <<>> THEN NoRequest ELSE Latest(s)

Types ==
    /\ written \in Seq(Writes)
    /\ queue \in [Sides -> Seq(Events)]
    /\ accepted \in Seq(Requests) /\ handed \in Seq(Requests)
    /\ pending \in Nat
    /\ forward \in [step : {"none", "write", "read"}, req : Nat, link : Links \cup {NoLink}]
    /\ entry \in Links \cup {NoLink}

\* The writes that wait on a side are in the order they were reported, and on
\* the source's side none of them is older than what has been taken up.
InOrder ==
    /\ LastOf(accepted) \in 0 .. Len(written)
    /\ \A side \in Sides : \A i \in DOMAIN queue[side] :
          queue[side][i].kind = "write" =>
            /\ queue[side][i].n \in 1 .. Len(written)
            /\ side = SourceSide => LastOf(accepted) < queue[side][i].n
            /\ \A j \in 1 .. (i - 1) :
                  queue[side][j].kind = "write" => queue[side][j].n < queue[side][i].n

\* What is pending, under way and handed over.
Books ==
    /\ pending # NoRequest => pending = LastOf(accepted)
    /\ pending = NoRequest => LastOf(handed) = LastOf(accepted)
    /\ forward.step # "none" => pending # NoRequest /\ forward.req = pending
    /\ forward.step = "read" => LastOf(handed) = forward.req
    /\ \A i \in DOMAIN handed : handed[i] <= LastOf(accepted)

HandedInOrder == \A i, j \in DOMAIN handed : i < j => handed[i] <= handed[j]

IInv == Types /\ InOrder /\ Books /\ HandedInOrder

\* Appending keeps a sequence's elements and makes the new one the last.
LEMMA Appended ==
  ASSUME NEW S, NEW s \in Seq(S), NEW e \in S
  PROVE  /\ Append(s, e) \in Seq(S)
         /\ DOMAIN Append(s, e) = 1 .. (Len(s) + 1)
         /\ \A i \in DOMAIN s : Append(s, e)[i] = s[i]
         /\ Append(s, e)[Len(s) + 1] = e
         /\ LastOf(Append(s, e)) = e
  BY DEF LastOf, Latest

\* Taking the head shifts the others by one.
LEMMA Taken ==
  ASSUME NEW S, NEW s \in Seq(S), s # <<>>
  PROVE  /\ Tail(s) \in Seq(S)
         /\ Len(s) \in Nat \ {0} /\ Len(Tail(s)) = Len(s) - 1
         /\ \A i \in DOMAIN Tail(s) : i + 1 \in DOMAIN s /\ Tail(s)[i] = s[i + 1]
         /\ Head(s) = s[1] /\ Head(s) \in S
  OBVIOUS

\* The last element is one of the sequence.
LEMMA LastIsElement ==
  ASSUME NEW s \in Seq(Requests)
  PROVE  /\ LastOf(s) \in Nat
         /\ s = <<>> <=> LastOf(s) = NoRequest
         /\ s # <<>> => LastOf(s) = s[Len(s)] /\ Len(s) \in DOMAIN s
  BY DEF LastOf, Latest, Requests, NoRequest

\* Nothing has been reported, taken up or handed over yet.
LEMMA InitIInv == Init => IInv
  BY DEF Init, IInv, Types, InOrder, Books, HandedInOrder, NotForwarding, LastOf, NoRequest, Events

\* Only the source's side is taken up from.
LEMMA OnlySourceIsAccepted ==
  ASSUME NEW side \in Sides, NEW p, AcceptsPeer(side, p)
  PROVE  side = SourceSide
  BY DEF Sides, SourceSide, WallboxSide, AcceptsPeer

\* A step of the environment appends one event to one side's queue, and a new
\* write's number is larger than any before.
Reports(side, e) ==
    /\ side \in Sides
    /\ queue' = [queue EXCEPT ![side] = Append(@, e)]
    /\ UNCHANGED <<mode, pending, accepted, handed>>
    /\ \/ e.kind # "write" /\ UNCHANGED <<written, forward>>
       \/ e.kind = "write" /\ e.n = Len(written) + 1 /\ UNCHANGED forward
          /\ \E w \in Writes : written' = Append(written, w)

\* The bridge's task takes the head of a queue: a command is taken up and may be
\* forwarded at once, or the pending one is tried again, or nothing changes.
Takes(side) ==
    /\ side \in Sides /\ Waiting
    /\ queue[side] # <<>>
    /\ queue' = [queue EXCEPT ![side] = Tail(@)]
    /\ UNCHANGED <<mode, written, handed>>
    /\ \/ UNCHANGED <<pending, accepted, forward>>
       \/ pending # NoRequest /\ StartForward(pending) /\ UNCHANGED <<pending, accepted>>
       \/ /\ side = SourceSide /\ Head(queue[side]).kind = "write"
          /\ TakeUp(Head(queue[side]).n)

\* The entry is one of the wallbox's sessions, if any.
LEMMA EntryType == Types /\ [Next]_vars => entry' \in Links \cup {NoLink}
<1> SUFFICES ASSUME Types, [Next]_vars PROVE entry' \in Links \cup {NoLink}
  OBVIOUS
<1>1. CASE UNCHANGED entry
  BY <1>1 DEF Types
<1>2. ASSUME NEW l \in Links, LinkUp(l) \/ LinkDown(l)
      PROVE  entry' \in Links \cup {NoLink}
  BY <1>2 DEF LinkUp, LinkDown
<1> QED
  BY <1>1, <1>2 DEF Next, PeerWrites, Take, TakeWrite, TakeRetry, TakeOther, TakeEvent, Discovered,
       OtherDatagram, LinkBreaks, ForwardStep, SendWrite, SendRead, SendFails, SourceFails, sessions,
       vars

\* Every step is one of these, or only touches the sessions, or is a send.
LEMMA StepCases ==
  ASSUME Types, [Next]_vars
  PROVE  \/ \E side \in Sides : \E e \in Events : Reports(side, e)
         \/ \E side \in Sides : Takes(side)
         \/ SendWrite \/ SendRead \/ SendFails
         \/ UNCHANGED <<mode, queue, pending, forward, written, accepted, handed>>
<1>1. ASSUME NEW side \in Sides, NEW p \in Peers, NEW c \in Commands, PeerWrites(side, p, c)
      PROVE  \E e \in Events : Reports(side, e)
  <2> DEFINE e == Event("write", Len(written) + 1)
  <2>1. e \in Events /\ e.kind = "write" /\ e.n = Len(written) + 1
    BY DEF Types, Events, Kinds, Event
  <2>2. [peer |-> p, side |-> side, command |-> c] \in Writes
    BY DEF Writes, Sides, SourceSide, WallboxSide
  <2>3. Reports(side, e)
    BY <1>1, <2>1, <2>2 DEF PeerWrites, Reports
  <2> QED BY <2>1, <2>3
<1>2. ASSUME NEW kind \in Kinds \ {"write"},
             queue' = [queue EXCEPT ![WallboxSide] = Append(@, Event(kind, 0))],
             UNCHANGED <<mode, pending, forward, written, accepted, handed>>
      PROVE  \E side \in Sides : \E e \in Events : Reports(side, e)
  <2>1. Event(kind, 0) \in Events /\ Event(kind, 0).kind # "write" /\ WallboxSide \in Sides
    BY DEF Events, Kinds, Event, Sides
  <2>2. Reports(WallboxSide, Event(kind, 0))
    BY <1>2, <2>1 DEF Reports
  <2> QED BY <2>1, <2>2
<1>3. ASSUME NEW side \in Sides, Take(side)
      PROVE  Takes(side)
  <2>1. CASE TakeWrite(side)
    <3> DEFINE e == Head(queue[side])
    <3>1. AcceptsPeer(side, written[e.n].peer) => side = SourceSide
      BY OnlySourceIsAccepted
    <3> QED BY <2>1, <3>1 DEF TakeWrite, TakeEvent, Takes
  <2>2. CASE TakeRetry(side)
    BY <2>2 DEF TakeRetry, TakeEvent, Takes
  <2>3. CASE TakeOther(side)
    BY <2>3 DEF TakeOther, TakeEvent, Takes
  <2> QED BY <1>3, <2>1, <2>2, <2>3 DEF Take
<1>4. ASSUME NEW l \in Links, LinkUp(l)
      PROVE  \E side \in Sides : \E e \in Events : Reports(side, e)
  BY <1>2, <1>4 DEF LinkUp, Kinds
<1>5. ASSUME NEW l \in Links, Discovered(l)
      PROVE  \E side \in Sides : \E e \in Events : Reports(side, e)
  BY <1>2, <1>5 DEF Discovered, Kinds
<1>6. CASE OtherDatagram
  BY <1>2, <1>6 DEF OtherDatagram, Kinds
<1>7. ASSUME NEW l \in Links, LinkDown(l)
      PROVE  \E side \in Sides : \E e \in Events : Reports(side, e)
  BY <1>2, <1>7 DEF LinkDown, Kinds
<1>8. CASE SourceFails
  BY <1>8 DEF SourceFails
<1>9. ASSUME NEW l \in Links, LinkBreaks(l)
      PROVE  UNCHANGED <<mode, queue, pending, forward, written, accepted, handed>>
  BY <1>9 DEF LinkBreaks
<1>10. CASE UNCHANGED vars
  BY <1>10 DEF vars
<1> QED BY <1>1, <1>3, <1>4, <1>5, <1>6, <1>7, <1>8, <1>9, <1>10 DEF Next, ForwardStep

\* A request under way is one that was taken up.
LEMMA StartForwardType ==
  ASSUME Types, NEW n \in Nat, StartForward(n)
  PROVE  /\ forward' \in [step : {"none", "write", "read"}, req : Nat, link : Links \cup {NoLink}]
         /\ forward'.step \in {"none", "write"}
         /\ forward'.step # "none" => forward'.req = n
  BY DEF Types, StartForward, NotForwarding, NoRequest

\* Types are kept: what is taken up is a write, and what is sent was taken up.
LEMMA TypesStep == Types /\ InOrder /\ Books /\ [Next]_vars => Types'
<1> SUFFICES ASSUME Types, InOrder, Books, [Next]_vars PROVE Types'
  OBVIOUS
<1>0. entry' \in Links \cup {NoLink}
  BY EntryType
<1>1. ASSUME UNCHANGED mode PROVE Sides' = Sides
  BY <1>1 DEF Sides, SourceSide, WallboxSide
<1>2. ASSUME NEW side \in Sides, NEW e \in Events, Reports(side, e)
      PROVE  Types'
  <2>1. queue' \in [Sides -> Seq(Events)]
    BY <1>2, Appended DEF Types, Reports
  <2>2. written' \in Seq(Writes)
    <3>1. CASE UNCHANGED written
      BY <3>1 DEF Types
    <3>2. ASSUME NEW w \in Writes, written' = Append(written, w)
          PROVE  written' \in Seq(Writes)
      BY <3>2, Appended DEF Types
    <3> QED BY <1>2, <3>1, <3>2 DEF Reports
  <2> QED BY <1>0, <1>1, <1>2, <2>1, <2>2 DEF Types, Reports
<1>3. ASSUME NEW side \in Sides, Takes(side)
      PROVE  Types'
  <2>1. queue' \in [Sides -> Seq(Events)]
    BY <1>3, Taken DEF Types, Takes
  <2>2. CASE UNCHANGED <<pending, accepted, forward>>
    BY <1>0, <1>1, <1>3, <2>1, <2>2 DEF Types, Takes
  <2>3. CASE StartForward(pending) /\ UNCHANGED <<pending, accepted>>
    BY <1>0, <1>1, <1>3, <2>1, <2>3, StartForwardType DEF Types, Takes
  <2>4. CASE Head(queue[side]).kind = "write" /\ TakeUp(Head(queue[side]).n)
    <3> DEFINE n == Head(queue[side]).n
    <3>1. n \in Requests /\ n \in Nat
      <4>1. Head(queue[side]) = queue[side][1] /\ 1 \in DOMAIN queue[side]
        BY <1>3, Taken DEF Types, Takes
      <4>2. Len(written) \in Nat
        BY DEF Types
      <4> QED BY <2>4, <4>1, <4>2 DEF InOrder, Requests, NoRequest
    <3>2. accepted' \in Seq(Requests) /\ pending' = n /\ StartForward(n)
      BY <2>4, <3>1, Appended DEF TakeUp, Types
    <3> HIDE DEF n
    <3> QED BY <1>0, <1>1, <1>3, <2>1, <3>1, <3>2, StartForwardType DEF Types, Takes
  <2> QED BY <1>3, <2>2, <2>3, <2>4 DEF Takes
<1>4. CASE SendWrite
  <2>1. forward.req \in Requests
    BY <1>4 DEF SendWrite, Books, Types, Requests
  <2>2. handed' \in Seq(Requests)
    BY <1>4, <2>1, Appended DEF SendWrite, Types
  <2> QED BY <1>0, <1>1, <1>4, <2>2 DEF SendWrite, Types
<1>5. CASE SendRead
  BY <1>0, <1>1, <1>5 DEF SendRead, Types, NotForwarding, NoRequest
<1>6. CASE SendFails
  BY <1>0, <1>1, <1>6 DEF SendFails, Types, NotForwarding, NoRequest
<1>7. CASE UNCHANGED <<mode, queue, pending, forward, written, accepted, handed>>
  BY <1>0, <1>1, <1>7 DEF Types
<1> QED BY StepCases, <1>2, <1>3, <1>4, <1>5, <1>6, <1>7

\* A report is newer than all before it; taking a write leaves only newer ones.
LEMMA InOrderStep == Types /\ InOrder /\ Books /\ [Next]_vars => InOrder'
<1> SUFFICES ASSUME Types, InOrder, Books, [Next]_vars PROVE InOrder'
  OBVIOUS
<1>0. Types' /\ Len(written) \in Nat /\ LastOf(accepted) \in Nat
  BY TypesStep, LastIsElement DEF Types
<1>1. ASSUME UNCHANGED mode PROVE Sides' = Sides /\ SourceSide' = SourceSide
  BY <1>1 DEF Sides, SourceSide, WallboxSide
<1>2. ASSUME NEW side \in Sides, NEW e \in Events, Reports(side, e)
      PROVE  InOrder'
  <2>1. Len(written') \in Nat /\ Len(written) <= Len(written')
        /\ (e.kind = "write" => e.n = Len(written) + 1 /\ Len(written') = e.n)
    BY <1>0, <1>2 DEF Reports, Types
  <2>2. UNCHANGED LastOf(accepted) /\ UNCHANGED Sides /\ UNCHANGED SourceSide
    BY <1>1, <1>2 DEF Reports, LastOf, Latest
  <2>3. ASSUME NEW s \in Sides, NEW i \in DOMAIN queue'[s], queue'[s][i].kind = "write"
        PROVE  /\ queue'[s][i].n \in 1 .. Len(written')
               /\ s = SourceSide => LastOf(accepted) < queue'[s][i].n
               /\ \A j \in 1 .. (i - 1) :
                     queue'[s][j].kind = "write" => queue'[s][j].n < queue'[s][i].n
    <3>1. CASE s # side
      <4>1. queue'[s] = queue[s]
        BY <1>2, <3>1 DEF Reports, Types
      <4> QED BY <1>0, <2>1, <2>3, <4>1 DEF InOrder
    <3>2. CASE s = side
      <4> DEFINE q == queue[side]
      <4>1. q \in Seq(Events) /\ queue'[s] = Append(q, e)
        BY <1>2, <3>2 DEF Reports, Types
      <4>2. /\ DOMAIN queue'[s] = 1 .. (Len(q) + 1) /\ Len(q) \in Nat /\ DOMAIN q = 1 .. Len(q)
            /\ \A j \in 1 .. Len(q) : queue'[s][j] = q[j]
            /\ queue'[s][Len(q) + 1] = e
        BY <4>1, Appended
      <4>3. \A j \in 1 .. Len(q) : q[j].kind = "write" =>
              /\ q[j].n \in 1 .. Len(written)
              /\ s = SourceSide => LastOf(accepted) < q[j].n
              /\ \A k \in 1 .. (j - 1) : q[k].kind = "write" => q[k].n < q[j].n
        BY <3>2, <4>2 DEF InOrder
      <4> HIDE DEF q
      <4>4. CASE i \in 1 .. Len(q)
        BY <1>0, <2>1, <2>3, <4>2, <4>3, <4>4
      <4>5. CASE i = Len(q) + 1
        <5>1. queue'[s][i] = e /\ e.n = Len(written) + 1 /\ Len(written') = e.n
          BY <2>1, <2>3, <4>2, <4>5
        <5>2. LastOf(accepted) < e.n
          BY <1>0, <5>1 DEF InOrder
        <5>3. ASSUME NEW j \in 1 .. (i - 1), queue'[s][j].kind = "write"
              PROVE  queue'[s][j].n < e.n
          BY <1>0, <4>2, <4>3, <4>5, <5>1, <5>3
        <5> QED BY <1>0, <5>1, <5>2, <5>3
      <4> QED BY <2>3, <4>2, <4>4, <4>5
    <3> QED BY <3>1, <3>2
  <2>4. LastOf(accepted) \in 0 .. Len(written')
    BY <1>0, <2>1 DEF InOrder
  <2> QED BY <2>2, <2>3, <2>4 DEF InOrder
<1>3. ASSUME NEW side \in Sides, Takes(side)
      PROVE  InOrder'
  <2> DEFINE q == queue[side]
  <2>1. q \in Seq(Events) /\ q # <<>> /\ queue' = [queue EXCEPT ![side] = Tail(q)]
    BY <1>3 DEF Takes, Types
  <2>2. /\ Len(q) \in Nat \ {0} /\ DOMAIN q = 1 .. Len(q)
        /\ DOMAIN Tail(q) = 1 .. (Len(q) - 1)
        /\ \A i \in DOMAIN Tail(q) : i + 1 \in DOMAIN q /\ Tail(q)[i] = q[i + 1]
        /\ Head(q) = q[1]
    BY <2>1, Taken
  <2>3. UNCHANGED written /\ UNCHANGED Sides /\ UNCHANGED SourceSide
    BY <1>1, <1>3 DEF Takes
  <2>4. \/ UNCHANGED accepted
        \/ /\ side = SourceSide /\ q[1].kind = "write"
           /\ LastOf(accepted') = q[1].n /\ q[1].n \in 1 .. Len(written)
    <3>1. CASE side = SourceSide /\ q[1].kind = "write" /\ accepted' = Append(accepted, q[1].n)
      <4>1. q[1].n \in 1 .. Len(written)
        BY <2>2, <3>1 DEF InOrder
      <4>2. q[1].n \in Requests
        BY <1>0, <4>1 DEF Requests, NoRequest
      <4> HIDE DEF q
      <4> QED BY <3>1, <4>1, <4>2, Appended DEF Types
    <3> QED BY <1>3, <2>2, <3>1 DEF Takes, TakeUp
  <2>5. \A s \in Sides : \A i \in DOMAIN queue[s] : queue[s][i].kind = "write" =>
              /\ queue[s][i].n \in 1 .. Len(written)
              /\ s = SourceSide => LastOf(accepted) < queue[s][i].n
              /\ \A j \in 1 .. (i - 1) :
                    queue[s][j].kind = "write" => queue[s][j].n < queue[s][i].n
    BY DEF InOrder
  <2>6. ASSUME NEW s \in Sides, NEW i \in DOMAIN queue'[s], queue'[s][i].kind = "write"
        PROVE  /\ queue'[s][i].n \in 1 .. Len(written)
               /\ s = SourceSide => LastOf(accepted') < queue'[s][i].n
               /\ \A j \in 1 .. (i - 1) :
                     queue'[s][j].kind = "write" => queue'[s][j].n < queue'[s][i].n
    <3>1. CASE s # side
      <4>1. queue'[s] = queue[s]
        BY <2>1, <3>1 DEF Types
      <4>2. s = SourceSide => LastOf(accepted') = LastOf(accepted)
        BY <2>4, <3>1
      <4> QED BY <2>5, <2>6, <4>1, <4>2
    <3>2. CASE s = side
      <4>1. queue'[s] = Tail(q)
        BY <2>1, <3>2 DEF Types
      <4>2. i \in 1 .. (Len(q) - 1) /\ queue'[s][i] = q[i + 1] /\ i + 1 \in DOMAIN q
            /\ \A j \in 1 .. (i - 1) : queue'[s][j] = q[j + 1] /\ j + 1 \in 1 .. i
        BY <2>2, <4>1
      <4>3. /\ q[i + 1].n \in 1 .. Len(written)
            /\ s = SourceSide => LastOf(accepted) < q[i + 1].n
            /\ \A j \in 1 .. i : q[j].kind = "write" => q[j].n < q[i + 1].n
        BY <2>5, <2>6, <3>2, <4>2
      <4>4. 1 \in 1 .. i
        BY <4>2
      <4>5. s = SourceSide => LastOf(accepted') < q[i + 1].n
        BY <2>4, <4>3, <4>4
      <4> HIDE DEF q
      <4> QED BY <2>6, <4>2, <4>3, <4>5
    <3> QED BY <3>1, <3>2
  <2>7. LastOf(accepted') \in 0 .. Len(written)
    BY <1>0, <2>4 DEF InOrder
  <2> QED BY <2>3, <2>6, <2>7 DEF InOrder
<1>4. CASE UNCHANGED <<mode, queue, written, accepted>>
  BY <1>1, <1>4 DEF InOrder, LastOf, Latest
<1> QED
  BY StepCases, <1>2, <1>3, <1>4 DEF SendWrite, SendRead, SendFails

\* A command taken up becomes the pending one; only its own read clears it.
LEMMA BooksStep == Types /\ InOrder /\ Books /\ [Next]_vars => Books'
<1> SUFFICES ASSUME Types, InOrder, Books, [Next]_vars PROVE Books'
  OBVIOUS
<1>0. /\ LastOf(accepted) \in Nat /\ LastOf(handed) \in Nat /\ pending \in Nat
      /\ forward.req \in Nat /\ \A i \in DOMAIN handed : handed[i] \in Nat
  BY LastIsElement DEF Types, Requests
<1>1. ASSUME NEW side \in Sides, NEW e \in Events, Reports(side, e)
      PROVE  Books'
  BY <1>1 DEF Reports, Books, LastOf, Latest
<1>2. ASSUME NEW side \in Sides, Takes(side)
      PROVE  Books'
  <2>1. CASE UNCHANGED <<pending, accepted, forward>>
    BY <1>2, <2>1 DEF Takes, Books, LastOf, Latest
  <2>2. CASE pending # NoRequest /\ StartForward(pending) /\ UNCHANGED <<pending, accepted>>
    BY <1>0, <1>2, <2>2, StartForwardType DEF Takes, Books, LastOf, Latest
  <2>3. CASE side = SourceSide /\ Head(queue[side]).kind = "write" /\ TakeUp(Head(queue[side]).n)
    <3> DEFINE n == Head(queue[side]).n
    <3>1. n \in Requests /\ LastOf(accepted) < n
      <4>1. Head(queue[side]) = queue[side][1] /\ 1 \in DOMAIN queue[side]
        BY <1>2, Taken DEF Types, Takes
      <4>2. Len(written) \in Nat
        BY DEF Types
      <4> QED BY <2>3, <4>1, <4>2 DEF InOrder, Requests, NoRequest
    <3>2. LastOf(accepted') = n /\ pending' = n /\ StartForward(n) /\ UNCHANGED handed
      BY <1>2, <2>3, <3>1, Appended DEF TakeUp, Types, Takes
    <3> HIDE DEF n
    <3>3. forward'.step \in {"none", "write"} /\ (forward'.step # "none" => forward'.req = n)
      BY <3>1, <3>2, StartForwardType DEF Requests
    <3>4. \A i \in DOMAIN handed' : handed'[i] <= n
      BY <1>0, <3>1, <3>2 DEF Books, Requests
    <3> QED BY <3>1, <3>2, <3>3, <3>4 DEF Books, Requests, NoRequest
  <2> QED BY <1>2, <2>1, <2>2, <2>3 DEF Takes
<1>3. CASE SendWrite
  <2>1. forward.req = pending /\ pending # NoRequest /\ pending \in Requests
        /\ pending = LastOf(accepted)
    BY <1>0, <1>3 DEF SendWrite, Books, Requests
  <2>2. /\ DOMAIN handed' = 1 .. (Len(handed) + 1) /\ DOMAIN handed = 1 .. Len(handed)
        /\ Len(handed) \in Nat
        /\ \A i \in DOMAIN handed : handed'[i] = handed[i]
        /\ handed'[Len(handed) + 1] = pending /\ LastOf(handed') = pending
    BY <1>3, <2>1, Appended DEF SendWrite, Types
  <2>3. UNCHANGED <<pending, accepted>> /\ forward'.req = forward.req /\ forward'.step = "read"
    BY <1>3 DEF SendWrite, Types
  <2>4. \A i \in DOMAIN handed' : handed'[i] <= LastOf(accepted)
    BY <1>0, <2>1, <2>2 DEF Books
  <2> QED BY <2>1, <2>2, <2>3, <2>4 DEF Books, LastOf, Latest
<1>4. CASE SendRead
  BY <1>4 DEF SendRead, Books, NotForwarding, LastOf, Latest
<1>5. CASE SendFails
  BY <1>5 DEF SendFails, Books, NotForwarding, LastOf, Latest
<1>6. CASE UNCHANGED <<mode, queue, pending, forward, written, accepted, handed>>
  BY <1>6 DEF Books, LastOf, Latest
<1> QED
  BY StepCases, <1>1, <1>2, <1>3, <1>4, <1>5, <1>6

\* A request handed over is the newest taken up, and none before it is newer.
LEMMA HandedInOrderStep == Types /\ Books /\ HandedInOrder /\ [Next]_vars => HandedInOrder'
<1> SUFFICES ASSUME Types, Books, HandedInOrder, [Next]_vars PROVE HandedInOrder'
  OBVIOUS
<1>1. CASE SendWrite
  <2>1. forward.req = LastOf(accepted) /\ forward.req \in Requests
    BY <1>1 DEF SendWrite, Books, Types, Requests
  <2>2. /\ DOMAIN handed' = 1 .. (Len(handed) + 1) /\ DOMAIN handed = 1 .. Len(handed)
        /\ Len(handed) \in Nat
        /\ \A i \in DOMAIN handed : handed'[i] = handed[i]
        /\ handed'[Len(handed) + 1] = forward.req
    BY <1>1, <2>1, Appended DEF SendWrite, Types
  <2>3. \A i \in DOMAIN handed : handed[i] <= forward.req
    BY <2>1 DEF Books
  <2>4. ASSUME NEW i \in DOMAIN handed', NEW j \in DOMAIN handed', i < j
        PROVE  handed'[i] <= handed'[j]
    <3>1. i \in DOMAIN handed
      BY <2>2, <2>4
    <3>2. j \in DOMAIN handed \/ j = Len(handed) + 1
      BY <2>2
    <3> QED BY <2>2, <2>3, <2>4, <3>1, <3>2 DEF HandedInOrder
  <2> QED BY <2>4 DEF HandedInOrder
<1>2. CASE UNCHANGED handed
  BY <1>2 DEF HandedInOrder
<1> QED
  BY StepCases, <1>1, <1>2 DEF Reports, Takes, SendRead, SendFails

\* The bridge's books hold: what it took up is in the order it was reported, and
\* pending, under way and handed over agree on which command is the newest.
THEOREM Invariant == Spec => []IInv
<1>1. IInv /\ [Next]_vars => IInv'
  BY TypesStep, InOrderStep, BooksStep, HandedInOrderStep DEF IInv
<1> QED
  BY InitIInv, <1>1, PTL DEF Spec

\* send_load_power_limit_to_peer is never called with an older command of a side
\* after a newer one, whatever the order of link losses, retries and datagrams.
THEOREM NeverOlderAfterNewer == Spec => []NoOlderCommandAfterNewer
<1>1. IInv => NoOlderCommandAfterNewer
  BY DEF IInv, HandedInOrder, NoOlderCommandAfterNewer
<1> QED
  BY Invariant, <1>1, PTL

\* Between two forwards, the newest command that _run_lp_bridge took up is the
\* pending one or the last one written to the wallbox.
THEOREM NewestIsNotLost == Spec => []LatestIsPendingOrHanded
<1>1. IInv => LatestIsPendingOrHanded
  <2> SUFFICES ASSUME IInv, Waiting, accepted # <<>>
               PROVE  IF pending # NoRequest THEN pending = Latest(accepted)
                      ELSE handed # <<>> /\ Latest(handed) = Latest(accepted)
    BY DEF LatestIsPendingOrHanded
  <2>1. LastOf(accepted) = Latest(accepted) /\ LastOf(accepted) # NoRequest
    BY LastIsElement DEF IInv, Types, LastOf
  <2>2. LastOf(handed) # NoRequest => handed # <<>> /\ LastOf(handed) = Latest(handed)
    BY DEF LastOf
  <2> QED BY <2>1, <2>2 DEF IInv, Books
<1> QED
  BY Invariant, <1>1, PTL
=============================================================================
