-------------------------- MODULE ClientSpine_proofs -------------------------
(***************************************************************************)
(* What the peer of a HemsClient may rely on, in every profile, for any    *)
(* peer, any writes and any number of reconnections and timeouts: the      *)
(* limits it was told are those the client keeps (but for writes without   *)
(* their list or whose answer is lost), no subscription is asked for       *)
(* twice, and what the client announces is what it answers and asks from.  *)
(***************************************************************************)
EXTENDS ClientSpine, SequenceLemmas, SequenceTheorems, FiniteSetTheorems

\* A peer that was told v of a field, with q under way, knows the fields of l:
\* the last that tells of the field says what is kept, and when nothing does,
\* the peer has it already.
CurrentAt(c, v, q, l) ==
    /\ \A k \in DOMAIN q :
          c \in DOMAIN q[k] /\ (\A n \in DOMAIN q : k < n => c \notin DOMAIN q[n]) /\ q[k][c] # None
          => c \in DOMAIN l /\ q[k][c] = l[c]
    /\ (\A k \in DOMAIN q : c \notin DOMAIN q[k]) /\ v[c] # None => c \in DOMAIN l /\ v[c] = l[c]

Current(v, q, l) == \A c \in Cells : CurrentAt(c, v, q, l)

PeerKnows ==
    /\ IsSequence(toPeer)
    /\ ~blind => Current(view, toPeer, limits)
    /\ ~stored => limits = NoLimits

\* Each subscription left its mark: a flag, or the heartbeat's server; and each
\* mark has its subscription, when no send timed out.
AsksOnce ==
    /\ ~repeated
    /\ cuts \in Nat
    /\ features \subseteq Diagnosis
    /\ \A call \in calls :
          \/ call = Request("NodeManagement", NodeManagement) /\ subscribed /\ ~Adapter
          \/ \E s \in diagnosed : call = Request("DeviceDiagnosis", s)
    /\ cuts = 0 => /\ subscribed => Request("NodeManagement", NodeManagement) \in calls
                   /\ \A s \in diagnosed : Request("DeviceDiagnosis", s) \in calls
    /\ Adapter /\ (calls # {} \/ bindings # <<>>) => bound

IInv == profile \in AllProfiles /\ PeerKnows /\ AsksOnce /\ AnnouncedReadsAreAnswered

-----------------------------------------------------------------------------
(* Datagrams. *)

\* Where the items of two sequences are when they are put together.
LEMMA JoinedPlaces ==
  ASSUME NEW s, NEW t, IsSequence(s), IsSequence(t)
  PROVE  /\ DOMAIN s \subseteq Nat /\ DOMAIN t \subseteq Nat \ {0} /\ Len(s) \in Nat
         /\ \A i \in DOMAIN s : i \in DOMAIN (s \o t) /\ (s \o t)[i] = s[i] /\ i <= Len(s)
         /\ \A j \in DOMAIN t : Len(s) + j \in DOMAIN (s \o t) /\ (s \o t)[Len(s) + j] = t[j]
         /\ \A k \in DOMAIN (s \o t) : k \in DOMAIN s \/ \E j \in DOMAIN t : k = Len(s) + j
<1> DEFINE S == ToSet(s) \cup ToSet(t)
<1>1. s \in Seq(S) /\ t \in Seq(S)
  BY DEF IsSequence
<1> HIDE DEF S
<1>2. /\ Len(s) \in Nat /\ Len(t) \in Nat /\ Len(s \o t) = Len(s) + Len(t)
      /\ DOMAIN s = 1..Len(s) /\ DOMAIN t = 1..Len(t) /\ DOMAIN (s \o t) = 1..Len(s \o t)
  BY <1>1
<1>3. \A i \in 1..Len(s) : (s \o t)[i] = s[i]
  BY <1>1, <1>2
<1>4. \A j \in 1..Len(t) : (s \o t)[Len(s) + j] = t[j]
  BY <1>1, <1>2
<1>5. \A k \in DOMAIN (s \o t) : k \in DOMAIN s \/ \E j \in DOMAIN t : k = Len(s) + j
  <2> SUFFICES ASSUME NEW k \in DOMAIN (s \o t), k \notin DOMAIN s
               PROVE  \E j \in DOMAIN t : k = Len(s) + j
    OBVIOUS
  <2>1. k - Len(s) \in DOMAIN t /\ k = Len(s) + (k - Len(s))
    BY <1>2
  <2> QED BY <2>1
<1> QED BY <1>2, <1>3, <1>4, <1>5

\* Where the items of a prefix are.
LEMMA PrefixPlaces ==
  ASSUME NEW s, IsSequence(s), NEW n \in 0 .. Len(s)
  PROVE  LET t == SubSeq(s, 1, n)
         IN  IsSequence(t) /\ DOMAIN t \subseteq DOMAIN s /\ \A i \in DOMAIN t : t[i] = s[i]
<1> DEFINE S == ToSet(s)
           t == SubSeq(s, 1, n)
<1>1. s \in Seq(S)
  BY DEF IsSequence
<1> HIDE DEF S
<1>2. t \in Seq(S) /\ DOMAIN t = 1 .. n /\ DOMAIN s = 1 .. Len(s) /\ Len(s) \in Nat
      /\ Len(t) = n /\ \A i \in 1 .. n : t[i] = s[i]
  BY <1>1
<1>3. \A i \in DOMAIN t : t[i] \in ToSet(t)
  BY DEF ToSet
<1> HIDE DEF t
<1> DEFINE T == ToSet(t)
<1>4. \A i \in 1 .. Len(t) : t[i] \in T
  BY <1>2, <1>3
<1> HIDE DEF T
<1>5. t \in Seq(T)
  BY <1>2, <1>4
<1> QED BY <1>2, <1>5 DEF IsSequence, T, t

\* Datagrams that ask for the subscriptions of R, each once.
Asks(out, R) == IsSequence(out) /\ Asked(out) = R /\ ~Repeats(out)

\* No datagrams ask for nothing.
LEMMA NothingAsks == Asks(<<>>, {})
  BY NoItems DEF Asks, Asked, Repeats

\* One datagram asks at most once.
LEMMA OneAsks ==
  ASSUME NEW d
  PROVE  Asks(<<d>>, IF d.kind = "call" THEN {d.to} ELSE {})
<1>1. IsSequence(<<d>>) /\ ToSet(<<d>>) = {d}
  BY OneItem
<1>2. DOMAIN <<d>> = {1}
  OBVIOUS
<1>3. ~Repeats(<<d>>)
  BY <1>2 DEF Repeats
<1>4. Asked(<<d>>) = IF d.kind = "call" THEN {d.to} ELSE {}
  BY <1>1 DEF Asked
<1> QED BY <1>1, <1>3, <1>4 DEF Asks

\* What two lists of datagrams ask for, when they ask for different things.
LEMMA MoreAsks ==
  ASSUME NEW o, NEW p, NEW R, NEW T, Asks(o, R), Asks(p, T), R \cap T = {}
  PROVE  Asks(o \o p, R \cup T)
<1>1. IsSequence(o) /\ IsSequence(p)
  BY DEF Asks
<1>2. IsSequence(o \o p) /\ ToSet(o \o p) = ToSet(o) \cup ToSet(p)
  BY <1>1, JoinedItems
<1>3. Asked(o \o p) = R \cup T
  BY <1>2 DEF Asks, Asked
<1>4. ASSUME NEW i \in DOMAIN (o \o p), NEW j \in DOMAIN (o \o p), i # j, (o \o p)[i].kind = "call",
             (o \o p)[i] = (o \o p)[j]
      PROVE  FALSE
  <2>1. ASSUME NEW a \in DOMAIN o, NEW b \in DOMAIN p, o[a] = p[b], o[a].kind = "call" PROVE FALSE
    <3>1. o[a].to \in R
      BY <2>1 DEF Asks, Asked, ToSet
    <3>2. p[b].to \in T
      BY <2>1 DEF Asks, Asked, ToSet
    <3> QED BY <2>1, <3>1, <3>2
  <2>3. CASE i \in DOMAIN o /\ j \in DOMAIN o
    BY <1>1, <1>4, <2>3, JoinedPlaces DEF Asks, Repeats
  <2>4. CASE i \in DOMAIN o /\ j \notin DOMAIN o
    <3>1. PICK b \in DOMAIN p : j = Len(o) + b
      BY <1>1, <2>4, JoinedPlaces
    <3>2. o[i] = p[b] /\ o[i].kind = "call"
      BY <1>1, <1>4, <2>4, <3>1, JoinedPlaces
    <3> QED BY <2>1, <2>4, <3>2
  <2>5. CASE i \notin DOMAIN o /\ j \in DOMAIN o
    <3>1. PICK b \in DOMAIN p : i = Len(o) + b
      BY <1>1, <2>5, JoinedPlaces
    <3>2. o[j] = p[b] /\ o[j].kind = "call"
      BY <1>1, <1>4, <2>5, <3>1, JoinedPlaces
    <3> QED BY <2>1, <2>5, <3>2
  <2>6. CASE i \notin DOMAIN o /\ j \notin DOMAIN o
    <3>1. PICK a \in DOMAIN p : i = Len(o) + a
      BY <1>1, <2>6, JoinedPlaces
    <3>2. PICK b \in DOMAIN p : j = Len(o) + b
      BY <1>1, <2>6, JoinedPlaces
    <3>3. (o \o p)[i] = p[a] /\ (o \o p)[j] = p[b]
      <4>1. \A n \in DOMAIN p : (o \o p)[Len(o) + n] = p[n]
        BY <1>1, JoinedPlaces, ZenonT(30)
      <4> QED BY <3>1, <3>2, <4>1
    <3>4. p[a] = p[b] /\ p[a].kind = "call" /\ a # b
      BY <1>4, <3>1, <3>2, <3>3
    <3> QED BY <3>4 DEF Asks, Repeats
  <2> QED BY <2>3, <2>4, <2>5, <2>6
<1> QED BY <1>2, <1>3, <1>4 DEF Asks, Repeats

\* Datagrams that tell this of the limits, or nothing.
Tells(out, data) == IsSequence(out) /\ \A d \in ToSet(out) : d.data \in {NoLimits, data}

\* No datagrams tell nothing.
LEMMA NothingTells ==
  ASSUME NEW data
  PROVE  Tells(<<>>, data)
  BY NoItems DEF Tells

\* One datagram tells what it carries.
LEMMA OneTells ==
  ASSUME NEW d, NEW data, d.data \in {NoLimits, data}
  PROVE  Tells(<<d>>, data)
  BY OneItem DEF Tells

\* Two lists that tell the same.
LEMMA MoreTells ==
  ASSUME NEW o, NEW p, NEW data, Tells(o, data), Tells(p, data)
  PROVE  Tells(o \o p, data)
  BY JoinedItems DEF Tells

\* A datagram that may be left out.
LEMMA PerhapsAsks ==
  ASSUME NEW d, d.kind # "call", NEW e, e = <<d>> \/ e = <<>>
  PROVE  Asks(e, {})
<1>1. Asks(<<d>>, {})
  BY OneAsks
<1> QED BY <1>1, NothingAsks

\* And what one tells that may be left out.
LEMMA PerhapsTells ==
  ASSUME NEW d, NEW data, d.data \in {NoLimits, data}, NEW e, e = <<d>> \/ e = <<>>
  PROVE  Tells(e, data)
  BY OneTells, NothingTells

\* The parts of a datagram.
LEMMA Datagrams ==
  /\ \A kind, to, data : LET d == Out(kind, to, data) IN d.kind = kind /\ d.to = to /\ d.data = data
  /\ Result.kind # "call" /\ Result.data = NoLimits
  /\ \A type, to : LET d == Subscribe(type, to)
                   IN  d.kind = "call" /\ d.to = Request(type, to) /\ d.data = NoLimits
<1>1. \A kind, to, data : LET d == Out(kind, to, data) IN d.kind = kind /\ d.to = to /\ d.data = data
  BY DEF Out
<1> HIDE DEF Out
<1> QED BY <1>1 DEF Result, Subscribe

\* Different requests.
LEMMA Requests ==
  /\ \A type, to : Request(type, to).type = type /\ Request(type, to).to = to
                   /\ Request(type, to).from = Asker(profile, type)
  BY DEF Request

\* What is sent of some answers, before a timeout or to the end.
LEMMA SentPart ==
  ASSUME NEW out, IsSequence(out), NEW sent \in Arriving(out)
  PROVE  /\ IsSequence(sent) /\ DOMAIN sent \subseteq DOMAIN out
         /\ \A i \in DOMAIN sent : sent[i] = out[i]
         /\ ToSet(sent) \subseteq ToSet(out)
<1>1. sent = out \/ \E n \in 0 .. Len(out) : sent = SubSeq(out, 1, n)
  BY DEF Arriving, Prefixes
<1>2. /\ IsSequence(sent) /\ DOMAIN sent \subseteq DOMAIN out
      /\ \A i \in DOMAIN sent : sent[i] = out[i]
  <2>1. CASE sent = out
    BY <2>1
  <2>2. CASE \E n \in 0 .. Len(out) : sent = SubSeq(out, 1, n)
    BY <2>2, PrefixPlaces
  <2> QED BY <1>1, <2>1, <2>2
<1>3. ToSet(sent) \subseteq ToSet(out)
  BY <1>2 DEF ToSet
<1> QED BY <1>2, <1>3

\* It asks for no more, and for nothing twice.
LEMMA SentAsks ==
  ASSUME NEW out, NEW R, Asks(out, R), NEW sent \in Arriving(out)
  PROVE  Asked(sent) \subseteq R /\ ~Repeats(sent)
<1>1. /\ DOMAIN sent \subseteq DOMAIN out /\ \A i \in DOMAIN sent : sent[i] = out[i]
      /\ ToSet(sent) \subseteq ToSet(out)
  BY SentPart DEF Asks
<1>2. Asked(sent) \subseteq R
  BY <1>1 DEF Asks, Asked
<1>3. ~Repeats(sent)
  BY <1>1 DEF Asks, Repeats
<1> QED BY <1>2, <1>3

-----------------------------------------------------------------------------
(* What the peer knows. *)

\* A telling that agrees with what is kept from now on: what it does not tell of
\* remains.
LEMMA ToldAt ==
  ASSUME NEW c, NEW v, NEW q, NEW l, NEW d, NEW m, IsSequence(q),
         IF c \in DOMAIN d THEN d[c] # None => c \in DOMAIN m /\ d[c] = m[c]
         ELSE CurrentAt(c, v, q, l) /\ (c \in DOMAIN l => c \in DOMAIN m /\ m[c] = l[c])
  PROVE  CurrentAt(c, v, Append(q, d), m)
<1> DEFINE r == Append(q, d)
           S == ToSet(q) \cup {d}
<1>1. q \in Seq(S) /\ d \in S
  BY DEF IsSequence
<1> HIDE DEF S
<1>2. /\ Len(q) \in Nat /\ DOMAIN q \subseteq Nat
      /\ \A k \in DOMAIN q : k \in DOMAIN r /\ r[k] = q[k] /\ k < Len(q) + 1
      /\ Len(q) + 1 \in DOMAIN r /\ r[Len(q) + 1] = d
      /\ \A k \in DOMAIN r : k \in DOMAIN q \/ k = Len(q) + 1
  BY <1>1
<1> HIDE DEF r
<1>3. ASSUME NEW k \in DOMAIN r, c \in DOMAIN r[k], r[k][c] # None,
             \A n \in DOMAIN r : k < n => c \notin DOMAIN r[n]
      PROVE  c \in DOMAIN m /\ r[k][c] = m[c]
  <2>1. CASE k \in DOMAIN q
    <3>1. c \notin DOMAIN d /\ r[k] = q[k]
      BY <1>2, <1>3, <2>1
    <3>2. \A n \in DOMAIN q : k < n => c \notin DOMAIN q[n]
      BY <1>2, <1>3
    <3>3. c \in DOMAIN l /\ q[k][c] = l[c]
      BY <1>3, <2>1, <3>1, <3>2 DEF CurrentAt
    <3> QED BY <3>1, <3>3
  <2>2. CASE k \notin DOMAIN q
    BY <1>2, <1>3, <2>2
  <2> QED BY <2>1, <2>2
<1>4. ASSUME \A k \in DOMAIN r : c \notin DOMAIN r[k], v[c] # None
      PROVE  c \in DOMAIN m /\ v[c] = m[c]
  <2>1. c \notin DOMAIN d /\ \A k \in DOMAIN q : c \notin DOMAIN q[k]
    BY <1>2, <1>4
  <2>2. c \in DOMAIN l /\ v[c] = l[c]
    BY <1>4, <2>1 DEF CurrentAt
  <2> QED BY <2>1, <2>2
<1> QED BY <1>3, <1>4 DEF CurrentAt, r

\* What is kept may grow by what the peer was told nothing of.
LEMMA GrownIsCurrent ==
  ASSUME NEW v, NEW q, NEW l, NEW m, Current(v, q, l), \A c \in DOMAIN l : c \in DOMAIN m /\ m[c] = l[c]
  PROVE  Current(v, q, m)
<1> SUFFICES ASSUME NEW c \in Cells PROVE CurrentAt(c, v, q, m)
  BY DEF Current
<1>1. CurrentAt(c, v, q, l)
  BY DEF Current
<1> QED BY <1>1 DEF CurrentAt

\* The defaults are set before anything is told.
LEMMA DefaultsGrow ==
  ASSUME ~stored => limits = NoLimits
  PROVE  \A c \in DOMAIN limits : c \in DOMAIN Kept /\ Kept[c] = limits[c]
<1>1. DOMAIN NoLimits = {}
  BY DEF NoLimits
<1> QED BY <1>1 DEF Kept

\* The peer takes the first telling.
LEMMA TakenIsCurrent ==
  ASSUME NEW v, NEW q, NEW l, IsSequence(q), q # <<>>, Current(v, q, l)
  PROVE  LET w == [c \in Cells |-> IF c \in DOMAIN Head(q) THEN Head(q)[c] ELSE v[c]]
         IN  Current(w, Tail(q), l)
<1> DEFINE w == [c \in Cells |-> IF c \in DOMAIN Head(q) THEN Head(q)[c] ELSE v[c]]
           t == Tail(q)
<1>1. /\ 1 \in DOMAIN q /\ Head(q) = q[1] /\ DOMAIN q \subseteq Nat \ {0}
      /\ \A i \in DOMAIN t : i \in Nat \ {0} /\ i + 1 \in DOMAIN q /\ t[i] = q[i + 1]
  BY TakenPlaces
<1>2. \A j \in DOMAIN q : j # 1 => j - 1 \in DOMAIN t /\ t[j - 1] = q[j]
  <2> DEFINE S == ToSet(q)
  <2>1. q \in Seq(S)
    BY DEF IsSequence
  <2> HIDE DEF S
  <2> QED BY <2>1
<1>3. \A c \in Cells : w[c] = IF c \in DOMAIN q[1] THEN q[1][c] ELSE v[c]
  BY <1>1
<1> HIDE DEF w, t
<1> SUFFICES ASSUME NEW c \in Cells PROVE CurrentAt(c, w, t, l)
  BY DEF Current, w, t
<1>4. CurrentAt(c, v, q, l)
  BY DEF Current
<1>5. ASSUME NEW k \in DOMAIN t, c \in DOMAIN t[k], t[k][c] # None,
             \A n \in DOMAIN t : k < n => c \notin DOMAIN t[n]
      PROVE  c \in DOMAIN l /\ t[k][c] = l[c]
  <2>1. ASSUME NEW j \in DOMAIN q, k + 1 < j PROVE c \notin DOMAIN q[j]
    <3>1. j # 1 /\ k < j - 1 /\ j - 1 \in DOMAIN t /\ t[j - 1] = q[j]
      BY <1>1, <1>2, <2>1
    <3> QED BY <1>5, <3>1
  <2> QED BY <1>1, <1>4, <1>5, <2>1 DEF CurrentAt
<1>6. ASSUME \A k \in DOMAIN t : c \notin DOMAIN t[k], w[c] # None
      PROVE  c \in DOMAIN l /\ w[c] = l[c]
  <2>1. \A j \in DOMAIN q : j # 1 => c \notin DOMAIN q[j]
    BY <1>2, <1>6
  <2>2. CASE c \in DOMAIN q[1]
    <3>1. \A j \in DOMAIN q : 1 < j => c \notin DOMAIN q[j]
      BY <2>1
    <3>2. w[c] = q[1][c]
      BY <1>3, <2>2
    <3> QED BY <1>1, <1>4, <1>6, <2>2, <3>1, <3>2 DEF CurrentAt
  <2>3. CASE c \notin DOMAIN q[1]
    BY <1>3, <1>4, <1>6, <2>1, <2>3 DEF CurrentAt
  <2> QED BY <2>2, <2>3
<1> QED BY <1>5, <1>6 DEF CurrentAt

\* Answers that tell of the limits what data says, or nothing: they are the next
\* telling, or there is none.
LEMMA HandleTells ==
  ASSUME IsSequence(toPeer), NEW out, NEW data, Tells(out, data), NEW sent \in Arriving(out), NEW misses,
         Handle(out, sent, misses)
  PROVE  /\ view' = view /\ IsSequence(toPeer')
         /\ \/ toPeer' = toPeer /\ data \notin Told(sent) /\ blind' = (blind \/ misses)
            \/ /\ toPeer' = Append(toPeer, data) /\ data \in Told(sent)
               /\ blind' = ((blind \/ misses) /\ DOMAIN data # Cells)
<1>1. ToSet(sent) \subseteq ToSet(out)
  BY SentPart DEF Tells
<1>2. Told(sent) \subseteq {data}
  BY <1>1 DEF Tells, Told
<1>3. /\ view' = view
      /\ toPeer' = IF Told(sent) = {} THEN toPeer ELSE Append(toPeer, CHOOSE x \in Told(sent) : TRUE)
      /\ blind' = ((blind \/ misses) /\ \A x \in Told(sent) : DOMAIN x # Cells)
  BY DEF Handle
<1>4. CASE Told(sent) = {}
  BY <1>3, <1>4
<1>5. CASE Told(sent) # {}
  <2>1. Told(sent) = {data}
    BY <1>2, <1>5
  <2>2. (CHOOSE x \in Told(sent) : TRUE) = data
    BY <2>1
  <2>3. toPeer' = Append(toPeer, data)
    BY <1>3, <2>1, <2>2
  <2>4. blind' = ((blind \/ misses) /\ DOMAIN data # Cells)
    BY <1>3, <2>1
  <2> QED BY <1>3, <2>1, <2>3, <2>4, AppendedItem
<1> QED BY <1>4, <1>5

\* Answers that list the whole store, or nothing of it, leave the peer as current
\* as it was, or more.
LEMMA AnswersAreCurrent ==
  ASSUME PeerKnows, NEW out, NEW data, Tells(out, data), Answer(out),
         store' \in {store, <<TRUE, Kept>>},
         data = NoLimits \/ data = Listing(limits')
  PROVE  PeerKnows'
<1>1. PICK sent \in Arriving(out) : Handle(out, sent, FALSE)
  BY DEF Answer
<1>2. /\ view' = view /\ IsSequence(toPeer')
      /\ \/ toPeer' = toPeer /\ blind' = (blind \/ FALSE)
         \/ /\ toPeer' = Append(toPeer, data) /\ data \in Told(sent)
            /\ blind' = ((blind \/ FALSE) /\ DOMAIN data # Cells)
  BY <1>1, HandleTells DEF PeerKnows
<1>3. store' = store \/ (stored' = TRUE /\ limits' = Kept)
  BY DEF store
<1>4. \A c \in DOMAIN limits : c \in DOMAIN limits' /\ limits'[c] = limits[c]
  BY <1>3, DefaultsGrow DEF PeerKnows, store
<1>5. ~stored' => limits' = NoLimits
  BY <1>3 DEF PeerKnows, store
<1>6. CASE toPeer' = toPeer /\ blind' = (blind \/ FALSE)
  <2>1. ~blind' => Current(view, toPeer, limits')
    BY <1>4, <1>6, GrownIsCurrent DEF PeerKnows
  <2> QED BY <1>2, <1>5, <1>6, <2>1 DEF PeerKnows
<1>7. CASE toPeer' = Append(toPeer, data) /\ data \in Told(sent)
  <2>1. data = Listing(limits')
    BY <1>7 DEF Told
  <2>2. DOMAIN data = Cells /\ \A c \in Cells : data[c] # None => c \in DOMAIN limits' /\ data[c] = limits'[c]
    BY <2>1 DEF Listing
  <2>3. \A c \in Cells : CurrentAt(c, view, Append(toPeer, data), limits')
    BY <2>2, ToldAt DEF PeerKnows
  <2>4. Current(view', toPeer', limits')
    BY <1>2, <1>7, <2>3 DEF Current
  <2> QED BY <1>2, <1>5, <2>4 DEF PeerKnows
<1> QED BY <1>2, <1>6, <1>7

-----------------------------------------------------------------------------
(* The tables of the profiles. *)

\* What a feature of any kind can be read for.
LEMMA Reads ==
  /\ \A type, role, e, n, reads : Feature(type, role, e, n, reads).reads = reads
  /\ \A type, n : Client(type, n).reads = {}
  /\ \A type, e, n, reads : Server(type, e, n, reads).reads = reads
<1>1. \A type, role, e, n, reads : Feature(type, role, e, n, reads).reads = reads
  BY DEF Feature
<1> QED BY <1>1 DEF Client, Server

\* The functions that can be read from the server features.
LEMMA ReadsOfServers ==
  /\ Classification.reads = {"manufacturer"}
  /\ \A e, n : Configuration(e, n).reads = {"configuration descriptions", "configuration"}
  /\ \A e, n : Connection(e, n).reads = ConnectionReads
  /\ \A e, n : Measurement(e, n).reads = MeasurementReads
<1>1. Classification.reads = {"manufacturer"}
  BY DEF Classification, Server, Feature
<1>2. \A e, n : Configuration(e, n).reads = {"configuration descriptions", "configuration"}
  BY DEF Configuration, Server, Feature
<1>3. \A e, n : Connection(e, n).reads = ConnectionReads
  BY DEF Connection, Server, Feature
<1>4. \A e, n : Measurement(e, n).reads = MeasurementReads
  BY DEF Measurement, Server, Feature
<1> QED BY <1>1, <1>2, <1>3, <1>4

\* The reads that the structured profiles answer.
LEMMA AnswersAre ==
  ASSUME Structured, profile \in AllProfiles
  PROVE  /\ {"discovery", "use cases", "subscriptions", "destinations", "bindings"} \subseteq Answers(profile)
         /\ {"manufacturer", "limit descriptions", "limits", "heartbeat", "characteristics"} \subseteq Answers(profile)
         /\ {"configuration descriptions", "configuration"} \subseteq Answers(profile)
         /\ ConnectionReads \subseteq Answers(profile) /\ MeasurementReads \subseteq Answers(profile)
  BY DEF Answers, Structured, ConnectionReads, MeasurementReads

\* A structured profile answers every read of the features of its manager.
LEMMA ManagerIsAnswered ==
  ASSUME Structured, profile \in AllProfiles, NEW f \in ManagerFeatures
  PROVE  f.reads \subseteq Answers(profile)
<1> DEFINE management == {"discovery", "use cases", "subscriptions", "destinations", "bindings"}
           limits2 == {"limit descriptions", "limits"}
           characteristics == {"characteristics"}
           heartbeat == {"heartbeat"}
           node == Feature("NodeManagement", "special", 0, 0, management)
           load == Server("LoadControl", 1, 2, limits2)
           diagnosis == Server("DeviceDiagnosis", 1, 4, heartbeat)
           grid == Server("ElectricalConnection", 1, 5, characteristics)
<1>1. f \in {node, Classification, Client("DeviceDiagnosis", 1), load, Configuration(1, 3), diagnosis, grid}
  BY DEF ManagerFeatures
<1> HIDE DEF management, limits2, characteristics, heartbeat
<1>2. /\ node.reads = management /\ load.reads = limits2 /\ diagnosis.reads = heartbeat
      /\ grid.reads = characteristics /\ Client("DeviceDiagnosis", 1).reads = {}
  BY Reads
<1> HIDE DEF node, load, diagnosis, grid
<1>3. f.reads \in {management, limits2, heartbeat, characteristics, {}, Classification.reads, Configuration(1, 3).reads}
  BY <1>1, <1>2
<1> USE DEF management, limits2, characteristics, heartbeat
<1> QED BY <1>3, ReadsOfServers, AnswersAre

\* Every read of the features of hems-reference is answered.
LEMMA ReferenceIsAnswered ==
  ASSUME Structured, profile \in AllProfiles, NEW f \in ReferenceFeatures
  PROVE  f.reads \subseteq Answers(profile)
<1>1. CASE f \in ManagerFeatures
  BY <1>1, ManagerIsAnswered
<1>2. CASE f \in GridFeatures
  <2>1. f = Configuration(6, 1) \/ f = Connection(6, 2) \/ f = Measurement(6, 3)
    BY <1>2 DEF GridFeatures
  <2>2. CASE f = Configuration(6, 1)
    <3>1. f.reads = {"configuration descriptions", "configuration"}
      BY <2>2, ReadsOfServers, Zenon
    <3> QED BY <3>1, AnswersAre
  <2>3. CASE f \in {Connection(6, 2), Measurement(6, 3)}
    <3>1. f.reads \in {ConnectionReads, MeasurementReads}
      BY <2>3 DEF Connection, Measurement, Server, Feature
    <3> QED BY <3>1, AnswersAre
  <2> QED BY <2>1, <2>2, <2>3
<1>3. CASE \E e \in 2..5 : f \in {Connection(e, 1), Measurement(e, 2)}
  <2>1. PICK e \in 2..5 : f = Connection(e, 1) \/ f = Measurement(e, 2)
    BY <1>3
  <2>2. f.reads = ConnectionReads \/ f.reads = MeasurementReads
    BY <2>1, ReadsOfServers, Zenon
  <2> QED BY <2>2, AnswersAre
<1>4. f \in ManagerFeatures \/ f \in GridFeatures \/ \E e \in 2..5 : f \in {Connection(e, 1), Measurement(e, 2)}
  BY DEF ReferenceFeatures
<1> QED BY <1>1, <1>2, <1>3, <1>4

\* Every read of the features of the adapter profile is answered.
LEMMA AdapterIsAnswered ==
  ASSUME Structured, profile \in AllProfiles, NEW f \in AdapterFeatures
  PROVE  f.reads \subseteq Answers(profile)
  BY Reads, ManagerIsAnswered DEF AdapterFeatures

\* Every announced read is answered, but for two of the default profile.
LEMMA AnnouncedAre ==
  ASSUME profile \in AllProfiles
  PROVE  Announced \ Answers(profile) \subseteq IF Structured THEN {} ELSE {"use cases", "manufacturer"}
<1>1. ASSUME NEW f \in Features(profile)
      PROVE  f.reads \ Answers(profile) \subseteq IF Structured THEN {} ELSE {"use cases", "manufacturer"}
  <2>1. CASE profile = "default"
    <3> DEFINE management == {"discovery", "use cases"}
               node == Feature("NodeManagement", "special", 0, 0, management)
    <3>1. f = node \/ f = Classification \/ \E type, n : f = Client(type, n)
      BY <1>1, <2>1 DEF Features, DefaultFeatures
    <3>2. node.reads = management
      BY DEF Feature
    <3> HIDE DEF node, management
    <3>3. f.reads \in {management, {"manufacturer"}, {}}
      <4>1. CASE f = node
        BY <3>2, <4>1
      <4>2. CASE f = Classification
        BY <4>2, ReadsOfServers
      <4>3. CASE \E type, n : f = Client(type, n)
        BY <4>3 DEF Client, Feature
      <4> QED BY <3>1, <4>1, <4>2, <4>3
    <3>4. Answers(profile) = {"discovery"} /\ ~Structured
      BY <2>1 DEF Answers, Structured
    <3> QED BY <3>3, <3>4 DEF management
  <2>2. CASE profile = "hems-reference"
    <3>1. Structured /\ f \in ReferenceFeatures
      BY <1>1, <2>2 DEF Features, Structured
    <3> QED BY <3>1, ReferenceIsAnswered
  <2>3. CASE profile = "cls-adapter"
    <3>1. Structured /\ f \in AdapterFeatures
      BY <1>1, <2>3 DEF Features, Structured
    <3> QED BY <3>1, AdapterIsAnswered
  <2> QED BY <2>1, <2>2, <2>3 DEF AllProfiles
<1> QED BY <1>1 DEF Announced

\* The features a profile asks from.
LEMMA AskersAre ==
  ASSUME profile \in AllProfiles, NEW type \in {"NodeManagement", "DeviceDiagnosis"}
  PROVE  \E f \in Features(profile) : f.at = Asker(profile, type) /\ f.type = type /\ f.role # "server"
<1>1. \A t, role, e, n, reads : /\ Feature(t, role, e, n, reads).at = <<e, n>>
                                  /\ Feature(t, role, e, n, reads).type = t
                                  /\ Feature(t, role, e, n, reads).role = role
  BY DEF Feature
<1> DEFINE manager == Feature("NodeManagement", "special", 0, 0,
                              {"discovery", "use cases", "subscriptions", "destinations", "bindings"})
           basic == Feature("NodeManagement", "special", 0, 0, {"discovery", "use cases"})
           one == Client("DeviceDiagnosis", 1)
           four == Client("DeviceDiagnosis", 4)
<1>2. /\ manager.at = <<0, 0>> /\ manager.type = "NodeManagement" /\ manager.role = "special"
      /\ basic.at = <<0, 0>> /\ basic.type = "NodeManagement" /\ basic.role = "special"
      /\ one.at = <<1, 1>> /\ one.type = "DeviceDiagnosis" /\ one.role = "client"
      /\ four.at = <<1, 4>> /\ four.type = "DeviceDiagnosis" /\ four.role = "client"
  BY DEF Client, Feature
<1>3. manager \in ManagerFeatures /\ one \in ManagerFeatures
  BY DEF ManagerFeatures
<1>4. basic \in DefaultFeatures /\ four \in DefaultFeatures
  BY DEF DefaultFeatures
<1> HIDE DEF manager, basic, one, four
<1>5. CASE profile = "default"
  <2>1. Features(profile) = DefaultFeatures
    BY <1>5 DEF Features
  <2>2. Asker(profile, "NodeManagement") = <<0, 0>> /\ Asker(profile, "DeviceDiagnosis") = <<1, 4>>
    BY <1>5 DEF Asker
  <2> QED BY <1>2, <1>4, <2>1, <2>2
<1>6. CASE profile \in {"hems-reference", "cls-adapter"}
  <2>1. ManagerFeatures \subseteq Features(profile)
    BY <1>6 DEF Features, ReferenceFeatures, AdapterFeatures
  <2>2. Asker(profile, "NodeManagement") = <<0, 0>> /\ Asker(profile, "DeviceDiagnosis") = <<1, 1>>
    BY <1>6 DEF Asker
  <2> QED BY <1>2, <1>3, <2>1, <2>2
<1> QED BY <1>5, <1>6 DEF AllProfiles

-----------------------------------------------------------------------------
(* The steps. *)

\* What is asked for the first time was not asked for before.
LEMMA Fresh ==
  ASSUME AsksOnce
  PROVE  /\ ~subscribed => Request("NodeManagement", NodeManagement) \notin calls
         /\ \A s : s \notin diagnosed => Request("DeviceDiagnosis", s) \notin calls
<1>1. ASSUME NEW call \in calls
      PROVE  \/ call.type = "NodeManagement" /\ subscribed
             \/ call.type = "DeviceDiagnosis" /\ call.to \in diagnosed
  BY Requests DEF AsksOnce
<1> QED BY <1>1, Requests

\* The subscription of a heartbeat, when it is one, is new and leaves its mark.
LEMMA DiagnoseAsks ==
  ASSUME NEW servers, servers \subseteq Diagnosis
  PROVE  /\ \A data : Tells(Diagnose(servers), data)
         /\ diagnosed \subseteq Diagnosed(servers)
         /\ \E R : /\ Asks(Diagnose(servers), R)
                   /\ \A s \in Diagnosed(servers) : s \in diagnosed \/ Request("DeviceDiagnosis", s) \in R
                   /\ R = {} \/ \E s \in servers : s \notin diagnosed /\ s \in Diagnosed(servers)
                                                   /\ R = {Request("DeviceDiagnosis", s)}
<1>1. diagnosed \subseteq Diagnosed(servers)
  BY DEF Diagnosed
<1>2. CASE Cardinality(servers) # 1 \/ servers \subseteq diagnosed
  <2>1. Diagnose(servers) = <<>> /\ Diagnosed(servers) \subseteq diagnosed
    BY <1>2 DEF Diagnose, Diagnosed
  <2> QED BY <1>1, <2>1, NothingAsks, NothingTells
<1>3. CASE Cardinality(servers) = 1 /\ ~(servers \subseteq diagnosed)
  <2>1. IsFiniteSet(servers)
    BY DiagnosisAssumption, FS_Subset
  <2>2. PICK s : servers = {s}
    BY <1>3, <2>1, FS_Singleton
  <2>3. (CHOOSE x \in servers : TRUE) = s
    BY <2>2
  <2> DEFINE sub == Subscribe("DeviceDiagnosis", s)
             read == Out("read", Request("DeviceDiagnosis", s), NoLimits)
  <2>4. Diagnose(servers) = <<sub, read>>
    BY <1>3, <2>3 DEF Diagnose
  <2>5. <<sub, read>> = <<sub>> \o <<read>>
    OBVIOUS
  <2>6. /\ sub.kind = "call" /\ sub.to = Request("DeviceDiagnosis", s) /\ sub.data = NoLimits
        /\ read.kind = "read" /\ read.data = NoLimits
    BY Datagrams
  <2> HIDE DEF sub, read
  <2>7. Asks(<<sub>>, {Request("DeviceDiagnosis", s)}) /\ Asks(<<read>>, {})
    <3>1. Asks(<<sub>>, IF sub.kind = "call" THEN {sub.to} ELSE {})
      BY OneAsks
    <3>2. Asks(<<read>>, IF read.kind = "call" THEN {read.to} ELSE {})
      BY OneAsks
    <3> QED BY <2>6, <3>1, <3>2
  <2>8. Asks(<<sub>> \o <<read>>, {Request("DeviceDiagnosis", s)} \cup {})
    BY <2>7, MoreAsks
  <2>9. \A data : Tells(<<sub>> \o <<read>>, data)
    BY <2>6, OneTells, MoreTells
  <2>10. s \notin diagnosed /\ s \in Diagnosed(servers) /\ Diagnosed(servers) = diagnosed \cup {s}
    BY <1>3, <2>2 DEF Diagnosed
  <2>11. Asks(Diagnose(servers), {Request("DeviceDiagnosis", s)})
    BY <2>4, <2>5, <2>8
  <2>12. \A data : Tells(Diagnose(servers), data)
    BY <2>4, <2>5, <2>9
  <2> QED BY <1>1, <2>2, <2>10, <2>11, <2>12
<1> QED BY <1>2, <1>3

\* A step that asks for what is new.
LEMMA AskingSteps ==
  ASSUME AsksOnce, NEW out, NEW R, NEW misses, NEW sent \in Arriving(out), Handle(out, sent, misses),
         Asks(out, R), R \cap calls = {},
         features' \subseteq Diagnosis, subscribed => subscribed', diagnosed \subseteq diagnosed',
         subscribed' => subscribed \/ Request("NodeManagement", NodeManagement) \in R,
         \A s \in diagnosed' : s \in diagnosed \/ Request("DeviceDiagnosis", s) \in R,
         \A call \in R : \/ call = Request("NodeManagement", NodeManagement) /\ subscribed' /\ ~Adapter
                         \/ \E s \in diagnosed' : call = Request("DeviceDiagnosis", s),
         Adapter /\ (calls # {} \/ R # {} \/ bindings' # <<>>) => bound'
  PROVE  AsksOnce'
<1> DEFINE S == Asked(sent)
<1>1. S \subseteq R /\ ~Repeats(sent)
  BY SentAsks
<1>2. /\ profile' = profile /\ calls' = calls \cup S
      /\ cuts' = cuts + (IF sent = out THEN 0 ELSE 1)
      /\ repeated' = (repeated \/ Repeats(sent) \/ calls \cap S # {})
  BY DEF Handle
<1>3. cuts' \in Nat /\ (cuts' = 0 => cuts = 0 /\ S = R)
  BY <1>2 DEF AsksOnce, Asks
<1>4. ~repeated'
  BY <1>1, <1>2 DEF AsksOnce
<1> HIDE DEF S
<1>5. \A type, to : Request(type, to)' = Request(type, to)
  BY <1>2 DEF Request
<1>6. Adapter' = Adapter
  BY <1>2 DEF Adapter
<1>7. ASSUME NEW call \in calls'
      PROVE  \/ call = Request("NodeManagement", NodeManagement)' /\ subscribed' /\ ~Adapter'
             \/ \E s \in diagnosed' : call = Request("DeviceDiagnosis", s)'
  BY <1>1, <1>2, <1>5, <1>6, <1>7 DEF AsksOnce
<1>8. ASSUME cuts' = 0
      PROVE  /\ subscribed' => Request("NodeManagement", NodeManagement)' \in calls'
             /\ \A s \in diagnosed' : Request("DeviceDiagnosis", s)' \in calls'
  BY <1>2, <1>3, <1>5, <1>8 DEF AsksOnce
<1>9. Adapter' /\ (calls' # {} \/ bindings' # <<>>) => bound'
  BY <1>1, <1>2, <1>6
<1> QED BY <1>3, <1>4, <1>7, <1>8, <1>9 DEF AsksOnce

\* The other parts of the state.
LEMMA OwedSteps ==
  ASSUME profile \in AllProfiles, AnnouncedReadsAreAnswered, profile' = profile,
         owed' = owed \/ \E fn : owed' = owed \cup (({fn} \cap Announced) \ Answers(profile))
  PROVE  (profile \in AllProfiles)' /\ AnnouncedReadsAreAnswered'
<1>1. Structured' = Structured
  BY DEF Structured
<1>2. owed' \subseteq IF Structured THEN {} ELSE {"use cases", "manufacturer"}
  BY AnnouncedAre DEF AnnouncedReadsAreAnswered
<1> QED BY <1>1, <1>2 DEF AnnouncedReadsAreAnswered

\* A read is answered, or not, and may make the client subscribe.
LEMMA ReadSteps ==
  ASSUME IInv, NEW fn, NEW ack \in BOOLEAN, RecvRead(fn, ack)
  PROVE  IInv'
<1> DEFINE first == fn = "discovery" /\ Initial
           data == IF fn = "limits" THEN Listing(Kept) ELSE NoLimits
           answer == Out("reply", None, data)
           ask == Subscribe("NodeManagement", NodeManagement)
           a == If(ack /\ ~Structured, Result)
           b == If(fn \in Answers(profile), answer)
           c == If(first, ask)
<1>1. /\ Answer(a \o b \o c) /\ subscribed' = (subscribed \/ first)
      /\ owed' = owed \cup (({fn} \cap Announced) \ Answers(profile))
      /\ IF Structured THEN Ensure ELSE UNCHANGED store
      /\ features' \in {features, {}}
      /\ UNCHANGED <<bootstrapSent, diagnosed, bindings, bound>>
  BY DEF RecvRead
<1>2. /\ a = <<Result>> \/ a = <<>>
      /\ IF fn \in Answers(profile) THEN b = <<answer>> ELSE b = <<>>
      /\ IF first THEN c = <<ask>> ELSE c = <<>>
  BY DEF If
<1>3. /\ answer.kind = "reply" /\ answer.data = data
      /\ ask.kind = "call" /\ ask.to = Request("NodeManagement", NodeManagement) /\ ask.data = NoLimits
  BY Datagrams
<1>4. first => ~subscribed /\ ~Adapter
  BY DEF Initial
<1> DEFINE R == IF first THEN {Request("NodeManagement", NodeManagement)} ELSE {}
<1> HIDE DEF a, b, c, answer, ask, first
<1>5. Asks(a, {}) /\ Asks(b, {}) /\ \A x : Tells(a, x)
  BY <1>2, <1>3, Datagrams, PerhapsAsks, PerhapsTells
<1>6. Asks(c, R)
  <2>1. Asks(<<ask>>, {Request("NodeManagement", NodeManagement)})
    <3>1. Asks(<<ask>>, IF ask.kind = "call" THEN {ask.to} ELSE {})
      BY OneAsks
    <3> QED BY <1>3, <3>1
  <2> QED BY <1>2, <2>1, NothingAsks
<1>7. \A x : Tells(c, x)
  BY <1>2, <1>3, OneTells, NothingTells
<1> DEFINE out == a \o b \o c
<1>8. Asks(out, R)
  <2>1. Asks(a \o b, {} \cup {})
    BY <1>5, MoreAsks
  <2>2. Asks(a \o b, {})
    BY <2>1
  <2>3. Asks((a \o b) \o c, {} \cup R)
    BY <1>6, <2>2, MoreAsks
  <2> QED BY <2>3
<1>9. Answer(out)
  BY <1>1
<1>10. PICK sent \in Arriving(out) : Handle(out, sent, FALSE)
  BY <1>9 DEF Answer
<1> HIDE DEF out
<1>11. AsksOnce'
  <2>1. R \cap calls = {}
    BY <1>4, Fresh DEF IInv
  <2>2. /\ \A call \in R : call = Request("NodeManagement", NodeManagement) /\ subscribed' /\ ~Adapter
        /\ subscribed' => subscribed \/ Request("NodeManagement", NodeManagement) \in R
    BY <1>1, <1>4
  <2>3. Adapter /\ (calls # {} \/ R # {} \/ bindings' # <<>>) => bound'
    BY <1>1, <1>4 DEF IInv, AsksOnce
  <2>4. features' \subseteq Diagnosis /\ (subscribed => subscribed') /\ diagnosed' = diagnosed
    BY <1>1 DEF IInv, AsksOnce
  <2> HIDE DEF R
  <2> QED BY <1>8, <1>10, <2>1, <2>2, <2>3, <2>4, AskingSteps DEF IInv
<1>12. PeerKnows'
  <2>1. fn = "limits" /\ fn \in Answers(profile) => Structured
    BY DEF Answers, Structured
  <2>2. store' \in {store, <<TRUE, Kept>>} /\ (Structured => limits' = Kept)
    BY <1>1 DEF Ensure, store
  <2> DEFINE told == IF fn \in Answers(profile) THEN data ELSE NoLimits
  <2>3. told = NoLimits \/ told = Listing(limits')
    BY <2>1, <2>2
  <2> HIDE DEF data
  <2>4. Tells(b, told)
    BY <1>2, <1>3, PerhapsTells, NothingTells
  <2> HIDE DEF told
  <2>5. Tells(a \o b, told)
    BY <1>5, <2>4, MoreTells
  <2>6. Tells((a \o b) \o c, told)
    BY <1>7, <2>5, MoreTells
  <2>7. Tells(out, told)
    BY <2>6 DEF out
  <2> QED BY <1>9, <2>2, <2>3, <2>7, AnswersAreCurrent DEF IInv
<1>13. (profile \in AllProfiles)' /\ AnnouncedReadsAreAnswered'
  BY <1>1, <1>10, OwedSteps DEF IInv, Handle
<1> QED BY <1>11, <1>12, <1>13 DEF IInv

\* A write is stored and told.
LEMMA WriteSteps ==
  ASSUME IInv, NEW update, NEW ack \in BOOLEAN, RecvWrite(update, ack)
  PROVE  IInv'
<1> DEFINE data == Items(update)
           answer == Out("reply", None, data)
           a == If(ack, Result)
           b == <<answer>>
           out == a \o b
           kept == Merge(Kept, update)
<1>1. PICK sent \in Arriving(out) : Handle(out, sent, update \in Listless \/ sent # out)
  BY DEF RecvWrite
<1>2. /\ stored' = (update # Null) /\ limits' = kept
      /\ UNCHANGED <<features, bootstrapSent, subscribed, diagnosed, bindings, owed, bound>>
  BY DEF RecvWrite
<1>3. a = <<Result>> \/ a = <<>>
  BY DEF If
<1>4. answer.kind = "reply" /\ answer.data = data
  BY Datagrams
<1> HIDE DEF a, answer
<1>5. Asks(a, {}) /\ \A x : Tells(a, x)
  BY <1>3, Datagrams, PerhapsAsks, PerhapsTells
<1>6. Asks(b, {}) /\ Tells(b, data) /\ ToSet(b) = {answer}
  BY <1>4, PerhapsAsks, OneTells, OneItem
<1> HIDE DEF b, data
<1>7. Asks(out, {}) /\ Tells(out, data) /\ answer \in ToSet(out)
  <2>1. Asks(out, {} \cup {})
    BY <1>5, <1>6, MoreAsks
  <2>2. Tells(out, data)
    BY <1>5, <1>6, MoreTells
  <2>3. answer \in ToSet(out)
    BY <1>5, <1>6, JoinedItems DEF Asks
  <2> QED BY <2>1, <2>2, <2>3
<1> HIDE DEF out
<1>8. AsksOnce'
  <2>1. /\ features' \subseteq Diagnosis /\ subscribed' = subscribed /\ diagnosed = diagnosed'
        /\ Adapter /\ (calls # {} \/ bindings' # <<>>) => bound'
    BY <1>2 DEF IInv, AsksOnce
  <2> QED BY <1>1, <1>7, <2>1, AskingSteps DEF IInv
<1>9. PeerKnows'
  <2> DEFINE misses == update \in Listless \/ sent # out
  <2>1. /\ view' = view /\ IsSequence(toPeer')
        /\ \/ toPeer' = toPeer /\ data \notin Told(sent) /\ blind' = (blind \/ misses)
           \/ /\ toPeer' = Append(toPeer, data) /\ data \in Told(sent)
              /\ blind' = ((blind \/ misses) /\ DOMAIN data # Cells)
    BY <1>1, <1>7, HandleTells DEF IInv, PeerKnows
  <2>2. ~stored' => limits' = NoLimits
    BY <1>2 DEF Merge, Listless
  <2>3. ASSUME update \notin Listless
        PROVE  /\ data = update /\ DOMAIN kept = DOMAIN Kept \cup DOMAIN update
               /\ \A c \in DOMAIN kept : kept[c] = IF c \in DOMAIN update THEN update[c] ELSE Kept[c]
    BY <2>3 DEF data, Items, Merge
  <2>4. \A c \in DOMAIN limits : c \in DOMAIN Kept /\ Kept[c] = limits[c]
    BY DefaultsGrow DEF IInv, PeerKnows
  <2> HIDE DEF kept
  <2>5. ASSUME ~blind' PROVE Current(view', toPeer', limits')
    <3>1. CASE toPeer' = toPeer /\ data \notin Told(sent)
      <4>1. ~blind /\ update \notin Listless /\ sent = out
        BY <2>1, <2>5, <3>1
      <4>2. data = NoLimits
        BY <1>4, <1>7, <3>1, <4>1 DEF Told
      <4>3. DOMAIN update = {}
        BY <2>3, <4>1, <4>2 DEF NoLimits
      <4>4. \A c \in DOMAIN limits : c \in DOMAIN kept /\ kept[c] = limits[c]
        BY <2>3, <2>4, <4>1, <4>3
      <4>5. Current(view, toPeer, kept)
        BY <4>1, <4>4, GrownIsCurrent DEF IInv, PeerKnows
      <4> QED BY <1>2, <2>1, <3>1, <4>5
    <3>2. CASE toPeer' = Append(toPeer, data) /\ data \in Told(sent)
      <4>1. data # NoLimits
        BY <3>2 DEF Told
      <4>2. update \notin Listless
        BY <4>1 DEF data, Items
      <4>3. blind' = ((blind \/ misses) /\ DOMAIN data # Cells)
        BY <2>1, <3>2
      <4>4. ASSUME NEW c \in Cells
            PROVE  IF c \in DOMAIN data THEN data[c] # None => c \in DOMAIN kept /\ data[c] = kept[c]
                   ELSE CurrentAt(c, view, toPeer, limits)
                        /\ (c \in DOMAIN limits => c \in DOMAIN kept /\ kept[c] = limits[c])
        <5>1. CASE c \in DOMAIN data
          BY <2>3, <4>2, <5>1
        <5>2. CASE c \notin DOMAIN data
          <6>1. ~blind
            BY <2>5, <4>3, <5>2
          <6>2. CurrentAt(c, view, toPeer, limits)
            BY <6>1 DEF IInv, PeerKnows, Current
          <6>3. c \in DOMAIN limits => c \in DOMAIN kept /\ kept[c] = limits[c]
            BY <2>3, <2>4, <4>2, <5>2
          <6> QED BY <5>2, <6>2, <6>3
        <5> QED BY <5>1, <5>2
      <4>5. \A c \in Cells : CurrentAt(c, view, Append(toPeer, data), kept)
        BY <4>4, ToldAt DEF IInv, PeerKnows
      <4> QED BY <1>2, <2>1, <3>2, <4>5 DEF Current
    <3> QED BY <2>1, <3>1, <3>2
  <2> QED BY <2>1, <2>2, <2>5 DEF PeerKnows
<1>10. (profile \in AllProfiles)' /\ AnnouncedReadsAreAnswered'
  BY <1>1, <1>2, OwedSteps DEF IInv, Handle
<1> QED BY <1>8, <1>9, <1>10 DEF IInv

\* A call may list the limits that are kept, and start a heartbeat.
LEMMA CallSteps ==
  ASSUME IInv, NEW b, NEW told, NEW data, RecvCall(b, told),
         told = <<Out("notify", None, data)>> \/ told = <<>>,
         data = NoLimits \/ data = Listing(limits'),
         store' \in {store, <<TRUE, Kept>>},
         Adapter /\ b # <<>> => bound', bound => bound'
  PROVE  IInv'
<1> DEFINE d == Diagnose(HeartbeatServers(b))
           r == <<Result>>
           out == r \o told \o d
<1>1. /\ Answer(out) /\ bindings' = b /\ diagnosed' = Diagnosed(HeartbeatServers(b))
      /\ UNCHANGED <<features, bootstrapSent, subscribed, owed>>
  BY DEF RecvCall
<1>2. HeartbeatServers(b) \subseteq Diagnosis /\ (b = <<>> => HeartbeatServers(b) = {})
  BY DEF IInv, AsksOnce, HeartbeatServers
<1>3. Tells(d, data) /\ diagnosed \subseteq diagnosed'
  BY <1>1, <1>2, DiagnoseAsks
<1>4. PICK R : /\ Asks(d, R)
               /\ \A s \in diagnosed' : s \in diagnosed \/ Request("DeviceDiagnosis", s) \in R
               /\ R = {} \/ \E s \in HeartbeatServers(b) : s \notin diagnosed /\ s \in diagnosed'
                                                           /\ R = {Request("DeviceDiagnosis", s)}
  BY <1>1, <1>2, DiagnoseAsks
<1> DEFINE n == Out("notify", None, data)
<1>5. n.kind = "notify" /\ n.data = data /\ (told = <<n>> \/ told = <<>>)
  BY Datagrams
<1> HIDE DEF d, n
<1>6. Asks(r, {}) /\ Asks(told, {}) /\ Tells(r, data) /\ Tells(told, data)
  BY <1>5, Datagrams, PerhapsAsks, PerhapsTells
<1> HIDE DEF r
<1>7. Asks(out, R) /\ Tells(out, data)
  <2>1. Asks(r \o told, {} \cup {})
    BY <1>6, MoreAsks
  <2>2. Asks(r \o told, {})
    BY <2>1
  <2>3. Asks((r \o told) \o d, {} \cup R)
    BY <1>4, <2>2, MoreAsks
  <2>4. Tells(r \o told, data)
    BY <1>6, MoreTells
  <2>5. Tells((r \o told) \o d, data)
    BY <1>3, <2>4, MoreTells
  <2> QED BY <2>3, <2>5
<1> HIDE DEF out
<1>8. PICK sent \in Arriving(out) : Handle(out, sent, FALSE)
  BY <1>1 DEF Answer
<1>9. AsksOnce'
  <2>1. R \cap calls = {}
    BY <1>4, Fresh DEF IInv
  <2>2. \A call \in R : \E s \in diagnosed' : call = Request("DeviceDiagnosis", s)
    BY <1>4
  <2>3. R # {} => b # <<>>
    BY <1>2, <1>4
  <2>4. Adapter /\ (calls # {} \/ R # {} \/ bindings' # <<>>) => bound'
    BY <1>1, <2>3 DEF IInv, AsksOnce
  <2>5. features' \subseteq Diagnosis /\ subscribed = subscribed' /\ diagnosed \subseteq diagnosed'
    BY <1>1, <1>3 DEF IInv, AsksOnce
  <2> QED BY <1>4, <1>7, <1>8, <2>1, <2>2, <2>4, <2>5, AskingSteps DEF IInv
<1>10. PeerKnows'
  BY <1>1, <1>7, AnswersAreCurrent DEF IInv
<1>11. (profile \in AllProfiles)' /\ AnnouncedReadsAreAnswered'
  BY <1>1, <1>8, OwedSteps DEF IInv, Handle
<1> QED BY <1>9, <1>10, <1>11 DEF IInv

\* The calls of the peer.
LEMMA SubscribeSteps ==
  ASSUME IInv, NEW f, RecvSubscribe(f)
  PROVE  IInv'
<1> DEFINE told == Notifies(profile, f.type, f.at)
           data == IF "limits" \in told THEN Listing(Kept) ELSE NoLimits
           out == If(told # {}, Out("notify", None, data))
<1>1. /\ RecvCall(bindings, out)
      /\ IF Structured THEN Ensure ELSE UNCHANGED store
      /\ bound' = bound
  BY DEF RecvSubscribe
<1>2. out = <<Out("notify", None, data)>> \/ out = <<>>
  BY DEF If
<1>3. "limits" \in told => Structured
  BY DEF Notifies, Structured
<1>4. data = NoLimits \/ data = Listing(limits')
  BY <1>1, <1>3 DEF Ensure
<1>5. store' \in {store, <<TRUE, Kept>>}
  BY <1>1 DEF Ensure, store
<1>6. Adapter /\ bindings # <<>> => bound'
  BY <1>1 DEF IInv, AsksOnce
<1> HIDE DEF told, data, out
<1> QED BY <1>1, <1>2, <1>4, <1>5, <1>6, CallSteps

\* A binding, granted or removed, keeps the invariant: it changes no limits and asks for nothing.
LEMMA BindSteps ==
  ASSUME IInv, NEW entity, RecvBind(entity) \/ RecvUnbind
  PROVE  IInv'
<1> DEFINE out == <<>>
<1>1. CASE RecvBind(entity)
  <2> DEFINE b == Append(bindings, entity)
  <2>1. RecvCall(b, out) /\ bound' = TRUE /\ store' = store
    BY <1>1 DEF RecvBind
  <2> HIDE DEF b
  <2> QED BY <2>1, CallSteps
<1>2. CASE RecvUnbind
  <2> DEFINE b == <<>>
  <2>1. RecvCall(b, out) /\ bound' = bound /\ store' = store /\ b = <<>>
    BY <1>2 DEF RecvUnbind
  <2> HIDE DEF b
  <2> QED BY <2>1, CallSteps
<1> QED BY <1>1, <1>2

\* What the client learns of the peer's features.
LEMMA DiscoverySteps ==
  ASSUME IInv, NEW servers \in SUBSET Diagnosis, NEW ack \in BOOLEAN, RecvDiscovery(servers, ack)
  PROVE  IInv'
<1> DEFINE first == ~Adapter /\ ~bootstrapSent
           watched == IF first THEN servers ELSE {}
           ask == Subscribe("NodeManagement", NodeManagement)
           read == Out("read", Request("NodeManagement", NodeManagement), NoLimits)
           a == If(ack, Result)
           b == If(first /\ ~subscribed, ask)
           c == If(first, read)
           d == Diagnose(watched)
           out == a \o b \o c \o d
           R == IF first /\ ~subscribed THEN {Request("NodeManagement", NodeManagement)} ELSE {}
<1>1. /\ Answer(out)
      /\ subscribed' = (subscribed \/ first) /\ diagnosed' = Diagnosed(watched) /\ features' = servers
      /\ UNCHANGED <<bindings, store, owed, bound>>
  BY DEF RecvDiscovery
<1>2. /\ a = <<Result>> \/ a = <<>>
      /\ IF first /\ ~subscribed THEN b = <<ask>> ELSE b = <<>>
      /\ c = <<read>> \/ c = <<>>
  BY DEF If
<1>3. /\ ask.kind = "call" /\ ask.to = Request("NodeManagement", NodeManagement) /\ ask.data = NoLimits
      /\ read.kind = "read" /\ read.data = NoLimits
  BY Datagrams
<1>4. watched \subseteq Diagnosis /\ (first => ~Adapter) /\ (~first => watched = {})
  OBVIOUS
<1> HIDE DEF a, b, c, ask, read
<1>5. Asks(a, {}) /\ Tells(a, NoLimits) /\ Asks(c, {}) /\ Tells(c, NoLimits)
  BY <1>2, <1>3, Datagrams, PerhapsAsks, PerhapsTells
<1>6. Asks(b, R) /\ Tells(b, NoLimits)
  <2>1. Asks(<<ask>>, {Request("NodeManagement", NodeManagement)})
    <3>1. Asks(<<ask>>, IF ask.kind = "call" THEN {ask.to} ELSE {})
      BY OneAsks
    <3> QED BY <1>3, <3>1
  <2> QED BY <1>2, <1>3, <2>1, NothingAsks, OneTells, NothingTells
<1>7. Tells(d, NoLimits) /\ diagnosed \subseteq diagnosed'
  BY <1>1, <1>4, DiagnoseAsks
<1>8. PICK T : /\ Asks(d, T)
               /\ \A s \in diagnosed' : s \in diagnosed \/ Request("DeviceDiagnosis", s) \in T
               /\ T = {} \/ \E s \in watched : s \notin diagnosed /\ s \in diagnosed'
                                               /\ T = {Request("DeviceDiagnosis", s)}
  BY <1>1, <1>4, DiagnoseAsks
<1> HIDE DEF d, first, watched
<1>9. R \cap T = {}
  BY <1>8, Requests
<1>10. Asks(out, R \cup T)
  <2> HIDE DEF R
  <2>1. Asks(a \o b, {} \cup R)
    BY <1>5, <1>6, MoreAsks
  <2>2. Asks(a \o b, R)
    BY <2>1
  <2>3. Asks((a \o b) \o c, R \cup {})
    BY <1>5, <2>2, MoreAsks
  <2>4. Asks((a \o b) \o c, R)
    BY <2>3
  <2>5. Asks(((a \o b) \o c) \o d, R \cup T)
    BY <1>8, <1>9, <2>4, MoreAsks
  <2> QED BY <2>5
<1>11. Tells(out, NoLimits)
  <2>1. Tells(a \o b, NoLimits)
    BY <1>5, <1>6, MoreTells
  <2>2. Tells((a \o b) \o c, NoLimits)
    BY <1>5, <2>1, MoreTells
  <2>3. Tells(((a \o b) \o c) \o d, NoLimits)
    BY <1>7, <2>2, MoreTells
  <2> QED BY <2>3
<1> HIDE DEF out
<1>12. PICK sent \in Arriving(out) : Handle(out, sent, FALSE)
  BY <1>1 DEF Answer
<1>13. AsksOnce'
  <2>1. (R \cup T) \cap calls = {}
    BY <1>8, Fresh DEF IInv
  <2>2. \A call \in R \cup T : \/ call = Request("NodeManagement", NodeManagement) /\ subscribed' /\ ~Adapter
                               \/ \E s \in diagnosed' : call = Request("DeviceDiagnosis", s)
    BY <1>1, <1>4, <1>8
  <2>3. R \cup T # {} => ~Adapter
    BY <1>4, <1>8
  <2>4. Adapter /\ (calls # {} \/ R \cup T # {} \/ bindings' # <<>>) => bound'
    BY <1>1, <2>3 DEF IInv, AsksOnce
  <2>5. features' \subseteq Diagnosis /\ (subscribed => subscribed') /\ diagnosed \subseteq diagnosed'
    BY <1>1, <1>7
  <2>6. subscribed' => subscribed \/ Request("NodeManagement", NodeManagement) \in R \cup T
    BY <1>1
  <2>7. \A s \in diagnosed' : s \in diagnosed \/ Request("DeviceDiagnosis", s) \in R \cup T
    BY <1>8
  <2> HIDE DEF R
  <2> QED BY <1>10, <1>12, <2>1, <2>2, <2>4, <2>5, <2>6, <2>7, AskingSteps DEF IInv
<1>14. PeerKnows'
  BY <1>1, <1>11, AnswersAreCurrent DEF IInv
<1>15. (profile \in AllProfiles)' /\ AnnouncedReadsAreAnswered'
  BY <1>1, <1>12, OwedSteps DEF IInv, Handle
<1> QED BY <1>13, <1>14, <1>15 DEF IInv

\* A new session, and the peer.
LEMMA LinkSteps ==
  ASSUME IInv, Reconnect \/ PeerReceives \/ UNCHANGED vars
  PROVE  IInv'
<1>1. UNCHANGED <<profile, client, histories>>
  BY DEF Reconnect, PeerReceives, vars
<1>2. AsksOnce'
  <2>1. \A type, to : Request(type, to)' = Request(type, to)
    BY <1>1 DEF Request
  <2> QED BY <1>1, <2>1 DEF IInv, AsksOnce, client, histories, Adapter
<1>3. (profile \in AllProfiles)' /\ AnnouncedReadsAreAnswered'
  BY <1>1 DEF IInv, AnnouncedReadsAreAnswered, Structured, histories
<1>4. limits' = limits /\ stored' = stored
  BY <1>1 DEF client, store
<1>5. CASE Reconnect
  <2>1. toPeer' = <<>> /\ \A c \in Cells : view'[c] = None
    BY <1>5 DEF Reconnect
  <2>2. DOMAIN <<>> = {}
    OBVIOUS
  <2>3. PeerKnows'
    BY <1>4, <2>1, <2>2, NoItems DEF IInv, PeerKnows, Current, CurrentAt
  <2> QED BY <1>2, <1>3, <2>3 DEF IInv
<1>6. CASE PeerReceives
  <2>1. PeerKnows'
    <3>1. /\ toPeer # <<>> /\ toPeer' = Tail(toPeer) /\ blind' = blind
          /\ view' = [c \in Cells |-> IF c \in DOMAIN Head(toPeer) THEN Head(toPeer)[c] ELSE view[c]]
      BY <1>6 DEF PeerReceives
    <3>2. IsSequence(toPeer')
      BY <3>1, TakenItem DEF IInv, PeerKnows
    <3>3. ~blind => Current(view', toPeer', limits)
      BY <3>1, TakenIsCurrent DEF IInv, PeerKnows
    <3> QED BY <1>4, <3>1, <3>2, <3>3 DEF IInv, PeerKnows
  <2> QED BY <1>2, <1>3, <2>1 DEF IInv
<1>7. CASE UNCHANGED vars
  <2>1. PeerKnows'
    BY <1>4, <1>7 DEF IInv, PeerKnows, vars
  <2> QED BY <1>2, <1>3, <2>1 DEF IInv
<1> QED BY <1>5, <1>6, <1>7

-----------------------------------------------------------------------------
(* The theorems. *)

\* Before the first session the peer knows nothing and nothing was asked for.
LEMMA InitHolds == Init => IInv
<1> SUFFICES ASSUME Init PROVE IInv
  OBVIOUS
<1>1. DOMAIN <<>> = {}
  OBVIOUS
<1>2. toPeer = <<>> /\ limits = NoLimits /\ \A c \in Cells : view[c] = None
  BY DEF Init
<1>3. PeerKnows
  BY <1>1, <1>2, NoItems DEF PeerKnows, Current, CurrentAt
<1>4. AsksOnce
  BY DEF Init, AsksOnce
<1>5. profile \in AllProfiles /\ AnnouncedReadsAreAnswered
  BY ProfilesAssumption DEF Init, AnnouncedReadsAreAnswered
<1> QED BY <1>3, <1>4, <1>5 DEF IInv

\* What the peer knows and what the client asked for holds in every state.
THEOREM Invariant == Spec => []IInv
<1>1. IInv /\ [Next]_vars => IInv'
  <2> SUFFICES ASSUME IInv, [Next]_vars PROVE IInv'
    OBVIOUS
  <2>1. CASE UNCHANGED vars
    BY <2>1, LinkSteps
  <2>2. CASE Next
    BY <2>2, ReadSteps, WriteSteps, DiscoverySteps, SubscribeSteps, BindSteps, LinkSteps DEF Next
  <2> QED BY <2>1, <2>2
<1> QED BY InitHolds, <1>1, PTL DEF Spec

\* When the answers have arrived, the peer knows the fields of the limits as the
\* client keeps them; but for a write without a list and one whose answer was
\* lost, until it is told all of them (client.py handle_incoming_datagram,
\* _client_profile_runtime.py, _spine_helpers.py merge_keyed_list_payload).
THEOREM PeersAreCurrent == Spec => []PeerViewIsCurrent
<1>1. IInv => PeerViewIsCurrent
  <2>1. DOMAIN <<>> = {}
    OBVIOUS
  <2> QED BY <2>1 DEF IInv, PeerKnows, Current, CurrentAt, PeerViewIsCurrent
<1> QED BY Invariant, <1>1, PTL

\* No subscription is asked for twice, over all sessions, none that is taken for
\* asked was not unless a send timed out, and the adapter asks for a heartbeat
\* only when it was bound (client.py _post_discovery_bootstrap).
THEOREM SubscriptionsAreAskedOnce == Spec => []SubscribesOnce
<1>1. IInv => SubscribesOnce
  BY Requests DEF IInv, AsksOnce, SubscribesOnce
<1> QED BY Invariant, <1>1, PTL

\* The reads a profile announces are answered (_client_profile_hems.py,
\* _client_profile_cls.py).
THEOREM ReadsAreAnswered == Spec => []AnnouncedReadsAreAnswered
<1>1. IInv => AnnouncedReadsAreAnswered
  BY DEF IInv
<1> QED BY Invariant, <1>1, PTL

\* Every subscription is asked for from a feature that is announced.
THEOREM AskersAreAnnounced == Spec => []AsksAsAnnounced
<1>1. IInv => AsksAsAnnounced
  <2> SUFFICES ASSUME IInv, NEW call \in calls
               PROVE  \E f \in Features(profile) : f.at = call.from /\ f.type = call.type /\ f.role # "server"
    BY DEF AsksAsAnnounced
  <2>1. PICK type \in {"NodeManagement", "DeviceDiagnosis"} : \E to : call = Request(type, to)
    BY DEF IInv, AsksOnce
  <2>2. call.type = type /\ call.from = Asker(profile, type)
    BY <2>1, Requests
  <2> QED BY <2>2, AskersAre DEF IInv
<1> QED BY Invariant, <1>1, PTL
=============================================================================
