-------------------------- MODULE LimitSend_proofs --------------------------
(***************************************************************************)
(* What the conversions of load-power values keep, for every value, and    *)
(* what the send command may report of the wallbox, for every command of a *)
(* limit that the wallbox lists first, every list of limits and every      *)
(* scale: the inductive invariant of LimitSend and what follows from it.   *)
(***************************************************************************)
EXTENDS LimitSend, SequenceLemmas

-----------------------------------------------------------------------------
(* The conversions of load-power values. *)

\* The first n powers of ten.
IsPowers(g, n) ==
    /\ g \in [0 .. n -> Nat \ {0}]
    /\ \A k \in 0 .. n : g[k] = IF k = 0 THEN 1 ELSE 10 * g[k - 1]

\* They exist for every n.
LEMMA PowersExist == \A n \in Nat : \E g : IsPowers(g, n)
<1> DEFINE T == {n \in Nat : ~ \E g : IsPowers(g, n)}
<1>1. ASSUME T # {} PROVE FALSE
  <2>1. PICK n \in T : \A m \in T : n <= m
    BY <1>1, Least
  <2>2. n # 0
    <3>1. IsPowers([k \in 0 .. 0 |-> 1], 0)
      BY DEF IsPowers
    <3> QED BY <2>1, <3>1
  <2>3. n \in Nat /\ n - 1 \in Nat /\ n - 1 \notin T
    BY <2>1, <2>2
  <2>4. PICK g : IsPowers(g, n - 1)
    BY <2>3
  <2> DEFINE h == [k \in 0 .. n |-> IF k = n THEN 10 * g[n - 1] ELSE g[k]]
  <2>5. \A k \in 0 .. n : k = n \/ k \in 0 .. (n - 1)
    BY <2>3
  <2>6. g[n - 1] \in Nat \ {0} /\ \A k \in 0 .. (n - 1) : g[k] \in Nat \ {0}
    BY <2>3, <2>4 DEF IsPowers
  <2>7. h \in [0 .. n -> Nat \ {0}]
    BY <2>5, <2>6
  <2>8. ASSUME NEW k \in 0 .. n PROVE h[k] = IF k = 0 THEN 1 ELSE 10 * h[k - 1]
    <3>1. CASE k = n
      <4>1. h[k] = 10 * g[n - 1] /\ h[k - 1] = g[n - 1]
        BY <2>3, <3>1
      <4> QED BY <2>2, <3>1, <4>1
    <3>2. CASE k \in 0 .. (n - 1)
      <4>1. h[k] = g[k] /\ (k # 0 => h[k - 1] = g[k - 1])
        BY <2>3, <3>2
      <4> QED BY <2>4, <3>2, <4>1 DEF IsPowers
    <3> QED BY <2>5, <3>1, <3>2
  <2>9. IsPowers(h, n)
    BY <2>7, <2>8 DEF IsPowers
  <2> QED BY <2>1, <2>9
<1> QED BY <1>1

\* The first powers are the same however many follow.
LEMMA PowersAgree ==
  ASSUME NEW n \in Nat, NEW g, NEW h, IsPowers(g, n), IsPowers(h, n + 1)
  PROVE  \A k \in 0 .. n : g[k] = h[k]
<1> DEFINE T == {k \in 0 .. n : g[k] # h[k]}
<1>1. ASSUME T # {} PROVE FALSE
  <2>1. PICK k \in T : \A m \in T : k <= m
    <3>1. T \subseteq Nat
      OBVIOUS
    <3> HIDE DEF T
    <3> QED BY <1>1, <3>1, Least
  <2>2. k \in 0 .. n /\ g[k] # h[k] /\ k \in 0 .. (n + 1) /\ k # 0
    BY <2>1 DEF IsPowers
  <2>3. k - 1 \in 0 .. n /\ k - 1 \notin T
    BY <2>1, <2>2
  <2>4. g[k - 1] = h[k - 1] /\ g[k] = 10 * g[k - 1] /\ h[k] = 10 * h[k - 1]
    BY <2>2, <2>3 DEF IsPowers
  <2> QED BY <2>2, <2>4
<1> QED BY <1>1

\* The recursive definition has a solution: powers can be calculated with.
LEMMA PowersOfTen ==
  /\ PowerOfTen[0] = 1
  /\ \A n \in Nat : PowerOfTen[n] \in Nat \ {0} /\ PowerOfTen[n + 1] = 10 * PowerOfTen[n]
<1> DEFINE G(n) == CHOOSE g : IsPowers(g, n)
           f == [n \in Nat |-> G(n)[n]]
<1>1. ASSUME NEW n \in Nat PROVE IsPowers(G(n), n)
  BY PowersExist
<1>2. ASSUME NEW n \in Nat PROVE f[n] \in Nat \ {0} /\ f[n + 1] = 10 * f[n]
  <2>1. IsPowers(G(n), n) /\ IsPowers(G(n + 1), n + 1)
    BY <1>1
  <2> HIDE DEF G
  <2>2. G(n)[n] = G(n + 1)[n]
    BY <2>1, PowersAgree
  <2>3. G(n)[n] \in Nat \ {0} /\ G(n + 1)[n + 1] = 10 * G(n + 1)[n]
    BY <2>1 DEF IsPowers
  <2> QED BY <2>2, <2>3
<1>3. f[0] = 1
  <2>1. IsPowers(G(0), 0)
    BY <1>1
  <2> HIDE DEF G
  <2> QED BY <2>1 DEF IsPowers
<1> HIDE DEF G
<1>4. f = [n \in Nat |-> IF n = 0 THEN 1 ELSE 10 * f[n - 1]]
  <2>1. ASSUME NEW n \in Nat PROVE f[n] = IF n = 0 THEN 1 ELSE 10 * f[n - 1]
    <3>1. CASE n # 0
      <4>1. n - 1 \in Nat /\ (n - 1) + 1 = n
        BY <3>1
      <4>2. f[(n - 1) + 1] = 10 * f[n - 1]
        BY <1>2, <4>1
      <4> HIDE DEF f
      <4> QED BY <3>1, <4>1, <4>2
    <3> QED BY <1>3, <3>1
  <2> QED BY <2>1
<1> HIDE DEF f
<1>5. PowerOfTen = [n \in Nat |-> IF n = 0 THEN 1 ELSE 10 * PowerOfTen[n - 1]]
  BY <1>4 DEF PowerOfTen
<1>6. ASSUME NEW n \in Nat PROVE PowerOfTen[n + 1] = 10 * PowerOfTen[n]
  BY <1>5
<1>7. \A n \in Nat : PowerOfTen[n] \in Nat \ {0}
  <2> DEFINE T == {n \in Nat : PowerOfTen[n] \notin Nat \ {0}}
  <2>1. ASSUME T # {} PROVE FALSE
    <3>1. PICK n \in T : \A m \in T : n <= m
      BY <2>1, Least
    <3>2. n \in Nat /\ n # 0 /\ n - 1 \in Nat /\ n - 1 \notin T
      <4>1. PowerOfTen[0] = 1
        BY <1>5
      <4>2. n \in Nat /\ n # 0
        BY <3>1, <4>1
      <4> QED BY <3>1, <4>2
    <3>3. PowerOfTen[n] = 10 * PowerOfTen[n - 1] /\ PowerOfTen[n - 1] \in Nat \ {0}
      BY <1>5, <3>2
    <3> QED BY <3>1, <3>3
  <2> QED BY <2>1
<1> QED BY <1>5, <1>6, <1>7

-----------------------------------------------------------------------------

\* round(n / d): the result is within half a unit of the quotient, whichever
\* sign the number has.
THEOREM RoundedIsNear ==
    ASSUME NEW n \in Int, NEW d \in Nat \ {0}
    PROVE  /\ Rounded(n, d) \in Int
           /\ 2 * (d * Rounded(n, d) - n) <= d
           /\ -d <= 2 * (d * Rounded(n, d) - n)
<1> DEFINE q == n \div d
           r == n % d
<1>1. q \in Int /\ r \in 0 .. (d - 1) /\ n = d * q + r
  OBVIOUS
<1>2. d * (q + 1) = d * q + d
  BY <1>1
<1> HIDE DEF q, r
<1>3. CASE 2 * r < d \/ (2 * r = d /\ q % 2 = 0)
  <2>1. Rounded(n, d) = q
    BY <1>3 DEF Rounded, q, r
  <2>2. d * q - n = -r
    BY <1>1
  <2> QED BY <1>1, <1>3, <2>1, <2>2
<1>4. CASE ~(2 * r < d \/ (2 * r = d /\ q % 2 = 0))
  <2>1. Rounded(n, d) = q + 1
    BY <1>4 DEF Rounded, q, r
  <2>2. d * (q + 1) - n = d - r
    BY <1>1, <1>2
  <2>3. 2 * r >= d
    BY <1>1, <1>4
  <2> QED BY <1>1, <2>1, <2>2, <2>3
<1> QED BY <1>3, <1>4

\* _apply_scale of any number and any scale is within half a watt of the number
\* times that power of ten, and exactly it when the scale is not negative.
THEOREM ScaledIsNear ==
    ASSUME NEW number \in Int, NEW scale \in Int
    PROVE  /\ ApplyScale(number, scale) \in Int
           /\ scale >= 0 => ApplyScale(number, scale) = number * PowerOfTen[scale]
           /\ scale < 0 =>
                LET d == PowerOfTen[-scale]
                IN  /\ 2 * (d * ApplyScale(number, scale) - number) <= d
                    /\ -d <= 2 * (d * ApplyScale(number, scale) - number)
<1>1. CASE scale >= 0
  <2>1. scale \in Nat /\ PowerOfTen[scale] \in Nat \ {0}
    BY <1>1, PowersOfTen
  <2>2. ApplyScale(number, scale) = number * PowerOfTen[scale]
    BY <1>1 DEF ApplyScale
  <2>3. number * PowerOfTen[scale] \in Int
    BY <2>1
  <2> QED BY <1>1, <2>2, <2>3
<1>2. CASE scale < 0
  <2>1. -scale \in Nat /\ PowerOfTen[-scale] \in Nat \ {0}
    BY <1>2, PowersOfTen
  <2>2. ApplyScale(number, scale) = Rounded(number, PowerOfTen[-scale])
    BY <1>2 DEF ApplyScale
  <2> DEFINE d == PowerOfTen[-scale]
  <2>3. /\ Rounded(number, d) \in Int
        /\ 2 * (d * Rounded(number, d) - number) <= d
        /\ -d <= 2 * (d * Rounded(number, d) - number)
    BY <2>1, RoundedIsNear
  <2>4. ~(scale >= 0)
    BY <1>2
  <2> QED BY <2>2, <2>3, <2>4
<1> QED BY <1>1, <1>2

\* A command of _run_lp_send that the wallbox reports as it was written, without
\* a scale, is read back as the watts that were asked for: the sign that
\* encode_limit_watts gives a production limit does not come back.
THEOREM WattsSurviveTheWire ==
    ASSUME NEW watts \in Nat, NEW limitId \in {0, 1}
    PROVE  DecodeWatts(EncodeWatts(watts, limitId), limitId, 0) = watts
<1>1. \A k \in Int : ApplyScale(k, 0) = k
  BY PowersOfTen DEF ApplyScale
<1>2. EncodeWatts(watts, limitId) \in {watts, -watts}
  BY DEF EncodeWatts, Abs
<1> QED BY <1>1, <1>2 DEF DecodeWatts, Abs

\* A duration written by format_duration is parsed to the same seconds.
THEOREM DurationsSurviveTheWire ==
    ASSUME NEW seconds \in Nat
    PROVE  ParseDuration(FormatDuration(seconds)) = seconds
<1> DEFINE h == seconds \div 3600
           m == seconds \div 60
<1>1. h = m \div 60
  OBVIOUS
<1>2. m \in Nat /\ seconds = 60 * m + (seconds % 60) /\ seconds % 60 \in Nat
  OBVIOUS
<1> HIDE DEF h, m
<1>3. m = 60 * (m \div 60) + (m % 60) /\ m % 60 \in Nat /\ m \div 60 \in Nat
  BY <1>2
<1>4. ParseDuration(FormatDuration(seconds)) = 3600 * h + 60 * (m % 60) + (seconds % 60)
  BY DEF ParseDuration, FormatDuration, h, m
<1> QED BY <1>1, <1>2, <1>3, <1>4

-----------------------------------------------------------------------------
(* The inductive invariant. *)

LimitSet == [tenths : Int, active : BOOLEAN, seconds : Nat]

Outcomes == {"waiting", "confirmed", "rejected", "mismatch", "unacknowledged", "timeout", "closed"}

\* The entries that may report the command's limit as it was at the readback, and
\* what the server makes of them.
OwnEntries ==
    {Entry(LimitId, appliedAt, scale, writtenAs) : scale \in {s \in Scales : Exact(appliedAt, s)}}
Told == {State(entry) : entry \in OwnEntries}

\* What is on its way to the server, or waits to be sent.
Replies == answers \cup ToSet(inbound)

Types ==
    /\ limits \in [LimitIds -> LimitSet]
    /\ appliedAt \in LimitSet
    /\ writtenAs \in Texts(appliedAt.seconds)
    /\ exitAfter \in BOOLEAN /\ commandSent \in BOOLEAN
    /\ accepted \in BOOLEAN /\ confirmed \in BOOLEAN
    /\ outcome \in Outcomes /\ link \in {"up", "closed"}
    /\ IsSequence(inbound) /\ IsSequence(events)

\* The command is written once, and its readback comes after it: before the
\* first report of limits nothing is written.
WrittenOnce ==
    IF commandSent THEN todo \in {<<"write", "readback">>, <<"readback">>, <<>>}
    ELSE /\ todo \in {<<"read">>, <<>>}
         /\ todo = <<"read">> => Replies = {}

\* The readback has not been answered, and may still be.
Early == ~commandSent \/ todo # <<>>

\* Nobody has heard of a readback that was not answered.
NothingEarly ==
    Early =>
        /\ \A a \in Replies : a.kind # "readback"
        /\ \A e \in ToSet(events) : e.kind # "readback"
        /\ ~confirmed /\ outcome # "mismatch"

\* Answers and events tell of the limit at the readback, if it is listed first.
ToldAsApplied ==
    Listed[1] = LimitId =>
        /\ \A a \in Replies : a.kind = "readback" => a.limits[1] \in OwnEntries
        /\ \A e \in ToSet(events) : e.kind = "readback" => e.value \in Told

\* So does the command.
ReportedAsTold ==
    Listed[1] = LimitId =>
        /\ confirmed => \E value \in Told : Matches(value)
        /\ outcome = "mismatch" => \E value \in Told : ~Matches(value)

IInv == Types /\ WrittenOnce /\ NothingEarly /\ ToldAsApplied /\ ReportedAsTold

-----------------------------------------------------------------------------
(* It is inductive. *)

\* Nothing has been written yet.
LEMMA InitIInv == Init => IInv
<1> SUFFICES ASSUME Init PROVE IInv
  OBVIOUS
<1>1. Default \in LimitSet
  BY DEF Default, Limit, LimitSet
<1>2. IsSequence(inbound) /\ ToSet(inbound) = {} /\ Replies = {}
  BY NoItems DEF Init, Replies
<1>3. IsSequence(events) /\ ToSet(events) = {Event("connected", "none"), Event("ready", "none")}
  <2>1. events = <<Event("connected", "none")>> \o <<Event("ready", "none")>>
    BY DEF Init
  <2> QED BY <2>1, OneItem, JoinedItems
<1>4. Types
  BY <1>1, <1>2, <1>3 DEF Init, Types, Outcomes, Texts
<1>5. WrittenOnce
  BY <1>2 DEF Init, WrittenOnce
<1>6. NothingEarly
  BY <1>2, <1>3 DEF Init, NothingEarly, Event
<1>7. ToldAsApplied
  BY <1>2, <1>3 DEF Init, ToldAsApplied, Event
<1> QED BY <1>4, <1>5, <1>6, <1>7 DEF Init, IInv, ReportedAsTold

\* What every action that leaves the limit of the readback alone keeps: how it may
\* be reported.
LEMMA SameReadBack ==
  UNCHANGED readBack => UNCHANGED <<appliedAt, writtenAs>> /\ OwnEntries' = OwnEntries /\ Told' = Told
  BY DEF readBack, OwnEntries, Told

\* A request is taken: the first is removed, and the readback is the last.
LEMMA TakenRequest ==
  ASSUME WrittenOnce, todo # <<>>, todo' = Tail(todo), UNCHANGED commandSent
  PROVE  /\ Head(todo) = "read" => ~commandSent /\ todo' = <<>> /\ Replies = {}
         /\ Head(todo) = "write" => commandSent /\ todo' = <<"readback">>
         /\ Head(todo) = "readback" => commandSent /\ todo' = <<>>
         /\ Head(todo) \in {"read", "write", "readback"}
<1>1. todo = <<"read">> => Head(todo) = "read" /\ Tail(todo) = <<>>
  OBVIOUS
<1>2. todo = <<"readback">> => Head(todo) = "readback" /\ Tail(todo) = <<>>
  OBVIOUS
<1>3. todo = <<"write", "readback">> => Head(todo) = "write" /\ Tail(todo) = <<"readback">>
  OBVIOUS
<1> QED BY <1>1, <1>2, <1>3 DEF WrittenOnce

\* The wallbox answers the readback with the limit of that moment, and every
\* other request without one.
LEMMA TakesStep ==
  ASSUME IInv, WallboxTakes
  PROVE  IInv'
<1> USE DEF IInv
<1>1. /\ todo # <<>> /\ todo' = Tail(todo)
      /\ UNCHANGED <<exitAfter, inbound, link, commandSent, events, command, changes>>
  BY DEF WallboxTakes
<1>2. UNCHANGED commandSent /\ UNCHANGED <<accepted, confirmed, outcome>>
  BY <1>1 DEF command
<1>3. /\ Head(todo) = "read" => ~commandSent /\ todo' = <<>> /\ Replies = {}
      /\ Head(todo) = "write" => commandSent /\ todo' = <<"readback">>
      /\ Head(todo) = "readback" => commandSent /\ todo' = <<>>
      /\ Head(todo) \in {"read", "write", "readback"}
  BY <1>1, <1>2, TakenRequest
<1>4. IsSequence(inbound)' /\ IsSequence(events)' /\ ToSet(inbound)' = ToSet(inbound)
      /\ ToSet(events)' = ToSet(events)
  BY <1>1 DEF Types, IsSequence, ToSet
<1>5. ASSUME Head(todo) = "readback" PROVE IInv'
  <2>1. WallboxReadsBack
    BY <1>5 DEF WallboxTakes, WallboxReads, WallboxWrites
  <2>2. PICK list \in [DOMAIN Listed -> UNION {Entries(id) : id \in LimitIds}] :
           /\ \A k \in DOMAIN Listed : list[k] \in Entries(Listed[k])
           /\ answers' = answers \cup {Answer("readback", TRUE, list)}
           /\ writtenAs' = list[Place].duration
    BY <2>1 DEF WallboxReadsBack
  <2>3. appliedAt' = limits[LimitId] /\ UNCHANGED limits
    BY <2>1 DEF WallboxReadsBack
  <2>4. Place \in DOMAIN Listed /\ Listed[Place] = LimitId
    BY ListedAssumption DEF LimitIds, Place
  <2>5. ASSUME NEW entry \in Entries(LimitId)
        PROVE  /\ entry.duration \in Texts(appliedAt'.seconds)
               /\ writtenAs' = entry.duration => entry \in OwnEntries'
    <3>1. PICK scale \in Scales, text \in Texts(limits[LimitId].seconds) :
             Exact(limits[LimitId], scale) /\ entry = Entry(LimitId, limits[LimitId], scale, text)
      BY <2>5 DEF Entries
    <3>2. entry.duration = text
      BY <3>1 DEF Entry
    <3> QED BY <2>3, <3>1, <3>2 DEF OwnEntries
  <2>6. writtenAs' \in Texts(appliedAt'.seconds)
    BY <2>2, <2>4, <2>5
  <2>7. ASSUME Listed[1] = LimitId PROVE list[1] \in OwnEntries'
    <3>1. 1 \in DOMAIN Listed
      BY <2>4, ListedAssumption
    <3>2. Place = 1
      BY <2>4, <2>7, <3>1, ListedAssumption
    <3>3. list[1] \in Entries(LimitId) /\ writtenAs' = list[1].duration
      BY <2>2, <2>7, <3>1, <3>2
    <3> QED BY <2>5, <3>3
  <2>8. Replies' = Replies \cup {Answer("readback", TRUE, list)}
    BY <1>4, <2>2 DEF Replies
  <2>9. NothingEarly /\ Early
    BY <1>1 DEF Early
  <2>10. Types'
    BY <1>1, <1>2, <1>4, <2>3, <2>6, ListedAssumption DEF Types
  <2>11. WrittenOnce' /\ ~Early'
    BY <1>2, <1>3, <1>5 DEF WrittenOnce, Early
  <2>12. ToldAsApplied'
    BY <1>4, <2>7, <2>8, <2>9 DEF ToldAsApplied, NothingEarly, Answer
  <2>13. ReportedAsTold'
    BY <1>2, <2>9 DEF ReportedAsTold, NothingEarly
  <2> QED BY <2>10, <2>11, <2>12, <2>13 DEF NothingEarly
<1>6. ASSUME Head(todo) # "readback" PROVE IInv'
  <2>1. UNCHANGED <<appliedAt, writtenAs>> /\ OwnEntries' = OwnEntries /\ Told' = Told
    BY <1>6, SameReadBack DEF WallboxTakes, WallboxReads, WallboxWrites, WallboxReadsBack
  <2>2. PICK a : a.kind # "readback" /\ answers' = answers \cup {a}
    BY <1>6 DEF WallboxTakes, WallboxReads, WallboxWrites, WallboxReadsBack, Answer
  <2>3. Replies' = Replies \cup {a}
    BY <1>4, <2>2 DEF Replies
  <2>4. limits' \in [LimitIds -> LimitSet]
    <3>1. CASE UNCHANGED limits
      BY <3>1 DEF Types
    <3>2. CASE \E tenths \in Applied \cup {Asked.tenths}, seconds \in Shorter \cup {Seconds} :
                 limits' = [limits EXCEPT ![LimitId] = Limit(tenths, TRUE, seconds)]
      <4>1. Asked.tenths \in Int
        BY CommandAssumption DEF Asked, Limit, EncodeWatts, Abs
      <4>2. PICK limit \in LimitSet : limits' = [limits EXCEPT ![LimitId] = limit]
        BY <3>2, <4>1, CommandAssumption, WallboxAssumption DEF Limit, LimitSet
      <4> QED BY <4>2 DEF Types
    <3> QED BY <1>6, <3>1, <3>2 DEF WallboxTakes, WallboxReads, WallboxWrites, WallboxReadsBack
  <2>5. Types'
    BY <1>1, <1>2, <1>4, <2>1, <2>4 DEF Types
  <2>6. WrittenOnce'
    BY <1>2, <1>3, <1>6 DEF WrittenOnce
  <2>7. Early
    BY <1>1 DEF Early
  <2>8. NothingEarly'
    BY <1>2, <1>4, <2>2, <2>3, <2>7 DEF NothingEarly
  <2>9. ToldAsApplied'
    BY <1>4, <2>1, <2>2, <2>3 DEF ToldAsApplied
  <2>10. ReportedAsTold'
    BY <1>2, <2>1 DEF ReportedAsTold
  <2> QED BY <2>5, <2>6, <2>8, <2>9, <2>10
<1> QED BY <1>5, <1>6

\* An answer is sent: it is among the replies as before.
LEMMA AnswersStep ==
  ASSUME IInv, WallboxAnswers
  PROVE  IInv'
<1> USE DEF IInv
<1>1. PICK a \in answers : answers' = answers \ {a} /\ inbound' = Append(inbound, a)
  BY DEF WallboxAnswers
<1>2. UNCHANGED <<exitAfter, limits, todo, link, commandSent, events, command, readBack, changes>>
  BY DEF WallboxAnswers
<1>3. IsSequence(inbound)' /\ ToSet(inbound)' = ToSet(inbound) \cup {a}
  BY <1>1, AppendedItem DEF Types
<1>4. Replies' = Replies
  BY <1>1, <1>3 DEF Replies
<1>5. UNCHANGED <<appliedAt, writtenAs>> /\ OwnEntries' = OwnEntries /\ Told' = Told
  BY <1>2, SameReadBack
<1>6. Types'
  BY <1>2, <1>3, <1>5 DEF Types, command
<1>7. WrittenOnce'
  BY <1>2, <1>4 DEF WrittenOnce
<1>8. NothingEarly'
  BY <1>2, <1>4 DEF NothingEarly, Early, command
<1>9. ToldAsApplied'
  BY <1>2, <1>4, <1>5 DEF ToldAsApplied
<1>10. ReportedAsTold'
  BY <1>2, <1>5 DEF ReportedAsTold, command
<1> QED BY <1>6, <1>7, <1>8, <1>9, <1>10

\* A limit changes: only the wallbox's own state changes, not what was told of it.
LEMMA ChangesStep ==
  ASSUME IInv, WallboxChanges
  PROVE  IInv'
<1> USE DEF IInv
<1>1. UNCHANGED <<exitAfter, todo, answers, inbound, link, commandSent, events, command, readBack>>
  BY DEF WallboxChanges
<1>2. limits' \in [LimitIds -> LimitSet]
  <2>1. PICK id \in LimitIds, active \in BOOLEAN, seconds \in Shorter \cup {Seconds} :
           \E tenths \in Applied \cup {10 * EncodeWatts(Watts, id)} :
              limits' = [limits EXCEPT ![id] = Limit(tenths, active, seconds)]
    BY DEF WallboxChanges
  <2>2. 10 * EncodeWatts(Watts, id) \in Int
    BY CommandAssumption DEF EncodeWatts, Abs
  <2>3. PICK limit \in LimitSet : limits' = [limits EXCEPT ![id] = limit]
    BY <2>1, <2>2, CommandAssumption, WallboxAssumption DEF Limit, LimitSet
  <2> QED BY <2>3 DEF Types
<1>3. Replies' = Replies /\ UNCHANGED <<appliedAt, writtenAs>> /\ OwnEntries' = OwnEntries /\ Told' = Told
  BY <1>1, SameReadBack DEF Replies
<1>4. Types'
  BY <1>1, <1>2, <1>3 DEF Types, command
<1>5. WrittenOnce'
  BY <1>1, <1>3 DEF WrittenOnce
<1>6. NothingEarly'
  BY <1>1, <1>3 DEF NothingEarly, Early, command
<1>7. ToldAsApplied' /\ ReportedAsTold'
  BY <1>1, <1>3 DEF ToldAsApplied, ReportedAsTold, command
<1> QED BY <1>4, <1>5, <1>6, <1>7

\* The handler of an answer writes at most once, and reports a readback as it
\* was answered.
LEMMA HandlesStep ==
  ASSUME IInv, ServerHandles
  PROVE  IInv'
<1> USE DEF IInv
<1> DEFINE a == Head(inbound)
           due == a.kind \in {"read", "readback"} /\ ~commandSent
           told == CASE a.kind = "result"   -> <<Event("result", IF a.ok THEN "ok" ELSE "error")>>
                     [] a.kind = "readback" -> <<Event("readback", Reported(a.limits))>>
                     [] OTHER               -> <<>>
           sent == IF due THEN <<Event("write_sent", "none")>> ELSE <<>>
           done == <<Event("summary", "none")>>
<1>1. inbound # <<>> /\ inbound' = Tail(inbound)
      /\ UNCHANGED <<exitAfter, limits, answers, link, command, readBack, changes>>
  BY DEF ServerHandles
<1>2. /\ commandSent' = (commandSent \/ due)
      /\ todo' = IF due THEN todo \o <<"write", "readback">> ELSE todo
      /\ events' = events \o told \o sent \o done
  BY DEF ServerHandles
<1>3. a \in Replies /\ IsSequence(inbound)' /\ Replies' \subseteq Replies
  BY <1>1, TakenItem DEF Types, Replies
<1>4. IsSequence(told) /\ \A e \in ToSet(told) :
         e.kind = "readback" => a.kind = "readback" /\ e.value = Reported(a.limits)
  <2>1. CASE a.kind = "result"
    <3>1. told = <<Event("result", IF a.ok THEN "ok" ELSE "error")>>
      BY <2>1
    <3> QED BY <3>1, OneItem DEF Event
  <2>2. CASE a.kind = "readback"
    <3>1. told = <<Event("readback", Reported(a.limits))>>
      BY <2>2
    <3> QED BY <2>2, <3>1, OneItem DEF Event
  <2>3. CASE a.kind \notin {"result", "readback"}
    <3>1. told = <<>>
      BY <2>3
    <3> QED BY <3>1, NoItems
  <2> QED BY <2>1, <2>2, <2>3
<1>5. IsSequence(sent) /\ \A e \in ToSet(sent) : e.kind # "readback"
  BY NoItems, OneItem DEF Event
<1>6. IsSequence(done) /\ \A e \in ToSet(done) : e.kind # "readback"
  BY OneItem DEF Event
<1> HIDE DEF told, sent, done
<1>7. IsSequence(events)' /\ ToSet(events)' = ((ToSet(events) \cup ToSet(told)) \cup ToSet(sent)) \cup ToSet(done)
  <2>1. IsSequence(events \o told) /\ ToSet(events \o told) = ToSet(events) \cup ToSet(told)
    BY <1>4, JoinedItems DEF Types
  <2>2. IsSequence((events \o told) \o sent)
        /\ ToSet((events \o told) \o sent) = (ToSet(events) \cup ToSet(told)) \cup ToSet(sent)
    BY <1>5, <2>1, JoinedItems
  <2>3. IsSequence(((events \o told) \o sent) \o done)
        /\ ToSet(((events \o told) \o sent) \o done) = ((ToSet(events) \cup ToSet(told)) \cup ToSet(sent)) \cup ToSet(done)
    BY <1>6, <2>2, JoinedItems
  <2> QED BY <1>2, <2>3
<1>8. \A e \in ToSet(events)' : e.kind = "readback" =>
         e \in ToSet(events) \/ (a.kind = "readback" /\ e.value = Reported(a.limits))
  BY <1>4, <1>5, <1>6, <1>7
<1> HIDE DEF a
<1>9. due => ~commandSent /\ todo = <<>> /\ todo' = <<"write", "readback">>
  <2>1. <<>> \o <<"write", "readback">> = <<"write", "readback">>
    OBVIOUS
  <2>2. due => ~commandSent /\ todo = <<>>
    BY <1>3 DEF WrittenOnce
  <2> QED BY <1>2, <2>1, <2>2
<1>10. commandSent' \in BOOLEAN
  BY <1>2 DEF Types
<1>11. Types'
  BY <1>1, <1>3, <1>7, <1>10, SameReadBack DEF Types, command
<1>12. WrittenOnce'
  <2>1. CASE due
    BY <1>2, <1>9, <2>1 DEF WrittenOnce
  <2>2. CASE ~due
    BY <1>2, <1>3, <2>2 DEF WrittenOnce, Types
  <2> QED BY <2>1, <2>2
<1>13. Early' => Early
  <2>1. CASE due
    BY <1>9, <2>1 DEF Early
  <2>2. CASE ~due
    BY <1>2, <2>2 DEF Early, Types
  <2> QED BY <2>1, <2>2
<1>14. NothingEarly'
  BY <1>1, <1>3, <1>8, <1>13 DEF NothingEarly, command
<1>15. UNCHANGED <<appliedAt, writtenAs>> /\ OwnEntries' = OwnEntries /\ Told' = Told
  BY <1>1, SameReadBack
<1>16. ToldAsApplied'
  <2> SUFFICES ASSUME Listed[1] = LimitId
               PROVE  /\ \A b \in Replies' : b.kind = "readback" => b.limits[1] \in OwnEntries
                      /\ \A e \in ToSet(events)' : e.kind = "readback" => e.value \in Told
    BY <1>15 DEF ToldAsApplied
  <2>1. \A b \in Replies : b.kind = "readback" => b.limits[1] \in OwnEntries
    BY DEF ToldAsApplied
  <2>2. a.kind = "readback" => Reported(a.limits) \in Told
    BY <1>3, <2>1 DEF Reported, Told
  <2>3. ASSUME NEW e \in ToSet(events)', e.kind = "readback"
        PROVE  e.value \in Told
    BY <1>8, <2>2, <2>3 DEF ToldAsApplied
  <2> QED BY <1>3, <2>1, <2>3
<1>17. ReportedAsTold'
  BY <1>1, <1>15 DEF ReportedAsTold, command
<1> QED BY <1>11, <1>12, <1>14, <1>16, <1>17

\* The session breaks: nothing is under way any more.
LEMMA LostStep ==
  ASSUME IInv, LinkLost
  PROVE  IInv'
<1> USE DEF IInv
<1>1. /\ link' = "closed" /\ todo' = <<>> /\ answers' = {} /\ inbound' = <<>>
      /\ events' = Append(events, Event("closed", "none"))
      /\ UNCHANGED <<exitAfter, limits, commandSent, command, readBack, changes>>
  BY DEF LinkLost
<1>2. IsSequence(inbound)' /\ Replies' = {}
  BY <1>1, NoItems DEF Replies
<1>3. IsSequence(events)' /\ ToSet(events)' = ToSet(events) \cup {Event("closed", "none")}
  BY <1>1, AppendedItem DEF Types
<1>4. UNCHANGED <<appliedAt, writtenAs>> /\ OwnEntries' = OwnEntries /\ Told' = Told
  BY <1>1, SameReadBack
<1>5. Types'
  BY <1>1, <1>2, <1>3, <1>4 DEF Types, command
<1>6. WrittenOnce'
  BY <1>1, <1>2 DEF WrittenOnce, Types
<1>7. Early' => Early
  BY <1>1 DEF Early
<1>8. NothingEarly'
  BY <1>1, <1>2, <1>3, <1>7 DEF NothingEarly, Event, command
<1>9. ToldAsApplied'
  BY <1>1, <1>2, <1>3, <1>4 DEF ToldAsApplied, Event
<1>10. ReportedAsTold'
  BY <1>1, <1>4 DEF ReportedAsTold, command
<1> QED BY <1>5, <1>6, <1>8, <1>9, <1>10

\* The command takes an event: it compares what the readback's event says.
LEMMA EventStep ==
  ASSUME IInv, TakeEvent
  PROVE  IInv'
<1> USE DEF IInv
<1> DEFINE e == Head(events)
<1>1. /\ outcome = "waiting" /\ events # <<>> /\ events' = Tail(events)
      /\ UNCHANGED <<exitAfter, wallbox, inbound, link, commandSent, readBack, changes>>
  BY DEF TakeEvent
<1>2. UNCHANGED <<limits, todo, answers>>
  BY <1>1 DEF wallbox
<1>3. e \in ToSet(events) /\ IsSequence(events)' /\ ToSet(events)' \subseteq ToSet(events)
  BY <1>1, TakenItem DEF Types
<1>4. Replies' = Replies /\ UNCHANGED <<appliedAt, writtenAs>> /\ OwnEntries' = OwnEntries /\ Told' = Told
  BY <1>1, <1>2, SameReadBack DEF Replies
<1>5. /\ accepted' \in BOOLEAN /\ confirmed' \in BOOLEAN /\ outcome' \in Outcomes
      /\ confirmed' => confirmed \/ (e.kind = "readback" /\ Matches(e.value))
      /\ outcome' = "mismatch" => e.kind = "readback" /\ ~Matches(e.value)
  <2>1. CASE e.kind \in {"connected", "ready", "write_sent", "summary"} /\ UNCHANGED command
    BY <1>1, <2>1 DEF Types, command
  <2>2. CASE outcome' = "closed" /\ UNCHANGED <<accepted, confirmed>>
    BY <2>2 DEF Types, Outcomes
  <2>3. CASE /\ accepted' = (accepted \/ e.value = "ok")
             /\ outcome' = IF e.value = "ok" THEN outcome ELSE "rejected"
             /\ UNCHANGED confirmed
    BY <1>1, <2>3 DEF Types, Outcomes
  <2>4. CASE e.kind = "readback" /\ OnReadback(e.value) /\ UNCHANGED accepted
    BY <1>1, <2>4 DEF OnReadback, Types, Outcomes
  <2> QED BY <2>1, <2>2, <2>3, <2>4 DEF TakeEvent
<1> HIDE DEF e
<1>6. Types'
  BY <1>1, <1>2, <1>3, <1>4, <1>5 DEF Types
<1>7. WrittenOnce'
  BY <1>1, <1>2, <1>4 DEF WrittenOnce
<1>8. Early' = Early
  BY <1>1, <1>2 DEF Early
<1>9. NothingEarly'
  BY <1>3, <1>4, <1>5, <1>8 DEF NothingEarly
<1>10. ToldAsApplied'
  BY <1>3, <1>4 DEF ToldAsApplied
<1>11. e.kind = "readback" /\ Listed[1] = LimitId => e.value \in Told
  BY <1>3 DEF ToldAsApplied
<1>12. ReportedAsTold'
  <2>1. confirmed' /\ Listed[1] = LimitId => \E value \in Told : Matches(value)
    BY <1>5, <1>11 DEF ReportedAsTold
  <2>2. outcome' = "mismatch" /\ Listed[1] = LimitId => \E value \in Told : ~Matches(value)
    BY <1>5, <1>11
  <2> QED BY <1>4, <2>1, <2>2 DEF ReportedAsTold
<1> QED BY <1>6, <1>7, <1>9, <1>10, <1>12

\* The command gives up waiting.
LEMMA TimeoutStep ==
  ASSUME IInv, Timeout
  PROVE  IInv'
<1> USE DEF IInv
<1>1. /\ outcome' = "timeout"
      /\ UNCHANGED <<exitAfter, wallbox, inbound, link, commandSent, events, accepted, confirmed,
                     readBack, changes>>
  BY DEF Timeout
<1>2. UNCHANGED <<limits, todo, answers>> /\ Replies' = Replies /\ UNCHANGED <<appliedAt, writtenAs>> /\ OwnEntries' = OwnEntries /\ Told' = Told
  BY <1>1, SameReadBack DEF wallbox, Replies
<1>3. Types'
  BY <1>1, <1>2 DEF Types, Outcomes
<1>4. WrittenOnce'
  BY <1>1, <1>2 DEF WrittenOnce
<1>5. NothingEarly'
  BY <1>1, <1>2 DEF NothingEarly, Early
<1>6. ToldAsApplied' /\ ReportedAsTold'
  BY <1>1, <1>2 DEF ToldAsApplied, ReportedAsTold
<1> QED BY <1>3, <1>4, <1>5, <1>6

\* The command hears of one readback, of the limit as it was then.
THEOREM Invariant == Spec => []IInv
<1>1. IInv /\ [Next]_vars => IInv'
  <2> SUFFICES ASSUME IInv, [Next]_vars PROVE IInv'
    OBVIOUS
  <2>1. CASE UNCHANGED vars
    <3>1. UNCHANGED <<exitAfter, limits, todo, answers, inbound, link, commandSent, events,
                      accepted, confirmed, outcome, readBack>>
      BY <2>1 DEF vars, wallbox, command
    <3>2. Replies' = Replies /\ UNCHANGED <<appliedAt, writtenAs>> /\ OwnEntries' = OwnEntries /\ Told' = Told
      BY <3>1, SameReadBack DEF Replies
    <3>3. Types' /\ WrittenOnce' /\ NothingEarly'
      BY <3>1, <3>2 DEF IInv, Types, WrittenOnce, NothingEarly, Early
    <3> QED BY <3>1, <3>2, <3>3 DEF IInv, ToldAsApplied, ReportedAsTold
  <2> QED BY <2>1, TakesStep, AnswersStep, ChangesStep, HandlesStep, LostStep, EventStep, TimeoutStep DEF Next
<1> QED BY <1>1, InitIInv, PTL DEF Spec

-----------------------------------------------------------------------------
(* What the reported values say of the limit. *)

\* A limit that is whole in the scale it is written in is read back within half
\* a watt.
LEMMA EntryIsNear ==
    ASSUME NEW limit \in LimitSet, NEW scale \in Scales, NEW text, Exact(limit, scale)
    PROVE  LET watts == ApplyScale(Entry(LimitId, limit, scale, text).number, scale)
           IN  /\ watts \in Int
               /\ 10 * watts - limit.tenths \in -5 .. 5
<1> DEFINE number == Entry(LimitId, limit, scale, text).number
           watts == ApplyScale(number, scale)
<1>1. scale \in Int /\ scale >= -1 /\ limit.tenths \in Int
  BY WallboxAssumption DEF LimitSet
<1>2. PowerOfTen[1] = 10 /\ PowerOfTen[0] = 1
  <2>1. PowerOfTen[0 + 1] = 10 * PowerOfTen[0] /\ PowerOfTen[0] = 1
    BY PowersOfTen
  <2> QED BY <2>1
<1>3. CASE scale = -1
  <2>1. number = limit.tenths
    BY <1>3 DEF Entry
  <2> DEFINE r == ApplyScale(limit.tenths, scale)
  <2>2. r \in Int /\ 2 * (10 * r - limit.tenths) <= 10 /\ -10 <= 2 * (10 * r - limit.tenths)
    <3>1. scale < 0 /\ -scale = 1
      <4>1. scale + 1 = 0 /\ scale \in Int
        BY <1>1, <1>3
      <4> QED BY ONLY <4>1
    <3>2. PowerOfTen[-scale] = 10
      BY <1>2, <3>1
    <3> QED BY <1>1, <3>1, <3>2, ScaledIsNear
  <2>3. watts = r
    BY <2>1
  <2> HIDE DEF r, watts
  <2> QED BY <1>1, <2>2, <2>3 DEF watts
<1>4. CASE scale # -1
  <2> DEFINE p == PowerOfTen[scale]
             q == PowerOfTen[scale + 1]
             t == limit.tenths
             k == t \div q
  <2>1. scale \in Nat /\ p \in Nat \ {0} /\ q = 10 * p /\ q \in Nat \ {0}
    BY <1>1, <1>4, PowersOfTen
  <2>2. t % q = 0
    BY DEF Exact
  <2>3. number = k
    BY <1>4 DEF Entry
  <2>4. k \in Int /\ t = q * k + (t % q)
    <3>1. t \in Int /\ q \in Nat \ {0}
      BY <1>1, <2>1
    <3> HIDE DEF t, q
    <3> QED BY <3>1
  <2>5. watts = k * p
    <3>1. scale >= 0
      BY <2>1
    <3> HIDE DEF k
    <3> QED BY <1>1, <2>3, <2>4, <3>1, ScaledIsNear
  <2> HIDE DEF p, q, k, watts, number
  <2>6. k * p \in Int /\ 10 * (k * p) = q * k
    BY <2>1, <2>4
  <2>7. watts \in Int /\ 10 * watts = t
    BY <1>1, <2>2, <2>4, <2>5, <2>6
  <2> QED BY <1>1, <2>7 DEF watts, number
<1> QED BY <1>3, <1>4

\* A limit whose duration is written as the command's is has the command's time.
LEMMA TextTells ==
  ASSUME NEW s \in Nat, {FormatDuration(Seconds)} \in Texts(s)
  PROVE  s = Seconds
<1>1. Seconds \in Nat /\ ParseDuration(FormatDuration(Seconds)) = Seconds
  BY CommandAssumption, DurationsSurviveTheWire
<1>2. ParseDuration(FormatDuration(s)) = s
  BY DurationsSurviveTheWire
<1>3. ParseDuration([H |-> 0, M |-> 0, S |-> s]) = s
  BY DEF ParseDuration
<1>4. FormatDuration(Seconds) \in {FormatDuration(s), [H |-> 0, M |-> 0, S |-> s]}
  BY DEF Texts
<1> QED BY <1>1, <1>2, <1>3, <1>4

\* A report that matches the command is of a limit in force for the time asked and
\* within half a watt of the amount.
LEMMA MatchMeansNear ==
  ASSUME NEW limit \in LimitSet, NEW scale \in Scales, NEW text \in Texts(limit.seconds),
         Exact(limit, scale), Matches(State(Entry(LimitId, limit, scale, text)))
  PROVE  /\ limit.active /\ limit.seconds = Seconds
         /\ \E difference \in -5..5 : limit.tenths \in {10 * Watts + difference, -(10 * Watts + difference)}
<1> DEFINE entry == Entry(LimitId, limit, scale, text)
           w == ApplyScale(entry.number, scale)
<1>1. entry.scale = scale /\ entry.id = LimitId /\ entry.active = limit.active /\ entry.duration = text
  BY DEF Entry
<1>2. State(entry) = [watts |-> DecodeWatts(entry.number, entry.id, entry.scale),
                      active |-> entry.active, duration |-> entry.duration]
  BY DEF State
<1> HIDE DEF entry
<1>3. /\ DecodeWatts(entry.number, LimitId, scale) = Watts
      /\ limit.active = TRUE /\ text = {FormatDuration(Seconds)}
  BY <1>1, <1>2 DEF Matches, entry
<1>4. limit.seconds = Seconds
  BY <1>3, TextTells DEF LimitSet
<1>5. w \in Int /\ 10 * w - limit.tenths \in -5 .. 5
  BY EntryIsNear DEF entry
<1>6. DecodeWatts(entry.number, LimitId, scale) \in {w, Abs(w)}
  BY DEF DecodeWatts
<1> HIDE DEF w
<1>7. w = Watts \/ w = -Watts
  BY <1>3, <1>5, <1>6 DEF Abs
<1>8. limit.tenths \in Int /\ Watts \in Nat
  BY CommandAssumption DEF LimitSet
<1>9. CASE w = Watts
  <2>1. limit.tenths - 10 * Watts \in -5 .. 5
        /\ limit.tenths = 10 * Watts + (limit.tenths - 10 * Watts)
    BY <1>5, <1>8, <1>9
  <2> QED BY <1>3, <1>4, <2>1
<1>10. CASE w = -Watts
  <2> DEFINE t == limit.tenths
             d == -t - 10 * Watts
  <2>1. 10 * (-Watts) - t \in -5 .. 5 /\ t \in Int /\ Watts \in Int
    BY <1>5, <1>8, <1>10
  <2> HIDE DEF t
  <2>2. d \in -5 .. 5 /\ t = -(10 * Watts + d)
    BY <2>1
  <2> QED BY <1>3, <1>4, <2>2 DEF t
<1> QED BY <1>7, <1>9, <1>10

\* Exactly what was asked for is reported as it was asked for, in every scale it
\* is exact in, if its duration is written as format_duration does.
LEMMA AskedMatches ==
  ASSUME NEW scale \in Scales, Exact(Asked, scale)
  PROVE  Matches(State(Entry(LimitId, Asked, scale, {FormatDuration(Seconds)})))
<1> DEFINE entry == Entry(LimitId, Asked, scale, {FormatDuration(Seconds)})
           w == ApplyScale(entry.number, scale)
           encoded == EncodeWatts(Watts, LimitId)
<1>1. Watts \in Nat /\ Seconds \in Nat /\ LimitId \in Nat
  BY CommandAssumption, ListedAssumption DEF LimitIds
<1>2. encoded \in Int
  BY <1>1 DEF EncodeWatts, Abs
<1>3. Asked.tenths = 10 * encoded /\ Asked.active = TRUE /\ Asked.seconds = Seconds
  BY DEF Asked, Limit
<1>4. Asked \in LimitSet
  <2> HIDE DEF encoded
  <2>1. Asked = [tenths |-> 10 * encoded, active |-> TRUE, seconds |-> Seconds]
    BY DEF Asked, Limit, encoded
  <2> QED BY <1>1, <1>2, <2>1 DEF LimitSet
<1>5. w \in Int /\ 10 * w - Asked.tenths \in -5 .. 5
  BY <1>4, EntryIsNear
<1>6. w = encoded
  <2> HIDE DEF w, encoded
  <2> QED BY <1>2, <1>3, <1>5
<1>7. DecodeWatts(entry.number, LimitId, scale) = Watts
  <2>1. DecodeWatts(entry.number, LimitId, scale) = IF LimitId \in {0, 1} THEN Abs(w) ELSE w
    BY DEF DecodeWatts
  <2>2. LimitId \in {0, 1} => encoded \in {Watts, -Watts}
    BY <1>1 DEF EncodeWatts, Abs
  <2>3. LimitId \notin {0, 1} => encoded = Watts
    BY DEF EncodeWatts
  <2> HIDE DEF w, encoded, entry
  <2> QED BY <1>1, <1>6, <2>1, <2>2, <2>3 DEF Abs
<1>8. entry.scale = scale /\ entry.id = LimitId /\ entry.active = TRUE
      /\ entry.duration = {FormatDuration(Seconds)}
  BY <1>3 DEF Entry
<1> HIDE DEF entry
<1>9. State(entry) = [watts |-> Watts, active |-> TRUE, duration |-> {FormatDuration(Seconds)}]
  BY <1>7, <1>8 DEF State
<1> QED BY <1>9 DEF Matches, entry

-----------------------------------------------------------------------------
\* Whatever the wallbox applies, whoever sets its other limits, and whichever
\* scales and forms it answers in, a command that reports a confirmation found
\* its limit in force for the time asked and within half a watt of the amount
\* asked, provided that the wallbox lists this limit first: the first one is
\* what extract_limit_state reads.  An LPC limit that is listed first may
\* confirm an LPP command that was not applied.
THEOREM ConfirmationsAreTrue ==
    ASSUME Listed[1] = LimitId
    PROVE  Spec => []ConfirmedMeansApplied
<1>1. IInv => ConfirmedMeansApplied
  <2> SUFFICES ASSUME IInv, confirmed PROVE ConfirmedMeansApplied
    BY DEF ConfirmedMeansApplied
  <2>1. PICK value \in Told : Matches(value)
    BY DEF IInv, ReportedAsTold
  <2>2. PICK entry \in OwnEntries : value = State(entry)
    BY DEF Told
  <2>3. PICK scale \in Scales : Exact(appliedAt, scale) /\ entry = Entry(LimitId, appliedAt, scale, writtenAs)
    BY DEF OwnEntries
  <2>4. appliedAt \in LimitSet /\ writtenAs \in Texts(appliedAt.seconds)
    BY DEF IInv, Types
  <2>5. Matches(State(Entry(LimitId, appliedAt, scale, writtenAs)))
    BY <2>1, <2>2, <2>3
  <2> QED BY <2>3, <2>4, <2>5, MatchMeansNear DEF ConfirmedMeansApplied
<1> QED BY <1>1, Invariant, PTL

\* A mismatch is reported only of another limit than the one asked for, or of one
\* whose duration is not written as format_duration does, provided the wallbox
\* lists the command's limit first.  The run send_lpp shows that it fails
\* otherwise.
THEOREM MismatchesAreTrue ==
    ASSUME Listed[1] = LimitId
    PROVE  Spec => []MismatchMeansDiffers
<1>1. IInv => MismatchMeansDiffers
  <2> SUFFICES ASSUME IInv, outcome = "mismatch", appliedAt = Asked,
                      writtenAs = {FormatDuration(Seconds)}
               PROVE  FALSE
    BY DEF MismatchMeansDiffers
  <2>1. PICK value \in Told : ~Matches(value)
    BY DEF IInv, ReportedAsTold
  <2>2. PICK entry \in OwnEntries : value = State(entry)
    BY DEF Told
  <2>3. PICK scale \in Scales : Exact(Asked, scale)
                                /\ entry = Entry(LimitId, Asked, scale, {FormatDuration(Seconds)})
    BY DEF OwnEntries
  <2> QED BY <2>1, <2>2, <2>3, AskedMatches
<1> QED BY <1>1, Invariant, PTL
=============================================================================
