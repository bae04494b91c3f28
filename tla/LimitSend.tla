------------------------------ MODULE LimitSend ------------------------------
(***************************************************************************)
(* The commands "eebus lpc send" and "eebus lpp send" (_run_lp_send in     *)
(* eebus_sdk/cli.py): the server session of the connected wallbox sends    *)
(* the configured limit when the wallbox reports its limits, and the       *)
(* command waits on the server's events until the wallbox has confirmed    *)
(* what was asked.                                                         *)
(*                                                                         *)
(* The session is ServerSpine's, reduced to what concerns the command; the *)
(* wallbox is external: it takes requests in order, may reject or change   *)
(* the command's limit, lists it among limits that others set, writes a    *)
(* value in any scale that is exact and a duration in any form or not at   *)
(* all, and sends its answers in any order.                                *)
(***************************************************************************)
EXTENDS Integers, Sequences, FiniteSets, LoadPower

CONSTANTS
    Listed,         \* the limits of the wallbox, in the order it lists them
    LimitId,        \* send_load_power_limit_id: 0 for lpc, 1 for lpp
    Watts, Seconds, \* --watts and --duration-seconds
    Applied,        \* what the wallbox may apply instead, in tenths of a watt
    Shorter,        \* durations it may apply instead
    Scales,         \* scales it may report in
    MaxChanges      \* bound: limits that others than the command change

LimitIds == {Listed[k] : k \in DOMAIN Listed}

ASSUME ListedAssumption ==
    /\ Listed \in Seq(Nat) /\ LimitId \in LimitIds
    /\ \A j, k \in DOMAIN Listed : Listed[j] = Listed[k] => j = k
ASSUME CommandAssumption == Watts \in Nat \ {0} /\ Seconds \in Nat \ {0}
ASSUME WallboxAssumption ==
    Applied \subseteq Int /\ Shorter \subseteq Nat /\ Scales \subseteq Int /\ \A s \in Scales : s >= -1

\* A limit of the wallbox, in tenths of a watt.
Limit(tenths, active, seconds) == [tenths |-> tenths, active |-> active, seconds |-> seconds]
Default == Limit(0, FALSE, 0)

\* The limit that the write asks for.
Asked == Limit(10 * EncodeWatts(Watts, LimitId), TRUE, Seconds)

VARIABLES
    exitAfter,      \* --exit-after-confirmation
    limits,         \* the wallbox: its limits
    todo,           \* the wallbox: requests under way to it
    answers,        \* the wallbox: answers it has not sent yet
    inbound,        \* answers under way to the server
    link,           \* the session: up, closed
    commandSent,    \* load_power_command_sent
    events,         \* the server's event queue
    accepted,       \* write_accepted
    confirmed,      \* confirmation_received
    outcome,        \* of the command: waiting, or how it ended
    appliedAt,      \* history: the command's limit when the readback was answered
    writtenAs,      \* history: and how its duration was written there
    changes

wallbox == <<limits, todo, answers>>
command == <<accepted, confirmed, outcome>>
readBack == <<appliedAt, writtenAs>>
vars == <<exitAfter, wallbox, inbound, link, commandSent, events, command, readBack, changes>>

\* An event of the server: a result is ok or an error, a readback a value.
Event(kind, value) == [kind |-> kind, value |-> value]

Init ==
    /\ exitAfter \in BOOLEAN
    /\ limits = [i \in LimitIds |-> Default]
    /\ todo = <<"read">> /\ answers = {} /\ inbound = <<>>
    /\ link = "up" /\ commandSent = FALSE
    /\ events = <<Event("connected", "none"), Event("ready", "none")>>
    /\ accepted = FALSE /\ confirmed = FALSE /\ outcome = "waiting"
    /\ appliedAt = Default /\ writtenAs = {} /\ changes = 0

-----------------------------------------------------------------------------
(* The wallbox. *)

Answer(kind, ok, listed) == [kind |-> kind, ok |-> ok, limits |-> listed]

NoList == <<>>

\* A duration is reported as format_duration writes it, in another form, for which
\* the one in seconds alone stands ("PT90S"), or not at all.
Texts(seconds) == {{FormatDuration(seconds)}, {[H |-> 0, M |-> 0, S |-> seconds]}, {}}

\* An entry of a list: the scale is such that the number is whole.
Entry(id, limit, scale, text) ==
    [id |-> id, scale |-> scale, active |-> limit.active, duration |-> text,
     number |-> IF scale = -1 THEN limit.tenths ELSE limit.tenths \div PowerOfTen[scale + 1]]
Exact(limit, scale) == limit.tenths % PowerOfTen[scale + 1] = 0
Entries(id) ==
    {Entry(id, limits[id], scale, text) : scale \in {s \in Scales : Exact(limits[id], s)},
                                          text \in Texts(limits[id].seconds)}

\* The command's place in the list.
Place == CHOOSE k \in DOMAIN Listed : Listed[k] = LimitId

\* A read is answered; what it lists is not looked at.
WallboxReads ==
    /\ Head(todo) = "read"
    /\ answers' = answers \cup {Answer("read", TRUE, NoList)}
    /\ UNCHANGED <<limits, readBack>>

\* A write is applied, as it is or changed, or rejected.
WallboxWrites ==
    /\ Head(todo) = "write"
    /\ \/ \E tenths \in Applied \cup {Asked.tenths}, seconds \in Shorter \cup {Seconds} :
             /\ limits' = [limits EXCEPT ![LimitId] = Limit(tenths, TRUE, seconds)]
             /\ answers' = answers \cup {Answer("result", TRUE, NoList)}
       \/ /\ answers' = answers \cup {Answer("result", FALSE, NoList)}
          /\ UNCHANGED limits
    /\ UNCHANGED readBack

\* The readback lists all limits.
WallboxReadsBack ==
    /\ Head(todo) = "readback"
    /\ \E list \in [DOMAIN Listed -> UNION {Entries(id) : id \in LimitIds}] :
          /\ \A k \in DOMAIN Listed : list[k] \in Entries(Listed[k])
          /\ answers' = answers \cup {Answer("readback", TRUE, list)}
          /\ writtenAs' = list[Place].duration
    /\ appliedAt' = limits[LimitId]
    /\ UNCHANGED limits

WallboxTakes ==
    /\ link = "up" /\ todo # <<>>
    /\ todo' = Tail(todo)
    /\ WallboxReads \/ WallboxWrites \/ WallboxReadsBack
    /\ UNCHANGED <<exitAfter, inbound, link, commandSent, events, command, changes>>

WallboxAnswers ==
    /\ link = "up"
    /\ \E a \in answers :
          /\ answers' = answers \ {a}
          /\ inbound' = Append(inbound, a)
    /\ UNCHANGED <<exitAfter, limits, todo, link, commandSent, events, command, readBack, changes>>

\* Somebody else sets a limit, the command's or another one, or its time is over.
WallboxChanges ==
    /\ changes < MaxChanges
    /\ \E id \in LimitIds, active \in BOOLEAN, seconds \in Shorter \cup {Seconds} :
          \E tenths \in Applied \cup {10 * EncodeWatts(Watts, id)} :
             limits' = [limits EXCEPT ![id] = Limit(tenths, active, seconds)]
    /\ changes' = changes + 1
    /\ UNCHANGED <<exitAfter, todo, answers, inbound, link, commandSent, events, command, readBack>>

-----------------------------------------------------------------------------
(* The server session. *)

State(entry) ==
    [watts |-> DecodeWatts(entry.number, entry.id, entry.scale),
     active |-> entry.active, duration |-> entry.duration]

\* Fault: the last entry is taken.
ReportedLast(list) == State(list[Len(list)])

\* extract_limit_state: the first entry of the list that is read back.
Reported(list) == State(list[1])

\* The handler of one answer: the first report of limits triggers the write and
\* its readback; the result and the readback become events.
ServerHandles ==
    /\ link = "up" /\ inbound # <<>>
    /\ inbound' = Tail(inbound)
    /\ LET a == Head(inbound)
           due == a.kind \in {"read", "readback"} /\ ~commandSent
           told == CASE a.kind = "result"   -> <<Event("result", IF a.ok THEN "ok" ELSE "error")>>
                     [] a.kind = "readback" -> <<Event("readback", Reported(a.limits))>>
                     [] OTHER               -> <<>>
       IN  /\ commandSent' = (commandSent \/ due)
           /\ todo' = IF due THEN todo \o <<"write", "readback">> ELSE todo
           /\ events' = events \o told \o (IF due THEN <<Event("write_sent", "none")>> ELSE <<>>)
                                \o <<Event("summary", "none")>>
    /\ UNCHANGED <<exitAfter, limits, answers, link, command, readBack, changes>>

\* The session breaks, before or after any of the datagrams.
LinkLost ==
    /\ link = "up"
    /\ link' = "closed"
    /\ todo' = <<>> /\ answers' = {} /\ inbound' = <<>>
    /\ events' = Append(events, Event("closed", "none"))
    /\ UNCHANGED <<exitAfter, limits, commandSent, command, readBack, changes>>

-----------------------------------------------------------------------------
(* The command. *)

\* Watts, is_active and the text of the duration are those of the command.
Matches(value) ==
    value = [watts |-> Watts, active |-> TRUE, duration |-> {FormatDuration(Seconds)}]

OnReadback(value) ==
    IF ~Matches(value) THEN outcome' = "mismatch" /\ UNCHANGED confirmed
    ELSE IF ~accepted THEN outcome' = "unacknowledged" /\ UNCHANGED confirmed
    ELSE confirmed' = TRUE /\ outcome' = IF exitAfter THEN "confirmed" ELSE "waiting"

TakeEvent ==
    /\ outcome = "waiting" /\ events # <<>>
    /\ events' = Tail(events)
    /\ LET e == Head(events)
       IN  \/ /\ e.kind \in {"connected", "ready", "write_sent", "summary"}
              /\ UNCHANGED command
           \/ /\ e.kind = "closed"
              /\ outcome' = "closed"
              /\ UNCHANGED <<accepted, confirmed>>
           \/ /\ e.kind = "result"
              /\ accepted' = (accepted \/ e.value = "ok")
              /\ outcome' = IF e.value = "ok" THEN outcome ELSE "rejected"
              /\ UNCHANGED confirmed
           \/ /\ e.kind = "readback"
              /\ OnReadback(e.value)
              /\ UNCHANGED accepted
    /\ UNCHANGED <<exitAfter, wallbox, inbound, link, commandSent, readBack, changes>>

\* No event within --confirmation-timeout; a confirmed command that stays has
\* no timeout.
Timeout ==
    /\ outcome = "waiting" /\ events = <<>>
    /\ ~(confirmed /\ ~exitAfter)
    /\ outcome' = "timeout"
    /\ UNCHANGED <<exitAfter, wallbox, inbound, link, commandSent, events, accepted, confirmed,
                   readBack, changes>>

Next ==
    \/ WallboxTakes \/ WallboxAnswers \/ WallboxChanges
    \/ ServerHandles \/ LinkLost
    \/ TakeEvent \/ Timeout

Spec == Init /\ [][Next]_vars
-----------------------------------------------------------------------------
\* The types; a confirmed command was acknowledged, and sent.
TypeOK ==
    /\ \A limit \in {limits[i] : i \in LimitIds} \cup {appliedAt} :
          limit.tenths \in Int /\ limit.active \in BOOLEAN /\ limit.seconds \in Nat
    /\ outcome \in {"waiting", "confirmed", "rejected", "mismatch", "unacknowledged", "timeout", "closed"}
    /\ link \in {"up", "closed"}
    /\ confirmed => accepted /\ commandSent
    /\ outcome = "confirmed" => confirmed

\* The command reports a confirmation only if, when the wallbox answered the
\* readback, the limit was in force for the time asked and, in whichever scale
\* and among whichever other limits it was reported, within half a watt of the
\* amount asked: for a limit that the wallbox lists first, as LPC is.
ConfirmedMeansApplied ==
    confirmed =>
        /\ appliedAt.active /\ appliedAt.seconds = Seconds
        /\ \E difference \in -5..5 : appliedAt.tenths \in {10 * Watts + difference, -(10 * Watts + difference)}

\* "readback did not match the requested command" is reported only if the limit
\* the wallbox had at the readback was not exactly the requested one, or its
\* duration was not written as format_duration does: the texts are compared, so
\* that the same time in another form is a mismatch.
MismatchMeansDiffers ==
    outcome = "mismatch" => appliedAt # Asked \/ writtenAs # {FormatDuration(Seconds)}
=============================================================================
