-------------------------- MODULE HemsClient_proofs -------------------------
(***************************************************************************)
(* What holds of the client's sessions and of the answers it takes, for    *)
(* every number of sessions, every caller and every peer: the inductive    *)
(* invariant of ShipSession, that HemsClient's sessions live as            *)
(* ShipSession says, and the inductive invariant of HemsClient.            *)
(***************************************************************************)
EXTENDS HemsClient, SequenceLemmas, FiniteSetTheorems

(* A session: what its phase says of its tasks and its transport. *)

ClosingPhases == {"select", "ping", "keepalive", "transport"}
Phases == {"new", "handshake", "failed", "ready", "closed", "raised"} \cup ClosingPhases
TaskStates == {"none", "sleeping", "half", "sent", "ended", "failed"}

LifeTypes ==
    /\ phase \in [Sessions -> Phases]
    /\ options \in [Sessions -> SUBSET Life!TaskNames]
    /\ task \in [Sessions -> [Life!TaskNames -> TaskStates]]
    /\ transport \in [Sessions -> {"none", "open", "closed"}]
    /\ link \in [Sessions -> BOOLEAN]

NoTasks(s) == \A t \in Life!TaskNames : task[s][t] = "none"

\* The loops catch what the delayed selection keeps.
TasksFit(s) ==
    /\ task[s]["ping"] # "failed" /\ task[s]["keepalive"] # "failed"
    /\ task[s]["select"] = "none" \/ "select" \in options[s]
    /\ phase[s] = "new" => NoTasks(s)
    /\ phase[s] \in {"handshake", "failed"} => task[s]["ping"] = "none" /\ task[s]["keepalive"] = "none"
    /\ phase[s] \in {"ping", "keepalive", "transport"} => task[s]["select"] = "none"
    /\ phase[s] \in {"keepalive", "transport"} => task[s]["ping"] = "none"
    /\ phase[s] = "transport" => task[s]["keepalive"] = "none"
    /\ phase[s] = "raised" => task[s]["select"] = "failed"
    /\ transport[s] = "closed" => NoTasks(s)

TransportFits(s) ==
    /\ phase[s] \in {"handshake", "ready", "raised"} => transport[s] = "open"
    /\ phase[s] \in ClosingPhases => transport[s] \in {"open", "closed"}
    /\ phase[s] = "closed" => transport[s] = "closed"

LifeInv == LifeTypes /\ \A s \in Sessions : TasksFit(s) /\ TransportFits(s)

-----------------------------------------------------------------------------
(* The client: its operation, its session and the one it opens. *)

Stages == {"open", "close", "mdns"}
OperationNames == {"none", "connect"} \cup AllCalls

Types ==
    /\ caller \in Callers
    /\ current \in Sessions \cup {0} /\ opening.session \in Sessions \cup {0}
    /\ DOMAIN op = DOMAIN NoOperation
    /\ op.name \in OperationNames
    /\ counter \in Nat \ {0} /\ heard \in BOOLEAN /\ bootstrapSent \in BOOLEAN
    /\ abandoned \subseteq Functions
    /\ controls \in 0..MaxControls /\ operations \in 0..caller.operations

MdnsTypes ==
    /\ round \in {"idle", "PTR", "instances", "hosts"}
    /\ DOMAIN known \subseteq Services
    /\ \A s \in Services : at[s] \in 1..Len(Places[s])
    /\ DOMAIN at = Services
    /\ answered \subseteq Mdns!Records /\ stale \in BOOLEAN

\* What each operation may wait for.
StagesFit ==
    /\ op.name = "none" => op.awaits = "none"
    /\ op.name = "connect" => op.awaits = "open"
    /\ op.name = "close" => op.awaits = "close"
    /\ op.name = "reconnect" => op.awaits \in Stages
    /\ op.name = "listen" => op.awaits = "anything"
    /\ op.awaits \in Stages => op.name \in {"connect", "close", "reconnect"}

\* Sessions are opened in their order; a reconnect has one left to open.
OpenedInOrder ==
    /\ op.awaits = "open" <=> opening.session # 0
    /\ op.awaits = "open" => phase[opening.session] \in {"new", "handshake"}
    /\ \E opened \in 0 .. Cardinality(Sessions) : \A s \in Sessions : phase[s] = "new" <=> opened < s
    /\ \A s \in Sessions : phase[s] = "new" => opening.session <= s
    /\ op.name = "reconnect" /\ op.awaits \in {"close", "mdns"} => \E s \in Sessions : phase[s] = "new"

\* The phase of the client's session in each stage.
OneSession ==
    /\ current # 0 =>
          CASE op.awaits = "close" -> phase[current] \in ClosingPhases
            [] op.awaits \in {"mdns", "open"} -> phase[current] = "closed"
            [] OTHER -> phase[current] \in {"ready", "closed", "raised"}
    /\ op.awaits \in {"close", "mdns"} => current # 0
    /\ \A s \in Sessions : s # current /\ s # opening.session => phase[s] \in {"new", "failed", "closed"}

-----------------------------------------------------------------------------
(* The messages: requests are answered in order, at most once each. *)

\* For the requests p under way to the peer, the messages c from it, what k was
\* taken from them for an answer, and the counter n: requests are below the
\* counter, and what was asked first comes first and is taken first, once; a
\* message that nobody asked for has 0.
InOrder(p, c, k, n) ==
    /\ IsSequence(p) /\ IsSequence(c) /\ IsSequence(k)
    /\ \A i \in DOMAIN p : p[i].ref \in 1 .. (n - 1)
    /\ \A i \in DOMAIN c : c[i].ref \in 0 .. (n - 1)
    /\ \A i \in DOMAIN k : k[i].got.ref \in 0 .. (n - 1)
    /\ \A i \in DOMAIN p, j \in DOMAIN p : i < j => p[i].ref < p[j].ref
    /\ \A i \in DOMAIN c, j \in DOMAIN c : i < j /\ c[j].ref # 0 => c[i].ref < c[j].ref
    /\ \A i \in DOMAIN k, j \in DOMAIN k : i < j /\ k[j].got.ref # 0 => k[i].got.ref < k[j].got.ref
    /\ \A i \in DOMAIN c, j \in DOMAIN p : c[i].ref < p[j].ref
    /\ \A i \in DOMAIN k, j \in DOMAIN p : k[i].got.ref < p[j].ref
    /\ \A i \in DOMAIN k, j \in DOMAIN c : c[j].ref # 0 => k[i].got.ref < c[j].ref

Ordered == InOrder(toPeer, toClient, collected, counter)

\* An answer of a function under way, and the request for it.
IsOwn(m) == m.ref = op.ref /\ m.fn = op.awaits
Fits(m) == m.fn \in Functions /\ m.ref # 0 =>
    /\ m.fn \in abandoned \/ IsOwn(m)
    /\ op.awaits \in Functions => m.ref <= op.ref

\* What is under way is the request that waits, or was abandoned before.
OwnOrAbandoned ==
    /\ IF op.awaits \in Functions THEN op.ref \in 1 .. (counter - 1) ELSE op.ref = 0
    /\ \A m \in ToSet(toPeer) \cup ToSet(toClient) : Fits(m)

\* Of each that was taken: its function, and whose answer it is.
IsTakenRightly(c) ==
    \/ c.asked = "discovery" /\ c.got.fn = "use cases"
    \/ /\ c.got.fn = c.asked
       /\ \/ c.got.ref \in {0, c.ref}
          \/ c.owed /\ c.got.ref < c.ref
TakenAreOwn == \A c \in ToSet(collected) : IsTakenRightly(c)

IInv == /\ LifeInv /\ MdnsTypes /\ Types /\ StagesFit /\ OpenedInOrder /\ OneSession
        /\ Ordered /\ OwnOrAbandoned /\ TakenAreOwn

-----------------------------------------------------------------------------
(* ShipSession: its sessions keep LifeInv. *)

\* The names of the tasks.
LEMMA TaskNamesAre ==
  /\ Life!TaskNames = {"select", "ping", "keepalive"}
  /\ Tasks \subseteq Life!TaskNames
  BY InstancesAssumption DEF Life!TaskNames

\* What close awaits after each of the tasks.
LEMMA AwaitedAre ==
  ASSUME NEW s, phase[s] \in Life!TaskNames
  PROVE  /\ phase[s] = "select" => Life!Awaited(s) = "ping"
         /\ phase[s] = "ping" => Life!Awaited(s) = "keepalive"
         /\ phase[s] = "keepalive" => Life!Awaited(s) = "transport"
<1> DEFINE i == CHOOSE i \in 1..3 : Life!Closing[i] = phase[s]
<1>1. /\ Life!Closing[1] = "select" /\ Life!Closing[2] = "ping"
      /\ Life!Closing[3] = "keepalive" /\ Life!Closing[4] = "transport"
  BY DEF Life!Closing
<1>2. \A k \in 1..3 : k = 1 \/ k = 2 \/ k = 3
  OBVIOUS
<1>3. \E k \in 1..3 : Life!Closing[k] = phase[s]
  BY <1>1, TaskNamesAre
<1>4. i \in 1..3 /\ Life!Closing[i] = phase[s]
  BY <1>3
<1>5. Life!Awaited(s) = Life!Closing[1 + i]
  BY DEF Life!Awaited
<1> HIDE DEF i
<1> QED BY <1>1, <1>2, <1>4, <1>5

\* At first there are no tasks.
LEMMA LifeInit == Life!Init => LifeInv
<1> SUFFICES ASSUME Life!Init PROVE LifeInv
  OBVIOUS
<1>1. LifeTypes
  BY TaskNamesAre DEF Life!Init, LifeTypes, Phases, TaskStates
<1>2. \A s \in Sessions : TasksFit(s) /\ TransportFits(s)
  BY TaskNamesAre DEF Life!Init, TasksFit, TransportFits, NoTasks, ClosingPhases
<1> QED BY <1>1, <1>2 DEF LifeInv

\* A step of one session leaves the others as they were.
LEMMA OtherSessions ==
  ASSUME LifeInv, LifeTypes', NEW s \in Sessions,
         \A r \in Sessions : r # s => /\ phase'[r] = phase[r] /\ options'[r] = options[r]
                                      /\ task'[r] = task[r] /\ transport'[r] = transport[r],
         TasksFit(s)' /\ TransportFits(s)'
  PROVE  LifeInv'
<1>1. ASSUME NEW r \in Sessions PROVE (TasksFit(r) /\ TransportFits(r))'
  <2>1. CASE r = s
    BY <2>1
  <2>2. CASE r # s
    BY <2>2 DEF LifeInv, TasksFit, TransportFits, NoTasks
  <2> QED BY <2>1, <2>2
<1> QED BY <1>1 DEF LifeInv

\* open.
LEMMA OpenSteps ==
  ASSUME LifeInv, NEW s \in Sessions, Life!Connect(s) \/ Life!OpenFails(s)
  PROVE  LifeInv'
<1>1. LifeTypes'
  BY DEF LifeInv, LifeTypes, Life!Connect, Life!OpenFails, Phases
<1>2. TasksFit(s)' /\ TransportFits(s)'
  BY TaskNamesAre DEF LifeInv, LifeTypes, TasksFit, TransportFits, NoTasks, Life!Connect, Life!OpenFails,
     Phases, ClosingPhases
<1> QED BY <1>1, <1>2, OtherSessions DEF LifeInv, LifeTypes, Life!Connect, Life!OpenFails

\* The delayed selection, and the end of the handshake.
LEMMA HandshakeSteps ==
  ASSUME LifeInv, NEW s \in Sessions, Life!ScheduleSelect(s) \/ Life!HandshakeEnds(s)
  PROVE  LifeInv'
<1>1. CASE Life!ScheduleSelect(s)
  <2>1. LifeTypes'
    BY <1>1, TaskNamesAre DEF LifeInv, LifeTypes, Life!ScheduleSelect, TaskStates
  <2>2. /\ UNCHANGED <<phase, options, transport>> /\ phase[s] = "handshake" /\ "select" \in options[s]
        /\ task'[s]["select"] = "sleeping"
        /\ task'[s]["ping"] = task[s]["ping"] /\ task'[s]["keepalive"] = task[s]["keepalive"]
    BY <1>1, TaskNamesAre DEF LifeInv, LifeTypes, Life!ScheduleSelect
  <2>3. TasksFit(s)' /\ TransportFits(s)'
    BY <2>2 DEF LifeInv, TasksFit, TransportFits, ClosingPhases
  <2> QED BY <1>1, <2>1, <2>3, OtherSessions DEF LifeInv, LifeTypes, Life!ScheduleSelect
<1>2. CASE Life!HandshakeEnds(s)
  <2>1. /\ UNCHANGED <<options, transport, link>> /\ phase[s] = "handshake"
        /\ phase' = [phase EXCEPT ![s] = "ready"]
        /\ task' = [task EXCEPT ![s] = [t \in Life!TaskNames |->
                      IF t # "select" /\ t \in options[s] THEN "sleeping" ELSE task[s][t]]]
    BY <1>2 DEF Life!HandshakeEnds
  <2>2. LifeTypes'
    BY <2>1 DEF LifeInv, LifeTypes, Phases, TaskStates
  <2>3. /\ phase'[s] = "ready" /\ task'[s]["select"] = task[s]["select"]
        /\ task'[s]["ping"] # "failed" /\ task'[s]["keepalive"] # "failed"
    BY <2>1, TaskNamesAre DEF LifeInv, LifeTypes, TasksFit
  <2>4. TasksFit(s)' /\ TransportFits(s)'
    BY <2>1, <2>3 DEF LifeInv, TasksFit, TransportFits, ClosingPhases
  <2> QED BY <2>1, <2>2, <2>4, OtherSessions DEF LifeInv, LifeTypes
<1> QED BY <1>1, <1>2

\* Tasks and links: a task that runs goes on, ends or, if it is the selection, fails.
LEMMA BackgroundSteps ==
  ASSUME LifeInv, NEW s \in Sessions, Life!Background(s)
  PROVE  LifeInv'
<1>1. CASE Life!LinkDrops(s)
  BY <1>1 DEF LifeInv, LifeTypes, TasksFit, TransportFits, NoTasks, Life!LinkDrops
<1>2. ASSUME NEW t \in Life!TaskNames, Life!TaskSends(s, t) PROVE LifeInv'
  <2>1. PICK state \in TaskStates \ {"none"} :
           /\ task' = [task EXCEPT ![s][t] = state]
           /\ state = "failed" => t = "select"
    BY <1>2, TaskNamesAre DEF Life!TaskSends, Life!AfterSend, Life!AfterError, TaskStates
  <2>2. task[s][t] # "none" /\ UNCHANGED <<phase, options, transport, link>>
    BY <1>2 DEF Life!TaskSends, Life!Running
  <2>3. LifeTypes'
    BY <2>1, <2>2 DEF LifeInv, LifeTypes
  <2>4. /\ task'[s][t] = state
        /\ \A u \in Life!TaskNames : u # t => task'[s][u] = task[s][u]
        /\ \A r \in Sessions : r # s => task'[r] = task[r]
    BY <2>1 DEF LifeInv, LifeTypes
  <2>5. phase[s] = "raised" => task'[s]["select"] = "failed"
    <3>1. t = "select" => task[s]["select"] \in Life!Running
      BY <1>2 DEF Life!TaskSends
    <3> QED BY <2>4, <3>1, TaskNamesAre DEF LifeInv, TasksFit, Life!Running
  <2>6. TasksFit(s)' /\ TransportFits(s)'
    BY <2>1, <2>2, <2>4, <2>5, TaskNamesAre DEF LifeInv, TasksFit, TransportFits, NoTasks
  <2> QED BY <2>2, <2>3, <2>4, <2>6, OtherSessions
<1> QED BY <1>1, <1>2 DEF Life!Background

\* close: one task after the other goes away, then the transport; a selection
\* that has failed stays, and makes it raise.
LEMMA CloseSteps ==
  ASSUME LifeInv, NEW s \in Sessions,
         Life!CloseBegins(s) \/ Life!CloseAwaits(s) \/ Life!CloseTransport(s)
  PROVE  LifeInv'
<1>1. CASE Life!CloseBegins(s)
  <2>1. /\ phase[s] \in {"ready", "closed", "raised"} /\ phase' = [phase EXCEPT ![s] = "select"]
        /\ UNCHANGED <<options, task, transport, link>>
    BY <1>1 DEF Life!CloseBegins, Life!Closing
  <2>2. LifeTypes'
    BY <2>1 DEF LifeInv, LifeTypes, Phases, ClosingPhases
  <2>3. phase'[s] = "select" /\ transport[s] \in {"open", "closed"}
    BY <2>1 DEF LifeInv, LifeTypes, TransportFits
  <2>4. TasksFit(s)' /\ TransportFits(s)'
    BY <2>1, <2>3 DEF LifeInv, TasksFit, TransportFits, NoTasks
  <2> QED BY <2>1, <2>2, <2>4, OtherSessions DEF LifeInv, LifeTypes
<1>2. CASE Life!CloseAwaits(s)
  <2>1. phase[s] \in Life!TaskNames /\ UNCHANGED <<options, transport, link>>
    BY <1>2 DEF Life!CloseAwaits
  <2>2. transport[s] \in {"open", "closed"}
    BY <2>1, TaskNamesAre DEF LifeInv, TransportFits, ClosingPhases
  <2>3. ASSUME task[s][phase[s]] = "failed" PROVE LifeInv'
    <3>1. phase' = [phase EXCEPT ![s] = "raised"] /\ UNCHANGED task
      BY <1>2, <2>3 DEF Life!CloseAwaits
    <3>2. phase[s] = "select" /\ task[s]["select"] = "failed" /\ transport[s] = "open"
      BY <2>1, <2>2, <2>3, TaskNamesAre DEF LifeInv, TasksFit, NoTasks
    <3>3. LifeTypes'
      BY <2>1, <3>1 DEF LifeInv, LifeTypes, Phases
    <3>4. phase'[s] = "raised"
      BY <3>1 DEF LifeInv, LifeTypes
    <3>5. TasksFit(s)' /\ TransportFits(s)'
      BY <2>1, <3>1, <3>2, <3>4 DEF LifeInv, TasksFit, TransportFits, NoTasks, ClosingPhases
    <3> QED BY <2>1, <3>1, <3>3, <3>5, OtherSessions DEF LifeInv, LifeTypes
  <2>4. ASSUME task[s][phase[s]] # "failed" PROVE LifeInv'
    <3>1. /\ phase' = [phase EXCEPT ![s] = Life!Awaited(s)]
          /\ task' = [task EXCEPT ![s][phase[s]] = "none"]
      BY <1>2, <2>4 DEF Life!CloseAwaits
    <3>2. /\ phase[s] = "select" => Life!Awaited(s) = "ping"
          /\ phase[s] = "ping" => Life!Awaited(s) = "keepalive"
          /\ phase[s] = "keepalive" => Life!Awaited(s) = "transport"
          /\ phase[s] \in {"select", "ping", "keepalive"}
      BY <2>1, AwaitedAre, TaskNamesAre
    <3>3. LifeTypes'
      BY <2>1, <3>1, <3>2 DEF LifeInv, LifeTypes, Phases, ClosingPhases, TaskStates
    <3>4. /\ phase'[s] = Life!Awaited(s) /\ task'[s][phase[s]] = "none"
          /\ \A u \in Life!TaskNames : u # phase[s] => task'[s][u] = task[s][u]
          /\ \A r \in Sessions : r # s => task'[r] = task[r] /\ phase'[r] = phase[r]
      BY <2>1, <3>1 DEF LifeInv, LifeTypes
    <3>5. TransportFits(s)'
      BY <2>1, <2>2, <3>2, <3>4 DEF TransportFits, ClosingPhases
    <3>6. TasksFit(s)'
      BY <2>1, <3>2, <3>4, TaskNamesAre DEF LifeInv, TasksFit, NoTasks
    <3> QED BY <2>1, <3>3, <3>4, <3>5, <3>6, OtherSessions
  <2> QED BY <2>3, <2>4
<1>3. CASE Life!CloseTransport(s)
  <2>1. /\ phase[s] = "transport" /\ phase' = [phase EXCEPT ![s] = "closed"]
        /\ transport' = [transport EXCEPT ![s] = "closed"] /\ link' = [link EXCEPT ![s] = FALSE]
        /\ UNCHANGED <<options, task>>
    BY <1>3 DEF Life!CloseTransport
  <2>2. LifeTypes'
    BY <2>1 DEF LifeInv, LifeTypes, Phases
  <2>3. phase'[s] = "closed" /\ transport'[s] = "closed" /\ NoTasks(s)
    BY <2>1, TaskNamesAre DEF LifeInv, LifeTypes, TasksFit, NoTasks
  <2>4. TasksFit(s)' /\ TransportFits(s)'
    BY <2>1, <2>3 DEF LifeInv, TasksFit, TransportFits, NoTasks, ClosingPhases
  <2> QED BY <2>1, <2>2, <2>4, OtherSessions DEF LifeInv, LifeTypes
<1> QED BY <1>1, <1>2, <1>3

\* A step of any session, whoever takes it, keeps LifeInv.
LEMMA SessionsKeepTheirLife ==
  LifeInv /\ [Life!Next]_sessionVars => LifeInv'
<1> SUFFICES ASSUME LifeInv, [Life!Next]_sessionVars PROVE LifeInv'
  OBVIOUS
<1>1. CASE UNCHANGED sessionVars
  BY <1>1 DEF LifeInv, LifeTypes, TasksFit, TransportFits, NoTasks, sessionVars
<1>2. CASE Life!Next
  BY <1>2, OpenSteps, HandshakeSteps, BackgroundSteps, CloseSteps DEF Life!Next
<1> QED BY <1>1, <1>2

-----------------------------------------------------------------------------
(* Operations. *)

\* The fields of an operation.
LEMMA OperationsAre ==
  ASSUME NEW name, NEW awaits
  PROVE  /\ DOMAIN Operation(name, awaits) = DOMAIN NoOperation
         /\ Operation(name, awaits).name = name /\ Operation(name, awaits).awaits = awaits
         /\ Operation(name, awaits).ref = 0
         /\ NoOperation.name = "none" /\ NoOperation.awaits = "none" /\ NoOperation.ref = 0
  BY DEF Operation, NoOperation

\* An operation asks for the data of a function next, or returns.
LEMMA AsksAFunction ==
  ASSUME NEW o, NEW found, NEW servers
  PROVE  AsksNext(o, found, servers) \in Functions \cup {"none"}
  BY DEF AsksNext, Functions

\* An operation that goes on waits for the read it has just sent.
LEMMA AdvancedOperation ==
  ASSUME NEW o, NEW found, NEW servers, NEW bootstrap, Advance(o, found, servers, bootstrap)
  PROVE  LET fn == AsksNext(o, found, servers)
         IN  /\ fn = "none" => op' = NoOperation
             /\ fn # "none" => /\ DOMAIN op' = DOMAIN NoOperation
                               /\ op'.name = o.name /\ op'.awaits = fn
                               /\ op'.ref = counter + Len(bootstrap)
<1> DEFINE fn == AsksNext(o, found, servers)
           left == CASE o.awaits = "discovery" -> servers
                     [] o.awaits = "values" -> o.left - 1
                     [] OTHER -> o.left
           described == o.described \/ (o.awaits = "descriptions" /\ found)
           first == Operation(o.name, fn)
<1>1. op' = IF fn = "none" THEN NoOperation
            ELSE [first EXCEPT !.ref = counter + Len(bootstrap), !.left = left, !.described = described]
  BY DEF Advance
<1> HIDE DEF fn, left, described
<1>2. DOMAIN first = DOMAIN NoOperation /\ {"name", "awaits", "ref", "left", "described"} \subseteq DOMAIN NoOperation
      /\ first.name = o.name /\ first.awaits = fn
  BY OperationsAre DEF NoOperation
<1> HIDE DEF first
<1> QED BY <1>1, <1>2 DEF fn

-----------------------------------------------------------------------------
(* The client opens and closes its sessions one at a time. *)

Course == StagesFit /\ OpenedInOrder /\ OneSession

\* The 0 that stands for no session is none.
LEMMA NoSession == 0 \notin Sessions /\ Sessions \subseteq Nat
<1> DEFINE N == Cardinality(Sessions)
<1>1. N \in Nat /\ Sessions = 1 .. N
  BY SessionsAssumption, FS_CardinalityType
<1> HIDE DEF N
<1> QED BY <1>1

\* What only reads and waits leaves the sessions alone.
LEMMA ReadingKeepsCourse ==
  ASSUME Course, UNCHANGED <<phase, current, opening>>,
         \/ op'.awaits = op.awaits /\ op'.name = op.name
         \/ /\ op.awaits \notin Stages /\ op'.awaits \notin Stages
            /\ op'.name \notin {"connect", "close", "reconnect"}
            /\ op'.name = "none" => op'.awaits = "none"
            /\ op'.name = "listen" => op'.awaits = "anything"
  PROVE  Course'
<1>1. StagesFit'
  BY DEF Course, StagesFit, Stages
<1>2. OpenedInOrder'
  BY DEF Course, OpenedInOrder, StagesFit, Stages
<1>3. OneSession'
  BY DEF Course, OneSession, Stages
<1> QED BY <1>1, <1>2, <1>3 DEF Course

\* The sessions that are not new are the first ones, and the next is new.
LEMMA FreshIsNext ==
  ASSUME OpenedInOrder, \E s \in Sessions : phase[s] = "new"
  PROVE  /\ Fresh.session \in Sessions /\ phase[Fresh.session] = "new"
         /\ Fresh.session # 0
         /\ \A s \in Sessions : phase[s] = "new" => Fresh.session <= s
<1> DEFINE N == Cardinality(Sessions)
<1>1. N \in Nat /\ Sessions = 1 .. N
  BY SessionsAssumption, FS_CardinalityType
<1>2. PICK opened \in 0 .. N : \A s \in Sessions : phase[s] = "new" <=> opened < s
  BY DEF OpenedInOrder
<1> HIDE DEF N
<1>3. {s \in Sessions : phase[s] # "new"} = 1 .. opened
  BY <1>1, <1>2
<1>4. Cardinality(1 .. opened) = opened
  <2>1. Cardinality(1 .. opened) = IF 1 > opened THEN 0 ELSE opened - 1 + 1
    BY <1>1, FS_Interval
  <2> QED BY <1>1, <2>1
<1>5. Fresh.session = 1 + opened
  BY <1>3, <1>4 DEF Fresh
<1>6. opened < N
  BY <1>1, <1>2
<1> QED BY <1>1, <1>2, <1>5, <1>6

\* At first the client opens its first session.
LEMMA CourseInit == Init => Types /\ Course
<1> SUFFICES ASSUME Init PROVE Types /\ Course
  OBVIOUS
<1>1. op.name = "connect" /\ op.awaits = "open" /\ DOMAIN op = DOMAIN NoOperation
  BY OperationsAre DEF Init
<1>2. opening.session = 1 /\ 1 \in Sessions /\ current = 0
  BY SessionsAssumption DEF Init
<1>3. \A s \in Sessions : phase[s] = "new" /\ s \in Nat /\ 0 < s
  <2>1. \A s \in Sessions : s \in Nat /\ 0 < s
    <3>1. Cardinality(Sessions) \in Nat
      BY SessionsAssumption, FS_CardinalityType
    <3> QED BY <3>1, SessionsAssumption
  <2>2. \A s \in Sessions : phase[s] = "new"
    BY DEF Init, Life!Init
  <2> QED BY <2>1, <2>2
<1>4. Types
  <2>1. /\ caller \in Callers /\ counter = 1 /\ heard = FALSE /\ bootstrapSent = FALSE
        /\ abandoned = {} /\ controls = 0 /\ operations = 1
    BY DEF Init
  <2>2. caller.operations \in Nat \ {0}
    BY <2>1, CallersAssumption
  <2>3. controls \in 0 .. MaxControls /\ operations \in 0 .. caller.operations
    BY <2>1, <2>2, BoundsAssumption
  <2>4. op.name \in OperationNames
    BY <1>1 DEF OperationNames
  <2>5. current \in Sessions \cup {0} /\ opening.session \in Sessions \cup {0}
    BY <1>2
  <2>6. counter \in Nat \ {0}
    BY <2>1
  <2>7. heard \in BOOLEAN /\ bootstrapSent \in BOOLEAN /\ abandoned \subseteq Functions
    BY <2>1
  <2> QED BY <1>1, <2>1, <2>3, <2>4, <2>5, <2>6, <2>7 DEF Types
<1>5. StagesFit
  BY <1>1 DEF StagesFit, Stages
<1>6. OpenedInOrder
  <2>1. 0 \in 0 .. Cardinality(Sessions)
    BY SessionsAssumption, FS_CardinalityType
  <2> QED BY <1>1, <1>2, <1>3, <2>1 DEF OpenedInOrder
<1>7. OneSession
  BY <1>1, <1>2, <1>3 DEF OneSession
<1> QED BY <1>4, <1>5, <1>6, <1>7 DEF Course

\* connect takes the session it opens through its handshake, and makes it the
\* client's, or leaves it.
LEMMA OpeningCourse ==
  ASSUME LifeInv, Types, Course, Opening \/ Opened \/ OpenRaises
  PROVE  /\ Course'
         /\ [Life!Next]_sessionVars
<1> USE DEF Course
<1> DEFINE o == opening.session
<1>1. op.awaits = "open" /\ o \in Sessions /\ o # 0 /\ o # current
  <2>1. op.awaits = "open" /\ o \in Sessions /\ o # 0
    BY DEF Opening, Opened, OpenRaises, OpenedInOrder, Types
  <2>2. o = current => phase[o] = "closed"
    BY <2>1 DEF OneSession
  <2> QED BY <2>1, <2>2 DEF OpenedInOrder
<1>2. current # 0 => current \in Sessions /\ phase[current] = "closed"
  BY <1>1 DEF OneSession, Types
<1>3. DOMAIN phase = Sessions
  BY DEF LifeInv, LifeTypes
<1> DEFINE N == Cardinality(Sessions)
<1>4. N \in Nat /\ Sessions = 1 .. N
  BY SessionsAssumption, FS_CardinalityType
<1>5. PICK opened \in 0 .. N : \A s \in Sessions : phase[s] = "new" <=> opened < s
  BY DEF OpenedInOrder
<1>6. \A s \in Sessions : phase[s] = "new" => o <= s
  BY DEF OpenedInOrder
<1>7. phase[o] \in {"new", "handshake"}
  BY <1>1 DEF OpenedInOrder
<1> HIDE DEF o, N
<1>8. ASSUME NEW state, state # "new", phase' = [phase EXCEPT ![o] = state]
      PROVE  /\ \E k \in 0 .. N : \A s \in Sessions : phase'[s] = "new" <=> k < s
             /\ \A s \in Sessions : phase'[s] = "new" => o <= s
             /\ phase'[o] = state /\ \A s \in Sessions : s # o => phase'[s] = phase[s]
  <2>1. phase'[o] = state /\ \A s \in Sessions : s # o => phase'[s] = phase[s]
    BY <1>1, <1>3, <1>8
  <2>2. CASE phase[o] = "new"
    <3>1. o = opened + 1
      BY <1>1, <1>4, <1>5, <1>6, <2>2
    <3>2. \A s \in Sessions : phase'[s] = "new" <=> o < s
      BY <1>4, <1>5, <1>8, <2>1, <3>1
    <3>3. o \in 0 .. N /\ \A s \in Sessions : o < s => o <= s
      BY <1>1, <1>4
    <3> QED BY <2>1, <3>2, <3>3
  <2>3. CASE phase[o] # "new"
    BY <1>5, <1>6, <1>8, <2>1, <2>3
  <2> QED BY <2>1, <2>2, <2>3
<1>9. CASE Opening
  <2>1. UNCHANGED <<current, opening, op>>
    BY <1>9 DEF Opening, client
  <2>2. Life!Next
    BY <1>1, <1>9 DEF Opening, Life!Next, o
  <2>3. CASE Life!ScheduleSelect(o)
    <3>1. UNCHANGED <<phase, current, opening>>
      BY <2>1, <2>3 DEF Life!ScheduleSelect
    <3> QED BY <2>1, <2>2, <3>1, ReadingKeepsCourse
  <2>4. CASE Life!Connect(o)
    <3>1. phase' = [phase EXCEPT ![o] = "handshake"]
      BY <2>4 DEF Life!Connect
    <3>2. OpenedInOrder'
      <4>1. op'.awaits = "open" /\ opening'.session = o /\ o # 0
        BY <1>1, <2>1 DEF Opening, o
      <4>2. phase'[o] = "handshake" /\ \A s \in Sessions : phase'[s] = "new" => o <= s
        BY <1>8, <3>1
      <4>3. \E k \in 0 .. N : \A s \in Sessions : phase'[s] = "new" <=> k < s
        BY <1>8, <3>1
      <4> QED BY <4>1, <4>2, <4>3 DEF OpenedInOrder, N
    <3>3. OneSession'
      BY <1>1, <1>2, <1>8, <2>1, <3>1 DEF OneSession, o
    <3>4. StagesFit'
      BY <2>1 DEF StagesFit
    <3> QED BY <2>2, <3>2, <3>3, <3>4
  <2> QED BY <1>9, <2>3, <2>4 DEF Opening, o
<1>10. CASE Opened
  <2>1. /\ Life!HandshakeEnds(o) /\ current' = o /\ op' = NoOperation /\ opening' = NoTarget'
    BY <1>10 DEF Opened, o
  <2>2. phase' = [phase EXCEPT ![o] = "ready"]
    BY <2>1 DEF Life!HandshakeEnds
  <2>3. op'.name = "none" /\ op'.awaits = "none" /\ opening'.session = 0
    BY <2>1, OperationsAre DEF NoTarget
  <2>4. StagesFit'
    BY <2>3 DEF StagesFit, Stages
  <2>5. OpenedInOrder'
    <3>1. \A s \in Sessions : 0 <= s
      BY <1>4
    <3> QED BY <1>8, <2>2, <2>3, <3>1 DEF OpenedInOrder, N
  <2>6. OneSession'
    <3>1. \A s \in Sessions : s # o => phase[s] \in {"new", "failed", "closed"}
      BY <1>2, NoSession DEF OneSession, o
    <3>2. /\ phase'[o] = "ready" /\ current' = o
          /\ \A s \in Sessions : s # o => phase'[s] = phase[s]
      BY <1>1, <1>8, <2>1, <2>2
    <3> QED BY <1>1, <2>3, <3>1, <3>2 DEF OneSession
  <2>7. Life!Next
    BY <1>1, <2>1 DEF Life!Next
  <2> QED BY <2>4, <2>5, <2>6, <2>7
<1>11. CASE OpenRaises
  <2>1. Life!OpenFails(o) /\ op' = NoOperation /\ opening' = NoTarget /\ current' = current
    BY <1>11 DEF OpenRaises, o
  <2>2. phase' = [phase EXCEPT ![o] = "failed"]
    BY <2>1 DEF Life!OpenFails
  <2>3. op'.name = "none" /\ op'.awaits = "none" /\ opening'.session = 0
    BY <2>1, OperationsAre DEF NoTarget
  <2>4. StagesFit'
    BY <2>3 DEF StagesFit, Stages
  <2>5. OpenedInOrder'
    <3>1. \A s \in Sessions : 0 <= s
      BY <1>4
    <3> QED BY <1>8, <2>2, <2>3, <3>1 DEF OpenedInOrder, N
  <2>6. OneSession'
    <3>1. current # 0 => phase'[current] = "closed"
      BY <1>1, <1>2, <1>8, <2>2
    <3>2. \A s \in Sessions : s # o /\ s # current => phase[s] \in {"new", "failed", "closed"}
      BY DEF OneSession, o
    <3>3. \A s \in Sessions : s # current => phase'[s] \in {"new", "failed", "closed"}
      BY <1>8, <2>2, <3>2
    <3> QED BY <2>1, <2>3, <3>1, <3>3 DEF OneSession
  <2>7. Life!Next
    BY <1>1, <2>1 DEF Life!Next
  <2> QED BY <2>4, <2>5, <2>6, <2>7
<1> QED BY <1>9, <1>10, <1>11

\* close, and the first half of a reconnect.
LEMMA ClosingCourse ==
  ASSUME LifeInv, Types, Course,
         BeginClose("close") \/ BeginClose("reconnect") \/ CloseAwaits \/ Closed
  PROVE  /\ Course'
         /\ [Life!Next]_sessionVars
<1> USE DEF Course
<1>1. DOMAIN phase = Sessions
  BY DEF LifeInv, LifeTypes
<1>2. current \in Sessions
  BY DEF Types, BeginClose, Begin, CloseAwaits, Closed, OneSession
<1>3. current # 0 /\ op.awaits \notin {"open", "mdns"}
  BY <1>2, NoSession DEF BeginClose, Begin, CloseAwaits, Closed, StagesFit
<1>4. opening.session = 0
  BY <1>3 DEF OpenedInOrder
<1>5. ASSUME NEW state, state # "new", phase[current] # "new", phase' = [phase EXCEPT ![current] = state]
      PROVE  /\ \A s \in Sessions : phase'[s] = "new" <=> phase[s] = "new"
             /\ phase'[current] = state /\ \A s \in Sessions : s # current => phase'[s] = phase[s]
  BY <1>1, <1>2, <1>5
<1>6. \A s \in Sessions : s # current => phase[s] \in {"new", "failed", "closed"}
  BY <1>4, NoSession DEF OneSession
<1>7. ASSUME NEW name \in {"close", "reconnect"}, BeginClose(name)
      PROVE  Course' /\ Life!Next
  <2>1. /\ Life!CloseBegins(current) /\ op' = Operation(name, "close")
        /\ UNCHANGED <<current, opening>>
        /\ name = "reconnect" => \E s \in Sessions : phase[s] = "new"
    BY <1>7 DEF BeginClose, Begin
  <2>2. phase' = [phase EXCEPT ![current] = "select"] /\ phase[current] # "new"
    BY <2>1 DEF Life!CloseBegins, Life!Closing
  <2>3. op'.name = name /\ op'.awaits = "close"
    BY <2>1, OperationsAre
  <2>4. StagesFit'
    BY <2>3 DEF StagesFit, Stages
  <2>5. OpenedInOrder'
    BY <1>4, <1>5, <2>1, <2>2, <2>3 DEF OpenedInOrder
  <2>6. OneSession'
    <3>1. phase'[current] \in ClosingPhases
      BY <1>5, <2>2 DEF ClosingPhases
    <3>2. \A s \in Sessions : s # current => phase'[s] \in {"new", "failed", "closed"}
      BY <1>5, <1>6, <2>2
    <3> QED BY <1>3, <2>1, <2>3, <3>1, <3>2 DEF OneSession
  <2>7. Life!Next
    BY <1>2, <2>1 DEF Life!Next
  <2> QED BY <2>4, <2>5, <2>6, <2>7
<1>8. ASSUME CloseAwaits PROVE Course' /\ Life!Next
  <2>1. /\ Life!CloseAwaits(current) /\ op.awaits = "close" /\ UNCHANGED <<current, opening>>
        /\ op' = IF phase'[current] = "raised" THEN NoOperation ELSE op
    BY <1>8 DEF CloseAwaits, client
  <2>2. PICK state \in {"raised", "ping", "keepalive", "transport"} : phase' = [phase EXCEPT ![current] = state]
    BY <2>1, AwaitedAre, TaskNamesAre DEF Life!CloseAwaits
  <2>3. phase[current] # "new"
    BY <2>1, TaskNamesAre DEF Life!CloseAwaits
  <2>4. /\ \A s \in Sessions : phase'[s] = "new" <=> phase[s] = "new"
        /\ phase'[current] = state /\ \A s \in Sessions : s # current => phase'[s] = phase[s]
    BY <1>5, <2>2, <2>3
  <2>5. CASE state = "raised"
    <3>1. op'.name = "none" /\ op'.awaits = "none"
      BY <2>1, <2>4, <2>5, OperationsAre
    <3>2. StagesFit'
      BY <3>1 DEF StagesFit, Stages
    <3>3. OpenedInOrder'
      BY <1>4, <2>1, <2>4, <3>1 DEF OpenedInOrder
    <3>4. OneSession'
      BY <1>3, <1>6, <2>1, <2>4, <2>5, <3>1 DEF OneSession
    <3> QED BY <1>2, <2>1, <3>2, <3>3, <3>4 DEF Life!Next
  <2>6. CASE state # "raised"
    <3>1. op' = op
      BY <2>1, <2>4, <2>6
    <3>2. StagesFit'
      BY <3>1 DEF StagesFit
    <3>3. OpenedInOrder'
      BY <1>4, <2>1, <2>4, <3>1 DEF OpenedInOrder
    <3>4. OneSession'
      BY <1>3, <1>6, <2>1, <2>4, <2>6, <3>1 DEF OneSession, ClosingPhases
    <3> QED BY <1>2, <2>1, <3>2, <3>3, <3>4 DEF Life!Next
  <2> QED BY <2>5, <2>6
<1>9. ASSUME Closed PROVE Course' /\ Life!Next
  <2>1. /\ Life!CloseTransport(current) /\ op.awaits = "close" /\ UNCHANGED current
        /\ \/ /\ op.name = "reconnect" /\ op' = Operation("reconnect", "mdns") /\ UNCHANGED opening
           \/ /\ op.name # "reconnect" /\ op' = NoOperation /\ UNCHANGED opening
           \/ /\ op.name = "reconnect" /\ op' = Operation("reconnect", "open") /\ opening' = Fresh
    BY <1>9 DEF Closed
  <2>2. phase' = [phase EXCEPT ![current] = "closed"] /\ phase[current] # "new"
    BY <2>1 DEF Life!CloseTransport
  <2>3. /\ \A s \in Sessions : phase'[s] = "new" <=> phase[s] = "new"
        /\ phase'[current] = "closed" /\ \A s \in Sessions : s # current => phase'[s] = phase[s]
    BY <1>5, <2>2
  <2>4. CASE op.name = "reconnect" /\ op' = Operation("reconnect", "mdns") /\ UNCHANGED opening
    <3>1. op'.name = "reconnect" /\ op'.awaits = "mdns"
      BY <2>4, OperationsAre
    <3>2. StagesFit'
      BY <3>1 DEF StagesFit, Stages
    <3>3. OpenedInOrder'
      BY <1>4, <2>1, <2>3, <2>4, <3>1 DEF OpenedInOrder
    <3>4. OneSession'
      BY <1>3, <1>6, <2>1, <2>3, <3>1 DEF OneSession
    <3> QED BY <1>2, <2>1, <3>2, <3>3, <3>4 DEF Life!Next
  <2>5. CASE op.name # "reconnect" /\ op' = NoOperation /\ UNCHANGED opening
    <3>1. op'.name = "none" /\ op'.awaits = "none"
      BY <2>5, OperationsAre
    <3>2. StagesFit'
      BY <3>1 DEF StagesFit, Stages
    <3>3. OpenedInOrder'
      BY <1>4, <2>1, <2>3, <2>5, <3>1 DEF OpenedInOrder
    <3>4. OneSession'
      BY <1>3, <1>6, <2>1, <2>3, <3>1 DEF OneSession
    <3> QED BY <1>2, <2>1, <3>2, <3>3, <3>4 DEF Life!Next
  <2>6. CASE op.name = "reconnect" /\ op' = Operation("reconnect", "open") /\ opening' = Fresh
    <3>1. op'.name = "reconnect" /\ op'.awaits = "open"
      BY <2>6, OperationsAre
    <3>2. \E s \in Sessions : phase[s] = "new"
      BY <2>1, <2>6 DEF OpenedInOrder
    <3>3. /\ Fresh.session \in Sessions /\ phase[Fresh.session] = "new" /\ Fresh.session # 0
          /\ \A s \in Sessions : phase[s] = "new" => Fresh.session <= s
      BY <3>2, FreshIsNext
    <3>4. StagesFit'
      BY <3>1 DEF StagesFit, Stages
    <3>5. OpenedInOrder'
      BY <2>3, <2>6, <3>1, <3>3 DEF OpenedInOrder
    <3>6. OneSession'
      BY <1>3, <1>6, <2>1, <2>3, <3>1 DEF OneSession
    <3> QED BY <1>2, <2>1, <3>4, <3>5, <3>6 DEF Life!Next
  <2> QED BY <2>1, <2>4, <2>5, <2>6
<1> QED BY <1>7, <1>8, <1>9

\* The rediscovery of a reconnect.
LEMMA RediscoveryCourse ==
  ASSUME Types, Course, Rediscovered
  PROVE  Course'
<1> USE DEF Course
<1>1. op.awaits = "mdns" /\ UNCHANGED <<phase, current>> /\ op.name = "reconnect"
  BY DEF Rediscovered, sessionVars, StagesFit, Stages
<1>2. \/ UNCHANGED <<op, opening>>
      \/ op' = NoOperation /\ UNCHANGED opening
      \/ op' = Operation("reconnect", "open") /\ opening'.session = Fresh.session
  BY DEF Rediscovered, Fresh
<1>3. CASE UNCHANGED <<op, opening>>
  BY <1>1, <1>3, ReadingKeepsCourse
<1>4. current # 0 /\ phase[current] = "closed" /\ opening.session = 0
  BY <1>1 DEF OneSession, OpenedInOrder
<1>5. \A s \in Sessions : s # current => phase[s] \in {"new", "failed", "closed"}
  BY <1>4, NoSession DEF OneSession
<1>6. CASE op' = NoOperation /\ UNCHANGED opening
  <2>1. op'.name = "none" /\ op'.awaits = "none"
    BY <1>6, OperationsAre
  <2>2. StagesFit'
    BY <2>1 DEF StagesFit, Stages
  <2>3. OpenedInOrder'
    BY <1>1, <1>4, <1>6, <2>1 DEF OpenedInOrder
  <2>4. OneSession'
    BY <1>1, <1>4, <1>5, <2>1 DEF OneSession
  <2> QED BY <2>2, <2>3, <2>4
<1>7. CASE op' = Operation("reconnect", "open") /\ opening'.session = Fresh.session
  <2>1. op'.name = "reconnect" /\ op'.awaits = "open"
    BY <1>7, OperationsAre
  <2>2. /\ Fresh.session \in Sessions /\ phase[Fresh.session] = "new" /\ Fresh.session # 0
        /\ \A s \in Sessions : phase[s] = "new" => Fresh.session <= s
    BY <1>1, FreshIsNext DEF OpenedInOrder
  <2>3. StagesFit'
    BY <2>1 DEF StagesFit, Stages
  <2>4. OpenedInOrder'
    BY <1>1, <1>7, <2>1, <2>2 DEF OpenedInOrder
  <2>5. OneSession'
    BY <1>1, <1>4, <1>5, <2>1 DEF OneSession
  <2> QED BY <2>3, <2>4, <2>5
<1> QED BY <1>2, <1>3, <1>6, <1>7

-----------------------------------------------------------------------------
(* How messages move. *)

\* A new session has nothing under way.
LEMMA NothingUnderWay ==
  ASSUME NEW n
  PROVE  InOrder(<<>>, <<>>, <<>>, n)
  BY NoItems DEF InOrder

\* The counter may grow by a read that was not sent.
LEMMA CounterGrows ==
  ASSUME NEW p, NEW c, NEW k, NEW n \in Nat, InOrder(p, c, k, n), NEW m \in Nat, n <= m
  PROVE  InOrder(p, c, k, m)
<1>1. 1 .. (n - 1) \subseteq 1 .. (m - 1) /\ 0 .. (n - 1) \subseteq 0 .. (m - 1)
  OBVIOUS
<1> QED BY <1>1 DEF InOrder

\* The next message is received, and nothing else under way has its counter.
LEMMA MessageLeaves ==
  ASSUME NEW p, NEW c, NEW k, NEW n \in Nat, InOrder(p, c, k, n), c # <<>>
  PROVE  /\ InOrder(p, Tail(c), k, n)
         /\ Head(c) \in ToSet(c) /\ Head(c).ref \in Nat
         /\ ToSet(Tail(c)) \subseteq ToSet(c)
         /\ Head(c).ref # 0 => \A m \in ToSet(p) \cup ToSet(Tail(c)) : m.ref # Head(c).ref
<1>1. IsSequence(c) /\ IsSequence(Tail(c)) /\ Head(c) \in ToSet(c) /\ ToSet(Tail(c)) \subseteq ToSet(c)
  BY TakenItem DEF InOrder
<1>2. /\ 1 \in DOMAIN c /\ Head(c) = c[1] /\ DOMAIN c \subseteq Nat \ {0}
      /\ \A i \in DOMAIN Tail(c) : i \in Nat \ {0} /\ i + 1 \in DOMAIN c /\ Tail(c)[i] = c[i + 1]
  BY <1>1, TakenPlaces
<1> DEFINE d == Tail(c)
<1>3. \A i \in DOMAIN d, j \in DOMAIN d : i < j => i + 1 < j + 1
  BY <1>2
<1>4. Head(c).ref \in 0 .. (n - 1)
  BY <1>2 DEF InOrder
<1>5. ASSUME NEW m \in ToSet(p), Head(c).ref # 0 PROVE m.ref # Head(c).ref
  <2>1. PICK i \in DOMAIN p : m = p[i]
    BY DEF ToSet
  <2>2. c[1].ref < p[i].ref /\ p[i].ref \in 1 .. (n - 1)
    BY <1>2 DEF InOrder
  <2> QED BY <1>2, <1>4, <2>1, <2>2
<1>6. ASSUME NEW m \in ToSet(d), Head(c).ref # 0 PROVE m.ref # Head(c).ref
  <2>1. PICK i \in DOMAIN d : m = d[i]
    BY DEF ToSet
  <2>2. i \in Nat \ {0} /\ m = c[i + 1] /\ i + 1 \in DOMAIN c /\ 1 < i + 1
    BY <1>2, <2>1
  <2>3. m.ref # 0 => c[1].ref < m.ref
    BY <1>2, <2>2 DEF InOrder
  <2>4. m.ref \in 0 .. (n - 1)
    BY <2>2 DEF InOrder
  <2> QED BY <1>2, <1>4, <1>6, <2>3, <2>4
<1> HIDE DEF d
<1>7. InOrder(p, d, k, n)
  BY <1>1, <1>2, <1>3 DEF InOrder, d
<1> QED BY <1>1, <1>4, <1>5, <1>6, <1>7 DEF d

\* It may be taken for an answer.
LEMMA MessageIsTaken ==
  ASSUME NEW p, NEW c, NEW k, NEW n \in Nat, InOrder(p, c, k, n), c # <<>>,
         NEW e, e.got = Head(c)
  PROVE  InOrder(p, Tail(c), Append(k, e), n)
<1>1. InOrder(p, Tail(c), k, n)
  BY MessageLeaves
<1>2. IsSequence(c) /\ IsSequence(k) /\ IsSequence(Append(k, e))
  BY AppendedItem DEF InOrder
<1>3. /\ 1 \in DOMAIN c /\ e.got = c[1]
      /\ \A i \in DOMAIN Tail(c) : i \in Nat \ {0} /\ i + 1 \in DOMAIN c /\ Tail(c)[i] = c[i + 1] /\ 1 < i + 1
  BY <1>2, TakenPlaces
<1> DEFINE a == Append(k, e)
           d == Tail(c)
<1>4. /\ \A i \in DOMAIN a : (i \in DOMAIN k /\ a[i] = k[i]) \/ a[i] = e
      /\ \A i \in DOMAIN a, j \in DOMAIN a : i < j =>
            /\ i \in DOMAIN k /\ a[i] = k[i]
            /\ (j \in DOMAIN k /\ a[j] = k[j]) \/ a[j] = e
  <2>1. /\ \A i \in DOMAIN a : (i \in DOMAIN k /\ a[i] = k[i]) \/ (a[i] = e /\ i \notin DOMAIN k)
        /\ \A i \in DOMAIN a, j \in DOMAIN a : i < j => i \in DOMAIN k
    BY <1>2, AppendedPlaces
  <2> HIDE DEF a
  <2> QED BY <2>1
<1> HIDE DEF a, d
<1>5. e.got.ref \in 0 .. (n - 1) /\ \A j \in DOMAIN p : e.got.ref < p[j].ref
  BY <1>3 DEF InOrder
<1>6. \A i \in DOMAIN k : e.got.ref # 0 => k[i].got.ref < e.got.ref
  BY <1>3 DEF InOrder
<1>7. \A j \in DOMAIN d : d[j].ref # 0 => e.got.ref < d[j].ref
  BY <1>3 DEF InOrder, d
<1>8. \A i \in DOMAIN a, j \in DOMAIN p : a[i].got.ref < p[j].ref
  BY <1>1, <1>4, <1>5 DEF InOrder
<1>9. \A i \in DOMAIN a, j \in DOMAIN d : d[j].ref # 0 => a[i].got.ref < d[j].ref
  BY <1>1, <1>4, <1>7 DEF InOrder, d
<1>10. \A i \in DOMAIN a, j \in DOMAIN a : i < j /\ a[j].got.ref # 0 => a[i].got.ref < a[j].got.ref
  BY <1>1, <1>4, <1>6 DEF InOrder
<1>11. \A i \in DOMAIN a : a[i].got.ref \in 0 .. (n - 1)
  BY <1>1, <1>4, <1>5 DEF InOrder
<1> QED BY <1>1, <1>2, <1>8, <1>9, <1>10, <1>11 DEF InOrder, a, d

\* A read is sent with the present counter.
LEMMA ReadIsSent ==
  ASSUME NEW p, NEW c, NEW k, NEW n \in Nat \ {0}, InOrder(p, c, k, n), NEW r, r.ref = n
  PROVE  InOrder(Append(p, r), c, k, n + 1)
<1>1. InOrder(p, c, k, n + 1)
  BY CounterGrows
<1>2. IsSequence(p) /\ IsSequence(Append(p, r))
  BY AppendedItem DEF InOrder
<1> DEFINE a == Append(p, r)
<1>3. /\ \A i \in DOMAIN a : (i \in DOMAIN p /\ a[i] = p[i]) \/ a[i] = r
      /\ \A i \in DOMAIN a, j \in DOMAIN a : i < j =>
            /\ i \in DOMAIN p /\ a[i] = p[i]
            /\ (j \in DOMAIN p /\ a[j] = p[j]) \/ a[j] = r
  <2>1. /\ \A i \in DOMAIN a : (i \in DOMAIN p /\ a[i] = p[i]) \/ (a[i] = r /\ i \notin DOMAIN p)
        /\ \A i \in DOMAIN a, j \in DOMAIN a : i < j => i \in DOMAIN p
    BY <1>2, AppendedPlaces
  <2> HIDE DEF a
  <2> QED BY <2>1
<1> HIDE DEF a
<1>4. n \in 1 .. (n + 1 - 1)
      /\ \A x \in 1 .. (n - 1) : x < n
      /\ \A y \in 0 .. (n - 1) : y < n
  OBVIOUS
<1>5. \A i \in DOMAIN a : a[i].ref \in 1 .. (n + 1 - 1)
  BY <1>1, <1>3, <1>4 DEF InOrder
<1>6. \A i \in DOMAIN a, j \in DOMAIN a : i < j => a[i].ref < a[j].ref
  BY <1>3, <1>4 DEF InOrder
<1>7. \A i \in DOMAIN c, j \in DOMAIN a : c[i].ref < a[j].ref
  BY <1>3, <1>4 DEF InOrder
<1>8. \A i \in DOMAIN k, j \in DOMAIN a : k[i].got.ref < a[j].ref
  BY <1>3, <1>4 DEF InOrder
<1> QED BY <1>1, <1>2, <1>5, <1>6, <1>7, <1>8 DEF InOrder, a

\* The peer takes the next read, and may answer it.
LEMMA ReadIsTaken ==
  ASSUME NEW p, NEW c, NEW k, NEW n \in Nat, InOrder(p, c, k, n), p # <<>>
  PROVE  /\ Head(p) \in ToSet(p) /\ ToSet(Tail(p)) \subseteq ToSet(p)
         /\ Head(p).ref \in Nat
         /\ InOrder(Tail(p), c, k, n)
         /\ \A m : m.ref = Head(p).ref => InOrder(Tail(p), Append(c, m), k, n)
<1>1. IsSequence(p) /\ IsSequence(Tail(p)) /\ Head(p) \in ToSet(p) /\ ToSet(Tail(p)) \subseteq ToSet(p)
  BY TakenItem DEF InOrder
<1>2. /\ 1 \in DOMAIN p /\ Head(p) = p[1]
      /\ \A i \in DOMAIN Tail(p) : i \in Nat \ {0} /\ i + 1 \in DOMAIN p /\ Tail(p)[i] = p[i + 1] /\ 1 < i + 1
  BY <1>1, TakenPlaces
<1> DEFINE q == Tail(p)
           r == Head(p).ref
<1>3. \A i \in DOMAIN q, j \in DOMAIN q : i < j => i + 1 < j + 1
  BY <1>2
<1>4. r \in 1 .. (n - 1) /\ r \in Nat /\ r \in 0 .. (n - 1)
  BY <1>2 DEF InOrder
<1> HIDE DEF q
<1>5. InOrder(q, c, k, n)
  BY <1>1, <1>2, <1>3 DEF InOrder, q
<1>6. /\ \A j \in DOMAIN q : r < q[j].ref
      /\ \A i \in DOMAIN c : c[i].ref < r
      /\ \A i \in DOMAIN k : k[i].got.ref < r
  BY <1>2 DEF InOrder, q
<1>7. ASSUME NEW m, m.ref = r PROVE InOrder(q, Append(c, m), k, n)
  <2> DEFINE a == Append(c, m)
  <2>1. IsSequence(c) /\ IsSequence(a)
    BY AppendedItem DEF InOrder
  <2>2. /\ \A i \in DOMAIN a : (i \in DOMAIN c /\ a[i] = c[i]) \/ a[i] = m
        /\ \A i \in DOMAIN a, j \in DOMAIN a : i < j =>
              /\ i \in DOMAIN c /\ a[i] = c[i]
              /\ (j \in DOMAIN c /\ a[j] = c[j]) \/ a[j] = m
    <3>1. /\ \A i \in DOMAIN a : (i \in DOMAIN c /\ a[i] = c[i]) \/ (a[i] = m /\ i \notin DOMAIN c)
          /\ \A i \in DOMAIN a, j \in DOMAIN a : i < j => i \in DOMAIN c
      BY <2>1, AppendedPlaces
    <3> HIDE DEF a
    <3> QED BY <3>1
  <2> HIDE DEF a, r
  <2>3. \A i \in DOMAIN a : a[i].ref \in 0 .. (n - 1)
    BY <1>4, <1>5, <1>7, <2>2 DEF InOrder
  <2>4. \A i \in DOMAIN a, j \in DOMAIN a : i < j /\ a[j].ref # 0 => a[i].ref < a[j].ref
    BY <1>5, <1>6, <1>7, <2>2 DEF InOrder
  <2>5. \A i \in DOMAIN a, j \in DOMAIN q : a[i].ref < q[j].ref
    BY <1>5, <1>6, <1>7, <2>2 DEF InOrder
  <2>6. \A i \in DOMAIN k, j \in DOMAIN a : a[j].ref # 0 => k[i].got.ref < a[j].ref
    BY <1>5, <1>6, <1>7, <2>2 DEF InOrder
  <2> QED BY <1>5, <2>1, <2>3, <2>4, <2>5, <2>6 DEF InOrder, a
<1> QED BY <1>1, <1>4, <1>5, <1>7 DEF q

\* A message that nobody asked for has no place in the order.
LEMMA MessageComesUnasked ==
  ASSUME NEW p, NEW c, NEW k, NEW n \in Nat \ {0}, InOrder(p, c, k, n), NEW m, m.ref = 0
  PROVE  InOrder(p, Append(c, m), k, n)
<1> DEFINE a == Append(c, m)
<1>1. IsSequence(c) /\ IsSequence(a)
  BY AppendedItem DEF InOrder
<1>2. /\ \A i \in DOMAIN a : (i \in DOMAIN c /\ a[i] = c[i]) \/ a[i] = m
      /\ \A i \in DOMAIN a, j \in DOMAIN a : i < j =>
            /\ i \in DOMAIN c /\ a[i] = c[i]
            /\ (j \in DOMAIN c /\ a[j] = c[j]) \/ a[j] = m
  <2>1. /\ \A i \in DOMAIN a : (i \in DOMAIN c /\ a[i] = c[i]) \/ (a[i] = m /\ i \notin DOMAIN c)
        /\ \A i \in DOMAIN a, j \in DOMAIN a : i < j => i \in DOMAIN c
    BY <1>1, AppendedPlaces
  <2> HIDE DEF a
  <2> QED BY <2>1
<1> HIDE DEF a
<1>3. 0 \in 0 .. (n - 1) /\ \A x \in 1 .. (n - 1) : 0 < x
  OBVIOUS
<1>4. \A i \in DOMAIN a : a[i].ref \in 0 .. (n - 1)
  BY <1>2, <1>3 DEF InOrder
<1>5. \A i \in DOMAIN a, j \in DOMAIN a : i < j /\ a[j].ref # 0 => a[i].ref < a[j].ref
  BY <1>2 DEF InOrder
<1>6. \A i \in DOMAIN a, j \in DOMAIN p : a[i].ref < p[j].ref
  BY <1>2, <1>3 DEF InOrder
<1>7. \A i \in DOMAIN k, j \in DOMAIN a : a[j].ref # 0 => k[i].got.ref < a[j].ref
  BY <1>2 DEF InOrder
<1> QED BY <1>1, <1>4, <1>5, <1>6, <1>7 DEF InOrder, a

\* The reads of a step, one after the other.
LEMMA SentReads ==
  ASSUME IsSequence(toPeer), counter \in Nat
  PROVE  /\ Sends(<<>>) => toPeer' = toPeer /\ counter' = counter
         /\ \A f : Sends(<<f>>) =>
               toPeer' = Append(toPeer, [fn |-> f, ref |-> counter]) /\ counter' = counter + 1
         /\ \A f, g : Sends(<<f, g>>) =>
               /\ toPeer' = Append(Append(toPeer, [fn |-> f, ref |-> counter]), [fn |-> g, ref |-> counter + 1])
               /\ counter' = counter + 2
<1> DEFINE R(f, n) == [fn |-> f, ref |-> n]
<1>1. ASSUME Sends(<<>>) PROVE toPeer' = toPeer /\ counter' = counter
  <2> DEFINE S == ToSet(toPeer)
  <2>1. toPeer \in Seq(S)
    BY DEF IsSequence
  <2>2. toPeer' = toPeer \o [i \in DOMAIN <<>> |-> R(<<>>[i], counter + i - 1)] /\ counter' = counter + 0
    BY <1>1 DEF Sends
  <2>3. [i \in DOMAIN <<>> |-> R(<<>>[i], counter + i - 1)] = <<>>
    OBVIOUS
  <2> HIDE DEF S, R
  <2>4. toPeer \o <<>> = toPeer
    BY <2>1
  <2> QED BY <2>2, <2>3, <2>4
<1>2. ASSUME NEW f, Sends(<<f>>)
      PROVE  toPeer' = Append(toPeer, R(f, counter)) /\ counter' = counter + 1
  <2> DEFINE S == ToSet(toPeer) \cup {R(f, counter)}
  <2>1. toPeer \in Seq(S) /\ R(f, counter) \in S
    BY DEF IsSequence
  <2>2. toPeer' = toPeer \o [i \in DOMAIN <<f>> |-> R(<<f>>[i], counter + i - 1)] /\ counter' = counter + 1
    BY <1>2 DEF Sends
  <2>3. [i \in DOMAIN <<f>> |-> R(<<f>>[i], counter + i - 1)] = <<R(f, counter)>>
    OBVIOUS
  <2> HIDE DEF S, R
  <2>4. toPeer \o <<R(f, counter)>> = Append(toPeer, R(f, counter))
    BY <2>1
  <2> QED BY <2>2, <2>3, <2>4
<1>3. ASSUME NEW f, NEW g, Sends(<<f, g>>)
      PROVE  /\ toPeer' = Append(Append(toPeer, R(f, counter)), R(g, counter + 1))
             /\ counter' = counter + 2
  <2> DEFINE S == ToSet(toPeer) \cup {R(f, counter), R(g, counter + 1)}
  <2>1. toPeer \in Seq(S) /\ R(f, counter) \in S /\ R(g, counter + 1) \in S
    BY DEF IsSequence
  <2>2. toPeer' = toPeer \o [i \in DOMAIN <<f, g>> |-> R(<<f, g>>[i], counter + i - 1)] /\ counter' = counter + 2
    BY <1>3 DEF Sends
  <2>3. [i \in DOMAIN <<f, g>> |-> R(<<f, g>>[i], counter + i - 1)] = <<R(f, counter), R(g, counter + 1)>>
    <3>1. counter + 1 - 1 = counter /\ counter + 2 - 1 = counter + 1
      OBVIOUS
    <3> QED BY <3>1
  <2> HIDE DEF S, R
  <2>4. toPeer \o <<R(f, counter), R(g, counter + 1)>> = Append(Append(toPeer, R(f, counter)), R(g, counter + 1))
    BY <2>1
  <2> QED BY <2>2, <2>3, <2>4
<1> QED BY <1>1, <1>2, <1>3

\* Sequences of one and two elements.
LEMMA ShortSequences ==
  /\ Len(<<>>) = 0 /\ <<>> \o <<>> = <<>>
  /\ \A e : Len(<<e>>) = 1 /\ <<e>> \o <<>> = <<e>> /\ <<>> \o <<e>> = <<e>>
  /\ \A e, f : <<e>> \o <<f>> = <<e, f>>
<1>1. Len(<<>>) = 0 /\ <<>> \o <<>> = <<>>
  OBVIOUS
<1>2. ASSUME NEW e PROVE Len(<<e>>) = 1 /\ <<e>> \o <<>> = <<e>> /\ <<>> \o <<e>> = <<e>>
  <2> DEFINE S == {e}
  <2>1. <<e>> \in Seq(S)
    OBVIOUS
  <2> HIDE DEF S
  <2> QED BY <2>1
<1>3. ASSUME NEW e, NEW f PROVE <<e>> \o <<f>> = <<e, f>>
  <2> DEFINE S == {e, f}
  <2>1. e \in S /\ f \in S
    OBVIOUS
  <2> HIDE DEF S
  <2>2. <<e>> \in Seq(S) /\ <<f>> \in Seq(S)
    BY <2>1
  <2>3. /\ <<e>> \o <<f>> \in Seq(S) /\ Len(<<e>> \o <<f>>) = 2
        /\ (<<e>> \o <<f>>)[1] = e /\ (<<e>> \o <<f>>)[2] = f
    BY <2>2
  <2>4. <<e, f>> \in Seq(S) /\ Len(<<e, f>>) = 2 /\ <<e, f>>[1] = e /\ <<e, f>>[2] = f
    BY <2>1
  <2> DEFINE s == <<e>> \o <<f>>
             t == <<e, f>>
  <2> HIDE DEF s, t
  <2>5. DOMAIN s = 1 .. 2 /\ DOMAIN t = 1 .. 2 /\ s \in Seq(S) /\ t \in Seq(S)
    BY <2>3, <2>4 DEF s, t
  <2>6. \A i \in 1 .. 2 : s[i] = t[i]
    <3>1. \A i \in 1 .. 2 : i = 1 \/ i = 2
      OBVIOUS
    <3> QED BY <2>3, <2>4, <3>1 DEF s, t
  <2>7. s = t
    BY <2>5, <2>6
  <2> QED BY <2>7 DEF s, t
<1> QED BY <1>1, <1>2, <1>3

\* A number and the two after it.
LEMMA NextNumbers ==
  \A n \in Nat \ {0} :
     /\ n + 0 = n /\ n <= n /\ n < n + 1 /\ n <= n + 1 /\ n + 1 < n + 2 /\ n <= n + 2
     /\ n + 1 \in Nat \ {0} /\ n + 2 \in Nat \ {0} /\ (n + 1) + 1 = n + 2
  OBVIOUS

\* After the reads of a bootstrap and of the operation, the order holds; what is
\* new to the peer is a read of the use cases, or the operation's own.
LEMMA ReadsAreSent ==
  ASSUME NEW c, NEW k, InOrder(toPeer, c, k, counter), counter \in Nat \ {0},
         NEW bootstrap \in {<<>>, <<"use cases">>}, NEW fn \in Functions \cup {"none"},
         Sends(bootstrap \o IF fn = "none" THEN <<>> ELSE <<fn>>)
  PROVE  /\ InOrder(toPeer', c, k, counter')
         /\ counter' \in Nat \ {0} /\ counter <= counter' /\ counter + Len(bootstrap) \in Nat \ {0}
         /\ fn # "none" => counter + Len(bootstrap) < counter' /\ counter <= counter + Len(bootstrap)
         /\ \A m \in ToSet(toPeer') :
               \/ m \in ToSet(toPeer)
               \/ m.fn = "use cases"
               \/ fn # "none" /\ m.fn = fn /\ m.ref = counter + Len(bootstrap)
<1>1. IsSequence(toPeer)
  BY DEF InOrder
<1> DEFINE r == [fn |-> "use cases", ref |-> counter]
<1>2. InOrder(Append(toPeer, r), c, k, counter + 1) /\ IsSequence(Append(toPeer, r))
      /\ ToSet(Append(toPeer, r)) = ToSet(toPeer) \cup {r}
  BY <1>1, ReadIsSent, AppendedItem
<1>3. Len(<<>>) = 0 /\ Len(<<"use cases">>) = 1
  BY ShortSequences
<1> DEFINE l == Len(bootstrap)
           old == ToSet(toPeer)
<1> HIDE DEF l, old
<1>4. CASE bootstrap = <<>> /\ fn = "none"
  <2>1. Sends(<<>>)
    BY <1>4, ShortSequences
  <2>2. toPeer' = toPeer /\ counter' = counter
    BY <1>1, <2>1, SentReads
  <2>3. l = 0
    BY <1>3, <1>4 DEF l
  <2> QED BY <1>4, <2>2, <2>3, NextNumbers DEF l
<1>5. CASE bootstrap = <<>> /\ fn # "none"
  <2> DEFINE q == [fn |-> fn, ref |-> counter]
  <2>1. Sends(<<fn>>)
    BY <1>5, ShortSequences
  <2>2. toPeer' = Append(toPeer, q) /\ counter' = counter + 1
    BY <1>1, <2>1, SentReads
  <2>3. InOrder(Append(toPeer, q), c, k, counter + 1) /\ ToSet(Append(toPeer, q)) = ToSet(toPeer) \cup {q}
    BY <1>1, ReadIsSent, AppendedItem
  <2>6. l = 0
    BY <1>3, <1>5 DEF l
  <2>7. \A m \in ToSet(toPeer') :
           \/ m \in ToSet(toPeer)
           \/ m.fn = "use cases"
           \/ fn # "none" /\ m.fn = fn /\ m.ref = counter + l
    <3>1. q.fn = fn /\ q.ref = counter
      OBVIOUS
    <3>2. counter + l = counter
      BY <2>6, NextNumbers
    <3> HIDE DEF q
    <3> QED BY <1>5, <2>2, <2>3, <3>1, <3>2
  <2>8. InOrder(toPeer', c, k, counter')
    BY <2>2, <2>3
  <2>9. /\ counter' \in Nat \ {0} /\ counter <= counter' /\ counter + l \in Nat \ {0}
        /\ fn # "none" => counter + l < counter' /\ counter <= counter + l
    BY <1>5, <2>2, <2>6, NextNumbers
  <2> QED BY <2>7, <2>8, <2>9 DEF l
<1>6. CASE bootstrap = <<"use cases">> /\ fn = "none"
  <2>1. Sends(<<"use cases">>)
    BY <1>6, ShortSequences
  <2>2. toPeer' = Append(toPeer, r) /\ counter' = counter + 1
    BY <1>1, <2>1, SentReads
  <2>6. l = 1
    BY <1>3, <1>6 DEF l
  <2>7. \A m \in ToSet(toPeer') :
           \/ m \in ToSet(toPeer)
           \/ m.fn = "use cases"
           \/ fn # "none" /\ m.fn = fn /\ m.ref = counter + l
    <3>1. r.fn = "use cases"
      OBVIOUS
    <3> HIDE DEF r
    <3> QED BY <1>6, <1>2, <2>2, <3>1
  <2>8. InOrder(toPeer', c, k, counter')
    BY <1>2, <2>2
  <2>9. /\ counter' \in Nat \ {0} /\ counter <= counter' /\ counter + l \in Nat \ {0}
        /\ fn # "none" => counter + l < counter' /\ counter <= counter + l
    BY <1>6, <2>2, <2>6, NextNumbers
  <2> QED BY <2>7, <2>8, <2>9 DEF l
<1>7. CASE bootstrap = <<"use cases">> /\ fn # "none"
  <2> DEFINE q == [fn |-> fn, ref |-> counter + 1]
  <2>1. Sends(<<"use cases", fn>>)
    BY <1>7, ShortSequences
  <2>2. toPeer' = Append(Append(toPeer, r), q) /\ counter' = counter + 2
    BY <1>1, <2>1, SentReads
  <2>3. counter + 1 \in Nat \ {0} /\ (counter + 1) + 1 = counter + 2
    BY NextNumbers
  <2>4. InOrder(Append(Append(toPeer, r), q), c, k, counter + 2)
    BY <1>2, <2>3, ReadIsSent
  <2>5. ToSet(Append(Append(toPeer, r), q)) = (ToSet(toPeer) \cup {r}) \cup {q}
    <3>1. ToSet(Append(Append(toPeer, r), q)) = ToSet(Append(toPeer, r)) \cup {q}
      BY <1>2, AppendedItem
    <3> QED BY <1>2, <3>1
  <2>6. l = 1
    BY <1>3, <1>7 DEF l
  <2>7. \A m \in ToSet(toPeer') :
           \/ m \in ToSet(toPeer)
           \/ m.fn = "use cases"
           \/ fn # "none" /\ m.fn = fn /\ m.ref = counter + l
    <3>1. q.fn = fn /\ q.ref = counter + 1 /\ r.fn = "use cases"
      OBVIOUS
    <3>2. counter + l = counter + 1
      BY <2>6, NextNumbers
    <3> HIDE DEF q, r
    <3> QED BY <1>7, <2>2, <2>5, <3>1, <3>2
  <2>8. InOrder(toPeer', c, k, counter')
    BY <2>2, <2>4
  <2>9. /\ counter' \in Nat \ {0} /\ counter <= counter' /\ counter + l \in Nat \ {0}
        /\ fn # "none" => counter + l < counter' /\ counter <= counter + l
    BY <1>7, <2>2, <2>6, NextNumbers
  <2> QED BY <2>7, <2>8, <2>9 DEF l
<1> QED BY <1>4, <1>5, <1>6, <1>7

-----------------------------------------------------------------------------
(* Whose answers are under way. *)

UnderWay == ToSet(toPeer) \cup ToSet(toClient)

\* What may be new under way: the answer to a request, or what no request is for.
NothingNew ==
  \A m \in UnderWay' : \/ \E old \in UnderWay : m.fn = old.fn /\ m.ref = old.ref
                       \/ m.fn \notin Functions \/ m.ref = 0

\* An operation that waits on still waits for its own answer.
LEMMA StillWaiting ==
  ASSUME OwnOrAbandoned, NothingNew, counter \in Nat, counter' \in Nat, counter <= counter',
         op'.awaits = op.awaits, op'.ref = op.ref, abandoned' = abandoned
  PROVE  OwnOrAbandoned'
<1>1. \A m \in UnderWay' : Fits(m)'
  BY DEF OwnOrAbandoned, NothingNew, Fits, IsOwn, UnderWay
<1>2. (IF op.awaits \in Functions THEN op.ref \in 1 .. (counter - 1) ELSE op.ref = 0)'
  BY DEF OwnOrAbandoned
<1> QED BY <1>1, <1>2 DEF OwnOrAbandoned, UnderWay

\* An operation that ends without its answer leaves it to whoever asks next.
LEMMA WaitIsOver ==
  ASSUME OwnOrAbandoned, NothingNew, op'.awaits \notin Functions, op'.ref = 0,
         abandoned \subseteq abandoned', op.awaits \in Functions => op.awaits \in abandoned'
  PROVE  OwnOrAbandoned'
<1>1. \A m \in UnderWay' : Fits(m)'
  BY DEF OwnOrAbandoned, NothingNew, Fits, IsOwn, UnderWay
<1> QED BY <1>1 DEF OwnOrAbandoned, UnderWay

\* No stage of a connection is the data of a function.
LEMMA StagesAskNothing ==
  /\ Stages \cap Functions = {}
  /\ "none" \notin Functions /\ "anything" \notin Functions /\ "address" \notin Functions
  /\ "use cases" \notin Functions /\ "control" \notin Functions /\ "discovery" \in Functions
  BY DEF Stages, Functions

Traffic == Ordered /\ OwnOrAbandoned /\ TakenAreOwn

\* Messages that stay where they are.
LEMMA QuietStep ==
  ASSUME Traffic, counter \in Nat, UNCHANGED <<counter, toPeer, toClient, collected, abandoned>>,
         \/ op'.awaits = op.awaits /\ op'.ref = op.ref
         \/ op'.awaits \notin Functions /\ op'.ref = 0 /\ op.awaits \notin Functions
  PROVE  Traffic'
<1>1. NothingNew
  BY DEF NothingNew, UnderWay
<1>2. OwnOrAbandoned'
  BY <1>1, StillWaiting, WaitIsOver DEF Traffic
<1> QED BY <1>2 DEF Traffic, Ordered, InOrder, TakenAreOwn, IsTakenRightly

\* Opening and closing sessions moves no message of theirs.
LEMMA SessionTraffic ==
  ASSUME Traffic, Types, StagesFit,
         \/ Opening \/ OpenRaises \/ BeginClose("close") \/ BeginClose("reconnect")
         \/ CloseAwaits \/ Closed \/ Rediscovered
  PROVE  Traffic'
<1>1. UNCHANGED <<counter, toPeer, toClient, collected, abandoned>>
  BY DEF Opening, OpenRaises, BeginClose, CloseAwaits, Closed, Rediscovered, messages
<1>2. op.awaits \in Stages \cup {"none"}
  BY DEF Opening, OpenRaises, BeginClose, Begin, CloseAwaits, Closed, Rediscovered, Stages, StagesFit
<1>3. \/ op' \in {op, NoOperation}
      \/ \E name, awaits : awaits \in Stages /\ op' = Operation(name, awaits)
  BY DEF Opening, OpenRaises, BeginClose, CloseAwaits, Closed, Rediscovered, Stages
<1>4. op' = op \/ (op'.awaits \in Stages \cup {"none"} /\ op'.ref = 0)
  BY <1>3, OperationsAre
<1>5. counter \in Nat
  BY DEF Types
<1> QED BY <1>1, <1>2, <1>4, <1>5, QuietStep, StagesAskNothing

\* A new session starts with none.
LEMMA OpenedTraffic ==
  ASSUME Opened
  PROVE  Traffic'
<1>1. /\ toPeer' = <<>> /\ toClient' = <<>> /\ collected' = <<>> /\ op' = NoOperation
  BY DEF Opened
<1>2. Ordered'
  BY <1>1, NothingUnderWay DEF Ordered
<1>3. ToSet(toPeer)' = {} /\ ToSet(toClient)' = {} /\ ToSet(collected)' = {}
  BY <1>1, NoItems
<1>4. op'.awaits \notin Functions /\ op'.ref = 0
  BY <1>1, OperationsAre, StagesAskNothing
<1>5. OwnOrAbandoned' /\ TakenAreOwn'
  BY <1>3, <1>4 DEF OwnOrAbandoned, TakenAreOwn
<1> QED BY <1>2, <1>5 DEF Traffic

\* An operation that nobody waits in has no answer under way but abandoned ones.
LEMMA IdleIsAbandoned ==
  ASSUME OwnOrAbandoned, op.awaits \notin Functions
  PROVE  \A m \in UnderWay : m.fn \in Functions /\ m.ref # 0 => m.fn \in abandoned
  BY DEF OwnOrAbandoned, UnderWay, Fits, IsOwn

\* What is new after an operation has sent its reads, and waits for its own.
LEMMA OwnReadIsSent ==
  ASSUME NEW fn \in Functions, op'.awaits = fn, op'.ref \in Nat \ {0}, op'.ref < counter',
         counter' \in Nat, counter \in Nat, counter <= op'.ref,
         \A m \in UnderWay' : \/ /\ m \in UnderWay /\ m.ref \in 0 .. (counter - 1)
                                 /\ m.fn \in Functions /\ m.ref # 0 => m.fn \in abandoned'
                              \/ m.fn \notin Functions
                              \/ m.fn = fn /\ m.ref = op'.ref
  PROVE  OwnOrAbandoned'
<1>1. (IF op.awaits \in Functions THEN op.ref \in 1 .. (counter - 1) ELSE op.ref = 0)'
  OBVIOUS
<1>2. \A n \in 0 .. (counter - 1) : n <= op'.ref
  OBVIOUS
<1>3. \A m \in UnderWay' : Fits(m)'
  BY <1>2 DEF Fits, IsOwn
<1> QED BY <1>1, <1>3 DEF OwnOrAbandoned, UnderWay

\* A request begins: it waits to hear of the peer, sends its first read, or
\* fails to.
LEMMA BeginTraffic ==
  ASSUME Traffic, Types, StagesFit, NEW name, BeginRequest(name) \/ BeginReading(name)
  PROVE  Traffic'
<1> USE DEF Traffic
<1>1. op.awaits = "none" /\ UNCHANGED <<toClient, collected, abandoned>>
  BY DEF BeginRequest, BeginReading, Requested, Begin, StagesFit
<1>2. op.awaits \notin Functions /\ counter \in Nat \ {0} /\ counter + 1 \in Nat /\ counter <= counter + 1
  <2>1. op.awaits \notin Functions /\ counter \in Nat \ {0}
    BY <1>1, StagesAskNothing DEF Types
  <2> QED BY <2>1, NextNumbers
<1>3. CASE UNCHANGED <<counter, toPeer>> /\ \E awaits \in {"address", "anything"} : op' = Operation(name, awaits)
  <2>1. PICK awaits \in {"address", "anything"} : op' = Operation(name, awaits)
    BY <1>3
  <2>2. op'.awaits = awaits /\ op'.ref = 0
    BY <2>1, OperationsAre
  <2>3. op'.awaits \notin Functions
    BY <2>2, StagesAskNothing
  <2> QED BY <1>1, <1>2, <1>3, <2>2, <2>3, QuietStep
<1>4. CASE counter' = counter + 1 /\ op' = NoOperation /\ UNCHANGED toPeer
  <2>1. Ordered'
    BY <1>1, <1>2, <1>4, CounterGrows DEF Ordered
  <2>2. NothingNew
    BY <1>1, <1>4 DEF NothingNew, UnderWay
  <2>3. OwnOrAbandoned'
    BY <1>1, <1>2, <1>4, <2>2, OperationsAre, StagesAskNothing, WaitIsOver
  <2> QED BY <1>1, <2>1, <2>3 DEF TakenAreOwn, IsTakenRightly
<1>5. CASE Advance(Operation(name, "address"), FALSE, 0, <<>>)
  <2> DEFINE o == Operation(name, "address")
             fn == AsksNext(o, FALSE, 0)
  <2>1. fn = "discovery" /\ fn \in Functions
    <3>1. o.awaits = "address"
      BY OperationsAre
    <3> HIDE DEF o
    <3> QED BY <3>1, StagesAskNothing DEF AsksNext
  <2>2. Sends(<<>> \o IF fn = "none" THEN <<>> ELSE <<fn>>)
    BY <1>5 DEF Advance
  <2>3. op'.awaits = fn /\ op'.ref = counter + Len(<<>>)
    BY <1>5, <2>1, AdvancedOperation
  <2> HIDE DEF fn, o
  <2>4. <<>> \in {<<>>, <<"use cases">>} /\ fn \in Functions \cup {"none"} /\ fn # "none"
    BY <2>1, StagesAskNothing
  <2>5. /\ InOrder(toPeer', toClient, collected, counter')
        /\ counter' \in Nat \ {0} /\ counter + Len(<<>>) \in Nat \ {0} /\ counter + Len(<<>>) < counter'
        /\ counter <= counter + Len(<<>>)
        /\ \A m \in ToSet(toPeer') : \/ m \in ToSet(toPeer)
                                     \/ m.fn = "use cases"
                                     \/ m.fn = fn /\ m.ref = counter + Len(<<>>)
    BY <1>2, <2>2, <2>4, ReadsAreSent DEF Ordered
  <2>6. Ordered'
    BY <1>1, <2>5 DEF Ordered
  <2>7. ASSUME NEW m \in UnderWay PROVE m.ref \in 0 .. (counter - 1)
    <3>1. 1 .. (counter - 1) \subseteq 0 .. (counter - 1)
      BY <1>2
    <3> QED BY <3>1 DEF UnderWay, ToSet, Ordered, InOrder
  <2>8. \A m \in UnderWay : m.fn \in Functions /\ m.ref # 0 => m.fn \in abandoned
    BY <1>2, IdleIsAbandoned
  <2>9. \A m \in UnderWay' : \/ /\ m \in UnderWay /\ m.ref \in 0 .. (counter - 1)
                                /\ m.fn \in Functions /\ m.ref # 0 => m.fn \in abandoned'
                             \/ m.fn \notin Functions
                             \/ m.fn = fn /\ m.ref = op'.ref
    <3>1. ASSUME NEW m \in UnderWay' PROVE m \in UnderWay \/ m.fn = "use cases" \/ (m.fn = fn /\ m.ref = op'.ref)
      BY <1>1, <2>3, <2>5 DEF UnderWay
    <3> QED BY <1>1, <2>7, <2>8, <3>1, StagesAskNothing
  <2>10. OwnOrAbandoned'
    BY <1>2, <2>1, <2>3, <2>5, <2>9, OwnReadIsSent
  <2> QED BY <1>1, <2>6, <2>10 DEF TakenAreOwn, IsTakenRightly
<1> QED BY <1>3, <1>4, <1>5 DEF BeginRequest, BeginReading

\* A message is dropped, or the operation ends without its answer.
LEMMA DropTraffic ==
  ASSUME Traffic, Types, StagesFit, Listen \/ SkipControl \/ DeadlinePasses \/ ReadEnds
  PROVE  Traffic'
<1> USE DEF Traffic
<1>1. UNCHANGED <<counter, toPeer, collected>> /\ counter \in Nat \ {0} /\ counter <= counter
  BY DEF Listen, SkipControl, DeadlinePasses, ReadEnds, messages, Types
<1>2. NoOperation.awaits \notin Functions /\ NoOperation.ref = 0
  BY OperationsAre, StagesAskNothing
<1>3. CASE UNCHANGED <<op, abandoned>> /\ toClient # <<>> /\ toClient' = Tail(toClient)
  <2>1. InOrder(toPeer, Tail(toClient), collected, counter) /\ ToSet(Tail(toClient)) \subseteq ToSet(toClient)
    BY <1>1, <1>3, MessageLeaves DEF Ordered
  <2>2. Ordered'
    BY <1>1, <1>3, <2>1 DEF Ordered
  <2>3. NothingNew
    BY <1>1, <1>3, <2>1 DEF NothingNew, UnderWay
  <2>4. OwnOrAbandoned'
    BY <1>1, <1>3, <2>3, StillWaiting
  <2> QED BY <1>1, <2>2, <2>4 DEF TakenAreOwn, IsTakenRightly
<1>4. CASE UNCHANGED <<abandoned, toClient>> /\ op' = NoOperation /\ op.name = "listen"
  <2>1. op.awaits \notin Functions
    BY <1>4, StagesAskNothing DEF StagesFit
  <2> QED BY <1>1, <1>2, <1>4, <2>1, QuietStep
<1>5. CASE DeadlinePasses
  <2>1. op'.awaits = op.awaits /\ op'.ref = op.ref
    BY <1>5 DEF DeadlinePasses, Types, NoOperation
  <2> QED BY <1>1, <1>5, <2>1, QuietStep DEF DeadlinePasses, messages
<1>6. CASE ReadEnds
  <2>1. op' = NoOperation /\ abandoned' = abandoned \cup ({op.awaits} \cap Functions) /\ UNCHANGED toClient
    BY <1>6 DEF ReadEnds, Abandon
  <2>2. NothingNew
    BY <1>1, <2>1 DEF NothingNew, UnderWay
  <2>3. OwnOrAbandoned'
    BY <1>2, <2>1, <2>2, WaitIsOver
  <2> QED BY <1>1, <2>1, <2>3 DEF Ordered, TakenAreOwn, IsTakenRightly
<1> QED BY <1>3, <1>4, <1>5, <1>6 DEF Listen, SkipControl

\* The peer answers, each request at most once, or sends what nobody asked for.
LEMMA PeerTraffic ==
  ASSUME Traffic, Types, PeerAnswers \/ PeerNotifies
  PROVE  Traffic'
<1> USE DEF Traffic
<1>1. UNCHANGED <<counter, collected, op, abandoned>> /\ counter \in Nat \ {0} /\ counter <= counter
  <2>1. UNCHANGED <<counter, collected, op, abandoned>>
    BY DEF PeerAnswers, PeerNotifies
  <2>2. counter \in Nat \ {0}
    BY DEF Types
  <2> QED BY <2>1, <2>2, NextNumbers
<1>2. IsSequence(toClient)
  BY DEF Ordered, InOrder
<1>3. CASE PeerAnswers
  <2> DEFINE r == Head(toPeer)
  <2>1. toPeer # <<>> /\ toPeer' = Tail(toPeer)
    BY <1>3 DEF PeerAnswers
  <2>2. /\ r \in ToSet(toPeer) /\ ToSet(Tail(toPeer)) \subseteq ToSet(toPeer)
        /\ InOrder(Tail(toPeer), toClient, collected, counter)
        /\ \A m : m.ref = r.ref => InOrder(Tail(toPeer), Append(toClient, m), collected, counter)
    BY <1>1, <2>1, ReadIsTaken DEF Ordered
  <2>3. CASE UNCHANGED toClient
    <3>1. Ordered'
      BY <1>1, <2>1, <2>2, <2>3 DEF Ordered
    <3>2. NothingNew
      BY <2>1, <2>2, <2>3 DEF NothingNew, UnderWay
    <3> QED BY <1>1, <3>1, <3>2, StillWaiting DEF TakenAreOwn, IsTakenRightly
  <2>4. ASSUME NEW empty \in BOOLEAN, toClient' = Append(toClient, Message(r.fn, r.ref, empty))
        PROVE  Traffic'
    <3> DEFINE m == Message(r.fn, r.ref, empty)
    <3>1. m.fn = r.fn /\ m.ref = r.ref
      BY DEF Message
    <3> HIDE DEF m
    <3>2. Ordered'
      BY <1>1, <2>1, <2>2, <2>4, <3>1 DEF Ordered, m
    <3>3. ToSet(toClient') = ToSet(toClient) \cup {m}
      BY <1>2, <2>4, AppendedItem DEF m
    <3>4. NothingNew
      BY <2>1, <2>2, <3>1, <3>3 DEF NothingNew, UnderWay
    <3> QED BY <1>1, <3>2, <3>4, StillWaiting DEF TakenAreOwn, IsTakenRightly
  <2> QED BY <1>3, <2>3, <2>4 DEF PeerAnswers
<1>4. CASE PeerNotifies
  <2>1. PICK fn : toClient' = Append(toClient, Message(fn, 0, FALSE)) /\ UNCHANGED toPeer
    BY <1>4 DEF PeerNotifies
  <2> DEFINE m == Message(fn, 0, FALSE)
  <2>2. m.ref = 0
    BY DEF Message
  <2> HIDE DEF m
  <2>3. InOrder(toPeer, Append(toClient, m), collected, counter) /\ ToSet(Append(toClient, m)) = ToSet(toClient) \cup {m}
    BY <1>1, <1>2, <2>2, MessageComesUnasked, AppendedItem DEF Ordered
  <2>4. Ordered'
    BY <1>1, <2>1, <2>3 DEF Ordered, m
  <2>5. NothingNew
    BY <2>1, <2>2, <2>3 DEF NothingNew, UnderWay, m
  <2> QED BY <1>1, <2>4, <2>5, StillWaiting DEF TakenAreOwn, IsTakenRightly
<1> QED BY <1>3, <1>4

\* A message is handled: it may be the answer that is waited for, may make the
\* client ask for the use cases, and may be followed by the operation's next read.
LEMMA ReceiveTraffic ==
  ASSUME Traffic, Types, Receive
  PROVE  Traffic'
<1> USE DEF Traffic
<1> DEFINE d == Head(toClient)
           c == Tail(toClient)
           bootstrap == IF Bootstraps(d) THEN <<"use cases">> ELSE <<>>
           takes == Matches(d) /\ op.awaits \in Functions
           servers == IF takes /\ d.fn = "discovery" THEN MeasurementServers ELSE 0
           asks == IF WaitEnds(d) /\ AsksNext(op, takes, servers) # "none" THEN 1 ELSE 0
           fn == AsksNext(op, takes, servers)
           e == [asked |-> op.awaits, ref |-> op.ref, got |-> d, owed |-> op.awaits \in abandoned]
<1>1. /\ toClient # <<>> /\ toClient' = c
      /\ collected' = IF takes THEN Append(collected, e) ELSE collected
      /\ \/ WaitEnds(d) /\ Advance(op, takes, servers, bootstrap)
         \/ Sends(bootstrap) /\ UNCHANGED op
         \/ op' = NoOperation /\ counter' = counter + Len(bootstrap) + asks /\ UNCHANGED toPeer
      /\ IF op'.ref = op.ref \/ d.ref = op.ref THEN UNCHANGED abandoned ELSE Abandon(op.awaits)
  BY DEF Receive
<1>2. counter \in Nat \ {0} /\ counter \in Nat
  BY DEF Types
<1>3. /\ InOrder(toPeer, c, collected, counter)
      /\ d \in ToSet(toClient) /\ d.ref \in Nat /\ ToSet(c) \subseteq ToSet(toClient)
      /\ d.ref # 0 => \A m \in ToSet(toPeer) \cup ToSet(c) : m.ref # d.ref
  BY <1>1, <1>2, MessageLeaves DEF Ordered
<1>4. InOrder(toPeer, c, collected', counter)
  <2>1. e.got = d
    OBVIOUS
  <2>2. InOrder(toPeer, c, Append(collected, e), counter)
    <3> HIDE DEF e
    <3> QED BY <1>1, <1>2, <2>1, MessageIsTaken DEF Ordered
  <2> QED BY <1>1, <1>3, <2>2
<1>5. bootstrap \in {<<>>, <<"use cases">>} /\ Len(bootstrap) \in 0 .. 1
  BY ShortSequences
<1>6. asks \in 0 .. 1
  OBVIOUS
<1>7. fn \in Functions \cup {"none"}
  BY AsksAFunction
<1>8. abandoned \subseteq abandoned'
  BY <1>1 DEF Abandon
<1>9. takes => op.awaits \in Functions /\ Matches(d)
  OBVIOUS
<1>10. TakenAreOwn'
  <2>1. ASSUME takes PROVE IsTakenRightly(e)
    <3>1. op.awaits \in Functions /\ (d.fn = op.awaits \/ (op.awaits = "discovery" /\ d.fn = "use cases"))
      BY <2>1 DEF Matches
    <3>2. e.asked = op.awaits /\ e.ref = op.ref /\ e.got = d /\ e.owed = (op.awaits \in abandoned)
      OBVIOUS
    <3>3. Fits(d) /\ op.ref \in 1 .. (counter - 1)
      BY <1>3, <3>1 DEF OwnOrAbandoned
    <3> HIDE DEF e, d
    <3>4. CASE d.fn = op.awaits /\ d.ref # 0
      <4>1. (op.awaits \in abandoned \/ d.ref = op.ref) /\ d.ref <= op.ref
        BY <3>1, <3>3, <3>4 DEF Fits, IsOwn
      <4>2. d.ref = op.ref \/ d.ref < op.ref
        BY <1>2, <1>3, <3>3, <4>1
      <4> QED BY <3>2, <3>4, <4>1, <4>2 DEF IsTakenRightly
    <3>5. CASE d.fn = op.awaits /\ d.ref = 0
      BY <3>2, <3>5 DEF IsTakenRightly
    <3>6. CASE d.fn # op.awaits
      BY <3>1, <3>2, <3>6 DEF IsTakenRightly
    <3> QED BY <3>4, <3>5, <3>6
  <2>2. takes => ToSet(collected') = ToSet(collected) \cup {e}
    <3>1. IsSequence(collected)
      BY DEF Ordered, InOrder
    <3> HIDE DEF e, takes
    <3> QED BY <1>1, <3>1, AppendedItem
  <2>3. \A k \in ToSet(collected') : IsTakenRightly(k)
    <3> HIDE DEF e, takes
    <3> QED BY <1>1, <2>1, <2>2 DEF TakenAreOwn
  <2> QED BY <2>3 DEF TakenAreOwn, IsTakenRightly
<1> HIDE DEF bootstrap, asks, fn, e
<1>11. ASSUME NEW m \in ToSet(toPeer) \cup ToSet(c)
       PROVE  m \in UnderWay /\ m.ref \in 0 .. (counter - 1)
  <2>1. m \in UnderWay
    BY <1>3 DEF UnderWay
  <2>2. 1 .. (counter - 1) \subseteq 0 .. (counter - 1)
    BY <1>2
  <2> QED BY <2>1, <2>2 DEF UnderWay, ToSet, Ordered, InOrder
\* What was under way is abandoned, if the operation does not wait for it on.
<1>12. ASSUME op'.ref # op.ref \/ op.awaits \notin Functions,
              NEW m \in ToSet(toPeer) \cup ToSet(c), m.fn \in Functions, m.ref # 0
       PROVE  m.fn \in abandoned'
  <2>1. Fits(m)
    BY <1>11 DEF UnderWay, OwnOrAbandoned
  <2>2. CASE m.fn \in abandoned
    BY <1>8, <2>2
  <2>3. CASE IsOwn(m)
    <3>1. m.fn = op.awaits /\ m.ref = op.ref
      BY <2>3 DEF IsOwn
    <3>2. op.awaits \in Functions /\ op'.ref # op.ref /\ op.ref # 0
      BY <1>12, <3>1
    <3>3. d.ref # op.ref
      BY <1>3, <3>1, <3>2
    <3> QED BY <1>1, <3>1, <3>2, <3>3 DEF Abandon
  <2> QED BY <1>12, <2>1, <2>2, <2>3 DEF Fits
<1>13. ToSet(toClient') = ToSet(c)
  BY <1>1
<1>14. CASE WaitEnds(d) /\ Advance(op, takes, servers, bootstrap)
  <2>1. Sends(bootstrap \o IF fn = "none" THEN <<>> ELSE <<fn>>)
    BY <1>14 DEF Advance, fn
  <2> DEFINE l == Len(bootstrap)
  <2>2. /\ fn = "none" => op' = NoOperation
        /\ fn # "none" => op'.awaits = fn /\ op'.ref = counter + l
    BY <1>14, AdvancedOperation DEF fn
  <2>3. /\ InOrder(toPeer', c, collected', counter')
        /\ counter' \in Nat \ {0} /\ counter <= counter' /\ counter + l \in Nat \ {0}
        /\ fn # "none" => counter + l < counter' /\ counter <= counter + l
        /\ \A m \in ToSet(toPeer') : \/ m \in ToSet(toPeer)
                                     \/ m.fn = "use cases"
                                     \/ fn # "none" /\ m.fn = fn /\ m.ref = counter + l
    BY <1>2, <1>4, <1>5, <1>7, <2>1, ReadsAreSent
  <2>4. Ordered'
    BY <1>1, <2>3 DEF Ordered
  <2>5. ASSUME NEW m \in UnderWay'
        PROVE  \/ m \in ToSet(toPeer) \cup ToSet(c)
               \/ m.fn = "use cases"
               \/ fn # "none" /\ m.fn = fn /\ m.ref = counter + l
    BY <1>13, <2>3 DEF UnderWay
  <2> HIDE DEF l
  <2>6. CASE fn # "none"
    <3>1. op'.awaits = fn /\ op'.ref = counter + l /\ fn \in Functions
      BY <1>7, <2>2, <2>6
    <3>2. op'.ref # op.ref \/ op.awaits \notin Functions
      <4>1. op.awaits \in Functions => op.ref \in 1 .. (counter - 1)
        BY DEF OwnOrAbandoned
      <4>2. counter <= counter + l /\ counter + l \in Nat
        BY <2>3, <2>6
      <4> QED BY <1>2, <3>1, <4>1, <4>2
    <3>3. \A m \in UnderWay' : \/ /\ m \in UnderWay /\ m.ref \in 0 .. (counter - 1)
                                  /\ m.fn \in Functions /\ m.ref # 0 => m.fn \in abandoned'
                               \/ m.fn \notin Functions
                               \/ m.fn = fn /\ m.ref = op'.ref
      BY <1>11, <1>12, <2>5, <3>1, <3>2, StagesAskNothing
    <3>4. OwnOrAbandoned'
      BY <1>2, <2>3, <2>6, <3>1, <3>3, OwnReadIsSent
    <3> QED BY <1>10, <2>4, <3>4
  <2>7. CASE fn = "none"
    <3>1. op'.awaits \notin Functions /\ op'.ref = 0
      <4>1. op' = NoOperation
        BY <2>2, <2>7
      <4> QED BY <4>1, OperationsAre, StagesAskNothing
    <3>2. op'.ref # op.ref \/ op.awaits \notin Functions
      BY <3>1 DEF OwnOrAbandoned
    <3>3. \A m \in UnderWay' : Fits(m)'
      BY <1>12, <2>5, <2>7, <3>1, <3>2, StagesAskNothing DEF Fits
    <3>4. OwnOrAbandoned'
      BY <3>1, <3>3 DEF OwnOrAbandoned, UnderWay
    <3> QED BY <1>10, <2>4, <3>4
  <2> QED BY <2>6, <2>7
<1>15. CASE Sends(bootstrap) /\ UNCHANGED op
  <2>1. bootstrap \o <<>> = bootstrap
    BY <1>5, ShortSequences
  <2>2. Sends(bootstrap \o IF "none" = "none" THEN <<>> ELSE <<"none">>)
    BY <1>15, <2>1
  <2>3. /\ InOrder(toPeer', c, collected', counter')
        /\ counter' \in Nat \ {0} /\ counter <= counter'
        /\ \A m \in ToSet(toPeer') : m \in ToSet(toPeer) \/ m.fn = "use cases"
    BY <1>2, <1>4, <1>5, <2>2, ReadsAreSent
  <2>4. Ordered'
    BY <1>1, <2>3 DEF Ordered
  <2>5. UNCHANGED abandoned
    BY <1>1, <1>15
  <2>6. NothingNew
    BY <1>11, <1>13, <2>3, StagesAskNothing DEF NothingNew, UnderWay
  <2>7. OwnOrAbandoned'
    BY <1>2, <1>15, <2>3, <2>5, <2>6, StillWaiting
  <2> QED BY <1>10, <2>4, <2>7
<1>16. CASE op' = NoOperation /\ counter' = counter + Len(bootstrap) + asks /\ UNCHANGED toPeer
  <2>1. counter' \in Nat /\ counter <= counter'
    <3> DEFINE l == Len(bootstrap)
    <3>1. l \in 0 .. 1 /\ counter' = counter + l + asks
      BY <1>5, <1>16
    <3> HIDE DEF l
    <3> QED BY <1>2, <1>6, <3>1
  <2>2. Ordered'
    BY <1>1, <1>2, <1>4, <1>16, <2>1, CounterGrows DEF Ordered
  <2>3. op'.awaits \notin Functions /\ op'.ref = 0
    BY <1>16, OperationsAre, StagesAskNothing
  <2>4. op'.ref # op.ref \/ op.awaits \notin Functions
    BY <2>3 DEF OwnOrAbandoned
  <2>5. UnderWay' = ToSet(toPeer) \cup ToSet(c)
    BY <1>13, <1>16 DEF UnderWay
  <2>6. \A m \in UnderWay' : Fits(m)'
    BY <1>12, <2>3, <2>4, <2>5 DEF Fits
  <2>7. OwnOrAbandoned'
    BY <2>3, <2>6 DEF OwnOrAbandoned, UnderWay
  <2> QED BY <1>10, <2>2, <2>7
<1> QED BY <1>1, <1>14, <1>15, <1>16

-----------------------------------------------------------------------------
(* The types of Discovery, and of the client. *)

\* Nothing is known before the first round.
LEMMA MdnsInit == Mdns!Init => MdnsTypes
<1> SUFFICES ASSUME Mdns!Init PROVE MdnsTypes
  OBVIOUS
<1>1. round = "idle" /\ known = << >> /\ at = [s \in Services |-> 1] /\ answered = {} /\ stale = FALSE
  BY DEF Mdns!Init
<1>2. \A s \in Services : at[s] \in 1 .. Len(Places[s])
  BY <1>1, InstancesAssumption
<1>3. DOMAIN known = {}
  BY <1>1
<1>4. answered \subseteq Mdns!Records /\ stale \in BOOLEAN
  BY <1>1
<1> QED BY <1>1, <1>2, <1>3, <1>4 DEF MdnsTypes

\* A packet names services that there are, and responders move within their places.
LEMMA MdnsStep ==
  ASSUME MdnsTypes, Mdns!Start \/ Mdns!PacketArrives \/ Mdns!RoundEnds \/ Mdns!Moves
  PROVE  MdnsTypes'
<1>1. CASE Mdns!Start
  <2>1. round' = "PTR" /\ known' = << >> /\ UNCHANGED at /\ answered' = {} /\ stale' = FALSE
    BY <1>1 DEF Mdns!Start
  <2>2. DOMAIN known' = {}
    BY <2>1
  <2>3. answered' \subseteq Mdns!Records /\ stale' \in BOOLEAN
    BY <2>1
  <2> QED BY <2>1, <2>2, <2>3 DEF MdnsTypes
<1>2. ASSUME NEW s \in Services, NEW i \in 1..2, NEW records \in SUBSET Mdns!Records,
             Mdns!Packet(s, i, records)
      PROVE  MdnsTypes'
  <2>1. UNCHANGED <<round, at>> /\ known' = Mdns!Learnt(s, Places[s][i], records)
    BY <1>2 DEF Mdns!Packet
  <2>2. DOMAIN known' \subseteq DOMAIN known \cup {s}
    BY <2>1 DEF Mdns!Learnt, Mdns!Ensure
  <2>3. answered' \subseteq Mdns!Records
    BY <1>2 DEF Mdns!Packet, Mdns!Answers, MdnsTypes
  <2>4. stale' \in BOOLEAN
    BY <1>2 DEF Mdns!Packet, MdnsTypes
  <2> QED BY <2>1, <2>2, <2>3, <2>4 DEF MdnsTypes
<1>3. CASE Mdns!RoundEnds
  <2>1. round' = Mdns!RoundAfter[1] /\ UNCHANGED <<known, at, answered, stale>>
    BY <1>3 DEF Mdns!RoundEnds
  <2>2. Mdns!RoundAfter[1] \in {"idle", "instances", "hosts"}
    BY DEF Mdns!RoundAfter
  <2> QED BY <2>1, <2>2 DEF MdnsTypes
<1>4. ASSUME NEW s \in Services, Mdns!Move(s) PROVE MdnsTypes'
  <2>1. /\ at[s] < Len(Places[s]) /\ at' = [at EXCEPT ![s] = @ + 1]
        /\ stale' = (stale \/ (s = Wanted /\ round # "idle"))
        /\ UNCHANGED <<round, known, hosts, asked, answered>>
    BY <1>4 DEF Mdns!Move
  <2>2. at[s] + 1 \in 1 .. Len(Places[s])
    BY <2>1, InstancesAssumption DEF MdnsTypes
  <2>3. DOMAIN at' = Services /\ \A r \in Services : at'[r] \in 1 .. Len(Places[r])
    BY <2>1, <2>2 DEF MdnsTypes
  <2>4. stale' \in BOOLEAN
    BY <2>1 DEF MdnsTypes
  <2> QED BY <2>1, <2>3, <2>4 DEF MdnsTypes
<1> QED BY <1>1, <1>2, <1>3, <1>4 DEF Mdns!PacketArrives, Mdns!Moves

\* The steps of Discovery that the client's are.
LEMMA DiscoverySteps ==
  ASSUME [Next]_vars
  PROVE  \/ UNCHANGED discoveryVars
         \/ Mdns!Start \/ Mdns!PacketArrives \/ Mdns!RoundEnds \/ Mdns!Moves
  BY DEF Next, vars, Opening, Opened, OpenRaises, BeginClose, CloseAwaits, Closed, Rediscovered,
     BeginRequest, BeginReading, Requested, Receive, Listen, SkipControl, DeadlinePasses, ReadEnds,
     PeerAnswers, PeerNotifies, Background, Network

\* Discovery, as the client uses it.
LEMMA DiscoveryStep ==
  ASSUME MdnsTypes, [Next]_vars
  PROVE  MdnsTypes'
<1>1. ASSUME UNCHANGED discoveryVars PROVE MdnsTypes'
  BY <1>1 DEF MdnsTypes, discoveryVars
<1> QED BY <1>1, DiscoverySteps, MdnsStep

\* The actions that open and close sessions.
SessionAction ==
  \/ Opening \/ Opened \/ OpenRaises \/ BeginClose("close") \/ BeginClose("reconnect")
  \/ CloseAwaits \/ Closed \/ Rediscovered
\* Those of a request or a listener.
ReadingAction ==
  \/ BeginRequest("discover") \/ BeginRequest("measure")
  \/ BeginReading("bootstrap") \/ BeginReading("listen")
  \/ Receive \/ Listen \/ SkipControl \/ DeadlinePasses \/ ReadEnds

\* A request or a listener stays one, or returns.
LEMMA ReadingOperations ==
  ASSUME Types, StagesFit, ReadingAction
  PROVE  /\ UNCHANGED <<phase, current, opening>> /\ UNCHANGED sessionVars
         /\ DOMAIN op' = DOMAIN NoOperation /\ op'.name \in OperationNames
         /\ \/ op'.awaits = op.awaits /\ op'.name = op.name
            \/ /\ op.awaits \notin Stages /\ op'.awaits \notin Stages
               /\ op'.name \notin {"connect", "close", "reconnect"}
               /\ op'.name = "none" => op'.awaits = "none"
               /\ op'.name = "listen" => op'.awaits = "anything"
<1>1. UNCHANGED sessionVars /\ UNCHANGED <<current, opening>>
  BY DEF ReadingAction, BeginRequest, BeginReading, Requested, Begin, Receive, Listen, SkipControl,
     DeadlinePasses, ReadEnds, client
<1>2. UNCHANGED phase
  BY <1>1 DEF sessionVars
<1>3. /\ NoOperation.name = "none" /\ NoOperation.awaits = "none"
      /\ NoOperation.name \in OperationNames
  BY OperationsAre DEF OperationNames
<1>4. op.awaits \notin Stages
  BY DEF ReadingAction, BeginRequest, BeginReading, Requested, Begin, Receive, Receiving, Listen, SkipControl,
     DeadlinePasses, ReadEnds, StagesFit, Stages
<1>5. CASE op' = op
  BY <1>1, <1>2, <1>5 DEF Types
<1>6. CASE op' = NoOperation
  <2>1. op'.name = "none" /\ op'.awaits = "none" /\ DOMAIN op' = DOMAIN NoOperation
    BY <1>3, <1>6
  <2> QED BY <1>1, <1>2, <1>4, <2>1 DEF Stages, OperationNames
<1>7. CASE op' = [op EXCEPT !.past = TRUE]
  <2>1. DOMAIN op' = DOMAIN NoOperation /\ op'.name = op.name /\ op'.awaits = op.awaits
    BY <1>7 DEF Types, NoOperation
  <2> QED BY <1>1, <1>2, <2>1 DEF Types
<1>8. ASSUME NEW name \in {"discover", "measure", "bootstrap"}, NEW awaits \in Functions \cup {"address", "anything"},
             DOMAIN op' = DOMAIN NoOperation, op'.name = name, op'.awaits = awaits
      PROVE  /\ op'.name \in OperationNames /\ op'.awaits \notin Stages
             /\ op'.name \notin {"connect", "close", "reconnect", "none", "listen"}
  BY <1>8 DEF OperationNames, AllCalls, Stages, Functions
<1>9. ASSUME NEW o, NEW found, NEW servers, NEW bootstrap, Advance(o, found, servers, bootstrap),
             o.name \in {"discover", "measure", "bootstrap"}
      PROVE  \/ op' = NoOperation
             \/ /\ DOMAIN op' = DOMAIN NoOperation
                /\ op'.name \in {"discover", "measure", "bootstrap"} /\ op'.awaits \in Functions
  <2> DEFINE fn == AsksNext(o, found, servers)
  <2>1. fn \in Functions \cup {"none"}
    BY AsksAFunction
  <2>2. /\ fn = "none" => op' = NoOperation
        /\ fn # "none" => DOMAIN op' = DOMAIN NoOperation /\ op'.name = o.name /\ op'.awaits = fn
    BY <1>9, AdvancedOperation
  <2> HIDE DEF fn
  <2> QED BY <1>9, <2>1, <2>2
<1>10. ASSUME NEW name \in {"discover", "measure", "bootstrap", "listen"},
              NEW awaits \in {"address", "anything"}, op' = Operation(name, awaits), name = "listen" => awaits = "anything"
       PROVE  /\ DOMAIN op' = DOMAIN NoOperation /\ op'.name \in OperationNames
              /\ op'.awaits \notin Stages /\ op'.name \notin {"connect", "close", "reconnect", "none"}
              /\ op'.name = "listen" => op'.awaits = "anything"
  <2>1. DOMAIN op' = DOMAIN NoOperation /\ op'.name = name /\ op'.awaits = awaits
    BY <1>10, OperationsAre
  <2> QED BY <1>10, <2>1 DEF OperationNames, AllCalls, Stages
<1>11. \/ op' \in {op, NoOperation, [op EXCEPT !.past = TRUE]}
       \/ \E name \in {"discover", "measure", "bootstrap", "listen"}, awaits \in {"address", "anything"} :
             op' = Operation(name, awaits) /\ (name = "listen" => awaits = "anything")
       \/ \E o, found, servers, bootstrap :
             Advance(o, found, servers, bootstrap) /\ o.name \in {"discover", "measure", "bootstrap"}
  <2>1. ASSUME NEW name \in {"discover", "measure"}, BeginRequest(name)
        PROVE  \/ op' = Operation(name, "address") \/ op' = NoOperation
               \/ Advance(Operation(name, "address"), FALSE, 0, <<>>) /\ Operation(name, "address").name = name
    BY <2>1, OperationsAre DEF BeginRequest
  <2>2. ASSUME NEW name \in {"bootstrap", "listen"}, BeginReading(name)
        PROVE  op' = Operation(name, "anything")
    BY <2>2 DEF BeginReading
  <2>3. Receive => \/ op' \in {op, NoOperation}
                   \/ /\ op.name \in {"discover", "measure", "bootstrap"}
                      /\ \E found, servers, bootstrap : Advance(op, found, servers, bootstrap)
    BY DEF Receive, Receiving
  <2>4. Listen \/ SkipControl \/ DeadlinePasses \/ ReadEnds => op' \in {op, NoOperation, [op EXCEPT !.past = TRUE]}
    BY DEF Listen, SkipControl, DeadlinePasses, ReadEnds
  <2> QED BY <2>1, <2>2, <2>3, <2>4 DEF ReadingAction
<1>12. CASE \E name \in {"discover", "measure", "bootstrap", "listen"}, awaits \in {"address", "anything"} :
               op' = Operation(name, awaits) /\ (name = "listen" => awaits = "anything")
  BY <1>1, <1>2, <1>4, <1>10, <1>12
<1>13. CASE \E o, found, servers, bootstrap :
               Advance(o, found, servers, bootstrap) /\ o.name \in {"discover", "measure", "bootstrap"}
  BY <1>1, <1>2, <1>4, <1>6, <1>8, <1>9, <1>13
<1> QED BY <1>5, <1>6, <1>7, <1>11, <1>12, <1>13

-----------------------------------------------------------------------------
(* Every step keeps the types. *)

\* The reads of a step are numbered from the counter.
LEMMA CounterCounts ==
  ASSUME counter \in Nat \ {0}, NEW S, NEW fns \in Seq(S), Sends(fns)
  PROVE  counter' \in Nat \ {0}
<1>1. Len(fns) \in Nat /\ counter' = counter + Len(fns)
  BY DEF Sends
<1> QED BY <1>1

\* Short sequences of a set, and two of its sequences joined.
LEMMA SequencesOf ==
  ASSUME NEW S
  PROVE  /\ <<>> \in Seq(S)
         /\ \A e \in S : <<e>> \in Seq(S)
         /\ \A s \in Seq(S), t \in Seq(S) : s \o t \in Seq(S)
  OBVIOUS

\* An operation advances with a read or none, after a bootstrap or none.
LEMMA AdvanceCounts ==
  ASSUME counter \in Nat \ {0}, NEW o, NEW found, NEW servers, NEW bootstrap \in {<<>>, <<"use cases">>},
         Advance(o, found, servers, bootstrap)
  PROVE  counter' \in Nat \ {0}
<1> DEFINE fn == AsksNext(o, found, servers)
           S == {fn, "use cases"}
           reads == IF fn = "none" THEN <<>> ELSE <<fn>>
<1>1. Sends(bootstrap \o reads)
  BY DEF Advance
<1> HIDE DEF fn
<1>2. fn \in S /\ "use cases" \in S
  OBVIOUS
<1> HIDE DEF S
<1>3. bootstrap \in Seq(S)
  BY <1>2, SequencesOf
<1>4. reads \in Seq(S)
  BY <1>2, SequencesOf
<1> HIDE DEF reads
<1>5. bootstrap \o reads \in Seq(S)
  BY <1>3, <1>4, SequencesOf
<1> QED BY <1>1, <1>5, CounterCounts

\* The counter never is 0, which stands for no request.
LEMMA CounterStep ==
  ASSUME Types, [Next]_vars
  PROVE  counter' \in Nat \ {0}
<1>1. counter \in Nat \ {0} /\ \A k \in 0 .. 2 : counter + k \in Nat \ {0}
  <2>1. counter \in Nat \ {0}
    BY DEF Types
  <2> QED BY <2>1
<1>2. ASSUME NEW name, BeginRequest(name) PROVE counter' \in Nat \ {0}
  <2>1. <<>> \in {<<>>, <<"use cases">>}
    OBVIOUS
  <2>2. \/ counter' \in {counter, counter + 1}
        \/ Advance(Operation(name, "address"), FALSE, 0, <<>>)
    BY <1>2 DEF BeginRequest
  <2>3. CASE counter' \in {counter, counter + 1}
    BY <1>1, <2>3, NextNumbers
  <2>4. CASE Advance(Operation(name, "address"), FALSE, 0, <<>>)
    BY <1>1, <2>1, <2>4, AdvanceCounts
  <2> QED BY <2>2, <2>3, <2>4
<1>3. ASSUME Receive PROVE counter' \in Nat \ {0}
  <2> DEFINE d == Head(toClient)
             bootstrap == IF Bootstraps(d) THEN <<"use cases">> ELSE <<>>
             takes == Matches(d) /\ op.awaits \in Functions
             servers == IF takes /\ d.fn = "discovery" THEN MeasurementServers ELSE 0
             asks == IF WaitEnds(d) /\ AsksNext(op, takes, servers) # "none" THEN 1 ELSE 0
             l == Len(bootstrap)
  <2>1. \/ Advance(op, takes, servers, bootstrap)
        \/ Sends(bootstrap)
        \/ counter' = counter + l + asks
    BY <1>3 DEF Receive
  <2>2. bootstrap \in {<<>>, <<"use cases">>} /\ l \in 0 .. 1 /\ asks \in 0 .. 1
    BY ShortSequences
  <2>3. <<>> \in Seq({"use cases"}) /\ <<"use cases">> \in Seq({"use cases"})
    OBVIOUS
  <2> HIDE DEF bootstrap, takes, servers, asks, l
  <2>4. bootstrap \in Seq({"use cases"})
    BY <2>2, <2>3
  <2>5. counter + l + asks \in Nat \ {0}
    <3>1. counter \in Nat \ {0} /\ l \in 0 .. 1 /\ asks \in 0 .. 1
      BY <1>1, <2>2
    <3>2. \A n \in Nat \ {0}, i \in 0 .. 1, j \in 0 .. 1 : n + i + j \in Nat \ {0}
      OBVIOUS
    <3> QED BY <3>1, <3>2
  <2>6. CASE Advance(op, takes, servers, bootstrap)
    BY <1>1, <2>2, <2>6, AdvanceCounts
  <2>7. CASE Sends(bootstrap)
    BY <1>1, <2>4, <2>7, CounterCounts
  <2> QED BY <2>1, <2>5, <2>6, <2>7
<1>4. \/ UNCHANGED counter \/ Receive
      \/ BeginRequest("discover") \/ BeginRequest("measure")
  BY DEF Next, vars, Opening, Opened, OpenRaises, BeginClose, CloseAwaits, Closed, Rediscovered, messages,
     BeginReading, Listen, SkipControl, DeadlinePasses, ReadEnds, PeerAnswers, PeerNotifies, Background, Network
<1> QED BY <1>1, <1>2, <1>3, <1>4

\* The operations of the caller that open and close sessions.
LEMMA SessionOperations ==
  ASSUME Types, SessionAction
  PROVE  DOMAIN op' = DOMAIN NoOperation /\ op'.name \in OperationNames
<1>1. \/ op' \in {op, NoOperation}
      \/ \E name \in {"close", "reconnect"}, awaits \in Stages : op' = Operation(name, awaits)
  BY DEF SessionAction, Opening, Opened, OpenRaises, BeginClose, CloseAwaits, Closed, Rediscovered, Stages
<1>2. CASE op' \in {op, NoOperation}
  BY <1>2, OperationsAre DEF Types, OperationNames
<1>3. CASE \E name \in {"close", "reconnect"}, awaits \in Stages : op' = Operation(name, awaits)
  BY <1>3, OperationsAre DEF OperationNames, AllCalls
<1> QED BY <1>1, <1>2, <1>3

\* What a step of a session opens is one of the sessions.
LEMMA SessionTargets ==
  ASSUME Types, OpenedInOrder, StagesFit, SessionAction
  PROVE  current' \in Sessions \cup {0} /\ opening'.session \in Sessions \cup {0}
<1>1. current \in Sessions \cup {0} /\ opening.session \in Sessions \cup {0}
  BY DEF Types
<1>2. NoTarget.session = 0 /\ NoTarget'.session = 0
  BY DEF NoTarget
<1>3. \/ UNCHANGED opening \/ opening' \in {NoTarget, NoTarget'}
      \/ opening'.session = Fresh.session /\ \E s \in Sessions : phase[s] = "new"
  <2>1. Closed => UNCHANGED opening \/ (opening' = Fresh /\ \E s \in Sessions : phase[s] = "new")
    BY DEF Closed, OpenedInOrder
  <2>2. Rediscovered => \/ UNCHANGED opening
                        \/ opening'.session = Fresh.session /\ \E s \in Sessions : phase[s] = "new"
    <3>1. Rediscovered => op.awaits = "mdns" /\ op.name = "reconnect"
      BY DEF Rediscovered, StagesFit, Stages
    <3>2. Rediscovered => UNCHANGED opening \/ opening'.session = Fresh.session
      BY DEF Rediscovered, Fresh
    <3> QED BY <3>1, <3>2 DEF OpenedInOrder
  <2>3. \/ Closed \/ Rediscovered \/ UNCHANGED opening
        \/ opening' \in {NoTarget, NoTarget'}
    BY DEF SessionAction, Opening, Opened, OpenRaises, BeginClose, CloseAwaits, client
  <2> QED BY <2>1, <2>2, <2>3
<1>4. current' = current \/ current' = opening.session
  BY DEF SessionAction, Opening, Opened, OpenRaises, BeginClose, Begin, CloseAwaits, Closed, Rediscovered, client
<1> QED BY <1>1, <1>2, <1>3, <1>4, FreshIsNext

\* The bounds of the caller and of the peer.
LEMMA BoundsStep ==
  ASSUME Types, [Next]_vars
  PROVE  UNCHANGED caller /\ controls' \in 0 .. MaxControls /\ operations' \in 0 .. caller'.operations
<1>1. UNCHANGED caller
  BY DEF Next, vars, Opening, Opened, OpenRaises, BeginClose, CloseAwaits, Closed, Rediscovered, client,
     BeginRequest, BeginReading, Requested, Begin, Receive, Listen, SkipControl, DeadlinePasses, ReadEnds,
     PeerAnswers, PeerNotifies, Background, Network
<1>2. UNCHANGED controls \/ (controls < MaxControls /\ controls' = controls + 1)
  BY DEF Next, vars, Opening, Opened, OpenRaises, BeginClose, CloseAwaits, Closed, Rediscovered, bounds,
     BeginRequest, BeginReading, Requested, Begin, Receive, Listen, SkipControl, DeadlinePasses, ReadEnds,
     PeerAnswers, PeerNotifies, Background, Network
<1>3. UNCHANGED operations \/ (operations < caller.operations /\ operations' = operations + 1)
  BY DEF Next, vars, Opening, Opened, OpenRaises, BeginClose, CloseAwaits, Closed, Rediscovered, bounds,
     BeginRequest, BeginReading, Requested, Begin, Receive, Listen, SkipControl, DeadlinePasses, ReadEnds,
     PeerAnswers, PeerNotifies, Background, Network
<1>4. caller \in Callers /\ controls \in 0 .. MaxControls /\ operations \in 0 .. caller.operations
  BY DEF Types
<1>5. caller.operations \in Nat /\ MaxControls \in Nat
  BY <1>4, CallersAssumption, BoundsAssumption
<1> QED BY <1>1, <1>2, <1>3, <1>4, <1>5

\* What the client knows of the peer, and what it gave up.
LEMMA KnowledgeStep ==
  ASSUME Types, [Next]_vars
  PROVE  heard' \in BOOLEAN /\ bootstrapSent' \in BOOLEAN /\ abandoned' \subseteq Functions
<1>1. heard' \in {heard, TRUE}
  BY DEF Next, vars, Opening, Opened, OpenRaises, BeginClose, CloseAwaits, Closed, Rediscovered, messages,
     BeginRequest, BeginReading, Requested, Receive, Listen, SkipControl, DeadlinePasses, ReadEnds,
     PeerAnswers, PeerNotifies, Background, Network
<1>2. UNCHANGED bootstrapSent \/ bootstrapSent' = (bootstrapSent \/ Bootstraps(Head(toClient)))
  BY DEF Next, vars, Opening, Opened, OpenRaises, BeginClose, CloseAwaits, Closed, Rediscovered, messages,
     BeginRequest, BeginReading, Requested, Receive, Listen, SkipControl, DeadlinePasses, ReadEnds,
     PeerAnswers, PeerNotifies, Background, Network
<1>3. UNCHANGED abandoned \/ abandoned' = {} \/ abandoned' = abandoned \cup ({op.awaits} \cap Functions)
  BY DEF Next, vars, Opening, Opened, OpenRaises, BeginClose, CloseAwaits, Closed, Rediscovered, messages,
     BeginRequest, BeginReading, Requested, Receive, Listen, SkipControl, DeadlinePasses, ReadEnds, Abandon,
     PeerAnswers, PeerNotifies, Background, Network
<1>4. heard \in BOOLEAN /\ bootstrapSent \in BOOLEAN /\ abandoned \subseteq Functions
  BY DEF Types
<1>5. heard' \in BOOLEAN
  BY <1>1, <1>4
<1>6. bootstrapSent' \in BOOLEAN
  BY <1>2, <1>4
<1>7. abandoned' \subseteq Functions
  BY <1>3, <1>4
<1> QED BY <1>5, <1>6, <1>7

\* The actions of a step: what the others leave alone.
LEMMA StepsAre ==
  ASSUME [Next]_vars
  PROVE  \/ SessionAction
         \/ ReadingAction
         \/ /\ UNCHANGED <<phase, client, op>> /\ UNCHANGED sessionVars
            /\ PeerAnswers \/ PeerNotifies
         \/ /\ Background \/ Network \/ UNCHANGED vars
            /\ UNCHANGED <<client, op, messages>>
<1>1. PeerAnswers \/ PeerNotifies => UNCHANGED <<client, op>> /\ UNCHANGED sessionVars
  BY DEF PeerAnswers, PeerNotifies
<1>2. Background \/ Network \/ UNCHANGED vars => UNCHANGED <<client, op, messages>>
  BY DEF Background, Network, vars
<1> QED BY <1>1, <1>2 DEF Next, SessionAction, ReadingAction, sessionVars

\* The types.
LEMMA TypesStep ==
  ASSUME Types, StagesFit, OpenedInOrder, [Next]_vars
  PROVE  Types'
<1>1. counter' \in Nat \ {0}
  BY CounterStep
<1>2. caller' \in Callers /\ controls' \in 0 .. MaxControls /\ operations' \in 0 .. caller'.operations
  BY BoundsStep DEF Types
<1>3. heard' \in BOOLEAN /\ bootstrapSent' \in BOOLEAN /\ abandoned' \subseteq Functions
  BY KnowledgeStep
<1>4. /\ current' \in Sessions \cup {0} /\ opening'.session \in Sessions \cup {0}
      /\ DOMAIN op' = DOMAIN NoOperation /\ op'.name \in OperationNames
  <2>1. CASE SessionAction
    BY <2>1, SessionOperations, SessionTargets
  <2>2. CASE ReadingAction
    BY <2>2, ReadingOperations DEF Types
  <2>3. CASE UNCHANGED <<client, op>>
    BY <2>3 DEF Types, client
  <2> QED BY <2>1, <2>2, <2>3, StepsAre
<1> QED BY <1>1, <1>2, <1>3, <1>4 DEF Types

-----------------------------------------------------------------------------
(* The invariant. *)

\* Before the first session nothing is under way.
LEMMA InitIInv == Init => IInv
<1> SUFFICES ASSUME Init PROVE IInv
  OBVIOUS
<1>1. LifeInv /\ MdnsTypes /\ Types /\ Course
  BY LifeInit, MdnsInit, CourseInit DEF Init
<1>2. toPeer = <<>> /\ toClient = <<>> /\ collected = <<>> /\ op = Operation("connect", "open")
  BY DEF Init
<1>3. Ordered
  BY <1>2, NothingUnderWay DEF Ordered
<1>4. ToSet(toPeer) = {} /\ ToSet(toClient) = {} /\ ToSet(collected) = {}
  BY <1>2, NoItems
<1>5. op.awaits \notin Functions /\ op.ref = 0
  <2>1. op.awaits = "open" /\ op.ref = 0
    BY <1>2, OperationsAre
  <2> QED BY <2>1 DEF Functions
<1>6. OwnOrAbandoned /\ TakenAreOwn
  BY <1>4, <1>5 DEF OwnOrAbandoned, TakenAreOwn
<1> QED BY <1>1, <1>3, <1>6 DEF IInv, Course

\* A step of the client is a step of one of its sessions, or leaves them alone.
LEMMA SessionsStep ==
  ASSUME LifeInv, Types, Course, [Next]_vars
  PROVE  Course' /\ [Life!Next]_sessionVars
<1>1. StagesFit /\ OpenedInOrder
  BY DEF Course
<1>2. CASE SessionAction
  <2>1. Rediscovered => UNCHANGED sessionVars
    BY DEF Rediscovered
  <2> QED BY <1>2, <2>1, OpeningCourse, ClosingCourse, RediscoveryCourse DEF SessionAction
<1>3. CASE ReadingAction
  BY <1>1, <1>3, ReadingOperations, ReadingKeepsCourse
<1>4. CASE UNCHANGED <<phase, client, op>> /\ UNCHANGED sessionVars
  BY <1>4, ReadingKeepsCourse DEF client
<1>5. CASE (Network \/ UNCHANGED vars) /\ UNCHANGED <<client, op>>
  <2>1. UNCHANGED sessionVars /\ UNCHANGED <<phase, current, opening>>
    BY <1>5 DEF Network, vars, sessionVars, client
  <2> QED BY <1>5, <2>1, ReadingKeepsCourse
<1>6. CASE Background
  <2>1. UNCHANGED <<phase, current, opening, op>>
    BY <1>6 DEF Background, Life!Background, Life!TaskSends, Life!LinkDrops, client
  <2>2. Life!Next
    BY <1>6 DEF Background, Life!Next
  <2> QED BY <2>1, <2>2, ReadingKeepsCourse
<1> QED BY <1>2, <1>3, <1>4, <1>5, <1>6, StepsAre

\* A step takes an answer for its own request only.
LEMMA TrafficStep ==
  ASSUME Traffic, Types, StagesFit, [Next]_vars
  PROVE  Traffic'
<1>1. CASE Opened
  BY <1>1, OpenedTraffic
<1>2. CASE SessionAction /\ ~Opened
  BY <1>2, SessionTraffic DEF SessionAction
<1>3. CASE ReadingAction
  BY <1>3, BeginTraffic, DropTraffic, ReceiveTraffic DEF ReadingAction
<1>4. CASE PeerAnswers \/ PeerNotifies
  BY <1>4, PeerTraffic
<1>5. CASE UNCHANGED <<client, op, messages>>
  <2>1. UNCHANGED <<counter, toPeer, toClient, collected, abandoned, op>> /\ counter \in Nat
    BY <1>5 DEF messages, Types
  <2> QED BY <2>1, QuietStep
<1> QED BY <1>1, <1>2, <1>3, <1>4, <1>5, StepsAre

\* The invariant is inductive.
LEMMA IInvStep == IInv /\ [Next]_vars => IInv'
<1> SUFFICES ASSUME IInv, [Next]_vars PROVE IInv'
  OBVIOUS
<1>1. LifeInv /\ MdnsTypes /\ Types /\ StagesFit /\ OpenedInOrder /\ Course /\ Traffic
  BY DEF IInv, Course, Traffic
<1>2. Types' /\ MdnsTypes'
  BY <1>1, TypesStep, DiscoveryStep
<1>3. Course' /\ [Life!Next]_sessionVars
  BY <1>1, SessionsStep
<1>4. LifeInv'
  BY <1>1, <1>3, SessionsKeepTheirLife
<1>5. Traffic'
  BY <1>1, TrafficStep
<1> QED BY <1>2, <1>3, <1>4, <1>5 DEF IInv, Course, Traffic

\* Sessions are opened in order, one at a time, and closed before the next;
\* what is under way belongs to the request that waits, or to one that ended
\* without it.
THEOREM Invariant == Spec => []IInv
<1> QED BY InitIInv, IInvStep, PTL DEF Spec

\* The client takes its sessions through the life that ShipSession gives them:
\* every call it makes is one that the session allows at that moment.
THEOREM SessionsLiveAsSpecified == Spec => Life!Spec
<1>1. Init => Life!Init
  BY DEF Init
<1>2. IInv /\ [Next]_vars => [Life!Next]_(Life!sessionVars)
  BY SessionsStep DEF IInv, Course, sessionVars, Life!sessionVars
<1> QED BY <1>1, <1>2, Invariant, PTL DEF Spec, Life!Spec

-----------------------------------------------------------------------------
(* What Discovery finds out about the peer. *)

\* What the rounds under way know of where the peer is, unless it was made
\* untrue: what was answered is known, and its host has no other address.
KnownOfWanted ==
    LET place == Mdns!Place(Wanted)
    IN  round # "idle" /\ ~stale =>
            /\ "TXT" \in answered => Wanted \in DOMAIN known /\ known[Wanted].path = place.path
            /\ "SRV" \in answered => Wanted \in DOMAIN known /\ known[Wanted].target = place.target
            /\ "A" \in answered => place.target \in DOMAIN hosts /\ hosts[place.target] # {}
            /\ place.target \in DOMAIN hosts => hosts[place.target] \subseteq {place.address}
            /\ round = "instances" => asked \subseteq DOMAIN known
            /\ round = "hosts" => asked \subseteq DOMAIN hosts

\* What a packet says of a service that is known, or that it names.
LEMMA LearntOf ==
  ASSUME NEW s, NEW place, NEW records
  PROVE  LET next == Mdns!Learnt(s, place, records)
         IN  /\ DOMAIN known \subseteq DOMAIN next
             /\ \A k \in DOMAIN known : k # s => next[k] = known[k]
             /\ s \in DOMAIN next /\ "SRV" \in records => next[s].target = place.target
             /\ s \in DOMAIN next /\ "TXT" \in records => next[s].path = place.path
             /\ s \in DOMAIN known /\ "SRV" \notin records => next[s].target = known[s].target
             /\ s \in DOMAIN known /\ "TXT" \notin records => next[s].path = known[s].path
<1> DEFINE named == IF "PTR" \in records
                    THEN Mdns!Ensure(known, s, [target |-> Mdns!None, path |-> Mdns!DefaultPath])
                    ELSE known
           next == Mdns!Learnt(s, place, records)
<1>1. DOMAIN known \subseteq DOMAIN named /\ \A k \in DOMAIN known : named[k] = known[k]
  BY DEF Mdns!Ensure
<1>2. next = [k \in DOMAIN named |->
                 IF k # s THEN named[k]
                 ELSE [target |-> IF "SRV" \in records THEN place.target ELSE named[k].target,
                       path |-> IF "TXT" \in records THEN place.path ELSE named[k].path]]
  BY DEF Mdns!Learnt
<1> HIDE DEF named, next
<1>3. DOMAIN next = DOMAIN named /\ \A k \in DOMAIN named : k # s => next[k] = named[k]
  BY <1>2
<1>4. s \in DOMAIN named => next[s] = [target |-> IF "SRV" \in records THEN place.target ELSE named[s].target,
                                      path |-> IF "TXT" \in records THEN place.path ELSE named[s].path]
  BY <1>2
<1>5. QED
  <2>1. s \in DOMAIN known => s \in DOMAIN named /\ named[s] = known[s]
    BY <1>1
  <2>2. DOMAIN known \subseteq DOMAIN next /\ \A k \in DOMAIN known : k # s => next[k] = known[k]
    BY <1>1, <1>3
  <2> QED BY <1>3, <1>4, <2>1, <2>2 DEF next

\* A packet adds at most its own address, to its own host.
LEMMA LocatedAt ==
  ASSUME NEW s, NEW place, NEW records
  PROVE  LET next == Mdns!Located(s, place, records)
         IN  /\ DOMAIN hosts \subseteq DOMAIN next
             /\ \A t \in DOMAIN next :
                   next[t] = (IF t \in DOMAIN hosts THEN hosts[t] ELSE {})
                             \cup (IF t = place.target /\ "A" \in records THEN {place.address} ELSE {})
<1> DEFINE srv == "SRV" \in records /\ s \in DOMAIN Mdns!Learnt(s, place, records)
           named == IF srv THEN Mdns!Ensure(hosts, place.target, {}) ELSE hosts
           next == Mdns!Located(s, place, records)
<1>1. next = IF "A" \in records /\ place.target \in DOMAIN named
             THEN [named EXCEPT ![place.target] = @ \cup {place.address}] ELSE named
  BY DEF Mdns!Located
<1> HIDE DEF srv
<1>2. /\ DOMAIN hosts \subseteq DOMAIN named
      /\ \A t \in DOMAIN named : named[t] = IF t \in DOMAIN hosts THEN hosts[t] ELSE {}
  BY DEF Mdns!Ensure
<1> HIDE DEF named, next
<1>3. DOMAIN next = DOMAIN named
  BY <1>1
<1>4. ASSUME NEW t \in DOMAIN named
      PROVE  next[t] = named[t] \cup (IF t = place.target /\ "A" \in records THEN {place.address} ELSE {})
  BY <1>1, <1>4
<1> QED BY <1>2, <1>3, <1>4 DEF next

\* A packet that is not stale says where the peer is.
LEMMA PacketOfWanted ==
  ASSUME MdnsTypes, KnownOfWanted,
         NEW s \in Services, NEW i \in 1..2, NEW records \in SUBSET Mdns!Records,
         i <= Len(Places[s]), Mdns!Packet(s, i, records), ~stale'
  PROVE  KnownOfWanted'
<1> DEFINE p == Mdns!Place(Wanted)
           q == Places[s][i]
<1>1. /\ UNCHANGED <<round, asked, at>> /\ round # "idle" /\ i <= at[s]
      /\ known' = Mdns!Learnt(s, q, records) /\ hosts' = Mdns!Located(s, q, records)
  BY DEF Mdns!Packet
<1>2. /\ ~stale
      /\ s = Wanted => i = at[s]
      /\ answered' = IF s = Wanted THEN answered \cup Mdns!Answers(s, q, records) ELSE answered
  <2>1. at[s] \in Nat /\ i \in Nat
    BY DEF MdnsTypes
  <2> QED BY <1>1, <2>1 DEF Mdns!Packet
<1>3. Mdns!Place(Wanted)' = p
  BY <1>1 DEF Mdns!Place
<1>4. s = Wanted => q = p
  BY <1>2 DEF Mdns!Place
<1>5. q.target = p.target => q.address = p.address
  <2>1. at[Wanted] \in 1 .. Len(Places[Wanted]) /\ i \in 1 .. Len(Places[s])
    BY InstancesAssumption DEF MdnsTypes
  <2> QED BY <1>4, <2>1, PlacesAssumption DEF Mdns!Place
<1> HIDE DEF p, q
<1>6. /\ "TXT" \in answered => Wanted \in DOMAIN known /\ known[Wanted].path = p.path
      /\ "SRV" \in answered => Wanted \in DOMAIN known /\ known[Wanted].target = p.target
      /\ "A" \in answered => p.target \in DOMAIN hosts /\ hosts[p.target] # {}
      /\ p.target \in DOMAIN hosts => hosts[p.target] \subseteq {p.address}
      /\ round = "instances" => asked \subseteq DOMAIN known
      /\ round = "hosts" => asked \subseteq DOMAIN hosts
  BY <1>1, <1>2 DEF KnownOfWanted, p
<1>7. /\ DOMAIN known \subseteq DOMAIN known'
      /\ \A k \in DOMAIN known : k # s => known'[k] = known[k]
      /\ s \in DOMAIN known' /\ "SRV" \in records => known'[s].target = q.target
      /\ s \in DOMAIN known' /\ "TXT" \in records => known'[s].path = q.path
      /\ s \in DOMAIN known /\ "SRV" \notin records => known'[s].target = known[s].target
      /\ s \in DOMAIN known /\ "TXT" \notin records => known'[s].path = known[s].path
  BY <1>1, LearntOf
<1>8. /\ DOMAIN hosts \subseteq DOMAIN hosts'
      /\ \A t \in DOMAIN hosts' :
            hosts'[t] = (IF t \in DOMAIN hosts THEN hosts[t] ELSE {})
                        \cup (IF t = q.target /\ "A" \in records THEN {q.address} ELSE {})
  BY <1>1, LocatedAt
<1>9. ASSUME NEW r \in answered', r \notin answered
      PROVE  /\ s = Wanted /\ r \in records
             /\ r \in {"TXT", "SRV"} => round = "instances" /\ s \in asked
             /\ r = "A" => round = "hosts" /\ q.target \in asked
  BY <1>2, <1>9 DEF Mdns!Answers
<1>10. "TXT" \in answered' => Wanted \in DOMAIN known' /\ known'[Wanted].path = p.path
  <2>1. CASE "TXT" \in answered
    BY <1>4, <1>6, <1>7, <2>1
  <2>2. CASE "TXT" \in answered' /\ "TXT" \notin answered
    BY <1>4, <1>6, <1>7, <1>9, <2>2
  <2> QED BY <2>1, <2>2
<1>11. "SRV" \in answered' => Wanted \in DOMAIN known' /\ known'[Wanted].target = p.target
  <2>1. CASE "SRV" \in answered
    BY <1>4, <1>6, <1>7, <2>1
  <2>2. CASE "SRV" \in answered' /\ "SRV" \notin answered
    BY <1>4, <1>6, <1>7, <1>9, <2>2
  <2> QED BY <2>1, <2>2
<1>12. "A" \in answered' => p.target \in DOMAIN hosts' /\ hosts'[p.target] # {}
  <2>1. CASE "A" \in answered
    BY <1>6, <1>8, <2>1
  <2>2. CASE "A" \in answered' /\ "A" \notin answered
    BY <1>4, <1>6, <1>8, <1>9, <2>2
  <2> QED BY <2>1, <2>2
<1>13. p.target \in DOMAIN hosts' => hosts'[p.target] \subseteq {p.address}
  BY <1>5, <1>6, <1>8
<1>14. /\ round' = "instances" => asked' \subseteq DOMAIN known'
       /\ round' = "hosts" => asked' \subseteq DOMAIN hosts'
  BY <1>1, <1>6, <1>7, <1>8
<1> QED BY <1>3, <1>10, <1>11, <1>12, <1>13, <1>14 DEF KnownOfWanted

\* The rounds, and the network between them.
LEMMA WantedStep ==
  ASSUME MdnsTypes, KnownOfWanted,
         Mdns!Start \/ Mdns!PacketArrives \/ Mdns!RoundEnds \/ Mdns!Moves
  PROVE  KnownOfWanted'
<1>1. CASE Mdns!Start
  <2>1. round' = "PTR" /\ hosts' = << >> /\ answered' = {}
    BY <1>1 DEF Mdns!Start
  <2>2. DOMAIN hosts' = {}
    BY <2>1
  <2> QED BY <2>1, <2>2 DEF KnownOfWanted
<1>2. CASE Mdns!PacketArrives
  <2>1. PICK s \in Services, i \in 1..2, records \in SUBSET Mdns!Records :
           i <= Len(Places[s]) /\ Mdns!Packet(s, i, records)
    BY <1>2 DEF Mdns!PacketArrives
  <2>2. CASE stale'
    BY <2>2 DEF KnownOfWanted
  <2> QED BY <2>1, <2>2, PacketOfWanted
<1>3. CASE Mdns!RoundEnds
  <2>1. /\ round # "idle" /\ UNCHANGED <<known, hosts, at, answered, stale>>
        /\ round' = Mdns!RoundAfter[1] /\ asked' = Mdns!RoundAfter[2]
    BY <1>3 DEF Mdns!RoundEnds
  <2>2. \/ round' = "instances" /\ asked' = DOMAIN known
        \/ round' = "hosts" /\ asked' = DOMAIN hosts
        \/ round' = "idle"
    BY <2>1 DEF Mdns!RoundAfter
  <2>3. Mdns!Place(Wanted)' = Mdns!Place(Wanted)
    BY <2>1 DEF Mdns!Place
  <2> QED BY <2>1, <2>2, <2>3 DEF KnownOfWanted
<1>4. CASE Mdns!Moves
  <2>1. PICK s \in Services : Mdns!Move(s)
    BY <1>4 DEF Mdns!Moves
  <2>2. /\ at' = [at EXCEPT ![s] = @ + 1]
        /\ stale' = (stale \/ (s = Wanted /\ round # "idle"))
        /\ UNCHANGED <<round, known, hosts, asked, answered>>
    BY <2>1 DEF Mdns!Move
  <2>3. s # Wanted => Mdns!Place(Wanted)' = Mdns!Place(Wanted)
    BY <2>2, InstancesAssumption DEF Mdns!Place, MdnsTypes
  <2> QED BY <2>2, <2>3 DEF KnownOfWanted
<1> QED BY <1>1, <1>2, <1>3, <1>4

\* It is known of every step of the client.
LEMMA WantedIsKnown == Spec => []KnownOfWanted
<1>1. Init => KnownOfWanted
  BY DEF Init, Mdns!Init, KnownOfWanted
<1>2. IInv /\ KnownOfWanted /\ [Next]_vars => KnownOfWanted'
  <2> SUFFICES ASSUME IInv, KnownOfWanted, [Next]_vars PROVE KnownOfWanted'
    OBVIOUS
  <2>1. ASSUME UNCHANGED discoveryVars PROVE KnownOfWanted'
    BY <2>1 DEF KnownOfWanted, discoveryVars, Mdns!Place
  <2> QED BY <2>1, DiscoverySteps, WantedStep DEF IInv
<1> QED BY <1>1, <1>2, Invariant, PTL DEF Spec

-----------------------------------------------------------------------------
(* The servers that a request for measurements asks. *)

\* A request for measurements waits for one of the servers it has left to ask.
AsksAServer == op.awaits \in {"descriptions", "values"} => op.left \in 1 .. MeasurementServers

\* The next read goes to the server that the last one went to, or to one of
\* those behind it.
LEMMA AdvanceAsksAServer ==
  ASSUME NEW o, NEW found, NEW servers \in {0, MeasurementServers}, NEW bootstrap,
         Advance(o, found, servers, bootstrap),
         o.awaits \in {"descriptions", "values"} => o.left \in 1 .. MeasurementServers
  PROVE  AsksAServer'
<1> DEFINE fn == AsksNext(o, found, servers)
           left == CASE o.awaits = "discovery" -> servers
                     [] o.awaits = "values" -> o.left - 1
                     [] OTHER -> o.left
           described == o.described \/ (o.awaits = "descriptions" /\ found)
           first == Operation(o.name, fn)
<1>1. op' = IF fn = "none" THEN NoOperation
            ELSE [first EXCEPT !.ref = counter + Len(bootstrap), !.left = left, !.described = described]
  BY DEF Advance
<1>2. MeasurementServers \in Nat
  BY BoundsAssumption
<1>3. fn \in {"descriptions", "values"} => left \in 1 .. MeasurementServers
  <2>1. CASE o.awaits = "address"
    BY <2>1 DEF AsksNext
  <2>2. CASE o.awaits = "discovery"
    BY <1>2, <2>2 DEF AsksNext
  <2>3. CASE o.awaits = "descriptions"
    BY <2>3
  <2>4. CASE o.awaits = "values"
    <3>1. CASE ~found /\ o.left > 1
      BY <1>2, <2>4, <3>1
    <3>2. CASE ~(~found /\ o.left > 1)
      BY <2>4, <3>2 DEF AsksNext
    <3> QED BY <3>1, <3>2
  <2>5. CASE o.awaits \notin {"address", "discovery", "descriptions", "values"}
    BY <2>5 DEF AsksNext
  <2> QED BY <2>1, <2>2, <2>3, <2>4, <2>5
<1> HIDE DEF fn, left, described
<1>4. /\ DOMAIN first = DOMAIN NoOperation /\ {"ref", "left", "described"} \subseteq DOMAIN NoOperation
      /\ first.awaits = fn /\ NoOperation.awaits = "none"
  BY OperationsAre DEF NoOperation
<1> HIDE DEF first
<1>5. CASE fn = "none"
  BY <1>1, <1>4, <1>5 DEF AsksAServer
<1>6. CASE fn # "none"
  <2>1. op'.awaits = fn /\ op'.left = left
    BY <1>1, <1>4, <1>6
  <2> QED BY <1>3, <2>1 DEF AsksAServer
<1> QED BY <1>5, <1>6

\* Only a request for measurements goes on to a server.
LEMMA ServersAsked == AsksAServer /\ Types /\ StagesFit /\ [Next]_vars => AsksAServer'
<1> SUFFICES ASSUME AsksAServer, Types, StagesFit, [Next]_vars PROVE AsksAServer'
  OBVIOUS
<1>1. ASSUME op'.awaits = op.awaits, op'.left = op.left PROVE AsksAServer'
  BY <1>1 DEF AsksAServer
<1>2. ASSUME op'.awaits \notin {"descriptions", "values"} PROVE AsksAServer'
  BY <1>2 DEF AsksAServer
<1>3. NoOperation.awaits = "none" /\ \A name, awaits : Operation(name, awaits).awaits = awaits
  BY OperationsAre
<1>4. CASE SessionAction
  <2>1. \/ op' \in {op, NoOperation}
        \/ \E name \in {"close", "reconnect"}, awaits \in Stages : op' = Operation(name, awaits)
    BY <1>4 DEF SessionAction, Opening, Opened, OpenRaises, BeginClose, CloseAwaits, Closed, Rediscovered, Stages
  <2> QED BY <1>1, <1>2, <1>3, <2>1 DEF Stages
<1>5. CASE ReadingAction
  <2>1. ASSUME NEW name, BeginRequest(name) PROVE AsksAServer'
    <3>1. \/ op' = Operation(name, "address") \/ op' = NoOperation
          \/ Advance(Operation(name, "address"), FALSE, 0, <<>>)
      BY <2>1 DEF BeginRequest
    <3>2. Operation(name, "address").awaits \notin {"descriptions", "values"}
      BY <1>3
    <3>3. CASE Advance(Operation(name, "address"), FALSE, 0, <<>>)
      BY <3>2, <3>3, AdvanceAsksAServer
    <3> QED BY <1>2, <1>3, <3>1, <3>3
  <2>2. ASSUME NEW name, BeginReading(name) PROVE AsksAServer'
    BY <1>2, <1>3, <2>2 DEF BeginReading
  <2>3. CASE Receive
    <3> DEFINE d == Head(toClient)
               bootstrap == IF Bootstraps(d) THEN <<"use cases">> ELSE <<>>
               takes == Matches(d) /\ op.awaits \in Functions
               servers == IF takes /\ d.fn = "discovery" THEN MeasurementServers ELSE 0
    <3>1. op' \in {op, NoOperation} \/ Advance(op, takes, servers, bootstrap)
      BY <2>3 DEF Receive
    <3>2. servers \in {0, MeasurementServers}
      OBVIOUS
    <3> HIDE DEF takes, servers, bootstrap
    <3>3. \/ op' \in {op, NoOperation}
          \/ \E found, bootstraps : \E count \in {0, MeasurementServers} : Advance(op, found, count, bootstraps)
      BY <3>1, <3>2
    <3> QED BY <1>1, <1>2, <1>3, <3>3, AdvanceAsksAServer DEF AsksAServer
  <2>4. CASE Listen \/ SkipControl \/ DeadlinePasses \/ ReadEnds
    <3>1. op' \in {op, NoOperation, [op EXCEPT !.past = TRUE]}
      BY <2>4 DEF Listen, SkipControl, DeadlinePasses, ReadEnds
    <3>2. [op EXCEPT !.past = TRUE].awaits = op.awaits /\ [op EXCEPT !.past = TRUE].left = op.left
      BY DEF Types, NoOperation
    <3> QED BY <1>1, <1>2, <1>3, <3>1, <3>2
  <2> QED BY <1>5, <2>1, <2>2, <2>3, <2>4 DEF ReadingAction
<1>6. CASE UNCHANGED op
  BY <1>1, <1>6
<1> QED BY <1>4, <1>5, <1>6, StepsAre DEF client

\* Before the first session nothing is asked for.
LEMMA ServersAskedAtFirst == Init => AsksAServer
  BY OperationsAre DEF Init, AsksAServer

-----------------------------------------------------------------------------
(* The properties. *)

\* The variables have their types, those of the sessions and of Discovery too.
THEOREM TypeCorrect == Spec => []TypeOK
<1>1. IInv /\ AsksAServer => TypeOK
  <2> SUFFICES ASSUME IInv, AsksAServer PROVE TypeOK
    OBVIOUS
  <2>1. \A i \in 1..4 : Life!Closing[i] \in ClosingPhases
    <3>1. \A i \in 1..4 : i = 1 \/ i = 2 \/ i = 3 \/ i = 4
      OBVIOUS
    <3> QED BY <3>1 DEF Life!Closing, ClosingPhases
  <2>2. \A c \in ClosingPhases : \E i \in 1..4 : Life!Closing[i] = c
    BY DEF Life!Closing, ClosingPhases
  <2>3. Phases = {"new", "handshake", "failed", "ready", "closed", "raised"} \cup {Life!Closing[i] : i \in 1..4}
    BY <2>1, <2>2 DEF Phases
  <2>4. Life!TypeOK
    BY <2>3 DEF IInv, LifeInv, LifeTypes, Life!TypeOK, TaskStates
  <2>5. Mdns!TypeOK
    BY DEF IInv, MdnsTypes, Mdns!TypeOK
  <2>6. counter \in Nat
    BY DEF IInv, Types
  <2> QED BY <2>4, <2>5, <2>6 DEF IInv, Types, TypeOK, AsksAServer
<1>2. Init => AsksAServer
  BY ServersAskedAtFirst
<1>3. IInv /\ AsksAServer /\ [Next]_vars => AsksAServer'
  BY ServersAsked DEF IInv
<1> QED BY <1>1, <1>2, <1>3, Invariant, PTL DEF Spec

\* The sessions that the client left are closed, without tasks; it has closed
\* its own before it opens the next.
THEOREM LeftSessionsStayQuiet == Spec => []LeftSessionsAreQuiet
<1>1. IInv => LeftSessionsAreQuiet
  <2> SUFFICES ASSUME IInv, NEW s \in Sessions
               PROVE  /\ phase[s] = "closed" =>
                            transport[s] = "closed" /\ \A t \in Life!TaskNames : task[s][t] = "none"
                      /\ s # current /\ s # opening.session => phase[s] \in {"new", "failed", "closed"}
                      /\ phase[s] = "failed" => task[s].ping = "none" /\ task[s].keepalive = "none"
                      /\ opening.session # 0 /\ s = current => phase[s] = "closed"
    BY DEF LeftSessionsAreQuiet
  <2>1. TasksFit(s) /\ TransportFits(s)
    BY DEF IInv, LifeInv
  <2>2. s # 0
    BY NoSession
  <2> QED BY <2>1, <2>2 DEF IInv, TasksFit, TransportFits, NoTasks, OneSession, OpenedInOrder
<1> QED BY <1>1, Invariant, PTL

\* Only a delayed selection that could not be sent makes close raise; the
\* client then keeps that session, with its transport open.
THEOREM CloseRaisesOnlyForSelections == Spec => []OnlySelectionsBreakClose
<1>1. IInv => OnlySelectionsBreakClose
  <2> SUFFICES ASSUME IInv, NEW s \in Sessions, phase[s] = "raised"
               PROVE  /\ "select" \in options[s] /\ task[s].select = "failed" /\ transport[s] = "open"
                      /\ s = current
    BY DEF OnlySelectionsBreakClose
  <2>1. TasksFit(s) /\ TransportFits(s)
    BY DEF IInv, LifeInv
  <2>2. s # opening.session
    BY NoSession DEF IInv, OpenedInOrder
  <2>3. s = current
    BY <2>2 DEF IInv, OneSession
  <2> QED BY <2>1, <2>3 DEF TasksFit, TransportFits
<1> QED BY <1>1, Invariant, PTL

\* What a request takes for its answer is its own, unless the peer sent it
\* unasked or an earlier request of the function ended without its own; no
\* answer is taken twice.
THEOREM AnswersAreTheirOwn == Spec => []AnswersAreOwn
<1>1. IInv => AnswersAreOwn
  <2> SUFFICES ASSUME IInv, NEW i \in DOMAIN collected
               PROVE  \/ IsTakenRightly(collected[i]) /\ collected[i].asked = "discovery"
                         /\ collected[i].got.fn = "use cases"
                      \/ /\ collected[i].got.fn = collected[i].asked
                         /\ \/ collected[i].got.ref \in {0, collected[i].ref}
                            \/ collected[i].owed /\ collected[i].got.ref < collected[i].ref
                         /\ collected[i].got.ref # 0 =>
                               \A j \in DOMAIN collected : i # j => collected[j].got # collected[i].got
    BY DEF AnswersAreOwn
  <2>1. IsTakenRightly(collected[i])
    BY DEF IInv, TakenAreOwn, ToSet
  <2>2. ASSUME NEW j \in DOMAIN collected, i # j, collected[i].got.ref # 0,
               collected[j].got = collected[i].got
        PROVE  FALSE
    <3>1. collected[i].got.ref \in Nat /\ collected[j].got.ref = collected[i].got.ref
      <4>1. collected[i].got.ref \in 0 .. (counter - 1)
        BY DEF IInv, Ordered, InOrder
      <4> QED BY <2>2, <4>1
    <3>2. i \in Nat /\ j \in Nat
      <4> DEFINE S == ToSet(collected)
      <4>1. collected \in Seq(S)
        BY DEF IInv, Ordered, InOrder, IsSequence
      <4> HIDE DEF S
      <4> QED BY <4>1
    <3>3. i < j \/ j < i
      BY <2>2, <3>2
    <3>4. \A x \in DOMAIN collected, y \in DOMAIN collected :
             x < y /\ collected[y].got.ref # 0 => collected[x].got.ref < collected[y].got.ref
      BY DEF IInv, Ordered, InOrder
    <3>5. collected[i].got.ref < collected[i].got.ref
      BY <2>2, <3>1, <3>3, <3>4
    <3> QED BY <3>1, <3>5
  <2> QED BY <2>1, <2>2 DEF IsTakenRightly
<1> QED BY <1>1, Invariant, PTL

\* A rediscovery whose questions about the peer were all answered, with nothing
\* that a move of the peer made untrue, opens a connection to where the peer is.
THEOREM RediscoveryReachesThePeer == Spec => RediscoveryFindsThePeer
<1> DEFINE Ends == /\ op.awaits = "mdns" /\ op'.awaits # "mdns"
                   /\ answered = Mdns!Records /\ ~stale
           Reached == /\ op'.awaits = "open"
                      /\ Mdns!Reaches(opening'.service, Mdns!Place(Wanted))
<1>1. ASSUME IInv, KnownOfWanted, [Next]_vars, Ends PROVE Reached
  <2> DEFINE p == Mdns!Place(Wanted)
  <2>1. op.name \in {"connect", "close", "reconnect"} /\ op' # op
    BY <1>1 DEF IInv, StagesFit, Stages
  <2>2. Rediscovered
    <3>1. ~ReadingAction
      BY <2>1 DEF ReadingAction, BeginRequest, BeginReading, Requested, Begin, Receive, Listen,
        SkipControl, DeadlinePasses, ReadEnds, Receiving
    <3>2. SessionAction
      BY <1>1, <2>1, <3>1, StepsAre DEF client
    <3> QED BY <1>1, <2>1, <3>2 DEF SessionAction, Opening, Opened, OpenRaises, BeginClose, Begin,
              CloseAwaits, Closed
  <2>3. round # "idle" /\ round' = "idle"
    BY <1>1, <2>1, <2>2 DEF Rediscovered, Mdns!RoundEnds
  <2>4. /\ Wanted \in DOMAIN known /\ known[Wanted].path = p.path /\ known[Wanted].target = p.target
        /\ p.target \in DOMAIN hosts /\ hosts[p.target] = {p.address}
    <3>1. {"TXT", "SRV", "A"} \subseteq answered
      BY <1>1 DEF Mdns!Records
    <3> QED BY <1>1, <2>3, <3>1 DEF KnownOfWanted
  <2>5. p.target # Mdns!None /\ p.address \in Nat
    BY <1>1, InstancesAssumption, PlacesAssumption DEF IInv, MdnsTypes, Mdns!Place
  <2> DEFINE found == Mdns!Discovered(Wanted)
  <2>6. found = [target |-> p.target, path |-> p.path, address |-> p.address]
    <3>1. Mdns!Min({p.address}) = p.address
      BY <2>5 DEF Mdns!Min
    <3> HIDE DEF p
    <3> QED BY <2>4, <3>1 DEF Mdns!Discovered
  <2>7. op' = Operation("reconnect", "open") /\ opening' = [Fresh EXCEPT !.service = found]
    <3>1. found.target # Mdns!None
      BY <2>5, <2>6
    <3> QED BY <2>2, <2>3, <2>4, <3>1 DEF Rediscovered
  <2>8. op'.awaits = "open" /\ opening'.service = found
    BY <2>7, OperationsAre DEF Fresh
  <2> HIDE DEF p, found
  <2> QED BY <2>6, <2>8 DEF Mdns!Reaches, p
<1>2. IInv /\ KnownOfWanted /\ [Next]_vars => [Ends => Reached]_vars
  BY <1>1
<1> QED BY <1>2, Invariant, WantedIsKnown, PTL DEF Spec, RediscoveryFindsThePeer
=============================================================================
