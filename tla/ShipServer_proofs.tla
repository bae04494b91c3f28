-------------------------- MODULE ShipServer_proofs --------------------------
(***************************************************************************)
(* Proofs about the server: the life of its sessions (ServerSessions), for *)
(* any set of connections, peers and trusted SKIs, and the requests that a *)
(* session answers (ServerRequests), for any sessions, writes and number   *)
(* of requests.  The two share no state; each has an inductive invariant   *)
(* of its own.                                                             *)
(*                                                                         *)
(* Sessions: the invariant adds to the checked ones what each phase of a   *)
(* handler fixes (Phases) and that two sessions of a peer that coexist are *)
(* on record as overlapped (OneSession).                                   *)
(*                                                                         *)
(* Requests: every request is answered once and in order, the profile      *)
(* holds the latest writes, a notify shows the write it answers, and the   *)
(* events tell the limits.                                                 *)
(***************************************************************************)
EXTENDS ServerSessions, ServerRequests, SequenceLemmas

-----------------------------------------------------------------------------
(* Sessions. *)

\* What holds of a connection by the place its handler has reached.
Phases ==
    \A c \in Conns :
        /\ pc[c] \in {"free", "upgrade"} => peerSki[c] = NoSki
        /\ pc[c] \in {"free", "upgrade", "handshake"} => heartbeat[c] = "none"
        /\ pc[c] = "ready" => heartbeat[c] \in {"running", "failed"}
        /\ heartbeat[c] = "failed" => link[c] = "down"
        /\ peerSki[c] \in Peers => Trusts(peerSki[c])

\* Two sessions of one peer coexist only if the history says so.
OneSession ==
    \A c, d \in Conns :
        (/\ c # d
         /\ pc[c] \in Serving
         /\ pc[d] \in Serving
         /\ peerSki[c] \in Peers
         /\ peerSki[c] = peerSki[d]) => overlapped[peerSki[c]]

IInv ==
    /\ TypeOK
    /\ Phases
    /\ OneSession
    /\ RegistrySound
    /\ EventsTrackRegistry
    /\ ReachableUnlessOverlapped
    /\ NothingLeaks

\* The steps of one handler and its heartbeat task, and of its network.
ConnStep(c) ==
    \/ Accept(c) \/ Admit(c) \/ Reject(c) \/ Register(c)
    \/ ProtocolError(c) \/ LoseSession(c) \/ Reap(c) \/ Close(c)
    \/ HeartbeatFails(c) \/ LinkDrops(c)

\* Steps of the listener and of a caller of send_load_power_limit_to_peer.
CallStep ==
    \/ Stop
    \/ \E p \in Peers : CallRefused(p) \/ CallBegins(p)
    \/ CallSends \/ CallEnds

\* Before the first connection there are no sessions.
LEMMA InitIInv == Init => IInv
  BY ConnsAssumption, SkisAssumption
     DEF Init, IInv, TypeOK, Phases, OneSession, RegistrySound,
         EventsTrackRegistry, ReachableUnlessOverlapped, NothingLeaks, Serving,
         MaybeSki, MaybeConn, Idle, Calls

\* A handler that leaves goes to the phase its heartbeat task allows.
LEMMA AfterCancelPhase ==
  ASSUME NEW c \in Conns, Phases, pc[c] \in InHandler
  PROVE  /\ AfterCancel(c) \in {"closing", "reap", "raised"}
         /\ AfterCancel(c) = "closing" <=> heartbeat[c] = "none"
         /\ AfterCancel(c) = "reap" <=> heartbeat[c] = "running"
         /\ AfterCancel(c) = "raised" <=> heartbeat[c] = "failed"
  BY DEF Phases, InHandler, AfterCancel

\* The three ways out of a handler are one step with one guard.
LEMMA LeavingIsLeave ==
  ASSUME NEW c \in Conns, Reject(c) \/ ProtocolError(c) \/ LoseSession(c)
  PROVE  pc[c] \in InHandler /\ Leave(c)
  BY DEF Reject, ProtocolError, LoseSession, InHandler

\* A step is a step of one connection, a step that touches none, or a stutter.
LEMMA StepCases ==
  ASSUME [Next]_vars
  PROVE  \/ \E c \in Conns : ConnStep(c)
         \/ UNCHANGED <<pc, cert, peerSki, link, heartbeat, registry, told, overlapped>>
  BY DEF Next, vars, ConnStep, Stop, CallRefused, CallBegins, CallSends, CallEnds

\* Every step keeps the types.
LEMMA TypeStep == TypeOK /\ Phases /\ [Next]_vars => TypeOK'
<1> SUFFICES ASSUME TypeOK, Phases, [Next]_vars PROVE TypeOK'
  OBVIOUS
<1> USE ConnsAssumption, SkisAssumption DEF TypeOK, MaybeSki, MaybeConn, Calls
<1>1. ASSUME NEW c \in Conns, pc[c] \in InHandler, Leave(c) PROVE TypeOK'
  BY <1>1, AfterCancelPhase DEF Leave
<1>2. ASSUME NEW c \in Conns, ConnStep(c) PROVE TypeOK'
  <2>1. CASE Accept(c) BY <2>1 DEF Accept
  <2>2. CASE Admit(c) BY <2>2 DEF Admit
  <2>3. CASE Register(c) BY <2>3 DEF Register
  <2>4. CASE Reject(c) \/ ProtocolError(c) \/ LoseSession(c)
    BY <2>4, <1>1, LeavingIsLeave
  <2>5. CASE Reap(c) BY <2>5 DEF Reap
  <2>6. CASE Close(c) BY <2>6 DEF Close
  <2>7. CASE HeartbeatFails(c) BY <2>7 DEF HeartbeatFails
  <2>8. CASE LinkDrops(c) BY <2>8 DEF LinkDrops
  <2> QED BY <1>2, <2>1, <2>2, <2>3, <2>4, <2>5, <2>6, <2>7, <2>8 DEF ConnStep
<1>3. CASE CallStep
  <2>1. CASE Stop BY <2>1 DEF Stop
  <2>2. ASSUME NEW p \in Peers, CallRefused(p) PROVE TypeOK'
    BY <2>2 DEF CallRefused
  <2>3. ASSUME NEW p \in Peers, CallBegins(p) PROVE TypeOK'
    BY <2>3 DEF CallBegins
  <2>4. CASE CallSends BY <2>4 DEF CallSends
  <2>5. CASE CallEnds BY <2>5 DEF CallEnds, Idle
  <2> QED BY <1>3, <2>1, <2>2, <2>3, <2>4, <2>5 DEF CallStep
<1>4. CASE UNCHANGED vars BY <1>4 DEF vars
<1> QED BY <1>2, <1>3, <1>4 DEF Next, ConnStep, CallStep

\* Every step leaves what the phase of each handler fixes.
LEMMA PhasesStep == TypeOK /\ Phases /\ [Next]_vars => Phases'
<1> SUFFICES ASSUME TypeOK, Phases, [Next]_vars PROVE Phases'
  OBVIOUS
<1> USE SkisAssumption DEF TypeOK, MaybeSki, MaybeConn
<1>1. ASSUME NEW c \in Conns, pc[c] \in InHandler, Leave(c) PROVE Phases'
  BY <1>1, AfterCancelPhase DEF Leave, Phases
<1>2. ASSUME NEW c \in Conns, ConnStep(c) PROVE Phases'
  <2>1. CASE Accept(c) BY <2>1 DEF Accept, Phases
  <2>2. CASE Admit(c) BY <2>2 DEF Admit, Phases, Trusts
  <2>3. CASE Register(c) BY <2>3 DEF Register, Phases
  <2>4. CASE Reject(c) \/ ProtocolError(c) \/ LoseSession(c)
    BY <2>4, <1>1, LeavingIsLeave
  <2>5. CASE Reap(c) BY <2>5 DEF Reap, Phases
  <2>6. CASE Close(c) BY <2>6 DEF Close, Phases
  <2>7. CASE HeartbeatFails(c) BY <2>7 DEF HeartbeatFails, Phases
  <2>8. CASE LinkDrops(c) BY <2>8 DEF LinkDrops, Phases
  <2> QED BY <1>2, <2>1, <2>2, <2>3, <2>4, <2>5, <2>6, <2>7, <2>8 DEF ConnStep
<1>3. CASE UNCHANGED <<pc, cert, peerSki, link, heartbeat, registry, told, overlapped>>
  BY <1>3 DEF Phases
<1> QED BY <1>2, <1>3, StepCases

\* Two sessions of a peer never coexist unrecorded.
LEMMA OneSessionStep == TypeOK /\ Phases /\ OneSession /\ [Next]_vars => OneSession'
<1> SUFFICES ASSUME TypeOK, Phases, OneSession, [Next]_vars PROVE OneSession'
  OBVIOUS
<1> USE SkisAssumption DEF TypeOK, MaybeSki, MaybeConn, Serving
<1>1. ASSUME NEW c \in Conns, pc[c] \in InHandler, Leave(c) PROVE OneSession'
  BY <1>1, AfterCancelPhase DEF Leave, OneSession
<1>2. ASSUME NEW c \in Conns, ConnStep(c) PROVE OneSession'
  <2>1. CASE Accept(c) BY <2>1 DEF Accept, OneSession
  <2>2. CASE Admit(c) BY <2>2 DEF Admit, OneSession, Phases
  <2>3. CASE Register(c) BY <2>3 DEF Register, OneSession
  <2>4. CASE Reject(c) \/ ProtocolError(c) \/ LoseSession(c)
    BY <2>4, <1>1, LeavingIsLeave
  <2>5. CASE Reap(c) BY <2>5 DEF Reap, OneSession
  <2>6. CASE Close(c) BY <2>6 DEF Close, OneSession
  <2>7. CASE HeartbeatFails(c) BY <2>7 DEF HeartbeatFails, OneSession
  <2>8. CASE LinkDrops(c) BY <2>8 DEF LinkDrops, OneSession
  <2> QED BY <1>2, <2>1, <2>2, <2>3, <2>4, <2>5, <2>6, <2>7, <2>8 DEF ConnStep
<1>3. CASE UNCHANGED <<pc, cert, peerSki, link, heartbeat, registry, told, overlapped>>
  BY <1>3 DEF OneSession
<1> QED BY <1>2, <1>3, StepCases

\* Only Register and the three ways out write the dictionary; both leave the
\* entry right for every other SKI.
LEMMA RegistrySoundStep ==
  TypeOK /\ Phases /\ RegistrySound /\ [Next]_vars => RegistrySound'
<1> SUFFICES ASSUME TypeOK, Phases, RegistrySound, [Next]_vars PROVE RegistrySound'
  OBVIOUS
<1> USE ConnsAssumption, SkisAssumption DEF TypeOK, MaybeSki, MaybeConn
<1>1. ASSUME NEW c \in Conns, pc[c] \in InHandler, Leave(c) PROVE RegistrySound'
  BY <1>1, AfterCancelPhase DEF Leave, RegistrySound, Phases, InHandler, Trusts
<1>2. ASSUME NEW c \in Conns, ConnStep(c) PROVE RegistrySound'
  <2>1. CASE Accept(c) BY <2>1 DEF Accept, RegistrySound, Trusts
  <2>2. CASE Admit(c) BY <2>2 DEF Admit, RegistrySound, Trusts
  <2>3. CASE Register(c) BY <2>3 DEF Register, RegistrySound, Phases, Trusts
  <2>4. CASE Reject(c) \/ ProtocolError(c) \/ LoseSession(c)
    BY <2>4, <1>1, LeavingIsLeave
  <2>5. CASE Reap(c) BY <2>5 DEF Reap, RegistrySound, Trusts
  <2>6. CASE Close(c) BY <2>6 DEF Close, RegistrySound, Trusts
  <2>7. CASE HeartbeatFails(c) BY <2>7 DEF HeartbeatFails, RegistrySound, Trusts
  <2>8. CASE LinkDrops(c) BY <2>8 DEF LinkDrops, RegistrySound, Trusts
  <2> QED BY <1>2, <2>1, <2>2, <2>3, <2>4, <2>5, <2>6, <2>7, <2>8 DEF ConnStep
<1>3. CASE UNCHANGED <<pc, cert, peerSki, link, heartbeat, registry, told, overlapped>>
  BY <1>3 DEF RegistrySound, Trusts
<1> QED BY <1>2, <1>3, StepCases

\* Each event is emitted in the step that writes the dictionary.
LEMMA EventsStep ==
  TypeOK /\ EventsTrackRegistry /\ [Next]_vars => EventsTrackRegistry'
<1> SUFFICES ASSUME TypeOK, EventsTrackRegistry, [Next]_vars
             PROVE  EventsTrackRegistry'
  OBVIOUS
<1> USE ConnsAssumption, SkisAssumption DEF TypeOK, MaybeSki, MaybeConn
<1>1. ASSUME NEW c \in Conns, Leave(c) PROVE EventsTrackRegistry'
  BY <1>1 DEF Leave, EventsTrackRegistry
<1>2. ASSUME NEW c \in Conns, Register(c) PROVE EventsTrackRegistry'
  BY <1>2 DEF Register, EventsTrackRegistry
<1>3. ASSUME UNCHANGED <<registry, told>> PROVE EventsTrackRegistry'
  BY <1>3 DEF EventsTrackRegistry
<1>4. ASSUME NEW c \in Conns, ConnStep(c) PROVE EventsTrackRegistry'
  <2>1. CASE Accept(c) \/ Admit(c) \/ Reap(c) \/ Close(c) \/ HeartbeatFails(c) \/ LinkDrops(c)
    BY <2>1, <1>3 DEF Accept, Admit, Reap, Close, HeartbeatFails, LinkDrops
  <2> QED BY <1>4, <2>1, <1>1, <1>2, LeavingIsLeave DEF ConnStep
<1> QED BY <1>3, <1>4, StepCases

\* A session that is alone stays the one that is found.
LEMMA ReachableStep ==
  TypeOK /\ Phases /\ OneSession /\ ReachableUnlessOverlapped /\ [Next]_vars
    => ReachableUnlessOverlapped'
<1> SUFFICES ASSUME TypeOK, Phases, OneSession, ReachableUnlessOverlapped, [Next]_vars
             PROVE  ReachableUnlessOverlapped'
  OBVIOUS
<1> USE ConnsAssumption, SkisAssumption DEF TypeOK, MaybeSki, MaybeConn
<1>1. ASSUME NEW c \in Conns, pc[c] \in InHandler, Leave(c)
      PROVE  ReachableUnlessOverlapped'
  BY <1>1, AfterCancelPhase
     DEF Leave, ReachableUnlessOverlapped, Phases, OneSession, InHandler, Serving
<1>2. ASSUME NEW c \in Conns, ConnStep(c) PROVE ReachableUnlessOverlapped'
  <2>1. CASE Accept(c) BY <2>1 DEF Accept, ReachableUnlessOverlapped
  <2>2. CASE Admit(c) BY <2>2 DEF Admit, ReachableUnlessOverlapped
  <2>3. CASE Register(c)
    BY <2>3 DEF Register, ReachableUnlessOverlapped, OneSession, Serving
  <2>4. CASE Reject(c) \/ ProtocolError(c) \/ LoseSession(c)
    BY <2>4, <1>1, LeavingIsLeave
  <2>5. CASE Reap(c) BY <2>5 DEF Reap, ReachableUnlessOverlapped
  <2>6. CASE Close(c) BY <2>6 DEF Close, ReachableUnlessOverlapped
  <2>7. CASE HeartbeatFails(c) BY <2>7 DEF HeartbeatFails, ReachableUnlessOverlapped
  <2>8. CASE LinkDrops(c) BY <2>8 DEF LinkDrops, ReachableUnlessOverlapped
  <2> QED BY <1>2, <2>1, <2>2, <2>3, <2>4, <2>5, <2>6, <2>7, <2>8 DEF ConnStep
<1>3. CASE UNCHANGED <<pc, cert, peerSki, link, heartbeat, registry, told, overlapped>>
  BY <1>3 DEF ReachableUnlessOverlapped
<1> QED BY <1>2, <1>3, StepCases

\* What ends leaves nothing running.
LEMMA NothingLeaksStep ==
  TypeOK /\ Phases /\ NothingLeaks /\ [Next]_vars => NothingLeaks'
<1> SUFFICES ASSUME TypeOK, Phases, NothingLeaks, [Next]_vars PROVE NothingLeaks'
  OBVIOUS
<1> USE DEF TypeOK
<1>1. ASSUME NEW c \in Conns, pc[c] \in InHandler, Leave(c) PROVE NothingLeaks'
  BY <1>1, AfterCancelPhase DEF Leave, NothingLeaks, Phases, InHandler
<1>2. ASSUME NEW c \in Conns, ConnStep(c) PROVE NothingLeaks'
  <2>1. CASE Accept(c) BY <2>1 DEF Accept, NothingLeaks, Phases
  <2>2. CASE Admit(c) BY <2>2 DEF Admit, NothingLeaks, Phases
  <2>3. CASE Register(c) BY <2>3 DEF Register, NothingLeaks
  <2>4. CASE Reject(c) \/ ProtocolError(c) \/ LoseSession(c)
    BY <2>4, <1>1, LeavingIsLeave
  <2>5. CASE Reap(c) BY <2>5 DEF Reap, NothingLeaks
  <2>6. CASE Close(c) BY <2>6 DEF Close, NothingLeaks
  <2>7. CASE HeartbeatFails(c) BY <2>7 DEF HeartbeatFails, NothingLeaks
  <2>8. CASE LinkDrops(c) BY <2>8 DEF LinkDrops, NothingLeaks
  <2> QED BY <1>2, <2>1, <2>2, <2>3, <2>4, <2>5, <2>6, <2>7, <2>8 DEF ConnStep
<1>3. CASE UNCHANGED <<pc, cert, peerSki, link, heartbeat, registry, told, overlapped>>
  BY <1>3 DEF NothingLeaks
<1> QED BY <1>2, <1>3, StepCases

-----------------------------------------------------------------------------
\* The inductive invariant holds of every behaviour of the server.
THEOREM Invariant == Spec => []IInv
<1>1. IInv /\ [Next]_vars => IInv'
  BY TypeStep, PhasesStep, OneSessionStep, RegistrySoundStep, EventsStep,
     ReachableStep, NothingLeaksStep DEF IInv
<1> QED BY InitIInv, <1>1, PTL DEF Spec

\* Every variable of the connection side keeps its type.
THEOREM TypeCorrect == Spec => []TypeOK
<1>1. IInv => TypeOK BY DEF IInv
<1> QED BY Invariant, <1>1, PTL

\* _active_sessions never leads to an ended, foreign or untrusted session.
THEOREM RegistryIsSound == Spec => []RegistrySound
<1>1. IInv => RegistrySound BY DEF IInv
<1> QED BY Invariant, <1>1, PTL

\* The "ready" and "closed" events tell exactly who is in _active_sessions.
THEOREM EventsAreTruthful == Spec => []EventsTrackRegistry
<1>1. IInv => EventsTrackRegistry BY DEF IInv
<1> QED BY Invariant, <1>1, PTL

\* A peer whose sessions never coexist can be reached while it is connected.
THEOREM ReachableWithoutOverlap == Spec => []ReachableUnlessOverlapped
<1>1. IInv => ReachableUnlessOverlapped BY DEF IInv
<1> QED BY Invariant, <1>1, PTL

\* Ended handlers leave neither a heartbeat task nor an open transport.
THEOREM NothingIsLeaked == Spec => []NothingLeaks
<1>1. IInv => NothingLeaks BY DEF IInv
<1> QED BY Invariant, <1>1, PTL

-----------------------------------------------------------------------------
(* Requests: the two folds that the properties are stated with. *)

\* The answers due to the first n requests, for every n up to the last.
IsDue(g, requests, last) ==
    g = [n \in 0 .. last |-> IF n = 0 THEN <<>> ELSE g[n - 1] \o Owed(requests[n], n)]

\* They exist for any list of requests.
LEMMA DueExists == ASSUME NEW requests PROVE \A n \in Nat : \E g : IsDue(g, requests, n)
<1> DEFINE T == {n \in Nat : ~ \E g : IsDue(g, requests, n)}
<1>1. ASSUME T # {} PROVE FALSE
  <2>1. PICK n \in T : \A m \in T : n <= m
    BY <1>1, Least
  <2>2. n # 0
    <3>1. IsDue([k \in 0 .. 0 |-> <<>>], requests, 0)
      BY DEF IsDue
    <3> QED BY <2>1, <3>1
  <2>3. n \in Nat /\ n - 1 \in Nat /\ n - 1 \notin T
    BY <2>1, <2>2
  <2>4. PICK g : IsDue(g, requests, n - 1)
    BY <2>3
  <2> DEFINE h == [k \in 0 .. n |-> IF k = n THEN g[n - 1] \o Owed(requests[n], n) ELSE g[k]]
  <2>5. ASSUME NEW k \in 0 .. n
        PROVE  h[k] = IF k = 0 THEN <<>> ELSE h[k - 1] \o Owed(requests[k], k)
    <3>1. CASE k = n
      <4>1. h[k] = g[n - 1] \o Owed(requests[n], n) /\ h[k - 1] = g[n - 1]
        BY <2>3, <3>1
      <4> QED BY <2>2, <3>1, <4>1
    <3>2. CASE k # n
      <4>1. k \in 0 .. (n - 1) /\ h[k] = g[k] /\ (k # 0 => h[k - 1] = g[k - 1])
        BY <2>3, <3>2
      <4>2. g[k] = IF k = 0 THEN <<>> ELSE g[k - 1] \o Owed(requests[k], k)
        BY <2>4, <4>1 DEF IsDue
      <4> QED BY <4>1, <4>2
    <3> QED BY <3>1, <3>2
  <2>6. IsDue(h, requests, n)
    <3>1. h = [k \in 0 .. n |-> h[k]]
      OBVIOUS
    <3> HIDE DEF h
    <3> QED BY <2>5, <3>1 DEF IsDue
  <2> QED BY <2>1, <2>6
<1> QED BY <1>1

\* One more request adds what it is owed.
LEMMA DueAppended ==
  /\ Due(<<>>) = <<>>
  /\ \A S : \A requests \in Seq(S), q \in S :
        Due(Append(requests, q)) = Due(requests) \o Owed(q, Len(requests) + 1)
<1> DEFINE D(requests) == CHOOSE g : IsDue(g, requests, Len(requests))
<1>1. ASSUME NEW requests PROVE Due(requests) = D(requests)[Len(requests)]
  BY DEF Due, IsDue
<1>2. ASSUME NEW requests, Len(requests) \in Nat PROVE IsDue(D(requests), requests, Len(requests))
  BY <1>2, DueExists
<1>3. Due(<<>>) = <<>>
  <2>1. Len(<<>>) = 0
    OBVIOUS
  <2> HIDE DEF D
  <2>2. IsDue(D(<<>>), <<>>, 0)
    <3>1. IsDue(D(<<>>), <<>>, Len(<<>>))
      BY <1>2, <2>1
    <3> QED BY <2>1, <3>1
  <2> QED BY <1>1, <2>1, <2>2 DEF IsDue
<1>4. ASSUME NEW S, NEW requests \in Seq(S), NEW q \in S
      PROVE  Due(Append(requests, q)) = Due(requests) \o Owed(q, Len(requests) + 1)
  <2> DEFINE n == Len(requests)
             more == Append(requests, q)
             g == D(requests)
             h == D(more)
  <2>1. n \in Nat /\ Len(more) = n + 1 /\ more[n + 1] = q /\ \A k \in 1 .. n : more[k] = requests[k]
    OBVIOUS
  <2>2. IsDue(g, requests, n) /\ IsDue(h, more, n + 1)
    <3> HIDE DEF D, more
    <3>1. IsDue(D(requests), requests, Len(requests)) /\ IsDue(D(more), more, Len(more))
      BY <1>2, <2>1
    <3> QED BY <2>1, <3>1
  <2>3. Due(requests) = g[n] /\ Due(more) = h[n + 1]
    BY <1>1, <2>1
  <2> HIDE DEF D, n, more, g, h
  <2> DEFINE T == {k \in 0 .. n : g[k] # h[k]}
  <2>4. ASSUME T # {} PROVE FALSE
    <3>1. PICK k \in T : \A m \in T : k <= m
      <4>1. T \subseteq Nat
        BY <2>1
      <4> HIDE DEF T
      <4> QED BY <2>4, <4>1, Least
    <3>2. k \in 0 .. n /\ g[k] # h[k] /\ k \in 0 .. (n + 1)
      BY <2>1, <3>1
    <3>3. k # 0
      BY <2>2, <3>2 DEF IsDue
    <3>4. k - 1 \in 0 .. n /\ k - 1 \notin T /\ k \in 1 .. n
      BY <2>1, <3>1, <3>2, <3>3
    <3>5. g[k - 1] = h[k - 1] /\ requests[k] = more[k]
      BY <2>1, <3>4
    <3>6. g[k] = g[k - 1] \o Owed(requests[k], k) /\ h[k] = h[k - 1] \o Owed(more[k], k)
      BY <2>2, <3>2, <3>3 DEF IsDue
    <3> QED BY <3>2, <3>5, <3>6
  <2>5. g[n] = h[n]
    BY <2>1, <2>4
  <2>6. h[n + 1] = h[n] \o Owed(more[n + 1], n + 1)
    <3>1. n + 1 \in 0 .. (n + 1) /\ n + 1 # 0 /\ (n + 1) - 1 = n
      BY <2>1
    <3>2. h[n + 1] = IF n + 1 = 0 THEN <<>> ELSE h[(n + 1) - 1] \o Owed(more[n + 1], n + 1)
      BY <2>2, <3>1 DEF IsDue
    <3> QED BY <3>1, <3>2
  <2> QED BY <2>1, <2>3, <2>5, <2>6 DEF n, more
<1> QED BY <1>3, <1>4

\* What is known by the first n events, for every n up to the last.
IsKnown(g, list, last) ==
    g = [n \in 0 .. last |-> IF n = 0 THEN DefaultProfile(Fields).limits ELSE Learn(g[n - 1], list[n])]

\* It exists for any list of events.
LEMMA KnownExists == ASSUME NEW list PROVE \A n \in Nat : \E g : IsKnown(g, list, n)
<1> DEFINE T == {n \in Nat : ~ \E g : IsKnown(g, list, n)}
<1>1. ASSUME T # {} PROVE FALSE
  <2>1. PICK n \in T : \A m \in T : n <= m
    BY <1>1, Least
  <2>2. n # 0
    <3>1. IsKnown([k \in 0 .. 0 |-> DefaultProfile(Fields).limits], list, 0)
      BY DEF IsKnown
    <3> QED BY <2>1, <3>1
  <2>3. n \in Nat /\ n - 1 \in Nat /\ n - 1 \notin T
    BY <2>1, <2>2
  <2>4. PICK g : IsKnown(g, list, n - 1)
    BY <2>3
  <2> DEFINE h == [k \in 0 .. n |-> IF k = n THEN Learn(g[n - 1], list[n]) ELSE g[k]]
  <2>5. ASSUME NEW k \in 0 .. n
        PROVE  h[k] = IF k = 0 THEN DefaultProfile(Fields).limits ELSE Learn(h[k - 1], list[k])
    <3>1. CASE k = n
      <4>1. h[k] = Learn(g[n - 1], list[n]) /\ h[k - 1] = g[n - 1]
        BY <2>3, <3>1
      <4> QED BY <2>2, <3>1, <4>1
    <3>2. CASE k # n
      <4>1. k \in 0 .. (n - 1) /\ h[k] = g[k] /\ (k # 0 => h[k - 1] = g[k - 1])
        BY <2>3, <3>2
      <4>2. g[k] = IF k = 0 THEN DefaultProfile(Fields).limits ELSE Learn(g[k - 1], list[k])
        BY <2>4, <4>1 DEF IsKnown
      <4> QED BY <4>1, <4>2
    <3> QED BY <3>1, <3>2
  <2>6. IsKnown(h, list, n)
    <3>1. h = [k \in 0 .. n |-> h[k]]
      OBVIOUS
    <3> HIDE DEF h
    <3> QED BY <2>5, <3>1 DEF IsKnown
  <2> QED BY <2>1, <2>6
<1> QED BY <1>1

\* One more event is learned from.
LEMMA ReplayAppended ==
  /\ Replay(<<>>) = DefaultProfile(Fields).limits
  /\ \A S : \A list \in Seq(S), e \in S :
        Replay(Append(list, e)) = Learn(Replay(list), e)
<1> DEFINE D(list) == CHOOSE g : IsKnown(g, list, Len(list))
<1>1. ASSUME NEW list PROVE Replay(list) = D(list)[Len(list)]
  BY DEF Replay, IsKnown
<1>2. ASSUME NEW list, Len(list) \in Nat PROVE IsKnown(D(list), list, Len(list))
  BY <1>2, KnownExists
<1>3. Replay(<<>>) = DefaultProfile(Fields).limits
  <2>1. Len(<<>>) = 0
    OBVIOUS
  <2> HIDE DEF D
  <2>2. IsKnown(D(<<>>), <<>>, 0)
    <3>1. IsKnown(D(<<>>), <<>>, Len(<<>>))
      BY <1>2, <2>1
    <3> QED BY <2>1, <3>1
  <2> QED BY <1>1, <2>1, <2>2 DEF IsKnown
<1>4. ASSUME NEW S, NEW list \in Seq(S), NEW e \in S
      PROVE  Replay(Append(list, e)) = Learn(Replay(list), e)
  <2> DEFINE n == Len(list)
             more == Append(list, e)
             g == D(list)
             h == D(more)
  <2>1. n \in Nat /\ Len(more) = n + 1 /\ more[n + 1] = e /\ \A k \in 1 .. n : more[k] = list[k]
    OBVIOUS
  <2>2. IsKnown(g, list, n) /\ IsKnown(h, more, n + 1)
    <3> HIDE DEF D, more
    <3>1. IsKnown(D(list), list, Len(list)) /\ IsKnown(D(more), more, Len(more))
      BY <1>2, <2>1
    <3> QED BY <2>1, <3>1
  <2>3. Replay(list) = g[n] /\ Replay(more) = h[n + 1]
    BY <1>1, <2>1
  <2> HIDE DEF D, n, more, g, h
  <2> DEFINE T == {k \in 0 .. n : g[k] # h[k]}
  <2>4. ASSUME T # {} PROVE FALSE
    <3>1. PICK k \in T : \A m \in T : k <= m
      <4>1. T \subseteq Nat
        BY <2>1
      <4> HIDE DEF T
      <4> QED BY <2>4, <4>1, Least
    <3>2. k \in 0 .. n /\ g[k] # h[k] /\ k \in 0 .. (n + 1)
      BY <2>1, <3>1
    <3>3. k # 0
      BY <2>2, <3>2 DEF IsKnown
    <3>4. k - 1 \in 0 .. n /\ k - 1 \notin T /\ k \in 1 .. n
      BY <2>1, <3>1, <3>2, <3>3
    <3>5. g[k - 1] = h[k - 1] /\ list[k] = more[k]
      BY <2>1, <3>4
    <3>6. g[k] = Learn(g[k - 1], list[k]) /\ h[k] = Learn(h[k - 1], more[k])
      BY <2>2, <3>2, <3>3 DEF IsKnown
    <3> QED BY <3>2, <3>5, <3>6
  <2>5. g[n] = h[n]
    BY <2>1, <2>4
  <2>6. h[n + 1] = Learn(h[n], more[n + 1])
    <3>1. n + 1 \in 0 .. (n + 1) /\ n + 1 # 0 /\ (n + 1) - 1 = n
      BY <2>1
    <3>2. h[n + 1] = IF n + 1 = 0 THEN DefaultProfile(Fields).limits ELSE Learn(h[(n + 1) - 1], more[n + 1])
      BY <2>2, <3>1 DEF IsKnown
    <3> QED BY <3>1, <3>2
  <2> QED BY <2>1, <2>3, <2>5, <2>6 DEF n, more
<1> QED BY <1>3, <1>4

-----------------------------------------------------------------------------
(* Answers and requests. *)

\* The tags of one list of answers after another.
LEMMA TagsJoined ==
  ASSUME NEW a, NEW b, IsSequence(a), IsSequence(b)
  PROVE  /\ IsSequence(Tags(a)) /\ Len(Tags(a)) = Len(a)
         /\ Tags(a \o b) = Tags(a) \o Tags(b)
<1> DEFINE S == ToSet(a) \cup ToSet(b)
           P == {<<x.kind, x.req>> : x \in S}
<1>1. a \in Seq(S) /\ b \in Seq(S)
  BY DEF IsSequence
<1>2. ASSUME NEW c \in Seq(S)
      PROVE  /\ Tags(c) \in Seq(P) /\ Len(Tags(c)) = Len(c)
             /\ \A i \in 1 .. Len(c) : Tags(c)[i] = <<c[i].kind, c[i].req>>
  <2> HIDE DEF S
  <2>1. Len(c) \in Nat /\ DOMAIN c = 1 .. Len(c) /\ \A i \in 1 .. Len(c) : c[i] \in S
    OBVIOUS
  <2> QED BY <2>1 DEF Tags
<1>3. /\ a \o b \in Seq(S) /\ Len(a \o b) = Len(a) + Len(b) /\ Len(a) \in Nat /\ Len(b) \in Nat
      /\ \A i \in 1 .. (Len(a) + Len(b)) : (a \o b)[i] = IF i <= Len(a) THEN a[i] ELSE b[i - Len(a)]
  <2> HIDE DEF S
  <2> QED BY <1>1
<1>4. Tags(a \o b) = Tags(a) \o Tags(b)
  <2> DEFINE t == Tags(a \o b)
             u == Tags(a)
             v == Tags(b)
  <2>1. /\ t \in Seq(P) /\ u \in Seq(P) /\ v \in Seq(P)
        /\ Len(t) = Len(a) + Len(b) /\ Len(u) = Len(a) /\ Len(v) = Len(b)
    BY <1>1, <1>2, <1>3
  <2>2. ASSUME NEW i \in 1 .. Len(t) PROVE t[i] = IF i <= Len(u) THEN u[i] ELSE v[i - Len(u)]
    <3>1. i \in 1 .. (Len(a) + Len(b)) /\ (i <= Len(a) => i \in 1 .. Len(a))
          /\ (~(i <= Len(a)) => i - Len(a) \in 1 .. Len(b))
      BY <1>3, <2>1
    <3>2. t[i] = <<(a \o b)[i].kind, (a \o b)[i].req>>
      BY <1>2, <1>3, <3>1
    <3>3. CASE i <= Len(a)
      BY <1>1, <1>2, <1>3, <2>1, <3>1, <3>2, <3>3
    <3>4. CASE ~(i <= Len(a))
      BY <1>1, <1>2, <1>3, <2>1, <3>1, <3>2, <3>4
    <3> QED BY <3>3, <3>4
  <2> HIDE DEF t, u, v, P
  <2>3. /\ u \o v \in Seq(P) /\ Len(u \o v) = Len(t)
        /\ \A i \in 1 .. Len(t) : (u \o v)[i] = t[i]
    <3>1. /\ u \o v \in Seq(P) /\ Len(u \o v) = Len(u) + Len(v)
          /\ \A i \in 1 .. (Len(u) + Len(v)) :
                (u \o v)[i] = IF i <= Len(u) THEN u[i] ELSE v[i - Len(u)]
      BY <2>1
    <3> QED BY <1>3, <2>1, <2>2, <3>1
  <2>4. t = u \o v
    <3> DEFINE w == u \o v
    <3> HIDE DEF w
    <3>1. w \in Seq(P) /\ Len(w) = Len(t) /\ \A i \in 1 .. Len(t) : w[i] = t[i]
      BY <2>3 DEF w
    <3>2. t = w
      BY <2>1, <3>1
    <3> QED BY <3>2 DEF w
  <2> QED BY <2>4 DEF t, u, v
<1>5. IsSequence(Tags(a))
  <2>1. Tags(a) \in Seq(P)
    BY <1>1, <1>2
  <2> HIDE DEF P
  <2>2. Tags(a) \in Seq(ToSet(Tags(a)))
    BY <2>1 DEF ToSet
  <2> QED BY <2>2 DEF IsSequence
<1> QED BY <1>1, <1>2, <1>4, <1>5

\* What the handler answers to a request of each kind.
LEMMA AnswersAreOwed ==
  ASSUME NEW n, NEW x, NEW y
  PROVE  /\ \A q \in {"notify", "unknown"} : Tags(<<>>) = Owed(q, n)
         /\ \A q \in {"write", "call", "acked notify"} : Tags(<<Answer("result", n, x)>>) = Owed(q, n)
         /\ Tags(<<Answer("reply", n, x)>>) = Owed("read", n)
         /\ Tags(<<Answer("result", n, x)>> \o <<Answer("notify", n, y)>>) = Owed("store write", n)
<1>1. ASSUME NEW q \in {"notify", "unknown"} PROVE Tags(<<>>) = Owed(q, n)
  <2>1. Expected(q) = <<>>
    BY DEF Expected
  <2> QED BY <2>1 DEF Tags, Owed
<1>2. /\ Tags(<<Answer("result", n, x)>>) = Owed("write", n)
      /\ Tags(<<Answer("result", n, x)>>) = Owed("call", n)
      /\ Tags(<<Answer("result", n, x)>>) = Owed("acked notify", n)
  <2>1. Tags(<<Answer("result", n, x)>>) = Owed("write", n)
    BY DEF Tags, Owed, Expected, Answer
  <2>2. Tags(<<Answer("result", n, x)>>) = Owed("call", n)
    BY DEF Tags, Owed, Expected, Answer
  <2>3. Tags(<<Answer("result", n, x)>>) = Owed("acked notify", n)
    BY DEF Tags, Owed, Expected, Answer
  <2> QED BY <2>1, <2>2, <2>3
<1>3. Tags(<<Answer("reply", n, x)>>) = Owed("read", n)
  BY DEF Tags, Owed, Expected, Answer
<1>4. Tags(<<Answer("result", n, x)>> \o <<Answer("notify", n, y)>>) = Owed("store write", n)
  BY DEF Tags, Owed, Expected, Answer
<1> QED BY <1>1, <1>2, <1>3, <1>4

\* Every read that a profile of the server announces has a reply.
LEMMA AnnouncedHaveReplies == AnnouncedReads \subseteq Answered
<1>0. /\ \A type, role, entity, feature, reads : Feature(type, role, entity, feature, reads).reads = reads
      /\ \A type, entity, feature, reads : Server(type, entity, feature, reads).reads = reads
  BY DEF Feature, Server
<1>1. ASSUME NEW f \in ManagerFeatures PROVE f.reads \subseteq Answered
  <2> DEFINE management == {"discovery", "use cases", "subscriptions", "destinations", "bindings"}
             manufacturer == {"manufacturer"}
             limits2 == {"limit descriptions", "limits"}
             configured == {"configuration descriptions", "configuration"}
             diagnosis == {"heartbeat"}
             characteristics == {"characteristics"}
  <2>1. /\ management \subseteq Answered /\ manufacturer \subseteq Answered /\ limits2 \subseteq Answered
        /\ configured \subseteq Answered /\ diagnosis \subseteq Answered
        /\ characteristics \subseteq Answered
    BY DEF Answered
  <2>2. \/ f = Feature("NodeManagement", "special", 0, 0, management)
        \/ f = Server("DeviceClassification", 0, 1, manufacturer)
        \/ f = Client("DeviceDiagnosis", 1)
        \/ f = Server("LoadControl", 1, 2, limits2)
        \/ f = Server("DeviceConfiguration", 1, 3, configured)
        \/ f = Server("DeviceDiagnosis", 1, 4, diagnosis)
        \/ f = Server("ElectricalConnection", 1, 5, characteristics)
    BY DEF ManagerFeatures, Classification, Configuration
  <2> HIDE DEF management, manufacturer, limits2, configured, diagnosis, characteristics
  <2>3. Client("DeviceDiagnosis", 1).reads = {}
    BY <1>0 DEF Client
  <2>4. f.reads \in {management, manufacturer, {}, limits2, configured, diagnosis, characteristics}
    BY <1>0, <2>2, <2>3
  <2> QED BY <2>1, <2>4
<1>2. ASSUME NEW f \in GridFeatures PROVE f.reads \subseteq Answered
  <2> DEFINE configured == {"configuration descriptions", "configuration"}
  <2>1. configured \subseteq Answered /\ ConnectionReads \subseteq Answered
        /\ MeasurementReads \subseteq Answered
    BY DEF Answered
  <2>2. \/ f = Server("DeviceConfiguration", 6, 1, configured)
        \/ f = Server("ElectricalConnection", 6, 2, ConnectionReads)
        \/ f = Server("Measurement", 6, 3, MeasurementReads)
    BY DEF GridFeatures, Configuration, Connection, Measurement
  <2> HIDE DEF configured
  <2> QED BY <1>0, <2>1, <2>2
<1>3. ASSUME NEW n \in 6 .. 9, NEW type PROVE Client(type, n).reads \subseteq Answered
  BY DEF Client, Feature
<1>4. ASSUME NEW f \in ServerFeatures("default") PROVE f.reads \subseteq Answered
  <2>1. \/ f \in ManagerFeatures
        \/ f \in {Client("LoadControl", 6), Client("DeviceConfiguration", 7),
                  Client("ElectricalConnection", 8), Client("Measurement", 9)}
    BY DEF ServerFeatures
  <2> QED BY <2>1, <1>1, <1>3
<1>5. ASSUME NEW f \in ServerFeatures("cls-load-power") PROVE f.reads \subseteq Answered
  <2>1. \/ f \in ManagerFeatures
        \/ f \in {Client("DeviceConfiguration", 7), Client("ElectricalConnection", 8),
                  Client("Measurement", 9)}
        \/ f \in GridFeatures
    BY DEF ServerFeatures
  <2> QED BY <2>1, <1>1, <1>2, <1>3
<1> QED BY <1>4, <1>5 DEF AnnouncedReads

\* What the lists and histories hold.
Entries == [session : Sessions, req : Nat, write : Writes]
Types ==
    /\ DOMAIN profile = Stores /\ DOMAIN alive = Sessions
    /\ DOMAIN outbox = Sessions /\ DOMAIN sent = Sessions
    /\ received \in [Sessions -> Seq(Requests)]
    /\ \A s \in Sessions : IsSequence(sent[s]) /\ IsSequence(outbox[s])
    /\ written \in Seq(Entries)
    /\ IsSequence(events)

\* A request of s is handled: q is answered by a.
Handles(s, q, a) ==
    /\ alive[s] /\ outbox[s] = <<>> /\ q \in Requests
    /\ IsSequence(a) /\ Tags(a) = Owed(q, Request(s))
    /\ \A x \in ToSet(a) : x.req = Request(s)
    /\ outbox' = [outbox EXCEPT ![s] = a]
    /\ received' = [received EXCEPT ![s] = Append(@, q)]
    /\ UNCHANGED <<alive, sent>>

\* The answers to one request are a sequence, and bear its number.
LEMMA AnswersAreSequences ==
  ASSUME NEW n, NEW x, NEW y, NEW k
  PROVE  /\ IsSequence(<<>>) /\ IsSequence(<<Answer(k, n, x)>>)
         /\ IsSequence(<<Answer("result", n, x)>> \o <<Answer("notify", n, y)>>)
         /\ \A z \in ToSet(<<>>) : z.req = n
         /\ \A z \in ToSet(<<Answer(k, n, x)>>) : z.req = n
         /\ \A z \in ToSet(<<Answer("result", n, x)>> \o <<Answer("notify", n, y)>>) : z.req = n
<1>1. \A z, j : Answer(j, n, z).req = n
  BY DEF Answer
<1> HIDE DEF Answer
<1> QED BY <1>1, NoItems, OneItem, JoinedItems

\* Every handler of a request answers it as its kind is due.
LEMMA RequestsAreHandled ==
  ASSUME NEW s \in Sessions,
         \/ \E w \in Writes, ack \in BOOLEAN : RecvWrite(s, w, ack)
         \/ \E ack \in BOOLEAN : RecvOtherWrite(s, ack) \/ RecvNotify(s, ack)
         \/ \E f \in AnnouncedReads \cup {Unknown} : RecvRead(s, f)
         \/ RecvCall(s)
  PROVE  \E q \in Requests : \E a : Handles(s, q, a)
<1> DEFINE n == Request(s)
<1>1. ASSUME NEW w \in Writes, NEW ack \in BOOLEAN, RecvWrite(s, w, ack)
      PROVE  \E q \in Requests : \E a : Handles(s, q, a)
  <2> DEFINE y == [store |-> w.store, items |-> Merge(profile[w.store], w.items)]
             a == <<Answer("result", n, Empty)>> \o <<Answer("notify", n, y)>>
  <2>1. outbox' = [outbox EXCEPT ![s] = a]
    BY <1>1 DEF RecvWrite, WriteResults, Result
  <2>2. IsSequence(a) /\ Tags(a) = Owed("store write", n) /\ \A x \in ToSet(a) : x.req = n
    <3>1. Tags(a) = Owed("store write", n)
      BY AnswersAreOwed
    <3>2. IsSequence(a) /\ \A x \in ToSet(a) : x.req = n
      BY AnswersAreSequences
    <3> QED BY <3>1, <3>2
  <2> HIDE DEF a
  <2>3. Handles(s, "store write", a)
    BY <1>1, <2>1, <2>2 DEF RecvWrite, Reading, Handles, Requests
  <2> QED BY <2>3 DEF Requests
<1>2. ASSUME NEW q \in {"write", "call", "acked notify"}, Reading(s),
             outbox' = [outbox EXCEPT ![s] = <<Result(n)>>],
             received' = [received EXCEPT ![s] = Append(@, q)],
             UNCHANGED <<alive, sent>>
      PROVE  \E r \in Requests : \E a : Handles(s, r, a)
  <2> DEFINE a == <<Answer("result", n, Empty)>>
  <2>1. IsSequence(a) /\ Tags(a) = Owed(q, n) /\ \A x \in ToSet(a) : x.req = n
    BY AnswersAreOwed, AnswersAreSequences
  <2>2. outbox' = [outbox EXCEPT ![s] = a]
    BY <1>2 DEF Result
  <2> HIDE DEF a
  <2>3. Handles(s, q, a)
    BY <1>2, <2>1, <2>2 DEF Reading, Handles, Requests
  <2> QED BY <2>3 DEF Requests
<1>3. ASSUME NEW q \in {"notify", "unknown"}, Reading(s),
             outbox' = [outbox EXCEPT ![s] = <<>>],
             received' = [received EXCEPT ![s] = Append(@, q)],
             UNCHANGED <<alive, sent>>
      PROVE  \E r \in Requests : \E a : Handles(s, r, a)
  <2>1. IsSequence(<<>>) /\ Tags(<<>>) = Owed(q, n) /\ \A x \in ToSet(<<>>) : x.req = n
    BY AnswersAreOwed, AnswersAreSequences
  <2>2. Handles(s, q, <<>>)
    BY <1>3, <2>1 DEF Reading, Handles, Requests
  <2> QED BY <2>2 DEF Requests
<1>4. ASSUME NEW ack \in BOOLEAN, RecvOtherWrite(s, ack)
      PROVE  \E q \in Requests : \E a : Handles(s, q, a)
  BY <1>2, <1>4 DEF RecvOtherWrite, WriteResults
<1>5. ASSUME NEW ack \in BOOLEAN, RecvNotify(s, ack)
      PROVE  \E q \in Requests : \E a : Handles(s, q, a)
  <2>1. CASE ack
    BY <1>2, <1>5, <2>1 DEF RecvNotify
  <2>2. CASE ~ack
    BY <1>3, <1>5, <2>2 DEF RecvNotify
  <2> QED BY <2>1, <2>2
<1>6. CASE RecvCall(s)
  BY <1>2, <1>6 DEF RecvCall
<1>7. ASSUME NEW f \in AnnouncedReads \cup {Unknown}, RecvRead(s, f)
      PROVE  \E q \in Requests : \E a : Handles(s, q, a)
  <2>1. Unknown \notin Answered \cup Stores /\ Unknown \notin {"subscriptions", "bindings"}
    BY DEF Unknown, Answered, Stores, ConnectionReads, MeasurementReads
  <2>2. CASE f \in AnnouncedReads
    <3>1. f \in Answered
      BY <2>2, AnnouncedHaveReplies
    <3>2. PICK x : ReadReplies(s, f, n) = <<Answer("reply", n, x)>>
      BY <3>1 DEF ReadReplies
    <3> DEFINE a == <<Answer("reply", n, x)>>
    <3>3. IsSequence(a) /\ Tags(a) = Owed("read", n) /\ \A z \in ToSet(a) : z.req = n
      BY AnswersAreOwed, AnswersAreSequences
    <3>4. outbox' = [outbox EXCEPT ![s] = a]
      BY <1>7, <3>2 DEF RecvRead
    <3> HIDE DEF a
    <3>5. Handles(s, "read", a)
      BY <1>7, <2>2, <3>3, <3>4 DEF RecvRead, Reading, Handles, Requests
    <3> QED BY <3>5 DEF Requests
  <2>3. CASE f \notin AnnouncedReads
    <3>1. ReadReplies(s, f, n) = <<>>
      BY <2>1, <2>3 DEF ReadReplies
    <3> QED BY <1>3, <1>7, <2>3, <3>1 DEF RecvRead
  <2> QED BY <2>2, <2>3
<1> QED BY <1>1, <1>4, <1>5, <1>6, <1>7

\* What a step does to the answers: a request is handled, an answer is sent,
\* a session ends, or nothing.
LEMMA AnswerCases ==
  ASSUME [RequestsNext]_requestVars
  PROVE  \/ \E s \in Sessions, q \in Requests : \E a : Handles(s, q, a)
         \/ \E s \in Sessions : SendNext(s) \/ End(s)
         \/ UNCHANGED <<alive, outbox, received, sent>>
<1>1. CASE UNCHANGED requestVars
  BY <1>1 DEF requestVars, requestHistories
<1>2. ASSUME NEW s \in Sessions,
             \/ \E w \in Writes, ack \in BOOLEAN : RecvWrite(s, w, ack)
             \/ \E ack \in BOOLEAN : RecvOtherWrite(s, ack) \/ RecvNotify(s, ack)
             \/ \E f \in AnnouncedReads \cup {Unknown} : RecvRead(s, f)
             \/ RecvCall(s)
      PROVE  \E q \in Requests : \E a : Handles(s, q, a)
  BY <1>2, RequestsAreHandled
<1>3. ASSUME NEW s \in Sessions
      PROVE  StartRound(s) \/ SendBeat(s) => UNCHANGED <<alive, outbox, received, sent>>
  BY DEF StartRound, SendBeat
<1>4. ASSUME NEW s \in Sessions
      PROVE  (\E c \in Subscribers : Subscribe(s, c) \/ Bind(s, c)) \/ Unsubscribe(s) \/ Unbind(s) => RecvCall(s)
  BY DEF Subscribe, Bind, Unsubscribe, Unbind
<1> QED BY <1>1, <1>2, <1>3, <1>4 DEF RequestsNext

\* What it does to the stores: a write is handled, or nothing.
LEMMA StoreCases ==
  ASSUME [RequestsNext]_requestVars
  PROVE  \/ \E s \in Sessions, w \in Writes, ack \in BOOLEAN : RecvWrite(s, w, ack)
         \/ UNCHANGED <<profile, written, events>>
<1>1. CASE UNCHANGED requestVars
  BY <1>1 DEF requestVars, requestHistories
<1>2. ASSUME NEW s \in Sessions, NEW ack \in BOOLEAN
      PROVE  RecvOtherWrite(s, ack) \/ RecvNotify(s, ack) => UNCHANGED <<profile, written, events>>
  BY DEF RecvOtherWrite, RecvNotify
<1>3. ASSUME NEW s \in Sessions, NEW f
      PROVE  RecvRead(s, f) => UNCHANGED <<profile, written, events>>
  BY DEF RecvRead
<1>4. ASSUME NEW s \in Sessions
      PROVE  (\E c \in Subscribers : Subscribe(s, c) \/ Bind(s, c)) \/ Unsubscribe(s) \/ Unbind(s)
             => UNCHANGED <<profile, written, events>>
  BY DEF Subscribe, Bind, Unsubscribe, Unbind, RecvCall
<1>5. ASSUME NEW s \in Sessions
      PROVE  SendNext(s) \/ StartRound(s) \/ SendBeat(s) \/ End(s) => UNCHANGED <<profile, written, events>>
  BY DEF SendNext, StartRound, SendBeat, End
<1> QED BY <1>1, <1>2, <1>3, <1>4, <1>5 DEF RequestsNext

\* A limit write adds one event or none.
LEMMA EventsAreSequences ==
  ASSUME NEW s, NEW w, IsSequence(events)
  PROVE  IsSequence(WriteEvents(s, w)) /\ IsSequence(events \o WriteEvents(s, w))
<1>1. IsSequence(WriteEvents(s, w))
  BY NoItems, OneItem DEF WriteEvents
<1> QED BY <1>1, JoinedItems

\* The types are kept.
LEMMA TypesStep == Types /\ [RequestsNext]_requestVars => Types'
<1> SUFFICES ASSUME Types, [RequestsNext]_requestVars PROVE Types'
  OBVIOUS
<1>1. /\ (DOMAIN alive = Sessions)' /\ (DOMAIN outbox = Sessions)' /\ (DOMAIN sent = Sessions)'
      /\ (received \in [Sessions -> Seq(Requests)])'
      /\ \A s \in Sessions : (IsSequence(sent[s]) /\ IsSequence(outbox[s]))'
  <2>1. ASSUME NEW s \in Sessions, NEW q \in Requests, NEW a, Handles(s, q, a) PROVE <1>1!:
    BY <2>1 DEF Types, Handles
  <2>2. ASSUME NEW s \in Sessions, SendNext(s) PROVE <1>1!:
    <3>1. IsSequence(Append(sent[s], Head(outbox[s]))) /\ IsSequence(Tail(outbox[s]))
      BY <2>2, AppendedItem, TakenItem DEF Types, SendNext
    <3> QED BY <2>2, <3>1 DEF Types, SendNext
  <2>3. ASSUME NEW s \in Sessions, End(s) PROVE <1>1!:
    BY <2>3, NoItems DEF Types, End
  <2>4. CASE UNCHANGED <<alive, outbox, received, sent>>
    BY <2>4 DEF Types
  <2> QED BY <2>1, <2>2, <2>3, <2>4, AnswerCases
<1>2. (DOMAIN profile = Stores)' /\ (written \in Seq(Entries))' /\ IsSequence(events)'
  <2>1. ASSUME NEW s \in Sessions, NEW w \in Writes, NEW ack \in BOOLEAN, RecvWrite(s, w, ack)
        PROVE  <1>2!:
    <3>1. [session |-> s, req |-> Request(s), write |-> w] \in Entries
      BY DEF Types, Request, Entries
    <3>2. (DOMAIN profile = Stores)'
      BY <2>1 DEF Types, RecvWrite
    <3>3. (written \in Seq(Entries))'
      <4>1. written' = Append(written, [session |-> s, req |-> Request(s), write |-> w])
        BY <2>1 DEF RecvWrite
      <4> DEFINE e == [session |-> s, req |-> Request(s), write |-> w]
      <4>2. written \in Seq(Entries) /\ e \in Entries /\ written' = Append(written, e)
        BY <3>1, <4>1 DEF Types
      <4> HIDE DEF e
      <4> QED BY <4>2
    <3>4. IsSequence(events)'
      <4>1. events' = events \o WriteEvents(s, w)
        BY <2>1 DEF RecvWrite
      <4> QED BY <4>1, EventsAreSequences DEF Types
    <3> QED BY <3>2, <3>3, <3>4
  <2>2. CASE UNCHANGED <<profile, written, events>>
    BY <2>2 DEF Types
  <2> QED BY <2>1, <2>2, StoreCases
<1> QED BY <1>1, <1>2 DEF Types

-----------------------------------------------------------------------------
(* Every request is answered once. *)

\* The answers of a running session are those its requests are due; those of a
\* session that ended are a beginning of them.
LEMMA AnsweredStep ==
  Types /\ EveryRequestAnsweredOnce /\ [RequestsNext]_requestVars => EveryRequestAnsweredOnce'
<1> SUFFICES ASSUME Types, EveryRequestAnsweredOnce, [RequestsNext]_requestVars
             PROVE  EveryRequestAnsweredOnce'
  OBVIOUS
<1> DEFINE tags(s) == Tags(sent[s] \o outbox[s])
           Answered2(s) == IF alive[s] THEN tags(s) = Due(received[s]) ELSE IsPrefix(tags(s), Due(received[s]))
<1>1. ASSUME NEW s \in Sessions PROVE Answered2(s)
  BY DEF EveryRequestAnsweredOnce
<1>2. ASSUME NEW s \in Sessions, NEW r \in Sessions, r # s,
             alive'[r] = alive[r], outbox'[r] = outbox[r], received'[r] = received[r], sent'[r] = sent[r]
      PROVE  Answered2(r)'
  BY <1>1, <1>2
<1>3. ASSUME NEW s \in Sessions, sent[s] \in Seq(ToSet(sent[s]))
      PROVE  sent[s] \o <<>> = sent[s]
  <2> DEFINE S == ToSet(sent[s])
  <2>1. sent[s] \in Seq(S)
    BY <1>3
  <2> HIDE DEF S
  <2> QED BY <2>1
<1>4. ASSUME NEW s \in Sessions, NEW q \in Requests, NEW a, Handles(s, q, a), NEW r \in Sessions
      PROVE  Answered2(r)'
  <2>1. CASE r = s
    <3>1. alive'[s] /\ sent'[s] = sent[s] /\ outbox'[s] = a /\ received'[s] = Append(received[s], q)
      BY <1>4 DEF Handles, Types
    <3>2. Tags(sent[s]) = Due(received[s])
      BY <1>1, <1>3, <1>4 DEF Handles, Types, IsSequence
    <3>3. Tags(sent[s] \o a) = Tags(sent[s]) \o Owed(q, Len(received[s]) + 1)
      BY <1>4, TagsJoined DEF Handles, Types, Request
    <3>4. Due(Append(received[s], q)) = Due(received[s]) \o Owed(q, Len(received[s]) + 1)
      BY DueAppended DEF Types
    <3> QED BY <2>1, <3>1, <3>2, <3>3, <3>4
  <2>2. CASE r # s
    BY <1>2, <1>4, <2>2 DEF Handles, Types
  <2> QED BY <2>1, <2>2
<1>5. ASSUME NEW s \in Sessions, SendNext(s), NEW r \in Sessions
      PROVE  Answered2(r)'
  <2>1. CASE r = s
    <3>1. /\ alive'[s] = alive[s] /\ received'[s] = received[s]
          /\ sent'[s] = Append(sent[s], Head(outbox[s])) /\ outbox'[s] = Tail(outbox[s])
      BY <1>5 DEF SendNext, Types
    <3>2. sent'[s] \o outbox'[s] = sent[s] \o outbox[s]
      <4>1. outbox[s] # <<>> /\ IsSequence(outbox[s]) /\ IsSequence(sent[s])
        BY <1>5 DEF SendNext, Types
      <4> QED BY <3>1, <4>1, NextIsMoved
    <3> QED BY <1>1, <2>1, <3>1, <3>2
  <2>2. CASE r # s
    BY <1>2, <1>5, <2>2 DEF SendNext, Types
  <2> QED BY <2>1, <2>2
<1>6. ASSUME NEW s \in Sessions, End(s), NEW r \in Sessions
      PROVE  Answered2(r)'
  <2>1. CASE r = s
    <3>1. /\ alive[s] /\ ~alive'[s] /\ received'[s] = received[s]
          /\ sent'[s] = sent[s] /\ outbox'[s] = <<>>
      BY <1>6 DEF End, Types
    <3>2. Tags(sent[s] \o outbox[s]) = Due(received[s])
      BY <1>1, <3>1
    <3>3. /\ Tags(sent[s] \o outbox[s]) = Tags(sent[s]) \o Tags(outbox[s])
          /\ IsSequence(Tags(sent[s])) /\ IsSequence(Tags(outbox[s]))
      BY TagsJoined DEF Types
    <3>4. IsPrefix(Tags(sent[s]), Due(received[s]))
      BY <3>2, <3>3, JoinedHasPrefix
    <3>5. sent'[s] \o outbox'[s] = sent[s]
      BY <1>3, <3>1 DEF Types, IsSequence
    <3> QED BY <2>1, <3>1, <3>4, <3>5
  <2>2. CASE r # s
    BY <1>2, <1>6, <2>2 DEF End, Types
  <2> QED BY <2>1, <2>2
<1>7. CASE UNCHANGED <<alive, outbox, received, sent>>
  BY <1>7 DEF EveryRequestAnsweredOnce
<1> QED BY <1>4, <1>5, <1>6, <1>7, AnswerCases DEF EveryRequestAnsweredOnce

-----------------------------------------------------------------------------
(* The notify of a write shows it. *)

\* What a session has sent or will send, and the numbers it bears: those of
\* requests that were handled.
Answers(s) == ToSet(sent[s]) \cup ToSet(outbox[s])
Counted ==
    /\ \A s \in Sessions : \A x \in Answers(s) : x.req \in 1 .. Len(received[s])
    /\ \A n \in DOMAIN written : written[n].req \in 1 .. Len(received[written[n].session])

\* x is not the notify of the entry e, or shows its fields.
Shows(x, e) ==
    x.kind = "notify" /\ x.req = e.req /\ e.write.items # NoList
    => \A id \in DOMAIN e.write.items : \A f \in DOMAIN e.write.items[id] :
          /\ id \in DOMAIN x.shows.items
          /\ f \in DOMAIN x.shows.items[id]
          /\ x.shows.items[id][f] = e.write.items[id][f]
Shown == \A n \in DOMAIN written : \A x \in Answers(written[n].session) : Shows(x, written[n])

\* A step adds to what a session has to answer only what it handles now.
LEMMA AnswersStep ==
  ASSUME Types, NEW s \in Sessions, NEW r \in Sessions
  PROVE  /\ \A q \in Requests : \A a : Handles(s, q, a) =>
                /\ Answers(r)' \subseteq IF r = s THEN Answers(r) \cup ToSet(a) ELSE Answers(r)
                /\ Len(received[r]) \in Nat
                /\ Len(received'[r]) = IF r = s THEN Request(r) ELSE Len(received[r])
         /\ SendNext(s) \/ End(s) => Answers(r)' \subseteq Answers(r) /\ received' = received
<1>1. Len(received[r]) \in Nat
  BY DEF Types
<1>2. ASSUME NEW q \in Requests, NEW a, Handles(s, q, a)
      PROVE  /\ Answers(r)' \subseteq IF r = s THEN Answers(r) \cup ToSet(a) ELSE Answers(r)
             /\ Len(received'[r]) = IF r = s THEN Request(r) ELSE Len(received[r])
  <2>1. sent'[r] = sent[r] /\ outbox'[r] = IF r = s THEN a ELSE outbox[r]
    BY <1>2 DEF Handles, Types
  <2>2. Len(received'[r]) = IF r = s THEN Request(r) ELSE Len(received[r])
    BY <1>2 DEF Handles, Types, Request
  <2> QED BY <2>1, <2>2 DEF Answers
<1>3. ASSUME SendNext(s) PROVE Answers(r)' \subseteq Answers(r) /\ received' = received
  <2>1. /\ sent'[r] = IF r = s THEN Append(sent[s], Head(outbox[s])) ELSE sent[r]
        /\ outbox'[r] = IF r = s THEN Tail(outbox[s]) ELSE outbox[r]
        /\ received' = received /\ outbox[s] # <<>>
    BY <1>3 DEF SendNext, Types
  <2>2. /\ Head(outbox[s]) \in ToSet(outbox[s]) /\ ToSet(Tail(outbox[s])) \subseteq ToSet(outbox[s])
        /\ ToSet(Append(sent[s], Head(outbox[s]))) = ToSet(sent[s]) \cup {Head(outbox[s])}
    BY <2>1, TakenItem, AppendedItem DEF Types
  <2> QED BY <2>1, <2>2 DEF Answers
<1>4. ASSUME End(s) PROVE Answers(r)' \subseteq Answers(r) /\ received' = received
  <2>1. /\ sent'[r] = sent[r] /\ outbox'[r] = IF r = s THEN <<>> ELSE outbox[r]
        /\ received' = received
    BY <1>4 DEF End, Types
  <2> QED BY <2>1, NoItems DEF Answers
<1> QED BY <1>1, <1>2, <1>3, <1>4

\* The entry that a write adds to the history.
LEMMA WrittenStep ==
  ASSUME Types, NEW s \in Sessions, NEW w \in Writes, NEW ack \in BOOLEAN, RecvWrite(s, w, ack)
  PROVE  /\ Len(written) \in Nat /\ DOMAIN written = 1 .. Len(written)
         /\ DOMAIN written' = 1 .. (Len(written) + 1)
         /\ \A n \in DOMAIN written : written'[n] = written[n] /\ written[n] \in Entries
         /\ written'[Len(written) + 1] = [session |-> s, req |-> Request(s), write |-> w]
<1> DEFINE e == [session |-> s, req |-> Request(s), write |-> w]
<1>1. written' = Append(written, e) /\ written \in Seq(Entries)
  BY DEF RecvWrite, Types
<1>2. e \in Entries
  BY DEF Types, Request, Entries
<1> HIDE DEF e, Entries
<1>3. /\ Len(written) \in Nat /\ DOMAIN written = 1 .. Len(written)
      /\ DOMAIN written' = 1 .. (Len(written) + 1)
      /\ \A n \in DOMAIN written : written'[n] = written[n] /\ written[n] \in Entries
      /\ written'[Len(written) + 1] = e
  BY <1>1, <1>2
<1> QED BY <1>3 DEF e

\* The numbers stay those of handled requests.
LEMMA CountedStep == Types /\ Counted /\ [RequestsNext]_requestVars => Counted'
<1> SUFFICES ASSUME Types, Counted, [RequestsNext]_requestVars PROVE Counted'
  OBVIOUS
<1>1. ASSUME NEW r \in Sessions
      PROVE  Len(received[r]) \in Nat /\ Len(received'[r]) \in Nat
             /\ Len(received[r]) <= Len(received'[r])
  <2>1. Len(received[r]) \in Nat
    BY DEF Types
  <2>2. ASSUME NEW s \in Sessions, NEW q \in Requests, NEW a, Handles(s, q, a)
        PROVE  Len(received'[r]) \in {Len(received[r]), Len(received[r]) + 1}
    BY <2>2, AnswersStep DEF Request
  <2>3. ASSUME NEW s \in Sessions, SendNext(s) \/ End(s) PROVE received' = received
    BY <2>3, AnswersStep
  <2> QED BY <2>1, <2>2, <2>3, AnswerCases
<1>2. ASSUME NEW r \in Sessions, NEW x \in Answers(r)' PROVE x.req \in 1 .. Len(received'[r])
  <2>1. ASSUME NEW s \in Sessions, NEW q \in Requests, NEW a, Handles(s, q, a)
        PROVE  x.req \in 1 .. Len(received'[r])
    <3>1. x \in Answers(r) => x.req \in 1 .. Len(received'[r])
      BY <1>1 DEF Counted
    <3>2. CASE r = s /\ x \in ToSet(a)
      <4>1. x.req = Request(r) /\ Len(received'[r]) = Request(r)
        BY <2>1, <3>2, AnswersStep DEF Handles
      <4> QED BY <1>1, <4>1 DEF Request
    <3>3. x \in Answers(r) \/ (r = s /\ x \in ToSet(a))
      BY <1>2, <2>1, AnswersStep
    <3> QED BY <3>1, <3>2, <3>3
  <2>2. ASSUME NEW s \in Sessions, SendNext(s) \/ End(s) PROVE x.req \in 1 .. Len(received'[r])
    BY <1>2, <2>2, AnswersStep DEF Counted
  <2>3. CASE UNCHANGED <<alive, outbox, received, sent>>
    BY <1>2, <2>3 DEF Counted, Answers
  <2> QED BY <2>1, <2>2, <2>3, AnswerCases
<1>3. ASSUME NEW n \in DOMAIN written'
      PROVE  written'[n].req \in 1 .. Len(received'[written'[n].session])
  <2>1. ASSUME NEW e \in Entries, e.req \in 1 .. Len(received[e.session])
        PROVE  e.req \in 1 .. Len(received'[e.session])
    <3>1. e.session \in Sessions /\ e.req \in Nat
      BY DEF Entries
    <3> QED BY <1>1, <2>1, <3>1
  <2>2. ASSUME NEW s \in Sessions, NEW w \in Writes, NEW ack \in BOOLEAN, RecvWrite(s, w, ack)
        PROVE  written'[n].req \in 1 .. Len(received'[written'[n].session])
    <3> DEFINE e == [session |-> s, req |-> Request(s), write |-> w]
    <3>1. /\ Len(written) \in Nat /\ DOMAIN written = 1 .. Len(written)
          /\ DOMAIN written' = 1 .. (Len(written) + 1)
          /\ \A m \in DOMAIN written : written'[m] = written[m] /\ written[m] \in Entries
          /\ written'[Len(written) + 1] = e
      BY <2>2, WrittenStep
    <3>2. CASE n \in DOMAIN written
      BY <2>1, <3>1, <3>2 DEF Counted
    <3>3. CASE n \notin DOMAIN written
      <4>1. n = Len(written) + 1
        BY <1>3, <3>1, <3>3
      <4>2. written'[n].req = Request(s) /\ written'[n].session = s
        BY <3>1, <4>1
      <4>3. Len(received'[s]) = Request(s) /\ Request(s) \in Nat \ {0}
        <5>1. received'[s] = Append(received[s], "store write") /\ received[s] \in Seq(Requests)
          BY <2>2 DEF RecvWrite, Types
        <5>2. "store write" \in Requests
          BY DEF Requests
        <5>3. ASSUME NEW list \in Seq(Requests), NEW q \in Requests
              PROVE  Len(Append(list, q)) = Len(list) + 1 /\ Len(list) \in Nat
          OBVIOUS
        <5>4. Len(received'[s]) = Len(received[s]) + 1 /\ Len(received[s]) \in Nat
          BY <5>1, <5>2, <5>3
        <5> QED BY <5>4 DEF Request
      <4> QED BY <4>2, <4>3
    <3> QED BY <3>2, <3>3
  <2>3. CASE UNCHANGED <<profile, written, events>>
    <3>1. n \in DOMAIN written /\ written[n] \in Entries /\ written' = written
      <4> HIDE DEF Entries
      <4> QED BY <1>3, <2>3 DEF Types
    <3> QED BY <2>1, <3>1 DEF Counted
  <2> QED BY <2>2, <2>3, StoreCases
<1> QED BY <1>2, <1>3 DEF Counted

\* The merged item has every field of the new one.
LEMMA MergedShows ==
  ASSUME NEW current, NEW items, items # NoList, NEW id \in DOMAIN items, NEW f \in DOMAIN items[id]
  PROVE  /\ id \in DOMAIN Merge(current, items)
         /\ f \in DOMAIN Merge(current, items)[id]
         /\ Merge(current, items)[id][f] = items[id][f]
<1> DEFINE old == IF id \in DOMAIN current THEN current[id] ELSE Empty
<1>1. id \in DOMAIN Merge(current, items) /\ Merge(current, items)[id] = Override(old, items[id])
  BY DEF Merge
<1> HIDE DEF old
<1>2. f \in DOMAIN Override(old, items[id]) /\ Override(old, items[id])[f] = items[id][f]
  BY DEF Override
<1> QED BY <1>1, <1>2

\* Writes come from sessions, now and after a step.
LEMMA SessionsOfWrites ==
  /\ Types => \A n \in DOMAIN written : written[n].session \in Sessions
  /\ Types' => \A n \in DOMAIN written' : written'[n].session \in Sessions
<1>1. ASSUME NEW list \in Seq(Entries) PROVE \A n \in DOMAIN list : list[n].session \in Sessions
  <2>1. \A e \in Entries : e.session \in Sessions
    BY DEF Entries
  <2> HIDE DEF Entries
  <2> QED BY <2>1
<1> QED BY <1>1 DEF Types

\* The notifies sent, and those still to send, show the writes they answer.
LEMMA ShownStep == Types /\ Counted /\ Shown /\ [RequestsNext]_requestVars => Shown'
<1> SUFFICES ASSUME Types, Counted, Shown, [RequestsNext]_requestVars PROVE Shown'
  OBVIOUS
<1>1. ASSUME NEW n \in DOMAIN written, NEW r \in Sessions, r = written[n].session,
             NEW x \in Answers(r)'
      PROVE  Shows(x, written[n])
  <2>1. r \in Sessions /\ written[n].req \in 1 .. Len(received[r]) /\ Len(received[r]) \in Nat
    <3>1. written[n] \in Entries
      <4> HIDE DEF Entries
      <4> QED BY DEF Types
    <3> QED BY <1>1, <3>1 DEF Counted, Types, Entries
  <2>2. x \in Answers(r) => Shows(x, written[n])
    BY <1>1 DEF Shown
  <2>3. x.req = Len(received[r]) + 1 => Shows(x, written[n])
    BY <2>1 DEF Shows
  <2>4. x \in Answers(r)'
    BY <1>1
  <2>5. ASSUME NEW s \in Sessions, NEW q \in Requests, NEW a, Handles(s, q, a)
        PROVE  Shows(x, written[n])
    <3>1. x \in Answers(r) \/ (r = s /\ x \in ToSet(a))
      BY <2>1, <2>4, <2>5, AnswersStep
    <3>2. r = s /\ x \in ToSet(a) => x.req = Len(received[r]) + 1
      BY <2>5 DEF Handles, Request
    <3> QED BY <2>2, <2>3, <3>1, <3>2
  <2>6. ASSUME NEW s \in Sessions, SendNext(s) \/ End(s) PROVE Shows(x, written[n])
    BY <2>1, <2>2, <2>4, <2>6, AnswersStep
  <2>7. CASE UNCHANGED <<alive, outbox, received, sent>>
    BY <2>2, <2>4, <2>7 DEF Answers
  <2> QED BY <2>5, <2>6, <2>7, AnswerCases
<1>2. ASSUME NEW s \in Sessions, NEW w \in Writes, NEW ack \in BOOLEAN, RecvWrite(s, w, ack)
      PROVE  Shown'
  <2> DEFINE e == [session |-> s, req |-> Request(s), write |-> w]
             y == [store |-> w.store, items |-> Merge(profile[w.store], w.items)]
             result == Answer("result", Request(s), Empty)
             notify == Answer("notify", Request(s), y)
  <2>1. /\ Len(written) \in Nat /\ DOMAIN written = 1 .. Len(written)
        /\ DOMAIN written' = 1 .. (Len(written) + 1)
        /\ \A m \in DOMAIN written : written'[m] = written[m] /\ written[m] \in Entries
        /\ written'[Len(written) + 1] = e
    BY <1>2, WrittenStep
  <2>2. ToSet(<<result>> \o <<notify>>) = {result, notify}
    <3> HIDE DEF result, notify
    <3> QED BY OneItem, JoinedItems
  <2>3. ASSUME NEW x \in Answers(s)' PROVE Shows(x, e)
    <3>1. /\ sent'[s] = sent[s] /\ outbox[s] = <<>>
          /\ outbox'[s] = <<result>> \o <<notify>>
      BY <1>2 DEF RecvWrite, Reading, WriteResults, Result, Types
    <3>2. x \in Answers(s) \/ x \in {result, notify}
      BY <2>2, <3>1 DEF Answers
    <3>3. CASE x \in Answers(s)
      <4>1. x.req \in 1 .. Len(received[s]) /\ Len(received[s]) \in Nat
        BY <3>3 DEF Counted, Types
      <4>2. x.req # e.req
        BY <4>1 DEF Request
      <4> QED BY <4>2 DEF Shows
    <3>4. CASE x = result
      <4>1. x.kind # "notify"
        BY <3>4 DEF Answer
      <4> QED BY <4>1 DEF Shows
    <3>5. CASE x = notify
      <4>1. x.shows.items = Merge(profile[w.store], w.items) /\ e.write = w
        BY <3>5 DEF Answer
      <4> HIDE DEF e
      <4> QED BY <4>1, MergedShows DEF Shows
    <3> QED BY <3>2, <3>3, <3>4, <3>5
  <2>4. ASSUME NEW n \in DOMAIN written', NEW r \in Sessions, r = written'[n].session,
               NEW x \in Answers(r)'
        PROVE  Shows(x, written'[n])
    <3>1. CASE n \in DOMAIN written
      <4>1. written'[n] = written[n]
        BY <2>1, <3>1
      <4> QED BY <1>1, <2>4, <3>1, <4>1
    <3>2. CASE n = Len(written) + 1
      <4>1. written'[n] = e /\ e.session = s
        BY <2>1, <3>2
      <4> QED BY <2>3, <2>4, <4>1
    <3> QED BY <2>1, <2>4, <3>1, <3>2
  <2>5. \A n \in DOMAIN written' : written'[n].session \in Sessions
    BY <1>2, TypesStep, SessionsOfWrites
  <2> QED BY <2>4, <2>5 DEF Shown, Answers
<1>3. CASE UNCHANGED <<profile, written, events>>
  <2>1. \A n \in DOMAIN written : written[n].session \in Sessions
    BY SessionsOfWrites
  <2> QED BY <1>1, <1>3, <2>1 DEF Shown, Answers
<1> QED BY <1>2, <1>3, StoreCases

-----------------------------------------------------------------------------
(* The profile holds the latest writes. *)

\* The n-th write is the last that gave field f of item id.
Latest(n, store, id, f) ==
    n \in Giving(store, id, f) /\ \A m \in Giving(store, id, f) : m <= n

\* ProfileHoldsLatestWrites, said of whichever write is the last.
KnownItems(store) ==
    \A n \in DOMAIN written :
        n > Wipe(store) /\ written[n].write.store = store
        => DOMAIN written[n].write.items \subseteq DOMAIN profile[store]
HeldFields(store) ==
    \A id \in DOMAIN profile[store], f \in Fields, n \in DOMAIN written :
        Latest(n, store, id, f) =>
            /\ f \in DOMAIN profile[store][id]
            /\ profile[store][id][f] = written[n].write.items[id][f]
Held == \A store \in Stores : KnownItems(store) /\ HeldFields(store)

\* There is a last one of the writes that gave a field.
LEMMA HeldIsHeld == Types /\ Held => ProfileHoldsLatestWrites
<1> SUFFICES ASSUME Types, Held PROVE ProfileHoldsLatestWrites
  OBVIOUS
<1>1. Len(written) \in Nat /\ DOMAIN written = 1 .. Len(written)
  <2> HIDE DEF Entries
  <2> QED BY DEF Types
<1>2. ASSUME NEW store \in Stores, NEW id \in DOMAIN profile[store], NEW f \in Fields,
             Giving(store, id, f) # {}
      PROVE  LET last == CHOOSE n \in Giving(store, id, f) : \A m \in Giving(store, id, f) : m <= n
             IN  /\ f \in DOMAIN profile[store][id]
                 /\ profile[store][id][f] = written[last].write.items[id][f]
  <2> DEFINE G == Giving(store, id, f)
             last == CHOOSE n \in G : \A m \in G : m <= n
  <2>1. G \subseteq 0 .. Len(written) /\ G \subseteq DOMAIN written
    BY <1>1 DEF Giving
  <2>2. G # {}
    BY <1>2
  <2> HIDE DEF G
  <2>3. \E n \in G : \A m \in G : m <= n
    BY <1>1, <2>1, <2>2, Greatest
  <2>4. last \in G /\ \A m \in G : m <= last
    BY <2>3
  <2> HIDE DEF last
  <2>5. last \in DOMAIN written /\ Latest(last, store, id, f)
    BY <2>1, <2>4 DEF Latest, G
  <2>6. f \in DOMAIN profile[store][id] /\ profile[store][id][f] = written[last].write.items[id][f]
    BY <2>5 DEF Held, HeldFields
  <2> QED BY <2>6 DEF last, G
<1> QED BY <1>2 DEF ProfileHoldsLatestWrites, Held, KnownItems

\* What one more write changes in the set of wipes and of those that gave a
\* field.
LEMMA GivingStep ==
  ASSUME Types, NEW s \in Sessions, NEW w \in Writes, NEW ack \in BOOLEAN, RecvWrite(s, w, ack),
         NEW store \in Stores
  PROVE  LET wiped == w.store = store /\ w.items = NoList
             last == Len(written) + 1
         IN  /\ Wipe(store)' = IF wiped THEN last ELSE Wipe(store)
             /\ Wipe(store) \in 0 .. Len(written)
             /\ \A id, f :
                  Giving(store, id, f)' =
                     IF wiped THEN {}
                     ELSE Giving(store, id, f) \cup
                          IF w.store = store /\ id \in DOMAIN w.items /\ f \in DOMAIN w.items[id]
                          THEN {last} ELSE {}
<1> DEFINE wiped == w.store = store /\ w.items = NoList
           last == Len(written) + 1
           Wipes == {n \in DOMAIN written :
                       written[n].write.store = store /\ written[n].write.items = NoList}
<1>1. /\ Len(written) \in Nat /\ DOMAIN written = 1 .. Len(written)
      /\ DOMAIN written' = 1 .. last
      /\ \A m \in DOMAIN written : written'[m] = written[m]
      /\ written'[last].write = w
  <2> HIDE DEF Wipes, wiped
  <2>1. /\ Len(written) \in Nat /\ DOMAIN written = 1 .. Len(written)
        /\ DOMAIN written' = 1 .. (Len(written) + 1)
        /\ \A m \in DOMAIN written : written'[m] = written[m]
        /\ written'[Len(written) + 1] = [session |-> s, req |-> Request(s), write |-> w]
    BY WrittenStep
  <2> QED BY <2>1
<1>2. Wipe(store) = IF Wipes = {} THEN 0 ELSE CHOOSE n \in Wipes : \A m \in Wipes : m <= n
  BY DEF Wipe
<1>3. Wipe(store)' = IF Wipes' = {} THEN 0 ELSE CHOOSE n \in Wipes' : \A m \in Wipes' : m <= n
  BY DEF Wipe
<1>4. Wipes' = IF wiped THEN Wipes \cup {last} ELSE Wipes
  BY <1>1
<1>5. Wipes \subseteq 1 .. Len(written) /\ Wipes \subseteq 0 .. Len(written)
  BY <1>1
<1> HIDE DEF Wipes, wiped
<1>6. Wipe(store) \in 0 .. Len(written)
  <2>1. CASE Wipes = {}
    BY <1>1, <1>2, <2>1
  <2>2. CASE Wipes # {}
    <3>1. \E n \in Wipes : \A m \in Wipes : m <= n
      BY <1>1, <1>5, <2>2, Greatest
    <3>2. Wipe(store) \in Wipes
      BY <1>2, <2>2, <3>1
    <3> QED BY <1>5, <3>2
  <2> QED BY <2>1, <2>2
<1>7. Wipe(store)' = IF wiped THEN last ELSE Wipe(store)
  <2>1. CASE wiped
    <3>1. last \in Wipes' /\ \A m \in Wipes' : m <= last /\ (m # last => ~(last <= m))
      BY <1>1, <1>4, <1>5, <2>1
    <3> QED BY <1>3, <2>1, <3>1
  <2>2. CASE ~wiped
    BY <1>2, <1>3, <1>4, <2>2
  <2> QED BY <2>1, <2>2
<1>8. ASSUME NEW id, NEW f
      PROVE  Giving(store, id, f)' =
                IF wiped THEN {}
                ELSE Giving(store, id, f) \cup
                     IF w.store = store /\ id \in DOMAIN w.items /\ f \in DOMAIN w.items[id]
                     THEN {last} ELSE {}
  <2>1. \A n : n \in Giving(store, id, f) <=>
               /\ n \in 1 .. Len(written) /\ n > Wipe(store) /\ written[n].write.store = store
               /\ id \in DOMAIN written[n].write.items /\ f \in DOMAIN written[n].write.items[id]
    BY <1>1 DEF Giving
  <2>2. \A n : n \in Giving(store, id, f)' <=>
               /\ n \in 1 .. last /\ n > Wipe(store)' /\ written'[n].write.store = store
               /\ id \in DOMAIN written'[n].write.items /\ f \in DOMAIN written'[n].write.items[id]
    BY <1>1 DEF Giving
  <2>3. CASE wiped
    <3>1. \A n \in 1 .. last : ~(n > last)
      BY <1>1
    <3> QED BY <1>7, <2>2, <2>3, <3>1
  <2>4. CASE ~wiped
    <3>1. \A n : n \in 1 .. last <=> n \in 1 .. Len(written) \/ n = last
      BY <1>1
    <3>2. last > Wipe(store) /\ last \notin 1 .. Len(written)
      BY <1>1, <1>6
    <3>3. Wipe(store)' = Wipe(store)
      BY <1>7, <2>4
    <3>4. \A n \in 1 .. Len(written) : n \in Giving(store, id, f)' <=> n \in Giving(store, id, f)
      BY <1>1, <2>1, <2>2, <3>1, <3>3
    <3>5. last \in Giving(store, id, f)' <=>
             w.store = store /\ id \in DOMAIN w.items /\ f \in DOMAIN w.items[id]
      BY <1>1, <2>2, <3>1, <3>2, <3>3
    <3>6. last \notin Giving(store, id, f)
      BY <2>1, <3>2
    <3> QED BY <2>1, <2>2, <2>4, <3>1, <3>4, <3>5, <3>6
  <2> QED BY <2>3, <2>4
<1> QED BY <1>6, <1>7, <1>8 DEF wiped

\* Every field stays what the last write that gave it said.
LEMMA HeldStep == Types /\ Held /\ [RequestsNext]_requestVars => Held'
<1> SUFFICES ASSUME Types, Held, [RequestsNext]_requestVars PROVE Held'
  OBVIOUS
<1>1. ASSUME NEW s \in Sessions, NEW w \in Writes, NEW ack \in BOOLEAN, RecvWrite(s, w, ack),
             NEW store \in Stores
      PROVE  KnownItems(store)' /\ HeldFields(store)'
  <2> DEFINE last == Len(written) + 1
             wiped == w.store = store /\ w.items = NoList
             merged == Merge(profile[store], w.items)
  <2>1. /\ Len(written) \in Nat /\ DOMAIN written = 1 .. Len(written)
        /\ DOMAIN written' = 1 .. last
        /\ \A m \in DOMAIN written : written'[m] = written[m]
        /\ written'[last] = [session |-> s, req |-> Request(s), write |-> w]
    BY <1>1, WrittenStep
  <2>2. written'[last].write = w /\ last \in Nat
    BY <2>1
  <2>3. /\ Wipe(store)' = IF wiped THEN last ELSE Wipe(store)
        /\ \A id, f : Giving(store, id, f)' =
              IF wiped THEN {}
              ELSE Giving(store, id, f) \cup
                   IF w.store = store /\ id \in DOMAIN w.items /\ f \in DOMAIN w.items[id]
                   THEN {last} ELSE {}
    BY <1>1, GivingStep
  <2>4. profile'[store] = IF w.store = store THEN merged ELSE profile[store]
    BY <1>1 DEF RecvWrite, Types
  <2>5. KnownItems(store) /\ HeldFields(store)
    BY DEF Held
  <2> HIDE DEF last, merged
  <2>6. ASSUME NEW n \in DOMAIN written', n # last
        PROVE  n \in DOMAIN written /\ written'[n] = written[n]
    BY <2>1, <2>6 DEF last
  <2>7. CASE wiped
    <3>1. profile'[store] = Empty
      BY <2>4, <2>7 DEF merged, Merge
    <3>2. \A n \in DOMAIN written' : ~(n > Wipe(store)')
      BY <2>1, <2>3, <2>7 DEF last
    <3>3. DOMAIN profile'[store] = {}
      BY <3>1 DEF Empty
    <3> QED BY <3>2, <3>3 DEF KnownItems, HeldFields
  <2>8. CASE w.store # store
    <3>1. /\ profile'[store] = profile[store] /\ Wipe(store)' = Wipe(store)
          /\ \A id, f : Giving(store, id, f)' = Giving(store, id, f)
      BY <2>3, <2>4, <2>8
    <3>2. KnownItems(store)'
      BY <2>2, <2>5, <2>6, <2>8, <3>1 DEF KnownItems
    <3>3. ASSUME NEW id \in DOMAIN profile'[store], NEW f \in Fields, NEW n \in DOMAIN written',
                 Latest(n, store, id, f)'
          PROVE  /\ f \in DOMAIN profile'[store][id]
                 /\ profile'[store][id][f] = written'[n].write.items[id][f]
      <4>1. Latest(n, store, id, f)
        BY <3>1, <3>3 DEF Latest
      <4>2. n # last
        BY <2>1, <4>1 DEF Latest, Giving, last
      <4> QED BY <2>5, <2>6, <3>1, <4>1, <4>2 DEF HeldFields
    <3> QED BY <3>2, <3>3 DEF HeldFields
  <2>9. CASE w.store = store /\ w.items # NoList
    <3>1. /\ DOMAIN merged = DOMAIN profile[store] \cup DOMAIN w.items
          /\ \A id \in DOMAIN merged :
                merged[id] = Override(IF id \in DOMAIN profile[store] THEN profile[store][id] ELSE Empty,
                                      IF id \in DOMAIN w.items THEN w.items[id] ELSE Empty)
      BY <2>9 DEF merged, Merge
    <3>2. profile'[store] = merged /\ Wipe(store)' = Wipe(store)
      BY <2>3, <2>4, <2>9
    <3>3. KnownItems(store)'
      <4>1. ASSUME NEW n \in DOMAIN written', n > Wipe(store), written'[n].write.store = store
            PROVE  DOMAIN written'[n].write.items \subseteq DOMAIN merged
        BY <2>2, <2>5, <2>6, <3>1, <4>1 DEF KnownItems
      <4> QED BY <3>2, <4>1 DEF KnownItems
    <3>4. ASSUME NEW id \in DOMAIN merged, NEW f \in Fields, NEW n \in DOMAIN written',
                 Latest(n, store, id, f)'
          PROVE  /\ f \in DOMAIN merged[id]
                 /\ merged[id][f] = written'[n].write.items[id][f]
      <4>1. CASE id \in DOMAIN w.items /\ f \in DOMAIN w.items[id]
        <5>1. Giving(store, id, f)' = Giving(store, id, f) \cup {last}
          BY <2>3, <2>9, <4>1
        <5>2. n = last
          <6>1. n \in DOMAIN written' /\ last <= n
            BY <3>4, <5>1 DEF Latest
          <6> QED BY <2>1, <6>1 DEF last
        <5> QED BY <2>2, <2>9, <4>1, <5>2, MergedShows DEF merged
      <4>2. CASE ~(id \in DOMAIN w.items /\ f \in DOMAIN w.items[id])
        <5>1. Giving(store, id, f)' = Giving(store, id, f)
          <6>1. ~wiped
            BY <2>9
          <6>2. Giving(store, id, f)' = Giving(store, id, f) \cup {}
            <7> HIDE DEF wiped
            <7> QED BY <2>3, <4>2, <6>1, Zenon
          <6> QED BY <6>2
        <5>2. Latest(n, store, id, f)
          BY <3>4, <5>1 DEF Latest
        <5>3. /\ n \in DOMAIN written /\ n # last
              /\ n > Wipe(store) /\ written[n].write.store = store
              /\ id \in DOMAIN written[n].write.items
          BY <2>1, <5>2 DEF Latest, Giving, last
        <5>4. id \in DOMAIN profile[store]
          BY <2>5, <5>3 DEF KnownItems
        <5>5. /\ f \in DOMAIN profile[store][id]
              /\ profile[store][id][f] = written'[n].write.items[id][f]
          BY <2>5, <2>6, <5>2, <5>3, <5>4 DEF HeldFields
        <5> DEFINE new == IF id \in DOMAIN w.items THEN w.items[id] ELSE Empty
        <5>6. merged[id] = Override(profile[store][id], new) /\ f \notin DOMAIN new
          BY <3>1, <4>2, <5>4 DEF Empty
        <5> HIDE DEF new
        <5> QED BY <5>5, <5>6 DEF Override
      <4> QED BY <4>1, <4>2
    <3> QED BY <3>2, <3>3, <3>4 DEF HeldFields
  <2> QED BY <2>7, <2>8, <2>9
<1>2. CASE UNCHANGED <<profile, written, events>>
  BY <1>2 DEF Held, KnownItems, HeldFields, Latest, Giving, Wipe
<1> QED BY <1>1, <1>2, StoreCases DEF Held

-----------------------------------------------------------------------------
(* The events tell the limits. *)

\* The limits are items by id, of fields by name.
LimitsKeyed ==
    LET limits == profile.limits
    IN  /\ limits = [id \in DOMAIN limits |-> limits[id]]
        /\ \A id \in DOMAIN limits : limits[id] = [f \in DOMAIN limits[id] |-> limits[id][f]]

\* Whatever is merged into them.
LEMMA LimitsKeyedStep == Types /\ LimitsKeyed /\ [RequestsNext]_requestVars => LimitsKeyed'
<1> SUFFICES ASSUME Types, LimitsKeyed, [RequestsNext]_requestVars PROVE LimitsKeyed'
  OBVIOUS
<1>1. ASSUME NEW current, NEW items
      PROVE  LET m == Merge(current, items)
             IN  /\ m = [id \in DOMAIN m |-> m[id]]
                 /\ \A id \in DOMAIN m : m[id] = [f \in DOMAIN m[id] |-> m[id][f]]
  <2> DEFINE m == Merge(current, items)
  <2>1. CASE items = NoList
    BY <2>1 DEF Merge, Empty
  <2>2. CASE items # NoList
    <3>1. m = [id \in DOMAIN current \cup DOMAIN items |->
                 Override(IF id \in DOMAIN current THEN current[id] ELSE Empty,
                          IF id \in DOMAIN items THEN items[id] ELSE Empty)]
      BY <2>2 DEF Merge
    <3>2. ASSUME NEW old, NEW new
          PROVE  Override(old, new) = [f \in DOMAIN Override(old, new) |-> Override(old, new)[f]]
      BY DEF Override
    <3> HIDE DEF m
    <3>3. m = [id \in DOMAIN m |-> m[id]]
      BY <3>1
    <3>4. ASSUME NEW id \in DOMAIN m PROVE m[id] = [f \in DOMAIN m[id] |-> m[id][f]]
      <4>1. PICK old, new : m[id] = Override(old, new)
        BY <3>1
      <4> QED BY <3>2, <4>1
    <3> QED BY <3>3, <3>4 DEF m
  <2> QED BY <2>1, <2>2
<1>2. ASSUME NEW s \in Sessions, NEW w \in Writes, NEW ack \in BOOLEAN, RecvWrite(s, w, ack)
      PROVE  LimitsKeyed'
  <2>1. profile'.limits = IF w.store = "limits" THEN Merge(profile.limits, w.items) ELSE profile.limits
    BY <1>2 DEF RecvWrite, Types, Stores
  <2> QED BY <1>1, <2>1 DEF LimitsKeyed
<1>3. CASE UNCHANGED <<profile, written, events>>
  BY <1>3 DEF LimitsKeyed
<1> QED BY <1>2, <1>3, StoreCases

\* Who learns of the one item of a write knows what is merged.
LEMMA LearnedIsMerged ==
  ASSUME LimitsKeyed, NEW w, NEW id, w.items # NoList, DOMAIN w.items = {id},
         NEW e, e.id = id, e.state = w.items[id]
  PROVE  Learn(profile.limits, e) = Merge(profile.limits, w.items)
<1> DEFINE limits == profile.limits
           learned == Learn(limits, e)
           merged == Merge(limits, w.items)
<1>1. learned = [j \in DOMAIN limits \cup {id} |->
                   IF j # id THEN limits[j]
                   ELSE Override(IF j \in DOMAIN limits THEN limits[j] ELSE Empty, w.items[id])]
  BY DEF Learn
<1>2. merged = [j \in DOMAIN limits \cup {id} |->
                  Override(IF j \in DOMAIN limits THEN limits[j] ELSE Empty,
                           IF j \in {id} THEN w.items[j] ELSE Empty)]
  BY DEF Merge
<1>3. ASSUME NEW j \in DOMAIN limits, j # id PROVE Override(limits[j], Empty) = limits[j]
  <2>1. limits[j] = [f \in DOMAIN limits[j] |-> limits[j][f]]
    BY DEF LimitsKeyed
  <2>2. Override(limits[j], Empty) = [f \in DOMAIN limits[j] |-> limits[j][f]]
    <3>1. DOMAIN Empty = {}
      BY DEF Empty
    <3> QED BY <3>1 DEF Override
  <2> QED BY <2>1, <2>2
<1>4. ASSUME NEW j \in DOMAIN limits \cup {id} PROVE learned[j] = merged[j]
  <2> HIDE DEF learned, merged, limits
  <2>1. CASE j = id
    BY <1>1, <1>2, <2>1
  <2>2. CASE j # id
    BY <1>1, <1>2, <1>3, <2>2
  <2> QED BY <2>1, <2>2
<1> HIDE DEF learned, merged, limits
<1>5. learned = merged
  BY <1>1, <1>2, <1>4
<1> QED BY <1>5 DEF learned, merged, limits

\* The events that all writes so far are told by lead to the stored limits.
LEMMA ReplayStep ==
  Types /\ LimitsKeyed /\ EventsReplayTheLimits /\ [RequestsNext]_requestVars => EventsReplayTheLimits'
<1> SUFFICES ASSUME Types, LimitsKeyed, EventsReplayTheLimits, [RequestsNext]_requestVars
             PROVE  EventsReplayTheLimits'
  OBVIOUS
<1>1. ASSUME NEW s \in Sessions, NEW w \in Writes, NEW ack \in BOOLEAN, RecvWrite(s, w, ack),
             \A n \in DOMAIN written' : Told(written'[n].write)
      PROVE  profile'.limits = Replay(events')
  <2>1. /\ Len(written) \in Nat /\ DOMAIN written = 1 .. Len(written)
        /\ DOMAIN written' = 1 .. (Len(written) + 1)
        /\ \A m \in DOMAIN written : written'[m] = written[m]
        /\ written'[Len(written) + 1] = [session |-> s, req |-> Request(s), write |-> w]
    BY <1>1, WrittenStep
  <2>2. Told(w) /\ \A n \in DOMAIN written : Told(written[n].write)
    <3>1. \A n \in DOMAIN written : n \in DOMAIN written'
      BY <2>1
    <3>2. Len(written) + 1 \in DOMAIN written' /\ written'[Len(written) + 1].write = w
      BY <2>1
    <3> HIDE DEF Told
    <3> QED BY <1>1, <2>1, <3>1, <3>2
  <2>3. profile.limits = Replay(events)
    BY <2>2 DEF EventsReplayTheLimits
  <2>4. /\ profile'.limits = IF w.store = "limits" THEN Merge(profile.limits, w.items) ELSE profile.limits
        /\ events' = events \o WriteEvents(s, w)
    BY <1>1 DEF RecvWrite, Types, Stores
  <2> DEFINE S == ToSet(events)
  <2>5. events \in Seq(S)
    BY DEF Types, IsSequence
  <2>6. CASE w.store # "limits"
    <3>1. WriteEvents(s, w) = <<>>
      BY <2>6 DEF WriteEvents
    <3>2. events \o <<>> = events
      <4> HIDE DEF S
      <4> QED BY <2>5
    <3> QED BY <2>3, <2>4, <2>6, <3>1, <3>2
  <2>7. CASE w.store = "limits"
    <3>1. PICK id \in DOMAIN w.items : w.items # NoList /\ DOMAIN w.items = {id}
      BY <2>2, <2>7 DEF Told
    <3>2. id \in Int
      BY <3>1, WritesAssumption
    <3>3. PreferredItem(w.items) = id
      BY <3>1, <3>2 DEF PreferredItem
    <3>4. w.items # Empty
      BY <3>1 DEF Empty
    <3> DEFINE e == [session |-> s, id |-> id, state |-> w.items[id]]
    <3>5. WriteEvents(s, w) = <<e>>
      BY <2>7, <3>1, <3>3, <3>4 DEF WriteEvents
    <3>6. e.id = id /\ e.state = w.items[id]
      OBVIOUS
    <3> HIDE DEF e
    <3> DEFINE T == S \cup {e}
    <3>7. events \in Seq(T) /\ e \in T
      BY <2>5
    <3> HIDE DEF T, S
    <3>8. events \o <<e>> = Append(events, e)
      BY <3>7
    <3>9. Replay(Append(events, e)) = Learn(Replay(events), e)
      BY <3>7, ReplayAppended
    <3>10. Learn(profile.limits, e) = Merge(profile.limits, w.items)
      BY <3>1, <3>6, LearnedIsMerged
    <3> QED BY <2>3, <2>4, <2>7, <3>5, <3>8, <3>9, <3>10
  <2> QED BY <2>6, <2>7
<1>2. CASE UNCHANGED <<profile, written, events>>
  BY <1>2 DEF EventsReplayTheLimits
<1> QED BY <1>1, <1>2, StoreCases DEF EventsReplayTheLimits

-----------------------------------------------------------------------------
(* The invariant and what follows from it. *)

RequestsInv ==
    /\ Types
    /\ EveryRequestAnsweredOnce
    /\ Counted
    /\ Shown
    /\ Held
    /\ LimitsKeyed
    /\ EventsReplayTheLimits

\* Before the first request nothing is due, stored or told.
LEMMA InitRequests == RequestsInit => RequestsInv
<1> SUFFICES ASSUME RequestsInit PROVE RequestsInv
  OBVIOUS
<1> USE DEF RequestsInit
<1>1. Types
  <2>1. DOMAIN DefaultProfile(Fields) = Stores
    BY DEF DefaultProfile, Stores
  <2>2. <<>> \in Seq(Requests) /\ <<>> \in Seq(Entries)
    OBVIOUS
  <2> QED BY <2>1, <2>2, NoItems DEF Types
<1>2. EveryRequestAnsweredOnce
  <2>1. Tags(<<>> \o <<>>) = <<>>
    BY DEF Tags
  <2> QED BY <2>1, DueAppended DEF EveryRequestAnsweredOnce
<1>3. Counted /\ Shown /\ Held
  <2>1. DOMAIN written = {}
    OBVIOUS
  <2> QED BY <2>1, NoItems DEF Counted, Shown, Held, KnownItems, HeldFields, Answers
<1>4. LimitsKeyed
  BY DEF LimitsKeyed, DefaultProfile
<1>5. EventsReplayTheLimits
  BY ReplayAppended DEF EventsReplayTheLimits
<1> QED BY <1>1, <1>2, <1>3, <1>4, <1>5 DEF RequestsInv

\* The inductive invariant holds of every behaviour of the server.
THEOREM RequestsInvariant == RequestsSpec => []RequestsInv
<1>1. RequestsInv /\ [RequestsNext]_requestVars => RequestsInv'
  BY TypesStep, AnsweredStep, CountedStep, ShownStep, HeldStep, LimitsKeyedStep, ReplayStep
     DEF RequestsInv
<1> QED BY InitRequests, <1>1, PTL DEF RequestsSpec

\* Every read, write and call is answered once, in the order of the requests,
\* by a reply or by one result, however many sessions are served at a time.
THEOREM AnswersMatchRequests == RequestsSpec => []EveryRequestAnsweredOnce
<1>1. RequestsInv => EveryRequestAnsweredOnce
  BY DEF RequestsInv
<1> QED BY RequestsInvariant, <1>1, PTL

\* The shared profile holds the latest write of each field, whatever the
\* sessions write in between.
THEOREM LatestWritesAreHeld == RequestsSpec => []ProfileHoldsLatestWrites
<1>1. RequestsInv => ProfileHoldsLatestWrites
  BY HeldIsHeld DEF RequestsInv
<1> QED BY RequestsInvariant, <1>1, PTL

\* The notify of a write shows what it wrote, however late it is sent.
THEOREM NotifiesShowTheirWrite == RequestsSpec => []NotifyShowsTheWrite
<1>1. RequestsInv => NotifyShowsTheWrite
  <2> SUFFICES ASSUME RequestsInv, NEW n \in DOMAIN written,
                      NEW i \in DOMAIN sent[written[n].session]
               PROVE  Shows(sent[written[n].session][i], written[n])
    BY DEF NotifyShowsTheWrite, Shows
  <2>1. sent[written[n].session][i] \in Answers(written[n].session)
    BY DEF Answers, ToSet
  <2> QED BY <2>1 DEF RequestsInv, Shown
<1> QED BY RequestsInvariant, <1>1, PTL

\* A reader of the write events knows the stored limits, as long as every
\* write named one.
THEOREM EventsTellTheLimits == RequestsSpec => []EventsReplayTheLimits
<1>1. RequestsInv => EventsReplayTheLimits
  BY DEF RequestsInv
<1> QED BY RequestsInvariant, <1>1, PTL
=============================================================================
