----------------------------- MODULE ClientSpine ----------------------------
(***************************************************************************)
(* HemsClient (eebus_sdk/client.py with _client_profile_runtime.py): what  *)
(* it answers to the peer's SPINE requests, the limits it keeps for the    *)
(* peer, and what it subscribes to once it knows the peer's features.      *)
(*                                                                         *)
(* handle_incoming_datagram changes its state before its first await, and  *)
(* the one task that receives calls it, so a datagram is handled in one    *)
(* step.  Its answers reach the peer in order, unless the link breaks and  *)
(* the session is reopened, or a send runs into its timeout: what it wrote *)
(* arrives, the answers after it are never sent, and the session goes on.  *)
(***************************************************************************)
EXTENDS Integers, Sequences, FiniteSets, SequencesExt, Functions, ClientProfiles

CONSTANTS
    Profiles,       \* a subset of AllProfiles
    Diagnosis,      \* the peer's DeviceDiagnosis servers: <<entity, feature>>
    Entities,       \* entities of the peer's binding requests
    Cells,          \* the fields of the limits: <<limitId, field>>
    DefaultCells,   \* those the defaults have
    Updates,        \* what a write may set: a function on some of Cells
    NoList, Null,   \* a write that has no list of limits, or null
    MaxMessages,    \* bound: datagrams of the peer
    MaxReconnects,  \* bound: reopened sessions
    MaxCuts         \* bound: answers that are cut short by a timeout

\* What a discovery lists is finite.
ASSUME DiagnosisAssumption == IsFiniteSet(Diagnosis)
ASSUME ProfilesAssumption == Profiles \subseteq AllProfiles
ASSUME CellsAssumption == DefaultCells \subseteq Cells

None == "none"
NodeManagement == <<0, 0>>       \* its address

VARIABLES
    profile,
    features,       \* _last_remote_discovery, as its DeviceDiagnosis servers
    bootstrapSent,  \* _node_management_bootstrap_sent
    subscribed,     \* _initial_node_management_subscription_sent
    diagnosed,      \* _remote_device_diagnosis_bootstrapped
    bindings,       \* _profile_bindings, as the entities of their clients
    stored,         \* _profile_load_control_limit_payload is not None
    limits,         \* its fields, on some of Cells
    toPeer,         \* what is under way to the peer of the limits
    view,           \* the peer: the limits as it was told
    calls,          \* history: the subscriptions the client asked for
    repeated,       \* history: one of them was asked for again
    owed,           \* history: reads it announced, got and did not answer
    bound,          \* history: the peer asked for a binding
    cuts,           \* history: sends that timed out, their later answers lost
    blind,          \* history: since it was told all limits, the peer wrote one without
                    \* a list, or got no answer to its write
    messages, reconnects

store == <<stored, limits>>
client == <<features, bootstrapSent, subscribed, diagnosed, bindings, store>>
histories == <<calls, repeated, owed, bound, cuts>>
vars == <<profile, client, toPeer, view, blind, histories, messages, reconnects>>

Structured == profile # "default"       \* _uses_structured_server_profile
Adapter == profile = "cls-adapter"

\* Nothing is told of the limits.
NoLimits == <<>>

Init ==
    /\ profile \in Profiles
    /\ features = {} /\ bootstrapSent = FALSE /\ subscribed = FALSE /\ diagnosed = {}
    /\ bindings = <<>> /\ stored = FALSE /\ limits = NoLimits
    /\ toPeer = <<>> /\ view = [c \in Cells |-> None] /\ blind = FALSE
    /\ calls = {} /\ repeated = FALSE /\ owed = {} /\ bound = FALSE /\ cuts = 0
    /\ messages = 0 /\ reconnects = 0

-----------------------------------------------------------------------------
\* A datagram to the peer: what it tells of the limits, or whom it asks and
\* from where.
Out(kind, to, data) == [kind |-> kind, to |-> to, data |-> data]
If(condition, out) == IF condition THEN <<out>> ELSE <<>>
Result == Out("result", None, NoLimits)
Request(type, to) == [type |-> type, to |-> to, from |-> Asker(profile, type)]
Subscribe(type, to) == Out("call", Request(type, to), NoLimits)

\* The subscriptions that are asked for, and those that are asked for twice.
Asked(out) == {d.to : d \in {e \in ToSet(out) : e.kind = "call"}}
Repeats(out) == \E i \in DOMAIN out, j \in DOMAIN out : i # j /\ out[i].kind = "call" /\ out[i] = out[j]

\* _ensure_profile_runtime_defaults.
Kept == IF stored THEN limits ELSE [c \in DefaultCells |-> "default"]

\* The whole store, with the fields that it lacks.
Listing(l) == [c \in Cells |-> IF c \in DOMAIN l THEN l[c] ELSE None]

\* What a write sets, and its answer repeats.
Listless == {NoList, Null}
Items(update) == IF update \in Listless THEN NoLimits ELSE update

\* Fault: an item takes the place of the one with its id.
MergeReplacing(l, update) ==
    IF update \in Listless THEN NoLimits
    ELSE LET kept == {c \in DOMAIN l : \A u \in DOMAIN update : c[1] # u[1]}
         IN  [c \in kept \cup DOMAIN update |-> IF c \in DOMAIN update THEN update[c] ELSE l[c]]

\* merge_keyed_list_payload: the fields that are written take the place of those
\* of the same item, the others stay; a write without a list replaces them all.
Merge(l, update) ==
    IF update \in Listless THEN NoLimits
    ELSE [c \in DOMAIN l \cup DOMAIN update |-> IF c \in DOMAIN update THEN update[c] ELSE l[c]]

\* _device_diagnosis_bootstrap_for_server, for one or no server: once each.
Diagnose(servers) ==
    IF Cardinality(servers) # 1 \/ servers \subseteq diagnosed THEN <<>>
    ELSE LET s == CHOOSE x \in servers : TRUE
         IN  <<Subscribe("DeviceDiagnosis", s), Out("read", Request("DeviceDiagnosis", s), NoLimits)>>
Diagnosed(servers) == IF Cardinality(servers) = 1 THEN diagnosed \cup servers ELSE diagnosed

\* _binding_heartbeat_bootstrap: the server of the entity that was bound last,
\* or the only one.
HeartbeatServers(b) ==
    LET own == {s \in features : s[1] = Last(b)}
    IN  IF b = <<>> THEN {} ELSE IF Cardinality(own) = 1 THEN own ELSE features

\* Fault: the flag of the subscription is not looked at.
InitialAlways == Structured /\ ~Adapter

\* A read of the discovery makes the reference profile subscribe, once.
Initial == Structured /\ ~Adapter /\ ~subscribed

-----------------------------------------------------------------------------
\* Of the answers, those before a send that times out: at least one is written.
Arriving(out) == {out} \cup (IF cuts < MaxCuts THEN Prefixes(out) \ {<<>>} ELSE {})

\* What the answers tell of the limits: one of them does, or none.
Told(out) == {d.data : d \in ToSet(out)} \ {NoLimits}

\* A datagram of the peer is handled, and the answers are sent, those in sent
\* before a timeout.
Handle(out, sent, misses) ==
    /\ messages < MaxMessages
    /\ messages' = messages + 1
    /\ toPeer' = IF Told(sent) = {} THEN toPeer ELSE Append(toPeer, CHOOSE data \in Told(sent) : TRUE)
    /\ cuts' = cuts + (IF sent = out THEN 0 ELSE 1)
    /\ blind' = ((blind \/ misses) /\ \A data \in Told(sent) : DOMAIN data # Cells)
    /\ calls' = calls \cup Asked(sent)
    /\ repeated' = (repeated \/ Repeats(sent) \/ calls \cap Asked(sent) # {})
    /\ UNCHANGED <<profile, view, reconnects>>

Answer(out) == \E sent \in Arriving(out) : Handle(out, sent, FALSE)

\* The store is given its defaults.
Ensure == stored' = TRUE /\ limits' = Kept

Announced == UNION {f.reads : f \in Features(profile)}

\* A read of a function is answered, or not; a structured profile sends no
\* result of its own.  An object in a read of the discovery, where others send an
\* empty list, is taken for what the peer's discovery says.
RecvRead(fn, ack) ==
    /\ LET first == fn = "discovery" /\ Initial
           data == IF fn = "limits" THEN Listing(Kept) ELSE NoLimits
       IN  /\ Answer(If(ack /\ ~Structured, Result)
                     \o If(fn \in Answers(profile), Out("reply", None, data))
                     \o If(first, Subscribe("NodeManagement", NodeManagement)))
           /\ subscribed' = (subscribed \/ first)
    /\ owed' = owed \cup (({fn} \cap Announced) \ Answers(profile))
    /\ IF Structured THEN Ensure ELSE UNCHANGED store
    /\ features' \in {features} \cup (IF fn \in {"discovery", "use cases"} THEN {{}} ELSE {})
    /\ UNCHANGED <<bootstrapSent, diagnosed, bindings, bound>>

\* A write is stored and answered with what it wrote, in every profile.
RecvWrite(update, ack) ==
    /\ LET out == If(ack, Result) \o <<Out("reply", None, Items(update))>>
       IN  \E sent \in Arriving(out) : Handle(out, sent, update \in Listless \/ sent # out)
    /\ stored' = (update # Null)
    /\ limits' = Merge(Kept, update)
    /\ UNCHANGED <<features, bootstrapSent, subscribed, diagnosed, bindings, owed, bound>>

\* A call has a result; every call may start the heartbeat of a bound peer.
RecvCall(b, notified) ==
    /\ Answer(<<Result>> \o notified \o Diagnose(HeartbeatServers(b)))
    /\ bindings' = b
    /\ diagnosed' = Diagnosed(HeartbeatServers(b))
    /\ UNCHANGED <<features, bootstrapSent, subscribed, owed>>

\* A subscriber of a feature is told its data at once.
RecvSubscribe(f) ==
    /\ LET told == Notifies(profile, f.type, f.at)
       IN  RecvCall(bindings, If(told # {}, Out("notify", None, IF "limits" \in told THEN Listing(Kept)
                                                                ELSE NoLimits)))
    /\ IF Structured THEN Ensure ELSE UNCHANGED store
    /\ UNCHANGED bound

RecvBind(entity) ==
    /\ RecvCall(Append(bindings, entity), <<>>)
    /\ bound' = TRUE
    /\ UNCHANGED store

\* A delete call removes every binding.
RecvUnbind ==
    /\ RecvCall(<<>>, <<>>)
    /\ UNCHANGED <<store, bound>>

\* _post_discovery_bootstrap, after a reply or notify with discovery or with
\* use cases, which carry no features and overwrite those that are known.
RecvDiscovery(servers, ack) ==
    /\ LET first == ~Adapter /\ ~bootstrapSent
           watched == IF first THEN servers ELSE {}
       IN  /\ Answer(If(ack, Result)
                     \o If(first /\ ~subscribed, Subscribe("NodeManagement", NodeManagement))
                     \o If(first, Out("read", Request("NodeManagement", NodeManagement), NoLimits))
                     \o Diagnose(watched))
           /\ bootstrapSent' = (bootstrapSent \/ first)
           /\ subscribed' = (subscribed \/ first)
           /\ diagnosed' = Diagnosed(watched)
    /\ features' = servers
    /\ UNCHANGED <<bindings, store, owed, bound>>

\* reconnect: a new session; what the client keeps of SPINE stays, and what was
\* under way is lost.
Reconnect ==
    /\ reconnects < MaxReconnects
    /\ reconnects' = reconnects + 1
    /\ toPeer' = <<>> /\ view' = [c \in Cells |-> None] /\ blind' = FALSE
    /\ UNCHANGED <<profile, client, histories, messages>>

\* The peer takes the next answer and keeps what it says of the limits.
PeerReceives ==
    /\ toPeer # <<>>
    /\ toPeer' = Tail(toPeer)
    /\ LET told == Head(toPeer)
       IN  view' = [c \in Cells |-> IF c \in DOMAIN told THEN told[c] ELSE view[c]]
    /\ UNCHANGED <<profile, client, blind, histories, messages, reconnects>>

Next ==
    \/ \E ack \in BOOLEAN :
          \/ \E fn \in Readable \cup {"unknown"} : RecvRead(fn, ack)
          \/ \E update \in Updates \cup Listless : RecvWrite(update, ack)
          \/ \E servers \in SUBSET Diagnosis : RecvDiscovery(servers, ack)
    \/ \E f \in Features(profile) : f.role # "client" /\ RecvSubscribe(f)
    \/ RecvUnbind
    \/ \E entity \in Entities : RecvBind(entity)
    \/ Reconnect \/ PeerReceives

Spec == Init /\ [][Next]_vars
-----------------------------------------------------------------------------
\* The types; and what was bootstrapped belongs to a bootstrap that was sent.
TypeOK ==
    /\ profile \in Profiles /\ features \subseteq Diagnosis /\ diagnosed \subseteq Diagnosis
    /\ DOMAIN limits \subseteq Cells /\ Range(limits) \subseteq {"default", "a", "b"}
    /\ stored \in BOOLEAN /\ (~stored => limits = NoLimits)
    /\ view \in [Cells -> {None, "default", "a", "b"}]
    /\ Range(bindings) \subseteq Entities
    /\ bootstrapSent => subscribed

\* In whichever order the peer wrote, read and subscribed, over all sessions:
\* when the answers have arrived, what it was told last of a field is what the
\* client keeps.  It may not be after a write without its list, which takes the
\* place of the whole store, and after one whose answer was lost, until the peer
\* is told all the limits again.
PeerViewIsCurrent ==
    toPeer = <<>> /\ ~blind =>
        \A c \in Cells : view[c] # None => c \in DOMAIN limits /\ view[c] = limits[c]

\* The ways to a subscription do not repeat one another: the client asks for
\* the peer's NodeManagement and for each of its heartbeats at most once, over
\* all sessions; it takes one for asked, and will not ask again, only when it
\* was or when a send timed out; and the adapter asks for a heartbeat only when
\* it was bound, and for nothing else.
SubscribesOnce ==
    /\ ~repeated
    /\ subscribed /\ cuts = 0 => Request("NodeManagement", NodeManagement) \in calls
    /\ cuts = 0 => \A s \in diagnosed : Request("DeviceDiagnosis", s) \in calls
    /\ Adapter => \A call \in calls : call.type = "DeviceDiagnosis" /\ bound

\* The tables of a profile agree: in the structured ones every read that is
\* announced as possible is answered (the default profile announces two that
\* it leaves without an answer).
AnnouncedReadsAreAnswered ==
    owed \subseteq IF Structured THEN {} ELSE {"use cases", "manufacturer"}

\* And what the client subscribes to it asks for from a feature that it
\* announces, of the same type, and that is no server.
AsksAsAnnounced ==
    \A call \in calls : \E f \in Features(profile) :
        f.at = call.from /\ f.type = call.type /\ f.role # "server"
=============================================================================
