---------------------------- MODULE ServerRequests --------------------------
(***************************************************************************)
(* The SPINE server role of ShipServer (eebus_sdk/server.py): how          *)
(* _handle_spine_data answers the reads, writes and calls of the peers,    *)
(* the profile all sessions share, and the heartbeat task of each session. *)
(*                                                                         *)
(* The handler computes every answer and changes every piece of state      *)
(* before the first send that suspends it, then sends its answers one by   *)
(* one; meanwhile the handlers of the other sessions and the heartbeat     *)
(* tasks run.  What the server asks of the peer is in ServerSpine, how     *)
(* sessions come and go in ServerSessions.                                 *)
(***************************************************************************)
EXTENDS Integers, Sequences, FiniteSets, SequencesExt, ServerProfiles

CONSTANTS
    Sessions,
    Writes,         \* the writes peers may send: a store, fields by item id
    NoList,         \* the items of a write that carries no list
    Subscribers,    \* (clientAddress, serverAddress, serverFeatureType) keys
    Diagnosis,      \* those whose serverFeatureType is DeviceDiagnosis
    MaxRequests     \* bound: requests of all sessions

ASSUME DiagnosisAssumption == Diagnosis \subseteq Subscribers

\* merge_keyed_list_payload and the events know items by an integer id only.
ASSUME WritesAssumption == \A w \in Writes : w.items # NoList => DOMAIN w.items \subseteq Int

\* The two list payloads the profile stores and the peers may write.
Stores == {"limits", "configuration"}

Unknown == "unknown function"

VARIABLES
    alive,          \* the session's handler has not ended
    profile,        \* ServerSpineProfile: fields by store and item id
    subs, bindings, \* _LocalSessionState.subscriptions, .bindings
    outbox,         \* responses the handler has still to send
    beats,          \* heartbeats left of the running round
    received,       \* history: requests handled, by session
    sent,           \* history: responses sent, by session
    written,        \* history: the writes of all sessions, in handling order
    events,         \* history: inbound_load_power_write events
    heard           \* history: clients that got a heartbeat since they subscribed

requestHistories == <<received, sent, written, events, heard>>
requestVars == <<alive, profile, subs, bindings, outbox, beats, requestHistories>>

Empty == [x \in {} |-> {}]

-----------------------------------------------------------------------------
\* dict.update: the fields of the new item over those of the old one.
Override(old, new) ==
    [f \in DOMAIN old \cup DOMAIN new |-> IF f \in DOMAIN new THEN new[f] ELSE old[f]]

\* Fault: the new item replaces the old one.
MergeReplacing(current, items) ==
    IF items = NoList THEN Empty
    ELSE [id \in DOMAIN current \cup DOMAIN items |->
            IF id \in DOMAIN items THEN items[id] ELSE current[id]]

\* merge_keyed_list_payload: items are merged field by field, ids not named
\* stay; a payload without a list takes the place of the whole store.
Merge(current, items) ==
    IF items = NoList THEN Empty
    ELSE [id \in DOMAIN current \cup DOMAIN items |->
            Override(IF id \in DOMAIN current THEN current[id] ELSE Empty,
                     IF id \in DOMAIN items THEN items[id] ELSE Empty)]

\* ServerSpineProfile's defaults: an LPC and an LPP limit, three key values.
DefaultProfile(fields) ==
    [limits |-> [id \in 0 .. 1 |-> [f \in fields |-> 0]],
     configuration |-> [id \in 0 .. 2 |-> [f \in fields \cap {"value"} |-> 0]]]

Fields == UNION {UNION {DOMAIN w.items[id] : id \in DOMAIN w.items} :
                    w \in {x \in Writes : x.items # NoList}}

RequestsInit ==
    /\ alive = [s \in Sessions |-> TRUE]
    /\ profile = DefaultProfile(Fields)
    /\ subs = [s \in Sessions |-> <<>>]
    /\ bindings = [s \in Sessions |-> <<>>]
    /\ outbox = [s \in Sessions |-> <<>>]
    /\ beats = [s \in Sessions |-> <<>>]
    /\ received = [s \in Sessions |-> <<>>]
    /\ sent = [s \in Sessions |-> <<>>]
    /\ written = <<>>
    /\ events = <<>>
    /\ heard = [s \in Sessions |-> {}]

\* The handler of s is in its read loop.
Reading(s) ==
    /\ alive[s] /\ outbox[s] = <<>>
    /\ FoldFunction(+, 0, [r \in Sessions |-> Len(received[r])]) < MaxRequests
Request(s) == Len(received[s]) + 1
Answer(kind, n, shows) == [kind |-> kind, req |-> n, shows |-> shows]
\* build_result_datagram: the result of any request is success.
Result(n) == Answer("result", n, Empty)

\* Fault: the result of a write is added to the one its ackRequest asked for.
WriteResultsTwice(n, ack) == (IF ack THEN <<Result(n)>> ELSE <<>>) \o <<Result(n)>>

\* A write is answered by one result, whether ackRequest asks for it or not.
WriteResults(n, ack) == <<Result(n)>>

\* extract_preferred_load_power_state: item 0, else the first listed.
PreferredItem(items) ==
    IF 0 \in DOMAIN items THEN 0 ELSE CHOOSE id \in DOMAIN items : \A j \in DOMAIN items : id <= j

\* Fault: a write that gives no value has no event.
WriteEventsWithValue(s, w) ==
    IF w.store # "limits" \/ w.items = NoList \/ w.items = Empty THEN <<>>
    ELSE IF "value" \notin DOMAIN w.items[PreferredItem(w.items)] THEN <<>>
    ELSE <<[session |-> s, id |-> PreferredItem(w.items),
            state |-> w.items[PreferredItem(w.items)]]>>

\* The event of a limit write that lists at least one item.
WriteEvents(s, w) ==
    IF w.store # "limits" \/ w.items = NoList \/ w.items = Empty THEN <<>>
    ELSE <<[session |-> s, id |-> PreferredItem(w.items),
            state |-> w.items[PreferredItem(w.items)]]>>

\* A write: result, merge, event, and a notify to the writer that shows the
\* store as merged now.
RecvWrite(s, w, ack) ==
    /\ Reading(s)
    /\ LET n == Request(s)
           merged == Merge(profile[w.store], w.items)
       IN  /\ profile' = [profile EXCEPT ![w.store] = merged]
           /\ outbox' = [outbox EXCEPT ![s] =
                            WriteResults(n, ack)
                                \o <<Answer("notify", n, [store |-> w.store, items |-> merged])>>]
    /\ received' = [received EXCEPT ![s] = Append(@, "store write")]
    /\ written' = Append(written, [session |-> s, req |-> Request(s), write |-> w])
    /\ events' = events \o WriteEvents(s, w)
    /\ UNCHANGED <<alive, subs, bindings, beats, sent, heard>>

\* A write of a function the profile does not store is only answered.
RecvOtherWrite(s, ack) ==
    /\ Reading(s)
    /\ outbox' = [outbox EXCEPT ![s] = WriteResults(Request(s), ack)]
    /\ received' = [received EXCEPT ![s] = Append(@, "write")]
    /\ UNCHANGED <<alive, profile, subs, bindings, beats, sent, written, events, heard>>

\* A read is answered by one reply that shows the named function now (the
\* constant data of a profile are not told apart), and by nothing when no
\* function is known; ackRequest does not count for reads.
ReadReplies(s, f, n) ==
    CASE f \in Stores        -> <<Answer("reply", n, profile[f])>>
      [] f = "subscriptions" -> <<Answer("reply", n, subs[s])>>
      [] f = "bindings"      -> <<Answer("reply", n, bindings[s])>>
      [] OTHER               -> IF f \in Answered THEN <<Answer("reply", n, Empty)>> ELSE <<>>

RecvRead(s, f) ==
    /\ Reading(s)
    /\ outbox' = [outbox EXCEPT ![s] = ReadReplies(s, f, Request(s))]
    /\ received' = [received EXCEPT ![s] = Append(@, IF f \in AnnouncedReads THEN "read" ELSE "unknown")]
    /\ UNCHANGED <<alive, profile, subs, bindings, beats, sent, written, events, heard>>

\* A notify, or a reply or result of the peer, is answered if it asks to be.
RecvNotify(s, ack) ==
    /\ Reading(s)
    /\ outbox' = [outbox EXCEPT ![s] = IF ack THEN <<Result(Request(s))>> ELSE <<>>]
    /\ received' = [received EXCEPT ![s] = Append(@, IF ack THEN "acked notify" ELSE "notify")]
    /\ UNCHANGED <<alive, profile, subs, bindings, beats, sent, written, events, heard>>

\* Fault: a repeated request is recorded again.
RecordAgain(list, key) == Append(list, key)

\* _record_node_management_calls keeps one entry per key, in request order.
Record(list, key) == IF Contains(list, key) THEN list ELSE Append(list, key)

\* A call is recorded and answered by its result.
RecvCall(s) ==
    /\ Reading(s)
    /\ outbox' = [outbox EXCEPT ![s] = <<Result(Request(s))>>]
    /\ received' = [received EXCEPT ![s] = Append(@, "call")]
    /\ UNCHANGED <<alive, profile, beats, sent, written, events>>

Subscribe(s, c) ==
    /\ RecvCall(s)
    /\ subs' = [subs EXCEPT ![s] = Record(@, c)]
    /\ heard' = [heard EXCEPT ![s] = IF Contains(subs[s], c) THEN @ ELSE @ \ {c}]
    /\ UNCHANGED bindings

\* A delete call clears the whole list, whatever entry it names.
Unsubscribe(s) ==
    /\ RecvCall(s)
    /\ subs' = [subs EXCEPT ![s] = <<>>]
    /\ UNCHANGED <<bindings, heard>>

Bind(s, c) ==
    /\ RecvCall(s)
    /\ bindings' = [bindings EXCEPT ![s] = Record(@, c)]
    /\ UNCHANGED <<subs, heard>>

Unbind(s) ==
    /\ RecvCall(s)
    /\ bindings' = [bindings EXCEPT ![s] = <<>>]
    /\ UNCHANGED <<subs, heard>>

\* Fault: a notify shows the store as it is when it is sent.
SendNextLate(s) ==
    /\ alive[s] /\ outbox[s] # <<>>
    /\ LET a == Head(outbox[s])
       IN  sent' = [sent EXCEPT ![s] = Append(@,
               IF a.kind = "notify" THEN [a EXCEPT !.shows.items = profile[a.shows.store]] ELSE a)]
    /\ outbox' = [outbox EXCEPT ![s] = Tail(@)]
    /\ UNCHANGED <<alive, profile, subs, bindings, beats, received, written, events, heard>>

\* One response reaches the peer; after the last one the handler reads on.
SendNext(s) ==
    /\ alive[s] /\ outbox[s] # <<>>
    /\ sent' = [sent EXCEPT ![s] = Append(@, Head(outbox[s]))]
    /\ outbox' = [outbox EXCEPT ![s] = Tail(@)]
    /\ UNCHANGED <<alive, profile, subs, bindings, beats, received, written, events, heard>>

\* Fault: the round ends at the first subscription it does not serve.
LeadingSubscribers(list) ==
    SubSeq(list, 1, CHOOSE n \in 0 .. Len(list) :
                      /\ \A i \in 1 .. n : list[i] \in Diagnosis
                      /\ n < Len(list) => list[n + 1] \notin Diagnosis)

\* The subscriptions a heartbeat goes to.
HeartbeatSubscribers(list) == SelectSeq(list, LAMBDA c : c \in Diagnosis)

\* _publish_device_diagnosis_heartbeats after its sleep: the round runs over a
\* copy of the list, so what is recorded meanwhile does not change it.
StartRound(s) ==
    /\ alive[s] /\ beats[s] = <<>>
    /\ beats' = [beats EXCEPT ![s] = HeartbeatSubscribers(subs[s])]
    /\ UNCHANGED <<alive, profile, subs, bindings, outbox, received, sent, written, events, heard>>

\* One heartbeat of the round is sent.
SendBeat(s) ==
    /\ alive[s] /\ beats[s] # <<>>
    /\ heard' = [heard EXCEPT ![s] = @ \cup {Head(beats[s])}]
    /\ beats' = [beats EXCEPT ![s] = Tail(@)]
    /\ UNCHANGED <<alive, profile, subs, bindings, outbox, received, sent, written, events>>

\* The link ends: the handler and its heartbeat task stop where they are, and
\* the shared profile keeps what was written.
End(s) ==
    /\ alive[s]
    /\ alive' = [alive EXCEPT ![s] = FALSE]
    /\ outbox' = [outbox EXCEPT ![s] = <<>>]
    /\ beats' = [beats EXCEPT ![s] = <<>>]
    /\ UNCHANGED <<profile, subs, bindings, received, sent, written, events, heard>>

RequestsNext ==
    \E s \in Sessions :
        \/ \E w \in Writes, ack \in BOOLEAN : RecvWrite(s, w, ack)
        \/ \E ack \in BOOLEAN : RecvOtherWrite(s, ack) \/ RecvNotify(s, ack)
        \/ \E f \in AnnouncedReads \cup {Unknown} : RecvRead(s, f)
        \/ \E c \in Subscribers : Subscribe(s, c) \/ Bind(s, c)
        \/ Unsubscribe(s)
        \/ Unbind(s)
        \/ SendNext(s)
        \/ StartRound(s)
        \/ SendBeat(s)
        \/ End(s)

RequestsSpec == RequestsInit /\ [][RequestsNext]_requestVars

\* The event loop runs a handler whose send can complete.
FairRequestsSpec ==
    /\ RequestsSpec
    /\ \A s \in Sessions :
           WF_requestVars(SendNext(s)) /\ WF_requestVars(StartRound(s) \/ SendBeat(s))

-----------------------------------------------------------------------------
Requests == {"write", "store write", "read", "unknown", "call", "notify", "acked notify"}
Lists == UNION {[1 .. n -> Subscribers] : n \in 0 .. Cardinality(Subscribers)}

\* The types of the state; every list holds a key at most once.
RequestsTypeOK ==
    /\ alive \in [Sessions -> BOOLEAN]
    /\ DOMAIN profile = Stores
    /\ \A s \in Sessions :
          /\ subs[s] \in Lists /\ IsInjective(subs[s])
          /\ bindings[s] \in Lists /\ IsInjective(bindings[s])
          /\ beats[s] \in Lists
          /\ Range(received[s]) \subseteq Requests
          /\ heard[s] \subseteq Diagnosis

\* What a request is answered by, in order.
Expected(request) ==
    CASE request = "store write" -> <<"result", "notify">>
      [] request \in {"write", "call", "acked notify"} -> <<"result">>
      [] request = "read" -> <<"reply">>
      [] OTHER -> <<>>

\* The answers to the n-th request, and to a list of requests in turn.
Owed(request, n) == [i \in DOMAIN Expected(request) |-> <<Expected(request)[i], n>>]
Due(requests) ==
    LET due[n \in 0 .. Len(requests)] ==
            IF n = 0 THEN <<>> ELSE due[n - 1] \o Owed(requests[n], n)
    IN  due[Len(requests)]

Tags(answers) == [i \in DOMAIN answers |-> <<answers[i].kind, answers[i].req>>]

\* Requests are answered one after the other, in the order they came: a write
\* and a call by exactly one result, whatever their ackRequest says, a read that
\* a profile announces as possible by exactly one reply and never by a result.
\* A session that ends has sent a beginning of these answers.
EveryRequestAnsweredOnce ==
    \A s \in Sessions :
        LET tags == Tags(sent[s] \o outbox[s])
        IN  IF alive[s] THEN tags = Due(received[s]) ELSE IsPrefix(tags, Due(received[s]))

\* The number of writes to a store up to and including its last wipe.
Wipe(store) ==
    LET wipes == {n \in DOMAIN written :
                    written[n].write.store = store /\ written[n].write.items = NoList}
    IN  IF wipes = {} THEN 0 ELSE CHOOSE n \in wipes : \A m \in wipes : m <= n

\* The writes that gave a value to field f of item id and were not wiped.
Giving(store, id, f) ==
    {n \in DOMAIN written :
        /\ n > Wipe(store)
        /\ written[n].write.store = store
        /\ id \in DOMAIN written[n].write.items
        /\ f \in DOMAIN written[n].write.items[id]}

\* Whatever the interleaving of the sessions and whoever has left since, each
\* field of each stored item is what the latest write that gave it said: a
\* partial write of one session never undoes another field or item.
ProfileHoldsLatestWrites ==
    \A store \in Stores :
        LET known == DOMAIN profile[store]
        IN  /\ \A n \in DOMAIN written :
                  n > Wipe(store) /\ written[n].write.store = store
                  => DOMAIN written[n].write.items \subseteq known
            /\ \A id \in known, f \in Fields :
                  LET giving == Giving(store, id, f)
                  IN  giving # {} =>
                        LET last == CHOOSE n \in giving : \A m \in giving : m <= n
                        IN  /\ f \in DOMAIN profile[store][id]
                            /\ profile[store][id][f] = written[last].write.items[id][f]

\* The notify that answers a write shows the writer every field as it wrote
\* it, even when another session wrote the same field before it was sent.
NotifyShowsTheWrite ==
    \A n \in DOMAIN written :
        LET w == written[n].write
        IN  \A i \in DOMAIN sent[written[n].session] :
              LET a == sent[written[n].session][i]
              IN  a.kind = "notify" /\ a.req = written[n].req /\ w.items # NoList
                  => \A id \in DOMAIN w.items : \A f \in DOMAIN w.items[id] :
                        /\ id \in DOMAIN a.shows.items
                        /\ f \in DOMAIN a.shows.items[id]
                        /\ a.shows.items[id][f] = w.items[id][f]

\* A write that names several limits or none is not fully told by its event.
Told(w) == w.store = "limits" => w.items # NoList /\ \E id \in DOMAIN w.items : DOMAIN w.items = {id}

\* What is known of the limits by one more event, and by a list of them.
Learn(limits, e) ==
    [id \in DOMAIN limits \cup {e.id} |->
        IF id # e.id THEN limits[id]
        ELSE Override(IF id \in DOMAIN limits THEN limits[id] ELSE Empty, e.state)]
Replay(list) ==
    LET known[n \in 0 .. Len(list)] ==
            IF n = 0 THEN DefaultProfile(Fields).limits ELSE Learn(known[n - 1], list[n])
    IN  known[Len(list)]

\* Who applies the load_power_write events in order to the default limits knows
\* the limits as long as every write named one limit, even when its writer was
\* gone before it got an answer.
EventsReplayTheLimits ==
    (\A n \in DOMAIN written : Told(written[n].write)) => profile.limits = Replay(events)

\* A subscriber to DeviceDiagnosis gets a heartbeat, unless it leaves the list
\* or its session ends.
SubscribersGetHeartbeats ==
    \A s \in Sessions, c \in Diagnosis :
        alive[s] /\ Contains(subs[s], c) ~> c \in heard[s] \/ ~Contains(subs[s], c) \/ ~alive[s]
=============================================================================
