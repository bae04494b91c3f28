# TLA+ models of eebus-sdk

TLA+ modules, TLC configurations and machine-checked proofs for the Python
package `eebus_sdk` (paths below are relative to `src/eebus_sdk/`).  The
modules are translated from the code; the docs are only quoted where code and
docs disagree.

    tlc -config MCServerSessions.cfg MCServerSessions.tla     one run
    tlapm ShipServer_proofs.tla                               its proofs

`PROJECT.json` lists the components, the runs with their properties, a mutant
of the code for every property, the source lines behind every definition, the
findings, the hazards and the theorems.

## 1. The system

The SDK speaks EEBUS: SPINE datagrams over the SHIP protocol over a WebSocket
over mutual TLS.  Everything runs on one asyncio loop, so state changes only
where a task runs between two awaits that suspend.  The models rest on this: an
action is what a task does between two such awaits.

| Component | Code | State it keeps | Operations | Interacts with |
|---|---|---|---|---|
| Server sessions | `server.py` | `_active_sessions`, one handler task and one heartbeat task per connection, the event queue | accept, handshake, register, end, stop; look up a session by SKI | event readers, callers of `send_load_power_limit_to_peer`, the network |
| Server, SPINE client role | `server.py`, `_spine_helpers.py` | per session: message counter, what the peer announced, pending bindings, writes and readbacks, bootstrap flags | handle discovery, results, limits, binding tables; forward a command | the peer, any number of forwarding callers (shared counter and pending tables) |
| Server, SPINE server role | `server.py`, `_server_profile.py` | one profile for all sessions; per session: subscriptions, bindings | answer reads, writes, calls, notifies; heartbeat rounds | all sessions through the profile, the event queue |
| SHIP handshake | `ship.py`, `server.py` | stage, attempts, negotiated version, access ids, pairing deadline | receive, time out, select methods late, close | the two sides through two ordered channels |
| SHIP session life cycle | `ship.py` | ping, keep-alive and select tasks, the transport | open, receive, events, close | transport, client |
| WebSocket transport | `websocket.py`, `_websocket_server.py` | bytes of the stream, fragments of the running message | `receive_frame`, send, close | SHIP session |
| Client SPINE handling | `client.py`, `_client_profile*.py` | last discovery, bootstrap flags, stored limits, bindings | handle a datagram, reconnect, collect answers to a request | peer, SHIP session |
| Load-power bridge | `cli.py` `_run_lp_bridge` | `pending_lp_forward`, one queue for each side | take an event, forward, retry | two servers, or a client and a server, or one shared server |
| Load-power send | `cli.py` `_run_lp_send` | sent, accepted, confirmed | take an event, time out | one server |
| Discovery | `discovery.py` | services and hosts by name, during one call | three rounds of mDNS queries | a client that reconnects |
| Conversions | `_load_power.py`, `_spine_helpers.py` | none | scaled numbers, production sign, which entry of a list is reported | bridge, send, server |
| Profile payloads | `_client_profile_*.py`, `_server_profile.py` | constant announcements | build payloads | SPINE handling |
| Codec, advertisement, identity, trust, trace, replay, self test, rest of the CLI | the other files | files, mDNS | I/O and formatting | - |

### What is hard in it, and what makes each part correct

* **Server sessions.** A peer may reconnect before its old link is noticed to
  be dead, so two handlers share a key of `_active_sessions`; a heartbeat task
  may fail on a dead link while its handler is in its `finally` block; `stop()`
  runs at any time.  Correct means that the registry never leads to a session
  that ended or belongs to another peer, that the ready and closed events agree
  with it, and that no task or transport is left over.
* **SPINE client role.** A handler that works through its list of responses, a
  heartbeat and several callers of `send_load_power_limit_to_peer` take counters
  at one time and send at another.  The peer answers in any order and announces
  its features in any grouping.  Correct means counters are never reused, no
  answer is taken for another's, nothing is read before its binding, no command
  reads back the state of an older one, a command is reported sent before its
  result, and eventually sent at all.
* **SPINE server role.** Several peers write partial updates of one profile
  while notifies and heartbeats computed earlier are still being sent.  Correct
  means every request gets its answers once and in order, each field is what
  the last write said, and notifies and events agree with the profile.
* **Handshake.** Two state machines with their own timeouts, compatibility
  modes and tolerated shortcuts.  Correct means no session opens without its
  negotiation, two sides of the library never end half open, and they do
  complete when the network is fast.
* **Frames.** Control frames between fragments, and a timeout that may cut a
  frame in two.  Correct means messages are delivered whole, in order, once.
* **Client.** Flags that outlive a session, several ways to the same
  subscription, and limits the peer both writes and reads.  Correct means the
  peer's view is the client's state and nothing is subscribed to twice.
* **Client operations.** Requests collect answers by the function they carry,
  under a deadline that leaves late answers behind; `close()` awaits tasks that
  may have failed on a dead link; a reconnect looks for a peer that has moved,
  over a lossy multicast.  Correct means an answer is taken once and for its own
  request, a session that was left is quiet, a fresh and complete rediscovery
  leads to the peer, and every operation ends.
* **Profiles.** The features that are announced, the reads that are answered and
  the addresses that are asked from are kept in separate tables.  Correct means
  that they agree.
* **Bridge and send.** A forward is two sends, either of which may fail; one
  slot holds what could not be forwarded; acknowledgement and readback come in
  either order, in any scale, with other limits beside the command's.  The
  wallbox's sessions may overlap.  Correct means no command is reordered or lost,
  and that what is reported is what happened.

The full list of hazards, each at its line and with the properties aimed at it
(or the reason there is none), is `hazards` in `PROJECT.json`.

## 2. The modules

| Module | Models | Composition |
|---|---|---|
| `ServerSessions` | life of every server connection, the registry, its events, its heartbeat task, and the look-up by a caller | the handshake is one step (`Register`); SPINE traffic is left to the next two |
| `LimitCommands` | abstract: what a caller of `send_load_power_limit_to_peer` is promised | - |
| `ServerSpine` | SPINE client role of one session, with its forwarding callers | `Promise == INSTANCE LimitCommands WITH ...`, checked as a property |
| `ServerSpine_proofs` | theorems about `ServerSpine` and the promise, and the refinement | EXTENDS it |
| `SpineFeatures` | features as they are announced, and those that profiles share | - |
| `ServerProfiles` | features of the server's two profiles, and the reads it answers | EXTENDS `SpineFeatures` |
| `ServerRequests` | SPINE server role of all sessions, the shared profile, heartbeats | EXTENDS `ServerProfiles` |
| `ShipServer_proofs` | theorems about the server: its sessions, and the requests they answer | EXTENDS `ServerSessions`, `ServerRequests`, and `SequenceLemmas` |
| `ShipHandshake` | both sides of the handshake, and each against a foreign peer | the two sides composed over two channels |
| `FrameReader` | `receive_frame` and its callers' timeouts | - |
| `ShipTransport_proofs` | theorems about both sides of the handshake, and about the frames | EXTENDS `ShipHandshake`, `FrameReader`, and `SequenceLemmas` |
| `ClientProfiles` | features, answers, notifies and addresses of the client's three profiles | EXTENDS `SpineFeatures` |
| `ClientSpine` | `HemsClient.handle_incoming_datagram`, bootstraps, `reconnect` | EXTENDS `ClientProfiles` |
| `ClientSpine_proofs` | theorems about the three profiles | EXTENDS it, and `SequenceLemmas` |
| `ShipSession` | the life of client sessions: open, their tasks, `close` | the handshake is one step |
| `Discovery` | `discover_ship_services` with the responders and the network | - |
| `HemsClient` | the operations of the client: connect, close, reconnect, requests | `Life == INSTANCE ShipSession`, `Mdns == INSTANCE Discovery`: their actions are conjuncts of its own |
| `HemsClient_proofs` | theorems about it and its sessions, and that they implement `ShipSession` | EXTENDS it, and `SequenceLemmas` |
| `LpBridge` | `_run_lp_bridge` with the sessions of its sides | the wallbox's sessions reduced to their links and the one entry they share |
| `LpBridge_proofs` | theorems about the bridge | EXTENDS it |
| `LoadPower` | sign, scale and rounding of watts, durations | - |
| `LimitSend` | `_run_lp_send`, the session it uses and the wallbox | EXTENDS `LoadPower`; the session reduced to what concerns the command |
| `LimitSend_proofs` | theorems about the command and the conversions | EXTENDS it, and `SequenceLemmas` |
| `SequenceLemmas` | facts about sequences and their elements that several proofs cite | - |
| `MC*` | values of the constants for TLC | EXTEND the module of their name |

### State and actions against the code

* **ServerSessions.**  `pc[c]` is the place of `_handle_client` for connection
  `c` (upgrade, handshake, ready, reap and closing in the `finally` block, done
  or raised).  `registry` is `_active_sessions`; `told` folds the ready and
  closed events.  `Accept`, `Admit`/`Reject`, `Register` follow the handler
  down to its read loop.  `Leave` is the entry of the `finally` block, reached
  by `Reject`, `ProtocolError` and `LoseSession`; `Reap` awaits the cancelled
  heartbeat task, `Close` closes the transport.  A heartbeat task that has
  failed re-raises in that `finally` block, which ends the handler in `raised`.
  `CallRefused`, `CallBegins` and `CallSends` are the caller; `cert` and `link`
  are the outside world.
* **ServerSpine.**  `RecvDiscoveryRead`, `RecvDiscovery`, `RecvResult`,
  `RecvLimits` and `RecvBindingTable` are `_handle_spine_data` for these
  datagrams, up to its first send; `outbox` holds what each sender, the handler
  or a caller, has left to send, events included, and `SendNext` sends one.
  `ForwardBegins` is `send_load_power_limit_to_peer` up to its first send: any
  caller may be in it, also while the handler sends the configured command.  A
  datagram is on the wire when its sender asks for the connection's lock.
  `pendingW`, `pendingR`, `autoWrite`, `autoRead` and
  `pendingBind` are the tables of expected answers, `log` the events.
* **ServerRequests.**  One action per classifier and kind of call; `outbox`
  and `SendNext` as above; `StartRound` takes the heartbeat task's copy of the
  subscriptions and `SendBeat` sends one.  Payloads are functions from item ids
  to fields, so that partial writes and their merge are what the code does.
  `RecvRead` names any function that a profile announces, or an unknown one.
* **ShipHandshake.**  `cli` and `srv` hold a stage each and the local variables
  of the `_*_handshake` loops in `ship.py` and `server.py`.
  A reaction maps a state and a message to a new state and the answers; it is
  taken by `ClientReceives` or `ServerReceives`, or by the timeout actions.
  `ClientSelects` is the delayed methods selection, `DeadlinePasses` the
  pairing deadline; `Silence` is what either receive of `_hello` does when
  nothing has come.
* **FrameReader.**  A frame is a head, a mask and a payload, each read by one
  `readexactly`.  `ReadMore` is one read and what follows it; `Timeout` ends the
  call between two reads, which loses the local variables; after a timeout
  within a frame the next bytes are taken for what they are not, and any outcome
  is possible.
* **ClientSpine.**  One action per kind of datagram; a call changes all of its
  state before its first await and only the receiving task makes it, so the
  handler is one step.  `Reconnect` keeps what `reconnect` keeps and drops what
  is under way.  `Merge` keeps the fields that a write does not name; a write
  without its list takes the place of the whole store.  A send may time out, and
  what it and those behind it would have told is lost while the session goes on.
  The tables of the profile in use say what is answered
  (`Answers`), told to a new subscriber (`Notifies`) and asked from (`Asker`).
* **ShipSession.**  `phase` is the place of a session: in its handshake, ready,
  or in `close` at the task it awaits.  `TaskSends` is one send of a background
  task: a ping or keep-alive that fails ends its loop, a failed selection keeps
  its exception, which `CloseAwaits` raises.
* **Discovery.**  `Start` and `RoundEnds` are the calls of `mdns_query`;
  `Packet` is `consume_records` on any part of a responder's records, true now
  or before it moved.  `Discovered` is the service that is returned.
* **HemsClient.**  `op` is the operation the caller is in and what it waits
  for: a function's data, any message, an opened session, the awaits of `close`,
  or a round of mDNS.  `Receive` is one `_receive_and_process` and what the
  operation does with the datagram, up to its next wait; `ReadEnds` is a timeout
  or a broken transport.  What handling a datagram does to the client's SPINE
  state is in `ClientSpine`; here it is reduced to the bootstrap's own read,
  whose answer may be taken for another's.
* **LpBridge.**  `Take` is one turn of the loop up to the first await of a
  forward, `ForwardStep` one of its two sends.  `LinkUp`, `Discovered`,
  `OtherDatagram`, `LinkBreaks` and `LinkDown` are what the listener does: `link`
  has the stage of each session of the wallbox, which may overlap, and `entry`
  is the session that `_active_sessions` has under its SKI, set by the last one
  to get ready and removed by the first to end (also in its handshake).  The
  mode is two listeners, a source client and a listener, or one listener shared
  by both sides, whose events all carry the side "source".
* **LimitSend.**  `ServerHandles` is the handler of an answer, `TakeEvent` and
  `Timeout` the loop of the command.  The wallbox takes requests in order,
  may apply, curtail or reject the limit, and answers in any order.  It lists its
  limits in the order `Listed`; others may set any of them (`WallboxChanges`).
  It reports them in any scale that holds them exactly, and their durations as
  `format_duration` writes them, in another form (the one in seconds alone stands
  for these, as "PT90S") or not at all.  `Reported` decodes the first entry with the
  operators of `LoadPower`; `Matches` compares the text of the duration.

Histories (variables marked "history" such as `calls` and `repeated`, the
subscriptions that were asked for, and whether one was asked for again; and sequences such as `handed` or
`written`) are read by properties only.  Operators commented "Fault:" are
plausible errors in the definition below them; they are used by the mutants
that show each property can fail, never by a specification.

The data is abstracted to what properties tell apart: a limit item is a few
fields with small values, a payload is its purpose, a certificate is its SKI.
The map in `PROJECT.json` covers about 49 % of the implementation's lines; the
rest is formatting, constant payloads, I/O and the parts listed in section 7.

## 3. Runs

Every property of a passing run has a mutant of the code that breaks it.  A type
invariant is checked in `sessions` and `operations`; those of the other modules
document their variables.

| Run | Bounds | What it shows |
|---|---|---|
| `sessions` | three connections, a trusted, an untrusted and an anonymous peer (601 thousand states) | the registry is sound, agrees with the events, finds every session of a peer that never overlapped; no task or transport is left; a dead session ends |
| `sessions_overlap` (violation) | two connections, everyone trusted | finding 1 |
| `spine` | two feature addresses, announced at once or one after the other; two callers that may send at the same time, beside a configured command or without one; two commands or discovery reads of the peer (244 thousand states) | counters, binding before reads, no confusion of answers, no readback of an older command's state, order of events, the promise of `LimitCommands`, the configured command is sent |
| `requests` | two sessions, three requests, reads of every announced function, five writes that overlap in items and fields, one of which wipes the list, two kinds of subscriber (413 thousand states) | every request answered once, and every read that a profile announces; the shared profile, its notifies and events agree; heartbeats reach subscribers |
| `client` | the three profiles, all their features and functions, two entities with a heartbeat, a limit of two fields and one that has no default, writes that overlap or come without their list, four datagrams, one reconnect, one send that times out (153 thousand states) | what the peer was told is what is kept; no subscription twice; announced reads are answered, and subscriptions are asked for from announced features |
| `operations` | five kinds of callers with up to five operations, two sessions, two measurement servers, a peer that moves once and another service, one notify and one control message under way | left sessions are quiet, only a failed selection breaks `close`, answers are their request's own, a fresh rediscovery finds the peer, every operation ends |
| `bridge` | both two-sided modes, two writes in every form, two sessions of the wallbox that may overlap, one unrelated datagram (2.7 million states) | no older command after a newer one, none lost to a failed forward, what is pending is forwarded while the wallbox's entry is that of a connected session |
| `bridge_shared` (violation) | one shared listener, one write | finding 2 |
| `handshake` | client against server in all modes, fast and slow, and each side against a peer that sends up to seven messages of any stage (1.4 million states) | no session without negotiation, no half-open session, ids exchanged, a fast handshake succeeds, the client's side always ends |
| `frames` | two messages of up to three pieces, a ping or pong, a timeout anywhere (86 thousand states) | messages whole, in order, once; all delivered |
| `send` | two limits, the first one written with 20 W; the wallbox may apply values that round to it or not, the opposite sign or ten times as much, reports in three scales and three forms of a duration, and either limit is set once by others (4.6 million states) | confirmed means applied within half a watt, mismatch means differs |
| `send_lpp` (violation) | the same, the second one written | finding 3 |

**Why the bounds are enough.**  Two sessions of one peer are needed for an
overlap, and a third connection for a stranger or a second reconnect
beside it.  Two callers are the least that overtake one another, and two
commands the least that can be confused with one another or with the configured
command; two addresses the least that give one feature its binding before
another is announced.  `MaxCounter` is above what any
behaviour within the other bounds uses, so it never cuts one off.  Three
requests give a write of one session between another's write and its notify
and still one to end or read after it.  Two writes of a source and two sessions of
the wallbox give a failed forward, a newer command and a retry, and an older
session that takes the newer one's entry.  Four datagrams of a peer write, read
back and write over a store, on either side of the one timeout (`MaxCuts`) or
reconnect.  Two limits (`Listed`) and one change by others let another entry be
reported in the place of the command's, or equal it.  Seven messages
are enough for a foreign peer to go through every stage of either side.
A caller of `operations` is one kind of program, with the calls it makes: one
reads measurements and other data with the reference profile, one does so with
the adapter profile, one asks for discovery before and after a reconnect, one
closes and reconnects with all tasks configured, one rediscovers.  Splitting them keeps the product of independent behaviours
out; what they share (a request whose answer is late, a second request of the
same function, a close on a dead link, a second session) happens within each
bound.  `MaxQueue` limits only what the peer sends unasked, and `MaxControls`
is one control message at any place.
Three pieces give a message with a first, a middle and a last piece, and two
messages one that follows.

**Deadlock.**  The runs of `ServerSessions` check it: a caller can always try
again.  In the other runs deadlock is not checked, because the system may
really stop within the bounds: sessions end, a handshake is over, the peer has
sent all it will.  That nothing waits for ever that should not is stated by
liveness properties instead.

## 4. Fairness

* `sessions`: weak fairness of `LoseSession`, `Reap` and `Close`.  The event
  loop runs every ready task: a read on a dead transport returns or raises, and
  a `finally` block that was entered is carried through.  Nothing makes a peer
  connect, talk or leave.
* `spine`: weak fairness of the sends of the handler and of each caller: a
  sender that asks for the connection's lock gets it, for the lock is served in
  order (`_websocket_server.py:18`, `:101`) and its holder's write completes or
  raises, and events go to an unbounded queue.  For
  `CommandEventuallySent` alone the peer is also assumed to grant the LoadControl
  binding it was asked for, or refuse it, and to answer the read of its limits;
  the code waits for these without a timeout, so it promises nothing otherwise.
* `requests`: weak fairness of a handler's sends and of the heartbeat task,
  whose timer fires.  Peers may send nothing more, and a session may end.
* `bridge`: weak fairness of the bridge's task for each queue (the loop waits on
  both and takes both events when both are there) and of a forward under way,
  whose sends complete or raise.  Links may break and never come back.
  `PendingIsForwarded` has the premise that from some time on the wallbox's entry
  is that of a session whose LoadControl server is known; without it the code
  retries in vain, also when the wallbox is connected but an older session of it
  has removed the entry (finding 1).
* `handshake`: weak fairness of each side and of its timers, and the channels
  deliver.  Nobody has to close a session.  `ClientHandshakeEnds` holds for a
  foreign peer because its messages are bounded: one that repeats "pending" for
  ever is waited for for ever, since the pairing deadline is looked at only
  outside that loop.
* `frames`: weak fairness of the network and of the reader.
* `operations`: weak fairness of the awaits of `close`, of an opening that
  succeeds or raises, of the rounds of a rediscovery, of a deadline, and of
  receiving what has come or noticing that nothing has: all are timers and ready
  tasks of the event loop.  A listener may listen for ever, and a peer need not
  answer.  SHIP control messages are bounded, because each restarts the
  receive timeout without a look at the deadline.
* `client` and `send` state no liveness and assume none.

No strong fairness is assumed anywhere.  The violated liveness property of
`bridge_shared` is checked under the same fairness as in `bridge`, where it
holds.

## 5. Findings

1. **The end of an old session hides the new one** (`server.py:1673`, run
   `sessions_overlap`).  The `finally` block pops `_active_sessions` by SKI,
   whichever session is entered.  If the peer reconnected before its old link
   was noticed dead, the new session stays in its read loop but cannot be found,
   and commands are refused as "not currently connected".
2. **A deferred forward is never retried with a shared listener**
   (`cli.py:923`, run `bridge_shared`).  The retries look at events of the side
   "wallbox", which a shared listener does not have.
3. **`lpp send` compares with the wrong limit** (`_load_power.py:66`, run
   `send_lpp`).  The readback reports the first entry of the wallbox's list,
   which is the LPC limit when both are listed; the command then reports a
   mismatch although the limit is in force.  The same comparison may confirm
   falsely: when the LPC limit happens to equal the LPP command and the LPP limit
   was not applied.

`ReachableUnlessOverlapped` is the strongest form of the first property that
the code does ensure.

Weaker points that the properties state as exceptions, since no document
promises more:

* An LPC and an LPP command that wait for the wallbox share one slot
  (`cli.py:837`): the later one replaces the other.
* A wallbox whose new session overlapped its old one may be hidden from the
  bridge for as long as it stays connected: the pending command is retried and
  refused (`PendingIsForwarded` has this in its premise).
* When two callers write at the same time, the older command may be told the
  state that the newer one left; a configured command that waits behind an
  acknowledgement may be told that of an older one (`ReadbackIsNotStale`).
* A write that comes to the client without its list takes the place of all its
  limits, and an answer lost to a timeout of the send is not sent again: the
  peer's view may be stale until it is told all limits anew
  (`PeerViewIsCurrent`).
* `lpc send` compares the text of the duration (`cli.py:726`): "PT7200S", as
  the library's own server profile writes its failsafe duration
  (`_server_profile.py:509`), is a mismatch for "PT2H" (`MismatchMeansDiffers`).
* `ConfirmedMeansApplied` and `MismatchMeansDiffers` hold of a limit that the
  wallbox lists first: of `lpc send`, when LPC comes first as in the library's own
  profile.
* The default profile of the client announces reads of its use cases and
  manufacturer data and answers neither (`AnnouncedReadsAreAnswered`).  The
  `hems-reference` profile asks for measurements from feature 9 of entity 1, and
  the server's `cls-load-power` profile binds LoadControl from feature 6; neither
  announces that feature (not covered by a property: `AsksAsAnnounced` is about
  the client's subscriptions).
* A delayed methods selection that could not be sent makes every `close` of that
  session raise, and its transport stays open (`OnlySelectionsBreakClose`); an
  `open` that fails does not close what it opened (`LeftSessionsAreQuiet`).
* A request takes a notify of its function, the late answer to an earlier
  request, or use cases where it asked for discovery (`AnswersAreOwn`).

## 6. Proofs

The runs check small instances; the theorems hold for every value of the
constants, as many connections, sessions, commands, callers, peers and messages
as one likes.  `PROJECT.json` lists them.  Every safety and action property that a run checks is proved, but for `RefusedOnlyWhenNotConnected`, which the code violates
(finding 1):

| Module | What is proved | Facts that make it inductive |
|---|---|---|
| `ShipServer_proofs`, sessions | `TypeOK`, `RegistrySound`, `EventsTrackRegistry`, `ReachableUnlessOverlapped`, `NothingLeaks` | `Phases`, `OneSession` |
| `ShipServer_proofs`, requests | `EveryRequestAnsweredOnce`, `ProfileHoldsLatestWrites`, `NotifyShowsTheWrite`, `EventsReplayTheLimits` | `Types`, `Counted`, `Shown`, `Held`, `LimitsKeyed` |
| `ServerSpine_proofs` | `CountersUnique`, `RefsUnambiguous`, `ReadsFollowBinding`, `ReadbackIsNotStale`, `CommandReportedInOrder`, `CommandsKeepPromise`, and what the promise means | `Types`, `Counted`, `AutoCommand`, `CommandsInOrder` |
| `LpBridge_proofs` | `NoOlderCommandAfterNewer`, `LatestIsPendingOrHanded` | `Types`, `InOrder`, `Books` |
| `LimitSend_proofs` | `ConfirmedMeansApplied`, `MismatchMeansDiffers` (both when the written limit is listed first), the conversions | `Types`, `WrittenOnce`, `NothingEarly`, `ToldAsApplied`, `ReportedAsTold` |
| `HemsClient_proofs` | `TypeOK`, `LeftSessionsAreQuiet`, `OnlySelectionsBreakClose`, `AnswersAreOwn`, `RediscoveryFindsThePeer`, the refinement of `ShipSession` | `LifeInv`, `KnownOfWanted`, `StagesFit`, `OpenedInOrder`, `OneSession`, `Ordered`, `OwnOrAbandoned`, `TakenAreOwn`, `AsksAServer` |
| `ShipTransport_proofs`, handshake | `TypeOK`, `SessionsAreNegotiated`, `NoHalfOpenSession`, `IdsAreExchanged` | `ClientFits`, `ServerFits`, `ClientOpensOnce`, `ToldServerGoesOn`; `Opening`, `Told` |
| `ShipTransport_proofs`, frames | `FramesIntact`, `ReaderTypeOK` | `InStep`, `PiecesMarked`, `PiecesInOrder`, `Taken` |
| `ClientSpine_proofs` | `PeerViewIsCurrent`, `SubscribesOnce`, `AnnouncedReadsAreAnswered`, `AsksAsAnnounced` | `PeerKnows`, `AsksOnce` |

In each module `IInv` is the conjunction of these facts (for sessions, requests and
the SPINE client role also of properties themselves), `Invariant` states that it
always holds (for the requests `RequestsInv` and `RequestsInvariant`, for the
frames `FramesInv` and `FramesInvariant`), and the theorems about the properties follow from it.  The proof of a step has a
lemma for each part of `IInv`, or for each action, whichever splits it better.

### Why the properties are not inductive by themselves

* **Sessions.**  When a handshake becomes ready, `RegistrySound` needs its peer
  to be trusted, and `NothingLeaks` that the `finally` block raises only on a
  dead link: facts about earlier phases of the handler (`Phases`).  When a
  session pops the entry of its SKI, `ReachableUnlessOverlapped` needs any other
  session of that peer to be on record as an overlap, also while both are in
  their handshakes (`OneSession`).
* **SPINE client role.**  Handler and callers all take counters before they
  send.  Uniqueness needs every number in an outbox, a table or the log to have
  been counted (`Counted`).  That the configured command is reported in order,
  and that no readback is stale, need what each sender has left of its command: the rest of it, with its write sent and not
  overtaken by an older one (`CommandsInOrder`), and that the numbers of the
  configured command are known only from when it was prepared (`AutoCommand`).
* **SPINE server role.**  The properties compare the state with recursive functions
  of whole histories: the answers due to all requests, the limits replayed from
  all events.  What one more request or event adds to such a function is a lemma
  (`DueAppended` and its like), proved by the least index at which it would fail.
  A write answers before its notify is sent, so `NotifyShowsTheWrite`
  needs the notifies that still wait (`Shown`), and that no later answer bears a
  number given before (`Counted`).  `ProfileHoldsLatestWrites` is carried as its
  form without CHOOSE (`Held`): a field is what every write says that no later one
  follows.
* **Bridge.**  A retry must not overtake: what is pending is the newest command
  taken, and what waits in the source's queue is newer still (`InOrder`,
  `Books`).  This holds only because one side's writes are accepted at all
  (`OnlySourceIsAccepted`).
* **Send.**  A report is about the limit at the time of the readback.  Every
  answer under way, event in the queue and flag of the command must be traced
  back to it, in a scale the wallbox may have used (`ToldAsApplied`,
  `ReportedAsTold`), and no readback may be heard of before it was asked for
  (`NothingEarly`).  That such a report matches only within half a watt
  is arithmetic on the conversions (`RoundedIsNear`, `ScaledIsNear`).
* **Client operations.**  `close` may be awaiting any of a session's tasks
  (`LifeInv`), and a session that is left is in a known phase because each
  operation is in one of a few stages (`StagesFit`, `OpenedInOrder`,
  `OneSession`).  That answers are not confused needs the order of all requests
  and answers under way and taken (`Ordered`), and that every answer of a
  function under way belongs to the waiting request, or to one that was given up
  (`OwnOrAbandoned`).  What a rediscovery returns rests on what its rounds know
  after each packet (`KnownOfWanted`): what was answered is known, and no other
  service's records gave the peer's host an address.  That a request for
  measurements asks only servers that were announced (in `TypeOK`) is a count of
  those it has left (`AsksAServer`).
* **Handshake.**  Each stage of either side says which messages it has taken
  (`ClientFits`, `ServerFits`).  That no session stays half open
  rests on when the server sends its access methods: from then on its
  handshake cannot fail but by the client's close (`ToldServerGoesOn`), and its
  client sends no second init (`ClientOpensOnce`).  `IdsAreExchanged` follows an
  undisturbed handshake message by message: until the client has told its id both
  channels hold one of a few short sequences (`Opening`), and after that the id is
  ahead of everything that could end the server's patience, which counts the
  messages it may still take (`Told`).
* **Frames.**  The parts on the way, read or not, are those of whole frames one
  after the other, beginning with the part the reader is at (`InStep`); the pieces
  in them are in the order they were sent, the first and last of each message
  marked (`PiecesMarked`, `PiecesInOrder`); and the fragments are the pieces before
  the next (`Taken`).  All of it holds until a timeout cuts a frame: from then on the
  reader may take any bytes for a frame, and nothing is claimed.
* **Client SPINE handling.**  What the peer will know of a limit is in the last
  datagram under way that tells of it, or in its view if there is none
  (`PeerKnows`); a write without its list, or a lost answer, suspends this until
  the peer is told all limits.  A subscription leaves a flag, or its feature among
  those diagnosed, and each of these its subscription if no send timed out
  (`AsksOnce`).

The parts of the invariants were checked by TLC on the runs before they were proved.

### Refinements

* `ForwardsImplementPromise`: `ServerSpine` implements `LimitCommands` with all
  numbers for its counters.  `PromiseIsKept` is the same for the checked form
  `CommandsKeepPromise`, in which counters end at `MaxCounter`; its hypothesis
  `[](counter <= MaxCounter)` is what that bound of the model means, and limits
  nothing that the first theorem says.  With `CommandsAreUnambiguous`, a theorem
  about the promise alone, it gives `ForwardsAreUnambiguous`: no answer
  is ever taken for another command's.
* `SessionsLiveAsSpecified`: whatever the operations of `HemsClient` do, its
  sessions behave as `ShipSession` says (`Spec => Life!Spec`, the safety part).

### Assumptions

The proofs use the assumptions named in the modules, which TLC evaluates on
every run: sentinels are no members of the sets they extend (`NoConn`, `NoSki`);
trusted SKIs are peers; announcements assign features to addresses; commands,
counts and durations are numbers; sets of addresses, sessions, limits and of the
peer's DeviceDiagnosis features are finite; features diagnosed are among those
that subscribe; ids of limits are numbers; a message has at least one piece; a
service has at least one place, with a name and an address;
the wallbox lists no limit
twice and reports no finer than tenths of a watt, the unit in which its limits are kept.  None bounds
the size of a set.

One of them is about the network: another service that is on a host of the peer
gives that host the same address (`PlacesAssumption`), and each place has one
address.  The code takes the least address that any packet gave a host, so
`RediscoveryFindsThePeer` says nothing of a peer with several addresses of which
the least does not reach it.

`ConfirmationsAreTrue` and `MismatchesAreTrue` have the hypothesis that the
wallbox lists the command's limit first.  The code does not ensure it for an LPP
command: the run `send_lpp` is the counterexample of the second (finding 3), and
one of the first is described there.  `_apply_scale` takes powers
of ten; the recursive function `PowerOfTen` stands for them, and the lemma
`PowersOfTen` is proved by the least number for which it would fail, as the induction rules
of the library are out of the provers' reach.

`CASE` in TLA+ chooses freely among guards that hold.  Proving that a definition
has one value showed guards that overlap in `CallSends` of `ServerSessions` and
in `Notifies` and `Asker` of the profiles; these are now `IF`, in the order of
the code.

### Only model-checked

* Liveness, for it needs fairness and ENABLED: `DeadSessionsEnd`,
  `CommandEventuallySent`, `SubscribersGetHeartbeats`, `PendingIsForwarded`,
  `FastHandshakeSucceeds`, `ClientHandshakeEnds`, `EveryMessageIsDelivered`,
  `OperationsEnd`.
* The findings: a counterexample is a behaviour, which TLC shows.
* That the bounds of a run are enough for the interesting cases to occur, which
  the mutants show.

## 7. Not modelled

* The JSON codec, certificates, SKIs and key files, the format of mDNS packets,
  the optional TLS probe and the advertisement of the server, tracing, replay,
  self test and most of the CLI: pure conversions and I/O without protocol state.
* The HTTP upgrade, masking and lengths of frames, TLS.
* Cancellation of all tasks when the event loop itself is shut down.
* Durations: time is not measured, a timeout is possible whenever the code
  waits under one (the handshake tells a fast network, on which it fires only
  when nothing is under way, from a slow one).
* The contents of constant payloads of the profiles: use cases, descriptions and
  measurements.  Reads by address: the profiles answer a function the same way
  wherever it is asked, up to these contents.
* The product of `ClientSpine` and `HemsClient`, which share the bootstrap flags,
  and of `ServerSessions` and `ServerSpine`, which share the session: each models
  what the other does as a step, and their product is out of TLC's reach at
  bounds where something happens.

## 8. Plan

Modules were written in the order of their importance to the system: sessions,
SPINE client role with its promise, SPINE server role, handshake, bridge, frames,
send, client; then the life cycle of client sessions, discovery, the client's
operations, the conversions and the feature tables.  The proofs followed in the
same order and now state every safety property of the runs.  What would come next
is more of the system: a forward that is under way while its session ends
(`ServerSessions` with `ServerSpine`), and the trust store's decisions.
