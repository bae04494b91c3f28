------------------------------ MODULE Discovery -----------------------------
(***************************************************************************)
(* discover_ship_services (eebus_sdk/discovery.py): three rounds of mDNS   *)
(* queries, for the services, for their instances and for their hosts.     *)
(* Packets come in any round and any order, hold any of the records of a   *)
(* responder, are lost or repeated, and may be older than its last move.   *)
(***************************************************************************)
EXTENDS Integers, Sequences, FiniteSetsExt

CONSTANTS
    Services,       \* service names
    Wanted,         \* the one of them that the caller looks for
    Places          \* [Services -> sequences of places]: where each is, one after another

VARIABLES
    round,          \* idle, then the round under way: PTR, instances or hosts
    known,          \* services by name: [target, path]
    hosts,          \* host_records by target: addresses
    asked,          \* the names of the round's questions
    at,             \* the responders: index of the place each one is at
    answered,       \* history: kinds of questions about Wanted that were answered
    stale           \* history: a record of an earlier place of Wanted was taken

discoveryVars == <<round, known, hosts, asked, at, answered, stale>>

None == "none"
DefaultPath == "/ship/"
Place(s) == Places[s][at[s]]
Records == {"PTR", "TXT", "SRV", "A"}

Init ==
    /\ round = "idle"
    /\ known = << >> /\ hosts = << >> /\ asked = {}
    /\ at = [s \in Services |-> 1]
    /\ answered = {} /\ stale = FALSE

-----------------------------------------------------------------------------
\* Fault: what is known of the key is forgotten.
EnsureAnew(f, key, default) == [k \in DOMAIN f \cup {key} |-> IF k = key THEN default ELSE f[k]]

\* ensure_service and ensure_host: a default for a new key only.
Ensure(f, key, default) == [k \in DOMAIN f \cup {key} |-> IF k \in DOMAIN f THEN f[k] ELSE default]

\* The first and second pass of consume_records over the records of a packet.
Learnt(s, place, records) ==
    LET named == IF "PTR" \in records
                 THEN Ensure(known, s, [target |-> None, path |-> DefaultPath]) ELSE known
    IN  [k \in DOMAIN named |->
            IF k # s THEN named[k]
            ELSE [target |-> IF "SRV" \in records THEN place.target ELSE named[k].target,
                  path |-> IF "TXT" \in records THEN place.path ELSE named[k].path]]

\* The second and third: a target makes a host, and its addresses add up.
Located(s, place, records) ==
    LET named == IF "SRV" \in records /\ s \in DOMAIN Learnt(s, place, records)
                 THEN Ensure(hosts, place.target, {}) ELSE hosts
    IN  IF "A" \in records /\ place.target \in DOMAIN named
        THEN [named EXCEPT ![place.target] = @ \cup {place.address}] ELSE named

\* The questions of the round that a packet answers.
Answers(s, place, records) ==
    {r \in records : CASE r = "PTR" -> round = "PTR"
                       [] r \in {"TXT", "SRV"} -> round = "instances" /\ s \in asked
                       [] r = "A" -> round = "hosts" /\ place.target \in asked}

-----------------------------------------------------------------------------
Start ==
    /\ round = "idle"
    /\ round' = "PTR"
    /\ known' = << >> /\ hosts' = << >> /\ asked' = {}
    /\ answered' = {} /\ stale' = FALSE
    /\ UNCHANGED at

\* A packet arrives in the round under way.
Packet(s, i, records) ==
    /\ round # "idle" /\ i <= at[s]
    /\ known' = Learnt(s, Places[s][i], records)
    /\ hosts' = Located(s, Places[s][i], records)
    /\ IF s # Wanted THEN UNCHANGED <<answered, stale>>
       ELSE IF i < at[s] THEN stale' = TRUE /\ UNCHANGED answered
       ELSE answered' = answered \cup Answers(s, Places[s][i], records) /\ UNCHANGED stale
    /\ UNCHANGED <<round, asked, at>>

\* The round after the one under way, with the names it asks for: none after
\* the first when no service is known, or after the second when no host is.
RoundAfter ==
    CASE round = "PTR" /\ DOMAIN known # {} -> <<"instances", DOMAIN known>>
      [] round = "instances" /\ DOMAIN hosts # {} -> <<"hosts", DOMAIN hosts>>
      [] OTHER -> <<"idle", {}>>

\* The deadline of a round passes, whatever comes in.
RoundEnds ==
    /\ round # "idle"
    /\ round' = RoundAfter[1] /\ asked' = RoundAfter[2]
    /\ UNCHANGED <<known, hosts, at, answered, stale>>

\* A responder moves; what it said before is not true any more.
Move(s) ==
    /\ at[s] < Len(Places[s])
    /\ at' = [at EXCEPT ![s] = @ + 1]
    /\ stale' = (stale \/ (s = Wanted /\ round # "idle"))
    /\ UNCHANGED <<round, known, hosts, asked, answered>>

PacketArrives == \E s \in Services, i \in 1..2, records \in SUBSET Records \ {{}} :
                    i <= Len(Places[s]) /\ Packet(s, i, records)
Moves == \E s \in Services : Move(s)

Next == Start \/ PacketArrives \/ RoundEnds \/ Moves

Spec == Init /\ [][Next]_discoveryVars /\ WF_discoveryVars(RoundEnds)
-----------------------------------------------------------------------------
\* The ShipService that is returned for a known name: the first address in
\* order, or none, and the port comes with the target.
Discovered(s) ==
    LET target == known[s].target
        ipv4 == IF target \in DOMAIN hosts THEN hosts[target] ELSE {}
    IN  [target |-> target, path |-> known[s].path,
         address |-> IF ipv4 = {} THEN 0 ELSE Min(ipv4)]

\* A place is reached by its address, or else by its name.
Reaches(service, place) ==
    /\ service.path = place.path
    /\ IF service.address = 0 THEN service.target = place.target
       ELSE service.address = place.address

\* The types of the variables.
TypeOK ==
    /\ round \in {"idle", "PTR", "instances", "hosts"}
    /\ DOMAIN known \subseteq Services
    /\ \A s \in Services : at[s] \in 1..Len(Places[s])
    /\ answered \subseteq Records /\ stale \in BOOLEAN
=============================================================================
