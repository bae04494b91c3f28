---------------------------- MODULE ClientProfiles --------------------------
(***************************************************************************)
(* The SPINE profiles of HemsClient (eebus_sdk/_client_profile_*.py): the  *)
(* features it announces to the peer in each of them, what it answers to a *)
(* read, what it tells a new subscriber, and where it asks from.           *)
(***************************************************************************)
EXTENDS SpineFeatures

AllProfiles == {"default", "hems-reference", "cls-adapter"}

\* build_local_detailed_discovery.
DefaultFeatures ==
    {Feature("NodeManagement", "special", 0, 0, {"discovery", "use cases"}), Classification,
     Client("ElectricalConnection", 1), Client("Measurement", 2), Client("LoadControl", 3),
     Client("DeviceDiagnosis", 4), Client("DeviceConfiguration", 5)}

\* The heat pump, battery and so on of the reference, and the grid connection.
ReferenceFeatures ==
    ManagerFeatures \cup GridFeatures
    \cup UNION {{Connection(e, 1), Measurement(e, 2)} : e \in 2..5}

AdapterFeatures ==
    ManagerFeatures
    \cup {Client("LoadControl", 6), Client("DeviceConfiguration", 7),
          Client("ElectricalConnection", 8), Client("Measurement", 9)}

Features(profile) ==
    CASE profile = "default"        -> DefaultFeatures
      [] profile = "hems-reference" -> ReferenceFeatures
      [] profile = "cls-adapter"    -> AdapterFeatures

\* Whatever any profile lets the peer read.
Readable == UNION {f.reads : f \in UNION {Features(p) : p \in AllProfiles}}

\* Fault: the destination list is forgotten.
AnswersMost(profile) ==
    IF profile = "default" THEN {"discovery"} ELSE Readable \ {"destinations"}

\* _profile_reply_payload_for_read, and handle_incoming_datagram for a client
\* without it: the reads that are answered, at whichever address.
Answers(profile) ==
    IF profile = "default" THEN {"discovery"}
    ELSE {"discovery", "use cases", "destinations", "subscriptions", "bindings", "manufacturer",
          "limit descriptions", "limits", "configuration descriptions", "configuration", "heartbeat",
          "characteristics", "connections", "parameters", "measurement descriptions",
          "constraints", "measurements"}

\* _profile_notify_commands_for_feature_type: what a subscriber is told at once.
Notifies(profile, type, at) ==
    IF profile = "default" THEN {}
    ELSE
    CASE type = "LoadControl"          -> {"limits"}
      [] type = "DeviceConfiguration"  -> {"configuration"}
      [] type = "DeviceDiagnosis"      -> {"heartbeat"}
      [] type = "Measurement"          -> {"measurements"}
      [] type = "ElectricalConnection" ->
             IF profile = "cls-adapter" /\ at = <<1, 5>> THEN {"characteristics"}
             ELSE ConnectionReads \cup (IF at = <<1, 5>> THEN {"characteristics"} ELSE {})
      [] OTHER                         -> {}

\* Fault: the profile is not looked at.
AskerStructured(profile, type) == IF type = "NodeManagement" THEN <<0, 0>> ELSE <<1, 1>>

\* local_node_management_address, local_device_diagnosis_client_address.
Asker(profile, type) ==
    CASE type = "NodeManagement"  -> <<0, 0>>
      [] type = "DeviceDiagnosis" -> IF profile = "default" THEN <<1, 4>> ELSE <<1, 1>>
=============================================================================
