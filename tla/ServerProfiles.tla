---------------------------- MODULE ServerProfiles --------------------------
(***************************************************************************)
(* The SPINE profiles of ShipServer (eebus_sdk/_server_profile.py): the    *)
(* features each announces, and the reads the server answers.              *)
(***************************************************************************)
EXTENDS SpineFeatures

\* ServerSpineProfile.detailed_discovery.
ServerFeatures(profile) ==
    ManagerFeatures \cup
    CASE profile = "default" ->
             {Client("LoadControl", 6), Client("DeviceConfiguration", 7),
              Client("ElectricalConnection", 8), Client("Measurement", 9)}
      [] profile = "cls-load-power" ->
             {Client("DeviceConfiguration", 7), Client("ElectricalConnection", 8),
              Client("Measurement", 9)} \cup GridFeatures

AnnouncedReads == UNION {f.reads : f \in ServerFeatures("default") \cup ServerFeatures("cls-load-power")}

\* The functions for which _handle_spine_data has a reply, in every profile and
\* at every address.
Answered ==
    {"discovery", "use cases", "subscriptions", "destinations", "bindings", "manufacturer",
     "limit descriptions", "limits", "configuration descriptions", "configuration", "heartbeat",
     "characteristics"} \cup ConnectionReads \cup MeasurementReads
=============================================================================
