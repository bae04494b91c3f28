---------------------------- MODULE SpineFeatures ---------------------------
(***************************************************************************)
(* The SPINE features a device announces in its detailed discovery         *)
(* (feature_description in eebus_sdk/_spine_helpers.py), and those that    *)
(* the profiles of the client and of the server share.                     *)
(***************************************************************************)
EXTENDS Naturals

\* A feature at <<entity, feature>>, with the functions that can be read.
Feature(type, role, entity, feature, reads) ==
    [type |-> type, role |-> role, at |-> <<entity, feature>>, reads |-> reads]
Client(type, feature) == Feature(type, "client", 1, feature, {})
Server(type, entity, feature, reads) == Feature(type, "server", entity, feature, reads)

Classification == Server("DeviceClassification", 0, 1, {"manufacturer"})
ConnectionReads == {"connections", "parameters"}
MeasurementReads == {"measurement descriptions", "constraints", "measurements"}
Configuration(entity, feature) ==
    Server("DeviceConfiguration", entity, feature, {"configuration descriptions", "configuration"})
Connection(entity, feature) == Server("ElectricalConnection", entity, feature, ConnectionReads)
Measurement(entity, feature) == Server("Measurement", entity, feature, MeasurementReads)

\* The device and its energy manager, entity 1.
ManagerFeatures ==
    {Feature("NodeManagement", "special", 0, 0,
             {"discovery", "use cases", "subscriptions", "destinations", "bindings"}),
     Classification, Client("DeviceDiagnosis", 1),
     Server("LoadControl", 1, 2, {"limit descriptions", "limits"}), Configuration(1, 3),
     Server("DeviceDiagnosis", 1, 4, {"heartbeat"}),
     Server("ElectricalConnection", 1, 5, {"characteristics"})}

\* The grid connection point, entity 6.
GridFeatures == {Configuration(6, 1), Connection(6, 2), Measurement(6, 3)}
=============================================================================
