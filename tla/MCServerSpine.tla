---------------------------- MODULE MCServerSpine ---------------------------
(* A peer with a LoadControl and a DeviceDiagnosis server, announced at     *)
(* once or the first one only.                                              *)
EXTENDS ServerSpine, TLC

MCAddresses == 1..2
MCUpdates == {1 :> "LoadControl",
              (1 :> "LoadControl") @@ (2 :> "DeviceDiagnosis")}
=============================================================================
