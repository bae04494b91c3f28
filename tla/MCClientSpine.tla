---------------------------- MODULE MCClientSpine ---------------------------
\* ClientSpine in every profile, with a peer of two entities that both serve
\* DeviceDiagnosis, a limit of two fields and one that the defaults do not have.
EXTENDS ClientSpine, TLC

MCDiagnosis == {<<1, 1>>, <<2, 1>>}
MCDefaultCells == {<<0, "active">>, <<0, "value">>}
MCCells == MCDefaultCells \cup {<<2, "value">>}
MCUpdates == {<<0, "value">> :> "a", <<0, "value">> :> "b" @@ <<2, "value">> :> "a", <<0, "active">> :> "a"}
=============================================================================
