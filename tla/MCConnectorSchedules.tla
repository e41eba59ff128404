------------------------ MODULE MCConnectorSchedules ------------------------
(* TLC instances of ConnectorSchedules.                                     *)
EXTENDS ConnectorSchedules, TLC

Symmetry == Permutations(Workers)
=============================================================================
