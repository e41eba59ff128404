------------------------- MODULE MCGovernanceOutbox -------------------------
(* TLC instances of GovernanceOutbox.                                       *)
EXTENDS GovernanceOutbox, TLC

Symmetry == Permutations(Dispatchers) \cup Permutations(Endpoints)
=============================================================================
