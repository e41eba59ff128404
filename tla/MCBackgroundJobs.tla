------------------------- MODULE MCBackgroundJobs -------------------------
(* TLC instances of BackgroundJobs and the mutated operators its runs are   *)
(* tested with.                                                             *)
EXTENDS BackgroundJobs, TLC

Symmetry == Permutations(Workers) \cup Permutations(Clients)
=============================================================================
