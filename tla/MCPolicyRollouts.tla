-------------------------- MODULE MCPolicyRollouts --------------------------
(* TLC instances of PolicyRollouts.                                         *)
EXTENDS PolicyRollouts, TLC

Symmetry == Permutations(Rollouts)
=============================================================================
