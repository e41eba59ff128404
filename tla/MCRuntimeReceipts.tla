------------------------- MODULE MCRuntimeReceipts -------------------------
(* TLC instances of RuntimeReceipts.                                        *)
EXTENDS RuntimeReceipts

CONSTANTS k1, k2, q1, q2, o1

MCVerdicts == {[permit |-> TRUE, duties |-> {o1}], [permit |-> FALSE, duties |-> {}]}
MCAsks == {[key |-> k1, request |-> q1], [key |-> k1, request |-> q2],
           [key |-> k2, request |-> q1]}
=============================================================================
