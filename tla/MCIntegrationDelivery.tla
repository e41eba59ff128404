------------------------ MODULE MCIntegrationDelivery ------------------------
(* TLC instances of IntegrationDelivery.                                    *)
EXTENDS IntegrationDelivery, TLC

Symmetry == Permutations(Workers)
=============================================================================
