----------------------- MODULE MCOwnershipEscalations -----------------------
EXTENDS OwnershipEscalations
=============================================================================
