------------------------ MODULE MCEvidenceLifecycle ------------------------
EXTENDS EvidenceLifecycle
=============================================================================
