----------------------------- MODULE MCArtifacts -----------------------------
EXTENDS Artifacts

\* The signing and verification profile of the instance.
MCProfile == [type |-> "ed25519", key_id |-> "release", signer |-> "own"]
=============================================================================
