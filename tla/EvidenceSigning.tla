--------------------------- MODULE EvidenceSigning ---------------------------
(***************************************************************************)
(* Signing and verification of evidence packages:                          *)
(* app/services/evidence_signing.py and app/evidence_verify.py.            *)
(*                                                                         *)
(* A digest stands for what it was computed from, a signature for its      *)
(* signer (a key pair, or the identity in a Sigstore certificate) and for  *)
(* the manifest it was made over: nobody signs as somebody else.           *)
(***************************************************************************)

CONSTANTS
    Profile,            \* the configured profile: type, key_id and signer
    Foreign,            \* a signer nobody trusts
    SigningRequired     \* governance_package_signing_required

\* The manifest holds a digest of the payload and one of each section.
ManifestOf(payload) == [payload_sha256 |-> payload, section_sha256 |-> payload]

Signature(signer, manifest) == [signer |-> signer, over |-> manifest]

\* Without a profile the other fields are empty, and nobody reads them.
Unsigned(manifest) ==
    [status |-> "unsigned", type |-> "none", key_id |-> "none", signer |-> "none",
     manifest_sha256 |-> manifest, signature |-> Signature("none", manifest)]

\* A profile may be left out unless signing is required.
validate_signing_profile(signing_profile) == signing_profile \/ ~SigningRequired

sign_manifest(manifest, signing_profile) ==
    IF ~signing_profile THEN Unsigned(manifest) ELSE
    [status |-> "signed", type |-> Profile.type, key_id |-> Profile.key_id,
     signer |-> Profile.signer, manifest_sha256 |-> manifest,
     signature |-> Signature(Profile.signer, manifest)]

\* The document that execute_evidence_package writes.
Document(payload, signing_profile) ==
    LET manifest == ManifestOf(payload)
    IN  [payload |-> payload, manifest |-> manifest,
         assurance |-> sign_manifest(manifest, signing_profile)]

\* The digests of the manifest against the payload, and of the signed manifest
\* against the manifest.
DigestErrors(d) ==
    {e \in {"payload", "section", "manifest"} :
        CASE e = "payload" -> d.manifest.payload_sha256 # d.payload
          [] e = "section" -> d.manifest.section_sha256 # d.payload
          [] e = "manifest" -> /\ d.assurance.status = "signed"
                               /\ d.assurance.manifest_sha256 # d.manifest}

\* A signature is verified with the key that comes with it.
_verify_signature(manifest, assurance) ==
    /\ assurance.type \in {"ed25519", "aws-kms", "sigstore"}
    /\ assurance.signature = Signature(assurance.signer, manifest)

\* For a signature that does not fit its public key the library raises
\* InvalidSignature, which is not among the errors that count as a bad signature:
\* the verification has no result.
InvalidSignature(manifest, assurance) ==
    /\ assurance.type \in {"ed25519", "aws-kms"}
    /\ ~_verify_signature(manifest, assurance)

\* Mutant: the name of the key is enough.
TrustsKeyName(assurance) ==
    assurance.type = Profile.type /\ assurance.key_id = Profile.key_id

\* The profile knows the fingerprint of the key, or the certified identity.
_profile_trusts_assurance(assurance) ==
    /\ assurance.type = Profile.type
    /\ assurance.key_id = Profile.key_id
    /\ assurance.signer = Profile.signer

verify_evidence_package(d) ==
    LET errors == DigestErrors(d)
        signed == d.assurance.status = "signed"
        good == signed /\ errors = {} /\ _verify_signature(d.manifest, d.assurance)
    IN  [raises |-> signed /\ errors = {} /\ InvalidSignature(d.manifest, d.assurance),
         valid |-> /\ errors = {}
                   /\ signed => good
                   /\ signed \/ ~SigningRequired,
         trusted |-> good /\ _profile_trusts_assurance(d.assurance)]

-----------------------------------------------------------------------------
\* What may become of a document outside the system: any part is replaced by
\* one for another payload, signed by the foreign signer or not at all; the
\* original signature may be kept.
Altered(d, other) ==
    LET payloads == {d.payload, other}
        manifests == [payload_sha256 : payloads, section_sha256 : payloads]
        assurances == {Unsigned(d.manifest)} \cup UNION {
            {[d.assurance EXCEPT !.manifest_sha256 = m],
             [d.assurance EXCEPT !.manifest_sha256 = m, !.signer = Foreign,
                                 !.signature = Signature(Foreign, m)],
             [d.assurance EXCEPT !.manifest_sha256 = m,
                                 !.signature = Signature(Foreign, m)]}
            : m \in manifests}
    IN  [payload : payloads, manifest : manifests, assurance : assurances]
=============================================================================
