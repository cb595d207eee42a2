---------------------------- MODULE WorkerPackage ----------------------------
(***************************************************************************)
(* The package of a connector worker and its release: what a package file  *)
(* may hold (integrations/dry-run-worker-package.js and -artifact.js,      *)
(* domain/worker-artifact-attestation.js) and when a signed attestation    *)
(* releases it (domain/worker-package-release.js).                         *)
(*                                                                         *)
(* The sources of all modules of a package are one Bundle. A digest is     *)
(* what it is of, and a signature names the key pair that made it.         *)
(***************************************************************************)
EXTENDS FiniteSets

CONSTANTS
  Bundle,         \* the sources of the modules of a package
  Conforming,     \* those whose imports are the fixed ones
  KeyId, Issuer,
  Signer          \* key pairs

ASSUME PackageAssumption == Conforming \subseteq Bundle

(* The artifact lists the modules by their digests; a file may claim that  *)
(* its modules are those of another artifact.                              *)
PackageFile == [artifact : Bundle, modules : Bundle]

Anchor == [keyId : KeyId, issuer : Issuer, publicKey : Signer]

Attestation ==
  [keyId : KeyId, issuer : Issuer, package : PackageFile, artifact : Bundle,
   signedBy : Signer]

(* What a worker is configured with: an attestation, the keys it trusts    *)
(* and the one of them that is pinned.                                     *)
ReleaseEnvelope ==
  [attestation : Attestation, trustedKeys : SUBSET Anchor, pin : Anchor]

(* The artifact can be reconstructed from the modules. *)
Normal(file) == file.modules = file.artifact

(* verifyDryRunWorkerSourceGraph: nothing is imported or loaded besides    *)
(* what the policy fixes.                                                  *)
SourceGraphVerifies(file) == file.modules \in Conforming

\* Mutant: the attestation may be of another package.
ReleaseVerifies_AnyPackage(file, release) ==
  /\ Normal(file) /\ SourceGraphVerifies(file)
  /\ \A a, b \in release.trustedKeys : a.keyId = b.keyId => a = b
  /\ \E key \in release.trustedKeys :
       /\ key.keyId = release.attestation.keyId
       /\ key = release.pin
       /\ key.issuer = release.attestation.issuer
       /\ key.publicKey = release.attestation.signedBy

(* verifiedPackageRelease *)
ReleaseVerifies(file, release) ==
  /\ Normal(file) /\ SourceGraphVerifies(file)
  /\ \A a, b \in release.trustedKeys : a.keyId = b.keyId => a = b
  /\ release.attestation.package = file
  /\ release.attestation.artifact = file.artifact
  /\ \E key \in release.trustedKeys :
       /\ key.keyId = release.attestation.keyId
       /\ key = release.pin
       /\ key.issuer = release.attestation.issuer
       /\ key.publicKey = release.attestation.signedBy

Binding(file, release) ==
  [package |-> file, artifact |-> file.artifact,
   attestation |-> release.attestation, trustAnchor |-> release.pin]

PackageBinding ==
  [package : PackageFile, artifact : Bundle, attestation : Attestation,
   trustAnchor : Anchor]

=============================================================================
