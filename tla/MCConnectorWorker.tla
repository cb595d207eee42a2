-------------------------- MODULE MCConnectorWorker --------------------------
(* A small instance of ConnectorWorker for TLC: MCWorker.cfg gives its       *)
(* constants their values; the clock of the worker host is one unit ahead of *)
(* the runtime's. A reading of the package file finds the released package,  *)
(* one that was built from other sources, one of these that pretends to be   *)
(* the other, or one that imports what it may not. Of the workers one has    *)
(* the release, another an attestation of the second package that was signed *)
(* with a key it does not pin, and a third one of that package by a key that *)
(* it does not trust at all.                                                 *)
EXTENDS ConnectorWorker

MCFile(artifact, modules) == [artifact |-> artifact, modules |-> modules]

MCPackage ==
  {MCFile("built", "built"), MCFile("changed", "changed"),
   MCFile("built", "changed"), MCFile("importing", "importing")}

MCAnchor(key) == [keyId |-> key, issuer |-> "i", publicKey |-> key]

MCReleaseOf(bundle, key, trusted) ==
  [attestation |-> [keyId |-> key, issuer |-> "i", package |-> MCFile(bundle, bundle),
                    artifact |-> bundle, signedBy |-> key],
   trustedKeys |-> {MCAnchor(k) : k \in trusted}, pin |-> MCAnchor("builder")]

MCRelease ==
  {MCReleaseOf("built", "builder", {"builder", "other"}),
   MCReleaseOf("changed", "other", {"builder", "other"}),
   MCReleaseOf("changed", "other", {"builder"})}

=============================================================================
