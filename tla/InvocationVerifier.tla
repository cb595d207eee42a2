-------------------------- MODULE InvocationVerifier --------------------------
(***************************************************************************)
(* Signed invocations and what makes a runtime accept one                  *)
(* (identity/invocation.js): the verification of an envelope against the   *)
(* trusted keys, its scope, its command and a clock, and the check of the  *)
(* receipt that every later reading of the log repeats.                    *)
(*                                                                         *)
(* A signature names the key it was made with. The digest of a command is  *)
(* the command, and identifiers are values: their syntax is left out.      *)
(***************************************************************************)
EXTENDS Naturals

CONSTANTS
  Key, Issuer, Audience, Organization,
  Invocation,        \* identifiers of invocations
  Operation,         \* types of commands
  WorkerOperation,   \* the commands a connector may send
  Envelope,          \* the signed invocations there are
  Verifier,          \* the configurations a runtime is opened with
  MaxReceiptTtl,     \* ten minutes
  MaxSkew,           \* thirty seconds
  MaxLead            \* bound on how far a verifier's clock runs ahead

(* An agent or a connector may be in no registry. *)
Principal == {"human", "agent", "connector", "unregistered"}

Window == [issuedAt : Nat, notBefore : Nat, expiresAt : Nat]

EnvelopeType ==
  [key : Key, signer : Key, issuer : Issuer, audience : Audience,
   organization : Organization, invocation : Invocation,
   principal : Principal, command : Operation, window : Window]

(* The trusted keys with their issuers, the limits, and the verifier's own *)
(* clock, by its distance from that of the store.                          *)
VerifierType ==
  [trusted : UNION {[K -> Issuer] : K \in SUBSET Key \ {{}}},
   audience : Audience, organization : Organization,
   skew : 0..MaxSkew, maxTtl : 1..MaxReceiptTtl, lead : 0..MaxLead]

ASSUME VerifierAssumption ==
  /\ {MaxReceiptTtl, MaxSkew, MaxLead} \subseteq Nat
  /\ Envelope \subseteq EnvelopeType
  /\ Verifier \subseteq VerifierType /\ Verifier # {}
  /\ WorkerOperation \subseteq Operation

Receipt ==
  [invocation : Invocation, command : Operation, principal : Principal,
   window : Window, skew : 0..MaxSkew, verifiedAt : Nat]

-----------------------------------------------------------------------------

(* Somebody with a trusted key signed it, for this runtime and command. *)
Authentic(v, e, command) ==
  /\ e.key \in DOMAIN v.trusted
  /\ e.signer = e.key
  /\ e.issuer = v.trusted[e.key]
  /\ e.audience = v.audience
  /\ e.organization = v.organization
  /\ e.command = command

WellOrdered(w, ttl) ==
  /\ w.issuedAt <= w.notBefore /\ w.notBefore < w.expiresAt
  /\ w.expiresAt <= w.issuedAt + ttl

Within(w, at, skew) ==
  /\ w.issuedAt <= at + skew
  /\ w.notBefore <= at + skew
  /\ at < w.expiresAt + skew

ReceiptOf(v, e, at) ==
  [invocation |-> e.invocation, command |-> e.command,
   principal |-> e.principal, window |-> e.window, skew |-> v.skew,
   verifiedAt |-> at]

(* verify() returns ReceiptOf(v, e, at) if this holds and throws if not. *)
Verify(v, e, command, at) ==
  /\ Authentic(v, e, command)
  /\ WellOrdered(e.window, v.maxTtl)
  /\ Within(e.window, at, v.skew)

VerifyReceipt(r) ==
  /\ WellOrdered(r.window, MaxReceiptTtl)
  /\ Within(r.window, r.verifiedAt, r.skew)

(* What acceptAuthenticatedInvocation asks of a principal. *)
MayInvoke(r) ==
  /\ r.principal # "unregistered"
  /\ r.principal = "connector" => r.command \in WorkerOperation

=============================================================================
