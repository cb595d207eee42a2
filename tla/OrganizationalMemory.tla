------------------------ MODULE OrganizationalMemory -------------------------
(***************************************************************************)
(* Company and department memory: proposeMemory, reviewMemory and          *)
(* readMemory of runtime/fdos-runtime.js under the access rules of         *)
(* RoleRegistry.assertMemoryAccess (domain/role-registry.js), with the     *)
(* roles of the pilot. Agents and humans propose, humans review, and what  *)
(* was accepted can be read.                                               *)
(*                                                                         *)
(* An agent is its role; a candidate is its scope, its sensitivity and the *)
(* evidence it cites. Titles, texts and their limits are left out.         *)
(***************************************************************************)
EXTENDS Naturals, FiniteSets

CONSTANTS
  Memory,            \* identifiers of memory candidates
  CitedSensitivity,  \* the sensitivities that proposals are given
  Source             \* the document evidence they may cite

VARIABLE memories    \* state.memoryCandidates

Sensitivity == {"public", "internal", "confidential", "restricted"}

ASSUME MemoryAssumption == CitedSensitivity \subseteq Sensitivity

(* SENSITIVITY_RANK *)
Rank == [public |-> 0, internal |-> 1, confidential |-> 2, restricted |-> 3]

Department == {"executive", "operations", "marketing"}

\* "any" is department:*: the wildcard of the rules is a scope as well.
Scope == {"company", "any"} \cup Department

-----------------------------------------------------------------------------
(* Roles *)

Role == {"chief-of-staff", "operations", "marketing"}

DepartmentOf(role) == IF role = "chief-of-staff" THEN "executive" ELSE role

(* PILOT_ROLE_DEFINITIONS: the memory scopes of a role, and likewise its   *)
(* capabilities memory:<scope>:<mode>, where the wildcard is any.          *)
PilotRole ==
  [role \in Role |->
     LET own == DepartmentOf(role)
         scopes == IF role = "chief-of-staff"
                     THEN [read |-> {"company", "any"}, propose |-> {"company", own}]
                     ELSE [read |-> {"company", own}, propose |-> {own}]
     IN  [scopes |-> scopes, capabilities |-> scopes, max |-> "confidential"]]

(* scopeMatches *)
Covers(rules, scope) ==
  scope \in rules \/ ("any" \in rules /\ scope # "company")

\* Mutant: a role that may read anything may read everything.
RoleMay_Anywhere(role, scope, sensitivity, mode) ==
  /\ Rank[sensitivity] <= Rank[role.max]
  /\ role.scopes[mode] # {} /\ role.capabilities[mode] # {}

RoleMay(role, scope, sensitivity, mode) ==
  /\ Rank[sensitivity] <= Rank[role.max]
  /\ Covers(role.scopes[mode], scope)
  /\ Covers(role.capabilities[mode], scope)

(* What holds for humans as well. *)
Enabled(scope, sensitivity) ==
  /\ sensitivity # "restricted"
  /\ ~(scope = "company" /\ sensitivity = "confidential")

Actor == {"human"} \cup Role

(* assertMemoryAccess *)
MayAccess(actor, scope, sensitivity, mode) ==
  /\ Enabled(scope, sensitivity)
  /\ actor # "human" => RoleMay(PilotRole[actor], scope, sensitivity, mode)

-----------------------------------------------------------------------------

NoMemory ==
  [status |-> "absent", scope |-> "company", sensitivity |-> "public",
   sources |-> {}, reviewedBy |-> "nobody"]

MemoryInit == memories = [m \in Memory |-> NoMemory]

\* Mutant: a human proposes whatever the sensitivity.
MayPropose_Human(actor, scope, sensitivity) ==
  actor = "human" \/ MayAccess(actor, scope, sensitivity, "propose")

MayPropose(actor, scope, sensitivity) ==
  MayAccess(actor, scope, sensitivity, "propose")

MaxCitations == 10

(* normalizeSourceEvidence: no evidence twice. *)
Citations == {sources \in SUBSET Source : Cardinality(sources) <= MaxCitations}

(* proposeMemory: the evidence cited is intact; it may also cite none. *)
ProposeMemory(m, actor, scope, sensitivity, sources) ==
  /\ memories[m].status = "absent"
  /\ MayPropose(actor, scope, sensitivity)
  /\ memories' = [memories EXCEPT ![m] =
       [status |-> "candidate", scope |-> scope, sensitivity |-> sensitivity,
        sources |-> sources, reviewedBy |-> "nobody"]]

(* reviewMemory *)
ReviewMemory(m, actor, decision) ==
  /\ actor = "human"
  /\ memories[m].status = "candidate"
  /\ memories' = [memories EXCEPT ![m].status = decision, ![m].reviewedBy = actor]

(* readMemory: the scope is checked as for internal memory; then every     *)
(* accepted entry of the scope is checked, and one that may not be read    *)
(* makes the whole command fail.                                           *)
Visible(scope) ==
  {m \in Memory : memories[m].scope = scope /\ memories[m].status = "accepted"}

MayRead(actor, scope) == MayAccess(actor, scope, "internal", "read")

ReadSucceeds(actor, scope) ==
  /\ MayRead(actor, scope)
  /\ \A m \in Visible(scope) :
       MayAccess(actor, memories[m].scope, memories[m].sensitivity, "read")

ReadMemory(actor, scope) ==
  IF ReadSucceeds(actor, scope) THEN Visible(scope) ELSE {}

MemoryNext ==
  \E m \in Memory, actor \in Actor :
    \/ \E scope \in Scope, sensitivity \in CitedSensitivity,
          sources \in Citations :
         ProposeMemory(m, actor, scope, sensitivity, sources)
    \/ \E decision \in {"accepted", "rejected"} : ReviewMemory(m, actor, decision)

MemorySpec == MemoryInit /\ [][MemoryNext]_memories

-----------------------------------------------------------------------------
(* Properties *)

MemoryTypeOK ==
  memories \in
    [Memory -> [status : {"absent", "candidate", "accepted", "rejected"},
                scope : Scope, sensitivity : Sensitivity,
                sources : Citations, reviewedBy : Actor \cup {"nobody"}]]

\* Memory of a department is read by its own role, by the chief of staff and
\* by humans, and only what a human has accepted is read: the scopes and the
\* capabilities of the roles, which are kept apart, agree on that.
MemoryStaysInDepartment ==
  \A role \in Role, scope \in Scope : \A m \in ReadMemory(role, scope) :
    /\ memories[m].reviewedBy = "human"
    /\ scope \in {"company", DepartmentOf(role)} \/ role = "chief-of-staff"

\* Accepting an entry never closes its scope: what may be proposed may be read
\* by everyone who may read the scope, so that no entry makes the others
\* unreadable.
NoEntryBlocksItsScope ==
  \A actor \in Actor, scope \in Scope :
    MayRead(actor, scope) => ReadSucceeds(actor, scope)

=============================================================================
