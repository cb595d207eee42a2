------------------------------ MODULE Admission ------------------------------
(***************************************************************************)
(* What is admitted into the runtime from outside: committed documents     *)
(* (GitReferenceSource), memory (OrganizationalMemory), workflows          *)
(* (WorkflowRegistry) and hosts for containers (DockerOciProvider).        *)
(*                                                                         *)
(* The four share no state, and no call of one changes another: a          *)
(* behaviour is about one part, chosen at the start, and the other three   *)
(* stay as they were.                                                      *)
(***************************************************************************)
EXTENDS GitReferenceSource, OrganizationalMemory, WorkflowRegistry,
        DockerOciProvider

VARIABLE part

admissionVars == <<part, sourceVars, memories, registryVars, providerVars>>

Part == {"documents", "memory", "workflows", "containers"}

Init ==
  /\ part \in Part
  /\ SourceInit /\ MemoryInit /\ RegistryInit /\ ProviderInit

Next ==
  /\ UNCHANGED part
  /\ \/ /\ part = "documents" /\ SourceNext
        /\ UNCHANGED <<memories, registryVars, providerVars>>
     \/ /\ part = "memory" /\ MemoryNext
        /\ UNCHANGED <<sourceVars, registryVars, providerVars>>
     \/ /\ part = "workflows" /\ RegistryNext
        /\ UNCHANGED <<sourceVars, memories, providerVars>>
     \/ /\ part = "containers" /\ ProviderNext
        /\ UNCHANGED <<sourceVars, memories, registryVars>>

Spec == Init /\ [][Next]_admissionVars /\ ProviderFairness

TypeOK ==
  /\ part \in Part
  /\ SourceTypeOK /\ MemoryTypeOK /\ RegistryTypeOK /\ ProviderTypeOK

=============================================================================
