-------------------------- MODULE WorkflowRegistry ---------------------------
(***************************************************************************)
(* WorkflowRegistry.register of domain/workflow-definition.js: a source    *)
(* becomes a definition when its steps are well formed and the depth-first *)
(* search of assertAcyclic finds no cycle of dependencies.                 *)
(*                                                                         *)
(* The search is taken call by call: a frame of the stack is one visit(),  *)
(* and its rest are the dependencies the loop has not reached. The order   *)
(* of the loops is left open. What a step does besides depending on others *)
(* (role, action, texts) is left out, and a digest is what it is of.       *)
(***************************************************************************)
EXTENDS Naturals, Sequences, FiniteSets

CONSTANTS
  Step,              \* identifiers of steps
  Key,               \* id@version of a workflow
  Proposal,          \* the sources that are registered
  MinSteps, MaxSteps

StepSource == [id : Step, dependencies : SUBSET Step]

ASSUME RegistryAssumption ==
  /\ Proposal \subseteq [key : Key, steps : Seq(StepSource)]
  /\ MinSteps \in Nat /\ MaxSteps \in Nat

VARIABLES
  definitions,       \* the registry: the steps registered under each key
  search             \* the registration under way

registryVars == <<definitions, search>>

NoDefinition == [s \in {} |-> {}]

-----------------------------------------------------------------------------
(* createWorkflowDefinition *)

Ids(steps) == {steps[i].id : i \in 1..Len(steps)}

(* The dependencies of each step; meant for unique identifiers. *)
Dependencies(steps) ==
  [s \in Ids(steps) |->
     UNION {steps[i].dependencies : i \in {j \in 1..Len(steps) : steps[j].id = s}}]

WellFormed(steps) ==
  /\ Len(steps) \in MinSteps..MaxSteps
  /\ \A i, j \in 1..Len(steps) : steps[i].id = steps[j].id => i = j
  /\ \A i \in 1..Len(steps) :
       /\ steps[i].dependencies \subseteq Ids(steps)
       /\ steps[i].id \notin steps[i].dependencies

-----------------------------------------------------------------------------
(* assertAcyclic *)

NoSearch ==
  [pc |-> "idle", key |-> "none", needs |-> NoDefinition,
   stack |-> <<>>, todo |-> {}, visiting |-> {}, visited |-> {}]

Searching == search.pc = "searching"

Top == search.stack[Len(search.stack)]

\* Mutant: a step is visited from the start of its visit.
Enter_Visited(found, s) ==
  [found EXCEPT !.stack = Append(@, [step |-> s, rest |-> found.needs[s]]),
                !.visited = @ \cup {s}]

(* visiting.add, and the loop over the dependencies begins. *)
Enter(found, s) ==
  [found EXCEPT !.stack = Append(@, [step |-> s, rest |-> found.needs[s]]),
                !.visiting = @ \cup {s}]

(* visit(s), up to the first dependency. *)
Visit(found, s) ==
  IF s \in found.visiting THEN [found EXCEPT !.pc = "cycle"]
  ELSE IF s \in found.visited THEN found
  ELSE Enter(found, s)

VisitStep(s) ==
  /\ Searching /\ search.stack = <<>> /\ s \in search.todo
  /\ search' = Visit([search EXCEPT !.todo = @ \ {s}], s)
  /\ UNCHANGED definitions

VisitDependency(s) ==
  /\ Searching /\ search.stack # <<>> /\ s \in Top.rest
  /\ search' = Visit([search EXCEPT !.stack[Len(search.stack)].rest = @ \ {s}], s)
  /\ UNCHANGED definitions

\* Mutant: the step is not taken from visiting.
Leave_Visiting(s) ==
  [search EXCEPT !.stack = SubSeq(@, 1, Len(@) - 1), !.visited = @ \cup {s}]

Leave(s) ==
  [search EXCEPT !.stack = SubSeq(@, 1, Len(@) - 1),
                 !.visiting = @ \ {s}, !.visited = @ \cup {s}]

VisitReturns ==
  /\ Searching /\ search.stack # <<>> /\ Top.rest = {}
  /\ search' = Leave(Top.step)
  /\ UNCHANGED definitions

-----------------------------------------------------------------------------
(* register() *)

(* A source that is not well formed is refused at once. *)
Register(source) ==
  /\ ~Searching
  /\ WellFormed(source.steps)
  /\ search' = [pc |-> "searching", key |-> source.key,
                needs |-> Dependencies(source.steps),
                stack |-> <<>>, todo |-> Ids(source.steps),
                visiting |-> {}, visited |-> {}]
  /\ UNCHANGED definitions

(* ConflictError when the key has a definition with another digest. *)
Registered ==
  /\ Searching /\ search.stack = <<>> /\ search.todo = {}
  /\ definitions' =
       IF definitions[search.key] \in {NoDefinition, search.needs}
         THEN [definitions EXCEPT ![search.key] = search.needs]
         ELSE definitions
  /\ search' = NoSearch

RegistryInit ==
  /\ definitions = [k \in Key |-> NoDefinition]
  /\ search = NoSearch

RegistryNext ==
  \/ \E source \in Proposal : Register(source)
  \/ \E s \in Step : VisitStep(s) \/ VisitDependency(s)
  \/ VisitReturns
  \/ Registered

RegistrySpec == RegistryInit /\ [][RegistryNext]_registryVars

-----------------------------------------------------------------------------
(* Properties *)

(* Of any steps one does not need another of them: they can be done in     *)
(* some order.                                                             *)
Acyclic(needs) ==
  \A C \in SUBSET DOMAIN needs :
    C # {} => \E s \in C : needs[s] \cap C = {}

Needs == UNION {[S -> SUBSET S] : S \in SUBSET Step}

SearchType ==
  [pc : {"idle", "searching", "cycle"}, key : Key \cup {"none"},
   needs : Needs, stack : Seq([step : Step, rest : SUBSET Step]),
   todo : SUBSET Step, visiting : SUBSET Step, visited : SUBSET Step]

RegistryTypeOK ==
  /\ definitions \in [Key -> Needs]
  /\ search \in SearchType
  /\ Searching => search.key \in Key
  /\ search.todo \cup search.visiting \cup search.visited \subseteq DOMAIN search.needs

\* The steps of a workflow that was registered can be done in some order: no
\* run that is started from it waits for itself.
RegisteredIsAcyclic == \A k \in Key : Acyclic(definitions[k])

\* A source is refused for a cycle only when it has one: a step that several
\* others need is not taken for a cycle.
CycleIsReal == search.pc = "cycle" => ~Acyclic(search.needs)

=============================================================================
