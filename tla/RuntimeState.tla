---------------------------- MODULE RuntimeState ----------------------------
(***************************************************************************)
(* The state FdosRuntime keeps in memory (src/.../runtime/state.js): runs, *)
(* their tasks, the human approvals of A2 tasks and the connector outbox.  *)
(* Every command of fdos-runtime.js appends the events of one command and  *)
(* applies them to this state; mutate() runs one command at a time and an  *)
(* authenticated command is one SQLite transaction, so that a command is   *)
(* one step of this state.                                                 *)
(*                                                                         *)
(* Abstractions: identifiers are members of constant sets, an identifier   *)
(* that no event has created yet has status "absent"; an action intent is  *)
(* its kind (see Kind); texts, digests and time stamps that no guard reads *)
(* are left out; a time is a natural number.                               *)
(***************************************************************************)
EXTENDS Naturals, FiniteSets

CONSTANTS
  None,               \* JavaScript null
  Run,                \* identifiers of workflow runs
  RunKey,             \* idempotency digests startWorkflow may be given
  Task,               \* identifiers of tasks
  StepTask,           \* the tasks that startWorkflow creates, one per step
  RunOf,              \* the run a task belongs to
  DependsOn,          \* task.dependencies
  StepRole,           \* step.roleId
  StepKind,           \* the kind of the step's action intent
  Role,
  DelegatingRole,     \* the roles with the capability task:delegate
  Agent,
  RoleOf,             \* the role of an agent instance
  HandoffKind,        \* the kinds of action an agent may hand off
  MaxHandoffDepth,    \* definition.maxHandoffDepth
  MaxHandoffsPerRun,  \* definition.maxHandoffsPerRun
  Approval,           \* identifiers of approvals
  ApprovalTtl,        \* the times to live an approval may be given
  Delivery,           \* identifiers of connector deliveries
  DeliveryKey,        \* idempotency keys of prepareDelivery
  ClaimLease,         \* the leases a connector may ask for
  MaxDeliveryAttempts,\* contract.maxAttempts
  MaxContract,        \* bound on the versions of the connector contract
  Registries,         \* the connector registries the store is opened with
  MaxTime             \* bound on the clock

(* A1: an A0 or A1 action no connector contract is for. A2: an action that *)
(* needs a human approval. connector: an A0 or A1 action whose type a      *)
(* connector contract can cover (A2 and above cannot be contracted).       *)
Kind == {"A1", "A2", "connector"}

ASSUME NoneAssumption ==
  None \notin Run \cup Task \cup Role \cup Agent \cup RunKey

ASSUME WorkflowAssumption ==
  /\ StepTask \subseteq Task
  /\ RunOf \in [Task -> Run]
  /\ DependsOn \in [Task -> SUBSET StepTask]
  /\ \A t \in Task : \A d \in DependsOn[t] : t \in StepTask /\ RunOf[d] = RunOf[t]
  /\ StepRole \in [StepTask -> Role]
  /\ StepKind \in [StepTask -> Kind]

\* workflow-definition.js refuses a definition with fewer than two steps; what
\* is used is that no run is without one.
ASSUME StepAssumption ==
  \A r \in Run : \E t \in StepTask : RunOf[t] = r

ASSUME AgentAssumption ==
  /\ RoleOf \in [Agent -> Role]
  /\ DelegatingRole \subseteq Role
  /\ HandoffKind \subseteq Kind

ASSUME BoundAssumption ==
  /\ MaxHandoffDepth \in Nat
  /\ MaxHandoffsPerRun \in Nat
  /\ ApprovalTtl \subseteq Nat \ {0}
  /\ ClaimLease \subseteq Nat \ {0}
  /\ MaxDeliveryAttempts \in Nat \ {0}
  /\ MaxContract \in Nat \ {0}
  /\ MaxTime \in Nat

\* What a process registers when it opens the store (both lists are empty by
\* default). covers: a registered contract has the action type of the connector
\* tasks. version: the version of that contract an active connector instance is
\* bound to, 0 when there is none. An instance is bound to a registered contract.
ASSUME RegistryAssumption ==
  /\ Registries \subseteq [covers : BOOLEAN, version : 0..MaxContract]
  /\ \A g \in Registries : g.version # 0 => g.covers

VARIABLES
  now,        \* what the runtime's clock shows
  registry,   \* the connector registry of the process that has the store open
  runs,       \* state.runs
  tasks,      \* state.tasks
  approvals,  \* state.approvals
  outbox      \* state.outbox

vars == <<now, registry, runs, tasks, approvals, outbox>>

-----------------------------------------------------------------------------

RunStatus == {"absent", "active", "failed", "cancelled", "completed"}

TaskStatus == {"absent", "blocked", "ready", "waiting_approval",
               "waiting_handoff", "in_progress", "completed", "failed",
               "cancelled"}

ApprovalStatus == {"absent", "requested", "granted", "denied", "expired",
                   "consumed"}

DeliveryStatus == {"absent", "prepared", "claimed", "simulated", "failed",
                   "uncertain", "cancelled"}

\* maxAttempts of every task the runtime creates.
MaxTaskAttempts == 2

-----------------------------------------------------------------------------

\* run.taskIds: the step tasks, then the children that handoffs pushed.
TasksOf(r) == {t \in Task : RunOf[t] = r /\ tasks[t].status # "absent"}

Children(t) == {c \in Task : tasks[c].parent = t}

\* run.handoffCount: every handoff creates exactly one task with a parent.
HandoffCount(r) == Cardinality({t \in TasksOf(r) : tasks[t].parent # None})

ApprovalsOf(t) ==
  {x \in Approval : /\ approvals[x].status # "absent"
                    /\ approvals[x].task = t
                    /\ approvals[x].attempt = tasks[t].attempt}

\* activeApproval(approval, now)
ActiveApproval(x) ==
  /\ approvals[x].status \in {"requested", "granted"}
  /\ approvals[x].expiresAt > now

\* The deliveries whose intent binds this attempt of the task.
DeliveriesOf(t) ==
  {d \in Delivery : /\ outbox[d].status # "absent"
                    /\ outbox[d].task = t
                    /\ outbox[d].taskAttempt = tasks[t].attempt}

LiveStatus == {"prepared", "claimed", "uncertain"}

\* The deliveries retryTask and cancelTask want resolved first.
UnsettledDeliveries(t) == {d \in DeliveriesOf(t) : outbox[d].status \in LiveStatus}

\* Mutant: the lease is still good in the instant it ends.
ClaimExpired_AtEnd(d) == outbox[d].claimExpiresAt < now

ClaimExpired(d) == outbox[d].claimExpiresAt <= now

-----------------------------------------------------------------------------

NoRun == [status |-> "absent", key |-> None]

NoTask ==
  [status |-> "absent", role |-> None, kind |-> None, parent |-> None,
   depth |-> 0, attempt |-> 1, claimedBy |-> None, retryable |-> FALSE]

NoApproval ==
  [status |-> "absent", task |-> None, attempt |-> 1, expiresAt |-> 0]

NoDelivery ==
  [status |-> "absent", task |-> None, taskAttempt |-> 1,
   requestedBy |-> None, key |-> None, contract |-> 1, attempt |-> 0,
   claimExpiresAt |-> 0, lastOutcome |-> None, retryable |-> FALSE]

\* createRuntimeState(): nothing exists before the first event.
Init ==
  /\ now = 0
  /\ registry \in Registries
  /\ runs = [r \in Run |-> NoRun]
  /\ tasks = [t \in Task |-> NoTask]
  /\ approvals = [x \in Approval |-> NoApproval]
  /\ outbox = [d \in Delivery |-> NoDelivery]

-----------------------------------------------------------------------------

RunRecord == [status : RunStatus, key : RunKey \cup {None}]

TaskRecord ==
  [status : TaskStatus, role : Role \cup {None}, kind : Kind \cup {None},
   parent : Task \cup {None}, depth : 0..MaxHandoffDepth,
   attempt : 1..MaxTaskAttempts, claimedBy : Agent \cup {None},
   retryable : BOOLEAN]

ApprovalRecord ==
  [status : ApprovalStatus, task : Task \cup {None},
   attempt : 1..MaxTaskAttempts, expiresAt : Nat]

DeliveryRecord ==
  [status : DeliveryStatus, task : Task \cup {None},
   taskAttempt : 1..MaxTaskAttempts, requestedBy : Agent \cup {None},
   key : DeliveryKey \cup {None}, contract : 1..MaxContract,
   attempt : 0..MaxDeliveryAttempts, claimExpiresAt : Nat,
   lastOutcome : {None, "simulated", "failed", "uncertain"},
   retryable : BOOLEAN]

(* The type invariant of the state. The ranges of depth and of the two     *)
(* attempt counters say that the budgets the commands enforce hold.        *)
TypeOK ==
  /\ now \in 0..MaxTime
  /\ registry \in Registries
  /\ runs \in [Run -> RunRecord]
  /\ tasks \in [Task -> TaskRecord]
  /\ approvals \in [Approval -> ApprovalRecord]
  /\ outbox \in [Delivery -> DeliveryRecord]

=============================================================================
