------------------------- MODULE FdosRuntimeSafety --------------------------
(***************************************************************************)
(* The safety invariants of FdosRuntime, for every value of the constants. *)
(* They hold together or not at all: that an approval cannot be decided    *)
(* into a running task (OwnerOnlyWhileInProgress) needs OneOpenApproval;   *)
(* that a denied approval cannot cancel a task with a live delivery        *)
(* (GivenUpAttemptIsSettled) needs to know that tasks with approvals and   *)
(* tasks with deliveries are of different kinds (ApprovalsKnown and        *)
(* DeliveriesKnown); and that a new run or a new child does not overwrite  *)
(* a task others refer to needs TasksKnown. Inv is inductive.              *)
(***************************************************************************)
EXTENDS FdosRuntimeProofs

\* The tasks of a run that was not started do not exist.
TasksKnown ==
  \A t \in Task : runs[RunOf[t]].status = "absent" => tasks[t].status = "absent"

\* A task that an approval or a delivery names exists and has the kind that
\* can have one.
ApprovalsKnown ==
  \A x \in Approval : approvals[x].status # "absent" =>
    /\ approvals[x].task \in Task
    /\ tasks[approvals[x].task].status # "absent"
    /\ tasks[approvals[x].task].kind = "A2"

DeliveriesKnown ==
  \A d \in Delivery : outbox[d].status # "absent" =>
    /\ outbox[d].task \in Task
    /\ tasks[outbox[d].task].status # "absent"
    /\ tasks[outbox[d].task].kind = "connector"

Inv ==
  /\ TypeOK
  /\ TasksKnown
  /\ ApprovalsKnown
  /\ DeliveriesKnown
  /\ OwnerOnlyWhileInProgress
  /\ OneOpenApproval
  /\ OneDeliveryPerAttempt
  /\ GivenUpAttemptIsSettled

-----------------------------------------------------------------------------
(* What most steps leave alone *)

\* No step removes a task or changes its kind.
TasksPersist ==
  \A t \in Task : tasks[t].status # "absent" =>
    tasks'[t].status # "absent" /\ tasks'[t].kind = tasks[t].kind

\* A step that creates no approval leaves every approval with its task.
ApprovalsPersist ==
  \A x \in Approval :
    /\ approvals'[x].status = "absent" <=> approvals[x].status = "absent"
    /\ approvals'[x].task = approvals[x].task

\* A step that creates no delivery leaves every delivery with its bindings.
DeliveriesPersist ==
  \A d \in Delivery :
    /\ outbox'[d].status = "absent" <=> outbox[d].status = "absent"
    /\ outbox'[d].task = outbox[d].task
    /\ outbox'[d].taskAttempt = outbox[d].taskAttempt
    /\ outbox'[d].requestedBy = outbox[d].requestedBy
    /\ outbox'[d].key = outbox[d].key

LEMMA KeepsApprovalsKnown ==
  ASSUME ApprovalsKnown, TasksPersist, ApprovalsPersist
  PROVE  ApprovalsKnown'
  BY DEF ApprovalsKnown, TasksPersist, ApprovalsPersist

LEMMA KeepsDeliveriesKnown ==
  ASSUME DeliveriesKnown, TasksPersist, DeliveriesPersist
  PROVE  DeliveriesKnown'
  BY DEF DeliveriesKnown, TasksPersist, DeliveriesPersist

LEMMA KeepsOneDelivery ==
  ASSUME OneDeliveryPerAttempt, DeliveriesPersist
  PROVE  OneDeliveryPerAttempt'
  BY DEF OneDeliveryPerAttempt, DeliveriesPersist

\* A step on workflows or approvals leaves the deliveries alone.
LEMMA UnchangedOutbox ==
  ASSUME outbox' = outbox
  PROVE  DeliveriesPersist
  BY DEF DeliveriesPersist

\* A step on the outbox leaves tasks, runs and approvals alone.
LEMMA UnchangedTasks ==
  ASSUME Inv, UNCHANGED <<runs, tasks, approvals>>
  PROVE  /\ TasksPersist
         /\ ApprovalsPersist
         /\ TasksKnown'
         /\ ApprovalsKnown'
         /\ OwnerOnlyWhileInProgress'
         /\ OneOpenApproval'
<1>1. TasksPersist /\ ApprovalsPersist
  BY DEF TasksPersist, ApprovalsPersist
<1>2. TasksKnown'
  BY DEF Inv, TasksKnown
<1>3. OwnerOnlyWhileInProgress'
  BY DEF Inv, OwnerOnlyWhileInProgress
<1>4. OneOpenApproval'
  BY DEF Inv, OneOpenApproval, Open
<1> QED
  BY <1>1, <1>2, <1>3, <1>4, KeepsApprovalsKnown DEF Inv

-----------------------------------------------------------------------------

LEMMA InitInv == Init => Inv
<1> SUFFICES ASSUME Init PROVE Inv
  OBVIOUS
<1>1. TypeOK
  BY InitType
<1>2. TasksKnown /\ ApprovalsKnown /\ DeliveriesKnown
  BY WorkflowAssumption DEF WorkflowAssumption, Init, NoTask, NoApproval, NoDelivery,
     TasksKnown, ApprovalsKnown, DeliveriesKnown
<1>3. OwnerOnlyWhileInProgress
  BY DEF Init, NoTask, OwnerOnlyWhileInProgress
<1>4. OneOpenApproval
  BY DEF Init, NoApproval, OneOpenApproval, Open
<1>5. OneDeliveryPerAttempt /\ GivenUpAttemptIsSettled
  BY DEF Init, NoDelivery, OneDeliveryPerAttempt, GivenUpAttemptIsSettled, LiveStatus
<1> QED
  BY <1>1, <1>2, <1>3, <1>4, <1>5 DEF Inv

LEMMA WorkflowInv ==
  ASSUME Inv, WorkflowStep
  PROVE  Inv'
<1> USE DEF Inv
<1>t. TypeOK'
  BY WorkflowType
<1>1. ASSUME NEW r \in Run, NEW key \in RunKey \cup {None},
             StartWorkflow(r, key)
      PROVE  Inv'
  <2>1. TasksPersist
    BY <1>1, WorkflowAssumption
     DEF StartWorkflow, NoTask, InitialTask, TasksPersist, TasksKnown,
         TypeOK, TaskRecord, WorkflowAssumption
  <2>2. ApprovalsPersist
    BY <1>1
     DEF StartWorkflow, NoTask, InitialTask, ApprovalsPersist
  <2>3. TasksKnown'
    BY <1>1, WorkflowAssumption
     DEF StartWorkflow, NoTask, InitialTask, TasksKnown, WorkflowAssumption,
         TypeOK, TaskRecord, RunRecord, RunAfterCompletion,
         RunStatusAfterRetry, NoRun
  <2>4. OwnerOnlyWhileInProgress'
    BY <1>1, NoneAssumption
     DEF StartWorkflow, NoTask, InitialTask, OwnerOnlyWhileInProgress,
         NoneAssumption, TypeOK, TaskRecord
  <2>5. OneOpenApproval'
    BY ZenonT(60), <1>1
     DEF StartWorkflow, NoTask, InitialTask, OneOpenApproval, Open,
         ApprovalsKnown, TasksKnown, TypeOK, TaskRecord
  <2>6. GivenUpAttemptIsSettled'
    BY ZenonT(60), <1>1
     DEF StartWorkflow, NoTask, InitialTask, GivenUpAttemptIsSettled,
         LiveStatus, DeliveriesKnown, TasksKnown, TypeOK, TaskRecord
  <2>7. outbox' = outbox
    BY <1>1
     DEF StartWorkflow
  <2> QED
    BY <1>t, <2>1, <2>2, <2>3, <2>4, <2>5, <2>6, <2>7, UnchangedOutbox,
       KeepsApprovalsKnown, KeepsDeliveriesKnown, KeepsOneDelivery
<1>2. ASSUME NEW t \in Task, NEW a \in Agent, ClaimTask(t, a)
      PROVE  Inv'
  <2>1. TasksPersist
    BY <1>2
     DEF ClaimTask, TasksPersist, TasksKnown, TypeOK, TaskRecord
  <2>2. ApprovalsPersist
    BY <1>2
     DEF ClaimTask, ApprovalsPersist, Authorize, UsableApprovals, TypeOK,
         ApprovalRecord
  <2>3. TasksKnown'
    BY <1>2, WorkflowAssumption
     DEF ClaimTask, TasksKnown, WorkflowAssumption, TypeOK, TaskRecord,
         RunRecord, RunAfterCompletion, RunStatusAfterRetry, NoRun
  <2>4. OwnerOnlyWhileInProgress'
    BY <1>2, NoneAssumption
     DEF ClaimTask, OwnerOnlyWhileInProgress, NoneAssumption, TypeOK,
         TaskRecord
  <2>5. OneOpenApproval'
    <3>1. \A x \in Approval : /\ approvals'[x].task = approvals[x].task
                              /\ approvals'[x].attempt = approvals[x].attempt
                              /\ Open(x)' => Open(x)
      BY <1>2 DEF ClaimTask, Authorize, UsableApprovals, Open, TypeOK, ApprovalRecord
    <3>2. \A u \in Task : /\ tasks'[u].attempt = tasks[u].attempt
                          /\ u # t => tasks'[u].status = tasks[u].status
      BY <1>2 DEF ClaimTask, TypeOK, TaskRecord
    <3>3. \A x \in Approval : Open(x) => approvals[x].task \in Task
      BY DEF Open, ApprovalsKnown
    <3>4. ASSUME NEW x \in Approval, Open(x)' PROVE approvals[x].task # t
      <4>1. Open(x)
        BY <3>1, <3>4
      <4>2. CASE tasks[t].kind # "A2"
        BY <4>1, <4>2 DEF ApprovalsKnown, Open
      <4>3. CASE tasks[t].kind = "A2"
        <5>1. PICK y \in UsableApprovals(t) :
                approvals' = [approvals EXCEPT ![y].status = "consumed"]
          BY <1>2, <4>3 DEF ClaimTask, Authorize
        <5>2. y \in Approval /\ Open(y) /\ ~Open(y)' /\ approvals[y].task = t
          BY <5>1 DEF UsableApprovals, ApprovalsOf, Open, TypeOK, ApprovalRecord
        <5> QED
          BY <3>4, <4>1, <5>2 DEF OneOpenApproval
      <4> QED
        BY <4>2, <4>3
    <3> QED
      BY <3>1, <3>2, <3>3, <3>4 DEF OneOpenApproval
  <2>6. GivenUpAttemptIsSettled'
    BY <1>2
     DEF ClaimTask, GivenUpAttemptIsSettled, LiveStatus, DeliveriesKnown,
         TasksKnown, TypeOK, TaskRecord
  <2>7. outbox' = outbox
    BY <1>2
     DEF ClaimTask
  <2> QED
    BY <1>t, <2>1, <2>2, <2>3, <2>4, <2>5, <2>6, <2>7, UnchangedOutbox,
       KeepsApprovalsKnown, KeepsDeliveriesKnown, KeepsOneDelivery
<1>3. ASSUME NEW t \in Task, NEW a \in Agent, CompleteTask(t, a)
      PROVE  Inv'
  <2> DEFINE Same(u) == /\ tasks'[u].kind = tasks[u].kind
                        /\ tasks'[u].role = tasks[u].role
                        /\ tasks'[u].attempt = tasks[u].attempt
  <2>a. /\ tasks[t].status = "in_progress" /\ tasks'[t].status = "completed"
        /\ tasks'[t].claimedBy = None
        /\ Same(t)
    BY <1>3 DEF CompleteTask, Claimed, TypeOK, TaskRecord
  <2>b. ASSUME NEW u \in Task, u # t
        PROVE  /\ \/ tasks'[u].status = tasks[u].status
                  \/ /\ tasks[u].status \in {"waiting_handoff", "blocked"}
                     /\ tasks'[u].status = "ready"
               /\ tasks'[u].claimedBy = tasks[u].claimedBy
               /\ Same(u)
    BY <1>3, <2>b DEF CompleteTask, ReturnedParents, ReleasedSteps, TasksOf, TypeOK,
                      TaskRecord
  <2>1. TasksPersist
    BY <2>a, <2>b DEF TasksPersist
  <2>2. ApprovalsPersist
    BY <1>3
     DEF CompleteTask, Claimed, ReturnedParents, ReleasedSteps, TasksOf,
         ApprovalsPersist
  <2>3. TasksKnown'
    <3>1. /\ runs[RunOf[t]].status = "active"
          /\ \A r \in Run : runs'[r].status = "absent" => runs[r].status = "absent"
      BY <1>3 DEF CompleteTask, RunAfterCompletion, TypeOK, RunRecord
    <3>2. \A u \in Task : RunOf[u] \in Run
      BY WorkflowAssumption DEF WorkflowAssumption
    <3> QED
      BY <2>b, <3>1, <3>2 DEF TasksKnown
  <2>4. OwnerOnlyWhileInProgress'
    BY <2>a, <2>b DEF OwnerOnlyWhileInProgress
  <2>5. OneOpenApproval'
    <3>1. approvals' = approvals
      BY <1>3 DEF CompleteTask
    <3>2. ASSUME NEW x \in Approval, Open(x)
          PROVE  /\ approvals[x].task \in Task /\ approvals[x].task # t
                 /\ tasks'[approvals[x].task].attempt = tasks[approvals[x].task].attempt
                 /\ tasks'[approvals[x].task].status = tasks[approvals[x].task].status
      <4>1. /\ approvals[x].task \in Task
            /\ tasks[approvals[x].task].status
                 \in {"ready", "waiting_approval", "cancelled"}
        BY <3>2 DEF OneOpenApproval, Open, ApprovalsKnown
      <4> QED
        BY <2>a, <2>b, <4>1
    <3> QED
      BY <3>1, <3>2 DEF OneOpenApproval, Open
  <2>6. GivenUpAttemptIsSettled'
    <3>1. outbox' = outbox
      BY <1>3 DEF CompleteTask
    <3>2. ASSUME NEW u \in Task
          PROVE  /\ tasks'[u].attempt = tasks[u].attempt
                 /\ tasks'[u].status = "cancelled" => tasks[u].status = "cancelled"
      BY <2>a, <2>b
    <3> QED
      BY <3>1, <3>2 DEF GivenUpAttemptIsSettled, LiveStatus, DeliveriesKnown
  <2>7. outbox' = outbox
    BY <1>3
     DEF CompleteTask
  <2> QED
    BY <1>t, <2>1, <2>2, <2>3, <2>4, <2>5, <2>6, <2>7, UnchangedOutbox,
       KeepsApprovalsKnown, KeepsDeliveriesKnown, KeepsOneDelivery
<1>4. ASSUME NEW t \in Task, NEW a \in Agent, NEW retryable \in BOOLEAN,
             FailTask(t, a, retryable)
      PROVE  Inv'
  <2>1. TasksPersist
    BY <1>4
     DEF FailTask, Claimed, TasksPersist, TasksKnown, TypeOK, TaskRecord
  <2>2. ApprovalsPersist
    BY <1>4
     DEF FailTask, Claimed, ApprovalsPersist
  <2>3. TasksKnown'
    BY <1>4, WorkflowAssumption
     DEF FailTask, Claimed, TasksKnown, WorkflowAssumption, TypeOK,
         TaskRecord, RunRecord, RunAfterCompletion, RunStatusAfterRetry,
         NoRun
  <2>4. OwnerOnlyWhileInProgress'
    BY <1>4, NoneAssumption
     DEF FailTask, Claimed, OwnerOnlyWhileInProgress, NoneAssumption,
         TypeOK, TaskRecord
  <2>5. OneOpenApproval'
    BY <1>4
     DEF FailTask, Claimed, OneOpenApproval, Open, ApprovalsKnown,
         TasksKnown, TypeOK, TaskRecord
  <2>6. GivenUpAttemptIsSettled'
    BY <1>4
     DEF FailTask, Claimed, GivenUpAttemptIsSettled, LiveStatus,
         DeliveriesKnown, TasksKnown, TypeOK, TaskRecord
  <2>7. outbox' = outbox
    BY <1>4
     DEF FailTask
  <2> QED
    BY <1>t, <2>1, <2>2, <2>3, <2>4, <2>5, <2>6, <2>7, UnchangedOutbox,
       KeepsApprovalsKnown, KeepsDeliveriesKnown, KeepsOneDelivery
<1>5. ASSUME NEW t \in Task, NEW a \in Agent, NEW c \in Task, NEW role \in Role,
             NEW kind \in HandoffKind, HandoffTask(t, a, c, role, kind)
      PROVE  Inv'
  <2>1. TasksPersist
    BY <1>5
     DEF HandoffTask, Claimed, NoTask, TasksPersist, TasksKnown, TypeOK,
         TaskRecord
  <2>2. ApprovalsPersist
    BY <1>5
     DEF HandoffTask, Claimed, NoTask, ApprovalsPersist
  <2>3. TasksKnown'
    BY <1>5, WorkflowAssumption
     DEF HandoffTask, Claimed, NoTask, TasksKnown, WorkflowAssumption,
         TypeOK, TaskRecord, RunRecord, RunAfterCompletion,
         RunStatusAfterRetry, NoRun
  <2>4. OwnerOnlyWhileInProgress'
    BY <1>5, NoneAssumption
     DEF HandoffTask, Claimed, NoTask, OwnerOnlyWhileInProgress,
         NoneAssumption, TypeOK, TaskRecord
  <2>5. OneOpenApproval'
    BY <1>5
     DEF HandoffTask, Claimed, NoTask, OneOpenApproval, Open,
         ApprovalsKnown, TasksKnown, TypeOK, TaskRecord
  <2>6. GivenUpAttemptIsSettled'
    BY <1>5
     DEF HandoffTask, Claimed, NoTask, GivenUpAttemptIsSettled, LiveStatus,
         DeliveriesKnown, TasksKnown, TypeOK, TaskRecord
  <2>7. outbox' = outbox
    BY <1>5
     DEF HandoffTask
  <2> QED
    BY <1>t, <2>1, <2>2, <2>3, <2>4, <2>5, <2>6, <2>7, UnchangedOutbox,
       KeepsApprovalsKnown, KeepsDeliveriesKnown, KeepsOneDelivery
<1>6. ASSUME NEW t \in Task, RetryTask(t)
      PROVE  Inv'
  <2>1. TasksPersist
    BY <1>6
     DEF RetryTask, UnsettledDeliveries, DeliveriesOf, TasksPersist,
         TasksKnown, TypeOK, TaskRecord
  <2>2. ApprovalsPersist
    BY <1>6
     DEF RetryTask, UnsettledDeliveries, DeliveriesOf, ApprovalsPersist
  <2>3. TasksKnown'
    BY <1>6, WorkflowAssumption
     DEF RetryTask, UnsettledDeliveries, DeliveriesOf, TasksKnown,
         WorkflowAssumption, TypeOK, TaskRecord, RunRecord,
         RunAfterCompletion, RunStatusAfterRetry, NoRun
  <2>4. OwnerOnlyWhileInProgress'
    BY <1>6, NoneAssumption
     DEF RetryTask, UnsettledDeliveries, DeliveriesOf,
         OwnerOnlyWhileInProgress, NoneAssumption, TypeOK, TaskRecord
  <2>5. OneOpenApproval'
    BY <1>6
     DEF RetryTask, UnsettledDeliveries, DeliveriesOf, OneOpenApproval,
         Open, ApprovalsKnown, TasksKnown, TypeOK, TaskRecord
  <2>6. GivenUpAttemptIsSettled'
    BY <1>6
     DEF RetryTask, UnsettledDeliveries, DeliveriesOf,
         GivenUpAttemptIsSettled, LiveStatus, DeliveriesKnown, TasksKnown,
         TypeOK, TaskRecord
  <2>7. outbox' = outbox
    BY <1>6
     DEF RetryTask
  <2> QED
    BY <1>t, <2>1, <2>2, <2>3, <2>4, <2>5, <2>6, <2>7, UnchangedOutbox,
       KeepsApprovalsKnown, KeepsDeliveriesKnown, KeepsOneDelivery
<1>7. ASSUME NEW t \in Task, CancelTask(t)
      PROVE  Inv'
  <2>1. TasksPersist
    BY <1>7
     DEF CancelTask, UnsettledDeliveries, DeliveriesOf, TasksPersist,
         TasksKnown, TypeOK, TaskRecord
  <2>2. ApprovalsPersist
    BY <1>7
     DEF CancelTask, UnsettledDeliveries, DeliveriesOf, ApprovalsPersist
  <2>3. TasksKnown'
    BY <1>7, WorkflowAssumption
     DEF CancelTask, UnsettledDeliveries, DeliveriesOf, TasksKnown,
         WorkflowAssumption, TypeOK, TaskRecord, RunRecord,
         RunAfterCompletion, RunStatusAfterRetry, NoRun
  <2>4. OwnerOnlyWhileInProgress'
    BY <1>7, NoneAssumption
     DEF CancelTask, UnsettledDeliveries, DeliveriesOf,
         OwnerOnlyWhileInProgress, NoneAssumption, TypeOK, TaskRecord
  <2>5. OneOpenApproval'
    BY <1>7
     DEF CancelTask, UnsettledDeliveries, DeliveriesOf, OneOpenApproval,
         Open, ApprovalsKnown, TasksKnown, TypeOK, TaskRecord
  <2>6. GivenUpAttemptIsSettled'
    BY <1>7
     DEF CancelTask, UnsettledDeliveries, DeliveriesOf,
         GivenUpAttemptIsSettled, LiveStatus, DeliveriesKnown, TasksKnown,
         TypeOK, TaskRecord
  <2>7. outbox' = outbox
    BY <1>7
     DEF CancelTask
  <2> QED
    BY <1>t, <2>1, <2>2, <2>3, <2>4, <2>5, <2>6, <2>7, UnchangedOutbox,
       KeepsApprovalsKnown, KeepsDeliveriesKnown, KeepsOneDelivery
<1> QED
  BY <1>1, <1>2, <1>3, <1>4, <1>5, <1>6, <1>7 DEF WorkflowStep

LEMMA ApprovalInv ==
  ASSUME Inv, ApprovalStep
  PROVE  Inv'
<1> USE DEF Inv
<1>t. TypeOK'
  BY ApprovalType
<1>1. ASSUME NEW t \in Task, NEW x \in Approval, NEW ttl \in ApprovalTtl,
             RequestApproval(t, x, ttl)
      PROVE  Inv'
  <2>1. TasksPersist
    BY <1>1
     DEF RequestApproval, MayRequest, Grantable, StatusAfterExpiry,
         StaleApprovals, ApprovalsOf, Expired, TasksPersist, ApprovalsKnown,
         TypeOK, TaskRecord
  <2>2. ApprovalsKnown'
    <3>1. /\ approvals'[x].task = t
          /\ tasks[t].status # "absent" /\ tasks[t].kind = "A2"
      BY <1>1 DEF RequestApproval, MayRequest, Expired, TypeOK
    <3>2. \A y \in Approval \ {x} :
            /\ approvals'[y].task = approvals[y].task
            /\ approvals'[y].status # "absent" => approvals[y].status # "absent"
      BY <1>1
       DEF RequestApproval, StaleApprovals, ApprovalsOf, Expired, TypeOK,
           ApprovalRecord
    <3> QED
      BY <2>1, <3>1, <3>2 DEF ApprovalsKnown, TasksPersist
  <2>3. TasksKnown'
    BY <1>1, WorkflowAssumption
     DEF RequestApproval, MayRequest, Grantable, StatusAfterExpiry,
         StaleApprovals, ApprovalsOf, Expired, TasksKnown,
         WorkflowAssumption, ApprovalsKnown, TypeOK, TaskRecord, RunRecord
  <2>4. OwnerOnlyWhileInProgress'
    BY <1>1, NoneAssumption
     DEF RequestApproval, MayRequest, Grantable, StatusAfterExpiry,
         StaleApprovals, ApprovalsOf, Expired, OwnerOnlyWhileInProgress,
         NoneAssumption, OneOpenApproval, Open, ApprovalsKnown, TypeOK,
         TaskRecord
  <2>5. OneOpenApproval'
    <3>1. \A y \in Approval : y \in StaleApprovals(t) \/ approvals[y].task # t \/ ~Open(y)
      BY <1>1
       DEF RequestApproval, Grantable, StaleApprovals, ApprovalsOf,
           ActiveApproval, OneOpenApproval, Open
    <3>2. \A y \in Approval \ {x} :
            Open(y)' => approvals'[y] = approvals[y] /\ Open(y) /\ approvals[y].task # t
      BY <1>1, <3>1
       DEF RequestApproval, Expired, Open, TypeOK, ApprovalRecord
    <3>3. /\ approvals'[x].task = t
          /\ approvals'[x].attempt = tasks[t].attempt
          /\ tasks' = [tasks EXCEPT ![t].status = "waiting_approval"]
      BY <1>1 DEF RequestApproval, Expired, TypeOK
    <3>4. \A u \in Task : tasks'[u].attempt = tasks[u].attempt
      BY <3>3 DEF TypeOK, TaskRecord
    <3>5. tasks'[t].status = "waiting_approval" /\ \A u \in Task \ {t} : tasks'[u] = tasks[u]
      BY <3>3 DEF TypeOK, TaskRecord
    <3>6. \A y \in Approval : approvals[y].status # "absent" => approvals[y].task \in Task
      BY DEF ApprovalsKnown
    <3> QED
      BY <3>2, <3>3, <3>4, <3>5, <3>6 DEF OneOpenApproval, Open
  <2>6. GivenUpAttemptIsSettled'
    BY <1>1
     DEF RequestApproval, MayRequest, Grantable, StatusAfterExpiry,
         StaleApprovals, ApprovalsOf, Expired, GivenUpAttemptIsSettled,
         LiveStatus, DeliveriesKnown, ApprovalsKnown, TypeOK, TaskRecord
  <2>7. outbox' = outbox
    BY <1>1
     DEF RequestApproval
  <2> QED
    BY <1>t, <2>1, <2>2, <2>3, <2>4, <2>5, <2>6, <2>7, UnchangedOutbox,
       KeepsApprovalsKnown, KeepsDeliveriesKnown, KeepsOneDelivery
<1>2. ASSUME NEW t \in Task, RequestApprovalRefused(t)
      PROVE  Inv'
  <2>1. TasksPersist
    BY <1>2
     DEF RequestApprovalRefused, MayRequest, StaleApprovals, ApprovalsOf,
         Expired, StatusAfterExpiry, TasksPersist, ApprovalsKnown, TypeOK,
         TaskRecord
  <2>2. ApprovalsPersist
    BY <1>2
     DEF RequestApprovalRefused, MayRequest, StaleApprovals, ApprovalsOf,
         Expired, StatusAfterExpiry, ApprovalsPersist, TypeOK,
         ApprovalRecord
  <2>3. TasksKnown'
    BY <1>2, WorkflowAssumption
     DEF RequestApprovalRefused, MayRequest, StaleApprovals, ApprovalsOf,
         Expired, StatusAfterExpiry, TasksKnown, WorkflowAssumption,
         ApprovalsKnown, TypeOK, TaskRecord, RunRecord
  <2>4. OwnerOnlyWhileInProgress'
    BY <1>2, NoneAssumption
     DEF RequestApprovalRefused, MayRequest, StaleApprovals, ApprovalsOf,
         Expired, StatusAfterExpiry, OwnerOnlyWhileInProgress,
         NoneAssumption, OneOpenApproval, Open, ApprovalsKnown, TypeOK,
         TaskRecord
  <2>5. OneOpenApproval'
    BY <1>2
     DEF RequestApprovalRefused, MayRequest, StaleApprovals, ApprovalsOf,
         Expired, StatusAfterExpiry, OneOpenApproval, Open, ApprovalsKnown,
         ActiveApproval, TypeOK, TaskRecord, ApprovalRecord
  <2>6. GivenUpAttemptIsSettled'
    BY <1>2
     DEF RequestApprovalRefused, MayRequest, StaleApprovals, ApprovalsOf,
         Expired, StatusAfterExpiry, GivenUpAttemptIsSettled, LiveStatus,
         DeliveriesKnown, ApprovalsKnown, TypeOK, TaskRecord
  <2>7. outbox' = outbox
    BY <1>2
     DEF RequestApprovalRefused
  <2> QED
    BY <1>t, <2>1, <2>2, <2>3, <2>4, <2>5, <2>6, <2>7, UnchangedOutbox,
       KeepsApprovalsKnown, KeepsDeliveriesKnown, KeepsOneDelivery
<1>3. ASSUME NEW x \in Approval, GrantApproval(x)
      PROVE  Inv'
  <2>1. TasksPersist
    BY <1>3
     DEF GrantApproval, Decidable, TasksPersist, ApprovalsKnown, TypeOK,
         TaskRecord
  <2>2. ApprovalsPersist
    BY <1>3
     DEF GrantApproval, Decidable, ApprovalsPersist, TypeOK, ApprovalRecord
  <2>3. TasksKnown'
    BY <1>3, WorkflowAssumption
     DEF GrantApproval, Decidable, TasksKnown, WorkflowAssumption,
         ApprovalsKnown, TypeOK, TaskRecord, RunRecord
  <2>4. OwnerOnlyWhileInProgress'
    BY <1>3, NoneAssumption
     DEF GrantApproval, Decidable, OwnerOnlyWhileInProgress, NoneAssumption,
         OneOpenApproval, Open, ApprovalsKnown, TypeOK, TaskRecord
  <2>5. OneOpenApproval'
    BY <1>3
     DEF GrantApproval, Decidable, OneOpenApproval, Open, ApprovalsKnown,
         ActiveApproval, TypeOK, TaskRecord, ApprovalRecord
  <2>6. GivenUpAttemptIsSettled'
    BY <1>3
     DEF GrantApproval, Decidable, GivenUpAttemptIsSettled, LiveStatus,
         DeliveriesKnown, ApprovalsKnown, TypeOK, TaskRecord
  <2>7. outbox' = outbox
    BY <1>3
     DEF GrantApproval
  <2> QED
    BY <1>t, <2>1, <2>2, <2>3, <2>4, <2>5, <2>6, <2>7, UnchangedOutbox,
       KeepsApprovalsKnown, KeepsDeliveriesKnown, KeepsOneDelivery
<1>4. ASSUME NEW x \in Approval, DenyApproval(x)
      PROVE  Inv'
  <2>1. TasksPersist
    BY <1>4
     DEF DenyApproval, Decidable, TasksPersist, ApprovalsKnown, TypeOK,
         TaskRecord
  <2>2. ApprovalsPersist
    BY <1>4
     DEF DenyApproval, Decidable, ApprovalsPersist, TypeOK, ApprovalRecord
  <2>3. TasksKnown'
    BY <1>4, WorkflowAssumption
     DEF DenyApproval, Decidable, TasksKnown, WorkflowAssumption,
         ApprovalsKnown, TypeOK, TaskRecord, RunRecord
  <2>4. OwnerOnlyWhileInProgress'
    BY <1>4, NoneAssumption
     DEF DenyApproval, Decidable, OwnerOnlyWhileInProgress, NoneAssumption,
         OneOpenApproval, Open, ApprovalsKnown, TypeOK, TaskRecord
  <2>5. OneOpenApproval'
    BY <1>4
     DEF DenyApproval, Decidable, OneOpenApproval, Open, ApprovalsKnown,
         ActiveApproval, TypeOK, TaskRecord, ApprovalRecord
  <2>6. GivenUpAttemptIsSettled'
    BY <1>4
     DEF DenyApproval, Decidable, GivenUpAttemptIsSettled, LiveStatus,
         DeliveriesKnown, ApprovalsKnown, TypeOK, TaskRecord
  <2>7. outbox' = outbox
    BY <1>4
     DEF DenyApproval
  <2> QED
    BY <1>t, <2>1, <2>2, <2>3, <2>4, <2>5, <2>6, <2>7, UnchangedOutbox,
       KeepsApprovalsKnown, KeepsDeliveriesKnown, KeepsOneDelivery
<1>5. ASSUME NEW x \in Approval, DecideExpiredApproval(x)
      PROVE  Inv'
  <2>1. TasksPersist
    BY <1>5
     DEF DecideExpiredApproval, Decidable, Expired, StatusAfterExpiry,
         TasksPersist, ApprovalsKnown, TypeOK, TaskRecord
  <2>2. ApprovalsPersist
    BY <1>5
     DEF DecideExpiredApproval, Decidable, Expired, StatusAfterExpiry,
         ApprovalsPersist, TypeOK, ApprovalRecord
  <2>3. TasksKnown'
    BY <1>5, WorkflowAssumption
     DEF DecideExpiredApproval, Decidable, Expired, StatusAfterExpiry,
         TasksKnown, WorkflowAssumption, ApprovalsKnown, TypeOK, TaskRecord,
         RunRecord
  <2>4. OwnerOnlyWhileInProgress'
    BY <1>5, NoneAssumption
     DEF DecideExpiredApproval, Decidable, Expired, StatusAfterExpiry,
         OwnerOnlyWhileInProgress, NoneAssumption, OneOpenApproval, Open,
         ApprovalsKnown, TypeOK, TaskRecord
  <2>5. OneOpenApproval'
    BY <1>5
     DEF DecideExpiredApproval, Decidable, Expired, StatusAfterExpiry,
         OneOpenApproval, Open, ApprovalsKnown, ActiveApproval, TypeOK,
         TaskRecord, ApprovalRecord
  <2>6. GivenUpAttemptIsSettled'
    BY <1>5
     DEF DecideExpiredApproval, Decidable, Expired, StatusAfterExpiry,
         GivenUpAttemptIsSettled, LiveStatus, DeliveriesKnown,
         ApprovalsKnown, TypeOK, TaskRecord
  <2>7. outbox' = outbox
    BY <1>5
     DEF DecideExpiredApproval
  <2> QED
    BY <1>t, <2>1, <2>2, <2>3, <2>4, <2>5, <2>6, <2>7, UnchangedOutbox,
       KeepsApprovalsKnown, KeepsDeliveriesKnown, KeepsOneDelivery
<1> QED
  BY <1>1, <1>2, <1>3, <1>4, <1>5 DEF ApprovalStep

LEMMA OutboxLeavesTasks ==
  ASSUME OutboxStep
  PROVE  UNCHANGED <<runs, tasks, approvals>>
<1>1. ASSUME NEW d \in Delivery, NEW t \in Task, NEW a \in Agent,
             NEW key \in DeliveryKey, PrepareDelivery(d, t, a, key)
      PROVE  UNCHANGED <<runs, tasks, approvals>>
  BY <1>1 DEF PrepareDelivery
<1>2. ASSUME NEW d \in Delivery, NEW lease \in ClaimLease, ClaimDelivery(d, lease)
      PROVE  UNCHANGED <<runs, tasks, approvals>>
  BY <1>2 DEF ClaimDelivery
<1>3. ASSUME NEW d \in Delivery, BecomesUncertain(d)
      PROVE  UNCHANGED <<runs, tasks, approvals>>
  BY <1>3 DEF BecomesUncertain
<1>4. ASSUME NEW d \in Delivery, NEW claim, NEW outcome, NEW retryable,
             RecordOutcome(d, claim, outcome, retryable)
      PROVE  UNCHANGED <<runs, tasks, approvals>>
  BY <1>4 DEF RecordOutcome
<1>5. ASSUME NEW d \in Delivery, RetryDelivery(d) \/ CancelDelivery(d)
      PROVE  UNCHANGED <<runs, tasks, approvals>>
  BY <1>5 DEF RetryDelivery, CancelDelivery
<1>6. ASSUME NEW d \in Delivery, NEW decision, NEW retryable,
             ResolveUncertain(d, decision, retryable)
      PROVE  UNCHANGED <<runs, tasks, approvals>>
  BY <1>6 DEF ResolveUncertain
<1>7. ASSUME NEW version, ReopenWithRegistry(version)
      PROVE  UNCHANGED <<runs, tasks, approvals>>
  BY <1>7 DEF ReopenWithRegistry
<1> QED
  BY <1>1, <1>2, <1>3, <1>4, <1>5, <1>6, <1>7
  DEF OutboxStep, ClaimFindsExpiredLease, RecordOutcomeTooLate, ReconcileExpired

LEMMA OutboxInv ==
  ASSUME Inv, OutboxStep
  PROVE  Inv'
<1> USE DEF Inv
<1>t. TypeOK'
  BY OutboxType
<1>u. UNCHANGED <<runs, tasks, approvals>>
  BY OutboxLeavesTasks
<1>0. ASSUME DeliveriesPersist, GivenUpAttemptIsSettled'
      PROVE  Inv'
  BY <1>t, <1>u, <1>0, UnchangedTasks, KeepsDeliveriesKnown, KeepsOneDelivery
<1>1. ASSUME NEW d \in Delivery, NEW t \in Task, NEW a \in Agent,
             NEW key \in DeliveryKey, PrepareDelivery(d, t, a, key)
      PROVE  Inv'
  <2>1. DeliveriesKnown'
    BY <1>1 DEF PrepareDelivery, Prepared, NoDelivery, DeliveriesKnown, TypeOK
  <2>2. OneDeliveryPerAttempt'
    BY <1>1 DEF PrepareDelivery, Prepared, NoDelivery, DeliveriesOf, OneDeliveryPerAttempt,
                TypeOK, DeliveryRecord
  <2>3. GivenUpAttemptIsSettled'
    BY <1>1 DEF PrepareDelivery, Prepared, NoDelivery, LiveStatus, TypeOK,
                GivenUpAttemptIsSettled
  <2> QED
    BY <1>t, <1>u, <2>1, <2>2, <2>3, UnchangedTasks
<1>2. ASSUME NEW d \in Delivery, NEW lease \in ClaimLease, ClaimDelivery(d, lease)
      PROVE  Inv'
  <2>1. DeliveriesPersist
    BY <1>2
     DEF ClaimDelivery, DeliveriesPersist, TypeOK, DeliveryRecord
  <2>2. GivenUpAttemptIsSettled'
    BY <1>2
     DEF ClaimDelivery, GivenUpAttemptIsSettled, LiveStatus,
         DeliveriesKnown, TypeOK, DeliveryRecord
  <2> QED
    BY <1>0, <2>1, <2>2
<1>3. ASSUME NEW d \in Delivery, outbox[d].status = "claimed",
             BecomesUncertain(d)
      PROVE  Inv'
  <2>1. DeliveriesPersist
    BY <1>3
     DEF BecomesUncertain, DeliveriesPersist, TypeOK, DeliveryRecord
  <2>2. GivenUpAttemptIsSettled'
    BY <1>3
     DEF BecomesUncertain, GivenUpAttemptIsSettled, LiveStatus,
         DeliveriesKnown, TypeOK, DeliveryRecord
  <2> QED
    BY <1>0, <2>1, <2>2
<1>4. ASSUME NEW d \in Delivery, NEW claim, NEW retryable \in BOOLEAN,
             NEW outcome \in {"simulated", "failed", "uncertain"},
             RecordOutcome(d, claim, outcome, retryable)
      PROVE  Inv'
  <2>1. DeliveriesPersist
    BY <1>4
     DEF RecordOutcome, HoldsClaim, DeliveriesPersist, TypeOK,
         DeliveryRecord
  <2>2. GivenUpAttemptIsSettled'
    BY <1>4
     DEF RecordOutcome, HoldsClaim, GivenUpAttemptIsSettled, LiveStatus,
         DeliveriesKnown, TypeOK, DeliveryRecord
  <2> QED
    BY <1>0, <2>1, <2>2
<1>5. ASSUME NEW d \in Delivery, RetryDelivery(d)
      PROVE  Inv'
  <2>1. DeliveriesPersist
    BY <1>5
     DEF RetryDelivery, SourceTaskActive, DeliveriesPersist, TypeOK,
         DeliveryRecord
  <2>2. GivenUpAttemptIsSettled'
    BY <1>5
     DEF RetryDelivery, SourceTaskActive, GivenUpAttemptIsSettled,
         LiveStatus, DeliveriesKnown, TypeOK, DeliveryRecord
  <2> QED
    BY <1>0, <2>1, <2>2
<1>6. ASSUME NEW d \in Delivery, CancelDelivery(d)
      PROVE  Inv'
  <2>1. DeliveriesPersist
    BY <1>6
     DEF CancelDelivery, DeliveriesPersist, TypeOK, DeliveryRecord
  <2>2. GivenUpAttemptIsSettled'
    BY <1>6
     DEF CancelDelivery, GivenUpAttemptIsSettled, LiveStatus,
         DeliveriesKnown, TypeOK, DeliveryRecord
  <2> QED
    BY <1>0, <2>1, <2>2
<1>7. ASSUME NEW d \in Delivery, NEW retryable \in BOOLEAN,
             NEW decision \in {"simulated", "failed", "cancelled"},
             ResolveUncertain(d, decision, retryable)
      PROVE  Inv'
  <2>1. DeliveriesPersist
    BY <1>7
     DEF ResolveUncertain, DeliveriesPersist, TypeOK, DeliveryRecord
  <2>2. GivenUpAttemptIsSettled'
    BY <1>7
     DEF ResolveUncertain, GivenUpAttemptIsSettled, LiveStatus,
         DeliveriesKnown, TypeOK, DeliveryRecord
  <2> QED
    BY <1>0, <2>1, <2>2
<1>8. ASSUME NEW g \in Registries, ReopenWithRegistry(g)
      PROVE  Inv'
  BY <1>8, <1>0, UnchangedOutbox
     DEF ReopenWithRegistry, GivenUpAttemptIsSettled
<1> QED
  BY <1>1, <1>2, <1>3, <1>4, <1>5, <1>6, <1>7, <1>8
  DEF OutboxStep, ClaimFindsExpiredLease, RecordOutcomeTooLate, ReconcileExpired,
      HoldsClaim

LEMMA NextInv == Inv /\ [Next]_vars => Inv'
<1> SUFFICES ASSUME Inv, [Next]_vars PROVE Inv'
  OBVIOUS
<1>1. TypeOK'
  BY NextType DEF Inv
<1>2. CASE UNCHANGED <<runs, tasks, approvals, outbox>>
  <2>1. DeliveriesPersist
    BY <1>2, UnchangedOutbox
  <2>2. GivenUpAttemptIsSettled'
    BY <1>2 DEF Inv, GivenUpAttemptIsSettled
  <2> QED
    BY <1>1, <1>2, <2>1, <2>2, UnchangedTasks, KeepsDeliveriesKnown, KeepsOneDelivery
    DEF Inv
<1> QED
  BY <1>2, WorkflowInv, ApprovalInv, OutboxInv DEF Next, Tick, vars

LEMMA Invariance == Spec => []Inv
  BY InitInv, NextInv, PTL DEF Spec

-----------------------------------------------------------------------------

\* A task has an owner exactly while it is in progress, and the owner holds
\* its role.
THEOREM OwnerCorrect == Spec => []OwnerOnlyWhileInProgress
  BY Invariance, PTL DEF Inv

\* A task has at most one undecided or unspent approval, and never one while it
\* is being executed or of an attempt that is over.
THEOREM OneOpenApprovalCorrect == Spec => []OneOpenApproval
  BY Invariance, PTL DEF Inv

\* One attempt of a task has one delivery; an agent's idempotency key names one.
THEOREM OneDeliveryCorrect == Spec => []OneDeliveryPerAttempt
  BY Invariance, PTL DEF Inv

\* No delivery of a given-up attempt, or of a cancelled task, can still be
\* claimed, reported or reviewed.
THEOREM GivenUpCorrect == Spec => []GivenUpAttemptIsSettled
  BY Invariance, PTL DEF Inv

-----------------------------------------------------------------------------
(* What approvals and claims are worth: action properties *)

\* Only claimTask puts a task in progress.
LEMMA OnlyClaimTaskExecutes ==
  ASSUME Inv, Next, NEW t \in Task,
         tasks[t].status # "in_progress", tasks'[t].status = "in_progress"
  PROVE  Authorize(t)
<1> USE DEF Inv, TypeOK, TaskRecord
<1>1. ASSUME NEW r \in Run, NEW key \in RunKey \cup {None}, StartWorkflow(r, key)
      PROVE  FALSE
  BY <1>1 DEF StartWorkflow, InitialTask, NoTask
<1>2. ASSUME NEW u \in Task, NEW a \in Agent, ClaimTask(u, a)
      PROVE  Authorize(t)
  BY <1>2 DEF ClaimTask
<1>3. ASSUME NEW u \in Task, NEW a \in Agent, CompleteTask(u, a)
      PROVE  FALSE
  BY <1>3 DEF CompleteTask
<1>4. ASSUME NEW u \in Task, NEW a \in Agent, NEW retryable \in BOOLEAN,
             FailTask(u, a, retryable)
      PROVE  FALSE
  BY <1>4 DEF FailTask
<1>5. ASSUME NEW u \in Task, NEW a \in Agent, NEW c \in Task, NEW role \in Role,
             NEW kind \in HandoffKind, HandoffTask(u, a, c, role, kind)
      PROVE  FALSE
  BY <1>5 DEF HandoffTask, NoTask
<1>6. ASSUME NEW u \in Task, RetryTask(u) \/ CancelTask(u)
      PROVE  FALSE
  BY <1>6 DEF RetryTask, CancelTask
<1>7. ASSUME NEW u \in Task, NEW x \in Approval, NEW ttl \in ApprovalTtl,
             RequestApproval(u, x, ttl)
      PROVE  FALSE
  BY <1>7 DEF RequestApproval
<1>r. ASSUME NEW u \in Task, RequestApprovalRefused(u)
      PROVE  FALSE
  BY <1>r DEF RequestApprovalRefused, StatusAfterExpiry
<1>8. ASSUME NEW x \in Approval,
             GrantApproval(x) \/ DenyApproval(x) \/ DecideExpiredApproval(x)
      PROVE  FALSE
  BY <1>8 DEF GrantApproval, DenyApproval, DecideExpiredApproval, StatusAfterExpiry
<1>9. CASE OutboxStep \/ Tick
  BY <1>9, OutboxLeavesTasks DEF Tick
<1> QED
  BY <1>1, <1>2, <1>3, <1>4, <1>5, <1>6, <1>7, <1>r, <1>8, <1>9
  DEF Next, WorkflowStep, ApprovalStep

\* No step changes a spent approval.
LEMMA SpentStaysSpent ==
  ASSUME Inv, Next, NEW x \in Approval, approvals[x].status = "consumed"
  PROVE  approvals'[x] = approvals[x]
<1> USE DEF Inv, TypeOK
<1>1. CASE WorkflowStep
  <2>1. ASSUME NEW t \in Task, NEW a \in Agent, ClaimTask(t, a)
        PROVE  approvals'[x] = approvals[x]
    BY <2>1 DEF ClaimTask, Authorize, UsableApprovals
  <2>2. ASSUME NEW r \in Run, NEW key \in RunKey \cup {None}, StartWorkflow(r, key)
        PROVE  approvals' = approvals
    BY <2>2 DEF StartWorkflow
  <2>3. ASSUME NEW t \in Task, NEW a \in Agent,
               CompleteTask(t, a) \/ \E b \in BOOLEAN : FailTask(t, a, b)
        PROVE  approvals' = approvals
    BY <2>3 DEF CompleteTask, FailTask
  <2>4. ASSUME NEW t \in Task, NEW a \in Agent, NEW c \in Task, NEW role \in Role,
               NEW kind \in HandoffKind, HandoffTask(t, a, c, role, kind)
        PROVE  approvals' = approvals
    BY <2>4 DEF HandoffTask
  <2>5. ASSUME NEW t \in Task, RetryTask(t) \/ CancelTask(t)
        PROVE  approvals' = approvals
    BY <2>5 DEF RetryTask, CancelTask
  <2> QED
    BY <1>1, <2>1, <2>2, <2>3, <2>4, <2>5 DEF WorkflowStep
<1>2. ASSUME NEW t \in Task, NEW y \in Approval, NEW ttl \in ApprovalTtl,
             RequestApproval(t, y, ttl)
      PROVE  approvals'[x] = approvals[x]
  BY <1>2 DEF RequestApproval, StaleApprovals, Expired
<1>3. ASSUME NEW t \in Task, RequestApprovalRefused(t)
      PROVE  approvals'[x] = approvals[x]
  BY <1>3 DEF RequestApprovalRefused, StaleApprovals, Expired
<1>4. ASSUME NEW y \in Approval,
             GrantApproval(y) \/ DenyApproval(y) \/ DecideExpiredApproval(y)
      PROVE  approvals'[x] = approvals[x]
  BY <1>4 DEF GrantApproval, DenyApproval, DecideExpiredApproval, Decidable, Expired
<1>5. CASE OutboxStep \/ Tick
  BY <1>5, OutboxLeavesTasks DEF Tick
<1> QED
  BY <1>1, <1>2, <1>3, <1>4, <1>5 DEF Next, ApprovalStep

\* An A2 task starts only in a step that spends a granted approval of this very
\* attempt that has not expired, and a spent approval is never spent again.
THEOREM ExecutionCorrect == Spec => ExecutionSpendsApproval
<1> DEFINE Spends(t) == \E x \in Approval : /\ approvals[x].status = "granted"
                                            /\ approvals'[x].status = "consumed"
                                            /\ approvals[x].task = t
                                            /\ approvals[x].attempt = tasks[t].attempt
                                            /\ approvals[x].expiresAt > now
           Step == /\ \A t \in Task : /\ tasks[t].kind = "A2"
                                      /\ tasks[t].status # "in_progress"
                                      /\ tasks'[t].status = "in_progress"
                                      => Spends(t)
                   /\ \A x \in Approval : approvals[x].status = "consumed" =>
                                            approvals'[x] = approvals[x]
<1>1. ASSUME Inv, Next PROVE Step
  <2>1. ASSUME NEW t \in Task, tasks[t].kind = "A2", tasks[t].status # "in_progress",
               tasks'[t].status = "in_progress"
        PROVE  Spends(t)
    <3>1. PICK x \in UsableApprovals(t) :
            approvals' = [approvals EXCEPT ![x].status = "consumed"]
      BY <1>1, <2>1, OnlyClaimTaskExecutes DEF Authorize
    <3> QED
      BY <1>1, <3>1 DEF UsableApprovals, ApprovalsOf, ActiveApproval, Inv, TypeOK,
                        ApprovalRecord
  <2> QED
    BY <1>1, <2>1, SpentStaysSpent
<1>2. Inv /\ [Next]_vars => [Step]_vars
  BY <1>1
<1> QED
  BY <1>2, Invariance, PTL DEF Spec, ExecutionSpendsApproval


=============================================================================
