-------------------------- MODULE FdosRuntimeTasks --------------------------
(***************************************************************************)
(* The invariants that relate tasks to one another, to their run, to their *)
(* approvals and to their deliveries, and the action properties of tasks   *)
(* and runs, for every value of the constants. TInv, on top of the Inv of  *)
(* FdosRuntimeSafety, is inductive: an approval can make a cancelled task  *)
(* ready again, so that the two gates (dependencies and children) need     *)
(* OpenApprovalIsStartable; a child has to be of its parent's run, or the  *)
(* completion of the child would not return the parent (ParentsKnown).     *)
(***************************************************************************)
EXTENDS FdosRuntimeSafety

\* What claimTask wants completed before t may start.
Startable(t) ==
  /\ \A d \in DependsOn[t] : tasks[d].status = "completed"
  /\ \A c \in Children(t) : tasks[c].status = "completed"

\* A child exists, is no step of the workflow, and its parent is an existing
\* task of the same run.
ParentsKnown ==
  \A c \in Task : tasks[c].parent # None =>
    /\ c \notin StepTask
    /\ tasks[c].status # "absent"
    /\ tasks[c].parent \in Task
    /\ tasks[tasks[c].parent].status # "absent"
    /\ RunOf[tasks[c].parent] = RunOf[c]

\* An approval that can still be decided or spent is of a task nothing else
\* holds back, even when the task was cancelled meanwhile.
OpenApprovalIsStartable ==
  \A x \in Approval : Open(x) => Startable(approvals[x].task)

TInv ==
  /\ ParentsKnown
  /\ OpenApprovalIsStartable
  /\ DependenciesGateTheirSteps
  /\ HandoffSuspendsParent
  /\ RunAgreesWithTasks
  /\ WaitingTaskHasRequest
  /\ CompletedTaskWasDelivered

-----------------------------------------------------------------------------
(* Steps that move one task *)

\* Most commands move one existing task that is not completed, and neither
\* block it again nor let it wait for a child.
Moves(t) ==
  /\ \A u \in Task \ {t} : tasks'[u] = tasks[u]
  /\ tasks'[t].parent = tasks[t].parent
  /\ tasks[t].status \notin {"absent", "completed"}
  /\ tasks'[t].status \notin {"absent", "completed", "blocked", "waiting_handoff"}

\* What is completed stays as it is.
Final ==
  /\ \A t \in Task : tasks[t].status = "completed" => tasks'[t] = tasks[t]
  /\ \A r \in Run : runs[r].status = "completed" => runs'[r] = runs[r]

\* A task that is past its gates: neither blocked nor waiting nor cancelled.
LEMMA PassedTheGates ==
  ASSUME Inv, TInv, NEW t \in Task,
         tasks[t].status \notin {"absent", "blocked", "waiting_handoff", "cancelled"}
  PROVE  Startable(t)
<1>1. \A d \in DependsOn[t] : tasks[d].status = "completed"
  BY WorkflowAssumption DEF WorkflowAssumption, TInv, DependenciesGateTheirSteps
<1>2. \A c \in Children(t) : tasks[c].status = "completed"
  BY DEF TInv, HandoffSuspendsParent
<1> QED
  BY <1>1, <1>2 DEF Startable

\* A task that is moved only into "cancelled", or when it may start, leaves
\* the gates of all tasks as they were.
LEMMA MovedTask ==
  ASSUME Inv, TInv, NEW t \in Task, Moves(t),
         Startable(t) \/ tasks'[t].status = "cancelled"
  PROVE  /\ ParentsKnown'
         /\ DependenciesGateTheirSteps'
         /\ HandoffSuspendsParent'
         /\ \A u \in Task : Startable(u) => Startable(u)'
<1>a. \A u \in Task : /\ tasks'[u].parent = tasks[u].parent
                      /\ tasks'[u].status = "completed" <=> tasks[u].status = "completed"
                      /\ tasks'[u].status = "absent" <=> tasks[u].status = "absent"
  BY DEF Moves
<1>b. \A u \in Task : Children(u)' = Children(u)
  BY <1>a DEF Children
<1>c. \A u \in Task : DependsOn[u] \subseteq Task
  BY WorkflowAssumption DEF WorkflowAssumption
<1>1. ParentsKnown'
  BY <1>a DEF TInv, ParentsKnown
<1>2. \A u \in Task : Startable(u) => Startable(u)'
  <2> SUFFICES ASSUME NEW u \in Task, Startable(u) PROVE Startable(u)'
    OBVIOUS
  <2>1. \A d \in DependsOn[u] : tasks'[d].status = "completed"
    BY <1>a, <1>c DEF Startable
  <2>2. \A c \in Children(u) : tasks'[c].status = "completed"
    BY <1>a DEF Startable, Children
  <2> QED
    BY <1>b, <2>1, <2>2 DEF Startable
<1>3. DependenciesGateTheirSteps'
  <2> SUFFICES ASSUME NEW u \in StepTask
               PROVE  /\ tasks'[u].status = "blocked" =>
                           \E d \in DependsOn[u] : tasks'[d].status # "completed"
                      /\ tasks'[u].status \notin {"absent", "blocked", "cancelled"} =>
                           \A d \in DependsOn[u] : tasks'[d].status = "completed"
    BY DEF DependenciesGateTheirSteps
  <2>1. u \in Task
    BY WorkflowAssumption DEF WorkflowAssumption
  <2>2. CASE u = t
    BY <1>2, <2>1, <2>2 DEF Moves, Startable
  <2>3. CASE u # t
    BY <1>a, <1>c, <2>1, <2>3 DEF Moves, TInv, DependenciesGateTheirSteps
  <2> QED
    BY <2>2, <2>3
<1>4. HandoffSuspendsParent'
  <2> SUFFICES ASSUME NEW p \in Task
               PROVE  /\ tasks'[p].status = "waiting_handoff" =>
                           \E c \in Children(p) : tasks'[c].status # "completed"
                      /\ (\E c \in Children(p) : tasks'[c].status # "completed") =>
                           tasks'[p].status \in {"waiting_handoff", "cancelled"}
    BY <1>b DEF HandoffSuspendsParent
  <2>1. CASE p = t
    BY <1>2, <1>b, <2>1 DEF Moves, Startable
  <2>2. CASE p # t
    BY <1>a, <2>2 DEF Moves, TInv, HandoffSuspendsParent, Children
  <2> QED
    BY <2>1, <2>2
<1> QED
  BY <1>1, <1>2, <1>3, <1>4

\* Open approvals stay startable when no other approval is opened.
LEMMA KeepsOpenApprovals ==
  ASSUME Inv, TInv,
         \A u \in Task : Startable(u) => Startable(u)',
         \A x \in Approval : Open(x)' => /\ Open(x)
                                        /\ approvals'[x].task = approvals[x].task
  PROVE  OpenApprovalIsStartable'
<1>1. \A x \in Approval : Open(x) => approvals[x].task \in Task
  BY DEF Inv, ApprovalsKnown, Open
<1> SUFFICES ASSUME NEW x \in Approval, Open(x)' PROVE Startable(approvals[x].task)'
  BY DEF OpenApprovalIsStartable
<1> QED
  BY <1>1 DEF TInv, OpenApprovalIsStartable

\* A waiting task keeps its request when the step leaves both alone.
LEMMA KeepsRequests ==
  ASSUME TInv, 
         \A u \in Task : tasks'[u].status = "waiting_approval" =>
           /\ tasks[u].status = "waiting_approval"
           /\ tasks'[u].attempt = tasks[u].attempt
           /\ \A x \in ApprovalsOf(u) :
                approvals[x].status = "requested" => approvals'[x] = approvals[x]
  PROVE  WaitingTaskHasRequest'
<1> SUFFICES ASSUME NEW u \in Task, tasks'[u].status = "waiting_approval"
             PROVE  \E x \in ApprovalsOf(u)' : approvals'[x].status = "requested"
  BY DEF WaitingTaskHasRequest
<1>1. PICK x \in ApprovalsOf(u) : approvals[x].status = "requested"
  BY DEF TInv, WaitingTaskHasRequest
<1> QED
  BY <1>1 DEF ApprovalsOf

\* A completed task keeps its simulated delivery when the step completes no
\* task and leaves the outbox alone.
LEMMA KeepsDelivered ==
  ASSUME TInv, outbox' = outbox,
         \A u \in Task : tasks'[u].status = "completed" => tasks'[u] = tasks[u]
  PROVE  CompletedTaskWasDelivered'
<1> SUFFICES ASSUME \A g \in Registries : g.covers,
                    NEW u \in Task, tasks'[u].status = "completed",
                    tasks'[u].kind = "connector"
             PROVE  \E d \in Delivery : /\ DeliveriesOf(u)' = {d}
                                       /\ outbox'[d].status = "simulated"
  BY DEF CompletedTaskWasDelivered
<1>1. DeliveriesOf(u)' = DeliveriesOf(u)
  BY DEF DeliveriesOf
<1> QED
  BY <1>1 DEF TInv, CompletedTaskWasDelivered

-----------------------------------------------------------------------------
(* What the run of a moved task becomes *)

\* The run stays as it is when no task of it fails or stops being failed.
LEMMA RunUnchanged ==
  ASSUME Inv, TInv, NEW t \in Task, Moves(t), runs' = runs,
         tasks[t].status # "failed", tasks'[t].status # "failed"
  PROVE  RunAgreesWithTasks' /\ Final
<1>1. \A r \in Run : TasksOf(r)' = TasksOf(r)
  BY DEF TasksOf, Moves
<1>2. \A u \in Task : /\ tasks'[u].status = "completed" <=> tasks[u].status = "completed"
                      /\ tasks'[u].status = "failed" <=> tasks[u].status = "failed"
  BY DEF Moves
<1>3. \A r \in Run : TasksOf(r) \subseteq Task
  BY DEF TasksOf
<1>4. RunAgreesWithTasks'
  <2> SUFFICES ASSUME NEW r \in Run
               PROVE  /\ runs[r].status = "absent" <=> TasksOf(r) = {}
                      /\ runs[r].status \in {"completed", "absent"} <=>
                           \A u \in TasksOf(r) : tasks'[u].status = "completed"
                      /\ runs[r].status = "failed" =>
                           \E u \in TasksOf(r) : tasks'[u].status = "failed"
                      /\ runs[r].status = "active" =>
                           \A u \in TasksOf(r) : tasks'[u].status # "failed"
    BY <1>1 DEF RunAgreesWithTasks
  <2> QED
    BY <1>2, <1>3 DEF TInv, RunAgreesWithTasks
<1> QED
  BY <1>4 DEF Final, Moves

\* The run takes the status of a task that failed or was cancelled, or is
\* active again when no other task of it failed.
LEMMA RunFollows ==
  ASSUME Inv, TInv, NEW t \in Task, Moves(t), NEW s,
         runs' = [runs EXCEPT ![RunOf[t]].status = s],
         \/ s \in {"failed", "cancelled"} /\ tasks'[t].status = s
         \/ s = RunStatusAfterRetry(t) /\ tasks'[t].status = "ready"
  PROVE  RunAgreesWithTasks' /\ Final
<1>1. \A r \in Run : TasksOf(r)' = TasksOf(r) /\ TasksOf(r) \subseteq Task
  BY DEF TasksOf, Moves
<1>2. RunOf[t] \in Run /\ t \in TasksOf(RunOf[t])
  BY WorkflowAssumption DEF WorkflowAssumption, TasksOf, Moves
<1>3. /\ runs'[RunOf[t]].status = s
      /\ \A r \in Run \ {RunOf[t]} : runs'[r] = runs[r]
  BY <1>2 DEF Inv, TypeOK, RunRecord
<1>4. tasks[t].status # "completed" /\ tasks'[t].status # "completed"
  BY DEF Moves
<1>5. runs[RunOf[t]].status # "completed"
  BY <1>2, <1>4 DEF TInv, RunAgreesWithTasks
<1>6. \A u \in Task \ {t} : tasks'[u] = tasks[u]
  BY DEF Moves
<1>7. RunAgreesWithTasks'
  <2> SUFFICES ASSUME NEW r \in Run
               PROVE  /\ runs'[r].status = "absent" <=> TasksOf(r) = {}
                      /\ runs'[r].status \in {"completed", "absent"} <=>
                           \A u \in TasksOf(r) : tasks'[u].status = "completed"
                      /\ runs'[r].status = "failed" =>
                           \E u \in TasksOf(r) : tasks'[u].status = "failed"
                      /\ runs'[r].status = "active" =>
                           \A u \in TasksOf(r) : tasks'[u].status # "failed"
    BY <1>1 DEF RunAgreesWithTasks
  <2>1. CASE r = RunOf[t]
    <3>1. CASE s \in {"failed", "cancelled"} /\ tasks'[t].status = s
      BY <1>2, <1>3, <1>4, <2>1, <3>1
    <3>2. CASE s = RunStatusAfterRetry(t) /\ tasks'[t].status = "ready"
      BY <1>1, <1>2, <1>3, <1>4, <1>6, <2>1, <3>2 DEF RunStatusAfterRetry
    <3> QED
      BY <3>1, <3>2
  <2>2. CASE r # RunOf[t]
    <3>1. \A u \in TasksOf(r) : tasks'[u] = tasks[u]
      BY <1>1, <1>6, <2>2 DEF TasksOf
    <3> QED
      BY <1>3, <2>2, <3>1 DEF TInv, RunAgreesWithTasks
  <2> QED
    BY <2>1, <2>2
<1> QED
  BY <1>3, <1>4, <1>5, <1>6, <1>7 DEF Final

-----------------------------------------------------------------------------
(* The commands *)

\* A run is started with its steps; what other runs have is left alone.
LEMMA StartWorkflowTasks ==
  ASSUME Inv, TInv, NEW r \in Run, NEW key \in RunKey \cup {None},
         StartWorkflow(r, key)
  PROVE  TInv' /\ Final
<1> DEFINE New == {t \in StepTask : RunOf[t] = r}
<1>a. /\ StepTask \subseteq Task
      /\ \A t \in Task : RunOf[t] \in Run
      /\ \A t \in Task : \A d \in DependsOn[t] :
           d \in StepTask /\ t \in StepTask /\ RunOf[d] = RunOf[t]
  BY WorkflowAssumption DEF WorkflowAssumption
<1>b. \A t \in New : /\ tasks[t].status = "absent" /\ tasks[t].parent = None
                     /\ \A c \in Task : tasks[c].parent # t
  <2>1. \A t \in New : tasks[t].status = "absent"
    BY <1>a DEF StartWorkflow, Inv, TasksKnown
  <2> QED
    BY <2>1, <1>a, NoneAssumption DEF NoneAssumption, TInv, ParentsKnown
<1>c. ASSUME NEW t \in New
      PROVE  /\ tasks'[t].status = IF DependsOn[t] = {} THEN "ready" ELSE "blocked"
             /\ tasks'[t].parent = None
  BY <1>a DEF StartWorkflow, InitialTask, NoTask
<1>d. \A t \in Task \ New : tasks'[t] = tasks[t]
  BY DEF StartWorkflow
<1>e. approvals' = approvals /\ outbox' = outbox
  BY DEF StartWorkflow
<1>f. /\ runs'[r].status = "active"
      /\ runs[r].status = "absent"
      /\ \A q \in Run \ {r} : runs'[q] = runs[q]
  BY DEF StartWorkflow, NoRun, Inv, TypeOK
<1> HIDE DEF New
<1>g. \A t \in Task : tasks'[t].parent = tasks[t].parent
  BY <1>b, <1>c, <1>d
<1>h. \A t \in Task : tasks'[t].status = "completed" <=> tasks[t].status = "completed"
  BY <1>b, <1>c, <1>d
<1>i. \A t \in Task : Children(t)' = Children(t)
  BY <1>g DEF Children
<1>1. ParentsKnown'
  BY <1>b, <1>c, <1>d, <1>g DEF TInv, ParentsKnown
<1>2. \A t \in Task : Startable(t) => Startable(t)'
  BY <1>a, <1>h, <1>i DEF Startable, Children
<1>3. OpenApprovalIsStartable'
  BY <1>2, <1>e, KeepsOpenApprovals DEF Open
<1>4. DependenciesGateTheirSteps'
  <2> SUFFICES ASSUME NEW t \in StepTask
               PROVE  /\ tasks'[t].status = "blocked" =>
                           \E d \in DependsOn[t] : tasks'[d].status # "completed"
                      /\ tasks'[t].status \notin {"absent", "blocked", "cancelled"} =>
                           \A d \in DependsOn[t] : tasks'[d].status = "completed"
    BY DEF DependenciesGateTheirSteps
  <2>1. CASE t \in New
    <3>1. \A d \in DependsOn[t] : tasks'[d].status # "completed"
      BY <1>a, <1>b, <1>h, <2>1 DEF New
    <3> QED
      BY <1>c, <2>1, <3>1
  <2>2. CASE t \notin New
    BY <1>a, <1>d, <1>h, <2>2 DEF TInv, DependenciesGateTheirSteps
  <2> QED
    BY <2>1, <2>2
<1>5. HandoffSuspendsParent'
  <2> SUFFICES ASSUME NEW p \in Task
               PROVE  /\ tasks'[p].status = "waiting_handoff" =>
                           \E c \in Children(p) : tasks'[c].status # "completed"
                      /\ (\E c \in Children(p) : tasks'[c].status # "completed") =>
                           tasks'[p].status \in {"waiting_handoff", "cancelled"}
    BY <1>i DEF HandoffSuspendsParent
  <2>1. CASE p \in New
    BY <1>b, <1>c, <2>1 DEF Children
  <2>2. CASE p \notin New
    BY <1>d, <1>h, <2>2 DEF TInv, HandoffSuspendsParent, Children
  <2> QED
    BY <2>1, <2>2
<1>6. RunAgreesWithTasks'
  <2>1. PICK s \in New : TRUE
    BY StepAssumption DEF StepAssumption, New
  <2>2. s \in TasksOf(r)' /\ tasks'[s].status \in {"ready", "blocked"}
    BY <1>a, <1>c DEF TasksOf, New
  <2>3. \A t \in TasksOf(r)' : t \in New /\ tasks'[t].status \in {"ready", "blocked"}
    BY <1>a, <1>c, <1>d, <1>f DEF TasksOf, New, Inv, TasksKnown
  <2>4. \A q \in Run \ {r} : /\ TasksOf(q)' = TasksOf(q)
                             /\ \A t \in TasksOf(q) : tasks'[t] = tasks[t]
    BY <1>a, <1>d DEF TasksOf, New
  <2> SUFFICES ASSUME NEW q \in Run
               PROVE  /\ runs'[q].status = "absent" <=> TasksOf(q)' = {}
                      /\ runs'[q].status \in {"completed", "absent"} <=>
                           \A t \in TasksOf(q)' : tasks'[t].status = "completed"
                      /\ runs'[q].status = "failed" =>
                           \E t \in TasksOf(q)' : tasks'[t].status = "failed"
                      /\ runs'[q].status = "active" =>
                           \A t \in TasksOf(q)' : tasks'[t].status # "failed"
    BY DEF RunAgreesWithTasks
  <2>5. CASE q = r
    BY <1>f, <2>2, <2>3, <2>5
  <2>6. CASE q # r
    BY <1>f, <2>4, <2>6 DEF TInv, RunAgreesWithTasks
  <2> QED
    BY <2>5, <2>6
<1>7. WaitingTaskHasRequest'
  BY <1>c, <1>d, <1>e, KeepsRequests
<1>8. CompletedTaskWasDelivered'
  BY <1>c, <1>d, <1>e, KeepsDelivered
<1>9. Final
  BY <1>b, <1>d, <1>f DEF Final
<1> QED
  BY <1>1, <1>3, <1>4, <1>5, <1>6, <1>7, <1>8, <1>9 DEF TInv

\* What every command that moves one task and opens no approval shares.
LEMMA MovedTaskCommand ==
  ASSUME Inv, TInv, NEW t \in Task, Moves(t),
         Startable(t) \/ tasks'[t].status = "cancelled",
         RunAgreesWithTasks' /\ Final,
         WaitingTaskHasRequest',
         outbox' = outbox,
         \A x \in Approval : Open(x)' => /\ Open(x)
                                        /\ approvals'[x].task = approvals[x].task
  PROVE  TInv' /\ Final
<1>1. /\ ParentsKnown' /\ DependenciesGateTheirSteps' /\ HandoffSuspendsParent'
      /\ \A u \in Task : Startable(u) => Startable(u)'
  BY MovedTask
<1>2. OpenApprovalIsStartable'
  BY <1>1, KeepsOpenApprovals
<1>3. CompletedTaskWasDelivered'
  BY KeepsDelivered DEF Moves
<1> QED
  BY <1>1, <1>2, <1>3 DEF TInv

LEMMA ClaimTaskTasks ==
  ASSUME Inv, TInv, NEW t \in Task, NEW a \in Agent, ClaimTask(t, a)
  PROVE  TInv' /\ Final
<1>1. /\ tasks[t].status = "ready" /\ tasks'[t].status = "in_progress"
      /\ Moves(t)
  BY DEF ClaimTask, Moves, Inv, TypeOK, TaskRecord
<1>2. Startable(t)
  BY <1>1, PassedTheGates
<1>3. \A x \in Approval : /\ approvals'[x].task = approvals[x].task
                          /\ approvals'[x] # approvals[x] =>
                               /\ approvals[x].status = "granted"
                               /\ approvals'[x].status = "consumed"
  BY DEF ClaimTask, Authorize, UsableApprovals, Inv, TypeOK, ApprovalRecord
<1>4. RunAgreesWithTasks' /\ Final
  BY <1>1, RunUnchanged DEF ClaimTask
<1>5. WaitingTaskHasRequest'
  BY <1>1, <1>3, KeepsRequests DEF Moves, ApprovalsOf
<1> QED
  BY <1>1, <1>2, <1>3, <1>4, <1>5, MovedTaskCommand DEF ClaimTask, Open

LEMMA FailTaskTasks ==
  ASSUME Inv, TInv, NEW t \in Task, NEW a \in Agent, NEW retryable \in BOOLEAN,
         FailTask(t, a, retryable)
  PROVE  TInv' /\ Final
<1>1. /\ tasks[t].status = "in_progress" /\ tasks'[t].status = "failed"
      /\ Moves(t)
  BY DEF FailTask, Claimed, Moves, Inv, TypeOK, TaskRecord
<1>2. Startable(t)
  BY <1>1, PassedTheGates
<1>3. RunAgreesWithTasks' /\ Final
  BY <1>1, RunFollows DEF FailTask
<1>4. WaitingTaskHasRequest'
  BY <1>1, KeepsRequests DEF FailTask, Moves
<1> QED
  BY <1>1, <1>2, <1>3, <1>4, MovedTaskCommand DEF FailTask, Open

LEMMA RetryTaskTasks ==
  ASSUME Inv, TInv, NEW t \in Task, RetryTask(t)
  PROVE  TInv' /\ Final
<1>1. /\ tasks[t].status = "failed" /\ tasks'[t].status = "ready"
      /\ Moves(t)
  BY DEF RetryTask, Moves, Inv, TypeOK, TaskRecord
<1>2. Startable(t)
  BY <1>1, PassedTheGates
<1>3. RunAgreesWithTasks' /\ Final
  BY <1>1, RunFollows DEF RetryTask
<1>4. WaitingTaskHasRequest'
  BY <1>1, KeepsRequests DEF RetryTask, Moves
<1> QED
  BY <1>1, <1>2, <1>3, <1>4, MovedTaskCommand DEF RetryTask, Open

LEMMA CancelTaskTasks ==
  ASSUME Inv, TInv, NEW t \in Task, CancelTask(t)
  PROVE  TInv' /\ Final
<1>1. tasks'[t].status = "cancelled" /\ Moves(t)
  BY DEF CancelTask, Moves, Inv, TypeOK, TaskRecord
<1>3. RunAgreesWithTasks' /\ Final
  BY <1>1, RunFollows DEF CancelTask
<1>4. WaitingTaskHasRequest'
  BY <1>1, KeepsRequests DEF CancelTask, Moves
<1> QED
  BY <1>1, <1>3, <1>4, MovedTaskCommand DEF CancelTask, Open

\* The parent waits for a new child of its run.
LEMMA HandoffTaskTasks ==
  ASSUME Inv, TInv, NEW p \in Task, NEW a \in Agent, NEW c \in Task,
         NEW role \in Role, NEW kind \in HandoffKind, HandoffTask(p, a, c, role, kind)
  PROVE  TInv' /\ Final
<1>a. /\ p # c /\ c \notin StepTask /\ RunOf[c] = RunOf[p]
      /\ tasks[p].status = "in_progress" /\ tasks[c].status = "absent"
      /\ runs[RunOf[p]].status = "active"
  BY DEF HandoffTask, Claimed
<1>b. /\ tasks'[p].status = "waiting_handoff" /\ tasks'[p].parent = tasks[p].parent
      /\ tasks'[c].status = "ready" /\ tasks'[c].parent = p
      /\ \A u \in Task \ {p, c} : tasks'[u] = tasks[u]
  BY <1>a DEF HandoffTask, NoTask, Inv, TypeOK, TaskRecord
<1>c. UNCHANGED <<runs, approvals, outbox>>
  BY DEF HandoffTask
<1>d. \A u \in Task : tasks'[u].status = "completed" <=> tasks[u].status = "completed"
  BY <1>a, <1>b
<1>e. /\ \A u \in Task \ {p} : Children(u)' = Children(u)
      /\ Children(p)' = Children(p) \cup {c}
  <2>1. tasks[c].parent = None
    BY <1>a DEF TInv, ParentsKnown
  <2> QED
    BY <1>b, <2>1, NoneAssumption DEF NoneAssumption, Children
<1>f. p \in Task /\ \A u \in Task : DependsOn[u] \subseteq Task
  BY WorkflowAssumption DEF WorkflowAssumption
<1>1. ParentsKnown'
  BY <1>a, <1>b DEF TInv, ParentsKnown
<1>2. OpenApprovalIsStartable'
  <2>1. \A x \in Approval : Open(x) => /\ approvals[x].task \in Task \ {p}
                                      /\ Startable(approvals[x].task)
    BY <1>a DEF Open, Inv, OneOpenApproval, ApprovalsKnown, TInv, OpenApprovalIsStartable
  <2>2. ASSUME NEW u \in Task \ {p}, Startable(u)
        PROVE  Startable(u)'
    <3>1. Children(u) \subseteq Task
      BY DEF Children
    <3> QED
      BY <1>d, <1>e, <1>f, <2>2, <3>1 DEF Startable
  <2> QED
    BY <1>c, <2>1, <2>2 DEF OpenApprovalIsStartable, Open
<1>3. DependenciesGateTheirSteps'
  BY <1>a, <1>b, <1>d, <1>f, WorkflowAssumption
  DEF WorkflowAssumption, TInv, DependenciesGateTheirSteps
<1>4. HandoffSuspendsParent'
  <2> SUFFICES ASSUME NEW u \in Task
               PROVE  /\ tasks'[u].status = "waiting_handoff" =>
                           \E k \in Children(u)' : tasks'[k].status # "completed"
                      /\ (\E k \in Children(u)' : tasks'[k].status # "completed") =>
                           tasks'[u].status \in {"waiting_handoff", "cancelled"}
    BY DEF HandoffSuspendsParent
  <2>1. CASE u = p
    BY <1>b, <1>e, <2>1
  <2>2. CASE u = c
    <3>1. Children(c) = {}
      BY <1>a, NoneAssumption DEF NoneAssumption, Children, TInv, ParentsKnown
    <3> QED
      BY <1>a, <1>b, <1>e, <2>2, <3>1
  <2>3. CASE u \notin {p, c}
    BY <1>b, <1>d, <1>e, <2>3 DEF Children, TInv, HandoffSuspendsParent
  <2> QED
    BY <2>1, <2>2, <2>3
<1>5. RunAgreesWithTasks'
  <2>1. /\ p \in TasksOf(RunOf[p])
        /\ TasksOf(RunOf[p])' = TasksOf(RunOf[p]) \cup {c}
        /\ \A r \in Run \ {RunOf[p]} :
             /\ TasksOf(r)' = TasksOf(r)
             /\ \A u \in TasksOf(r) : tasks'[u] = tasks[u]
    BY <1>a, <1>b DEF TasksOf
  <2>2. \A u \in TasksOf(RunOf[p])' : tasks'[u].status # "failed"
    BY <1>a, <1>b, WorkflowAssumption
    DEF WorkflowAssumption, TasksOf, TInv, RunAgreesWithTasks
  <2>3. \A r \in Run : runs'[r] = runs[r]
    BY <1>c
  <2> SUFFICES ASSUME NEW r \in Run
               PROVE  /\ runs'[r].status = "absent" <=> TasksOf(r)' = {}
                      /\ runs'[r].status \in {"completed", "absent"} <=>
                           \A t \in TasksOf(r)' : tasks'[t].status = "completed"
                      /\ runs'[r].status = "failed" =>
                           \E t \in TasksOf(r)' : tasks'[t].status = "failed"
                      /\ runs'[r].status = "active" =>
                           \A t \in TasksOf(r)' : tasks'[t].status # "failed"
    BY DEF RunAgreesWithTasks
  <2>4. CASE r = RunOf[p]
    BY <1>a, <1>b, <2>1, <2>2, <2>3, <2>4
  <2>5. CASE r # RunOf[p]
    BY <2>1, <2>3, <2>5 DEF TInv, RunAgreesWithTasks
  <2> QED
    BY <2>4, <2>5
<1>6. WaitingTaskHasRequest'
  BY <1>b, <1>c, KeepsRequests
<1>7. CompletedTaskWasDelivered'
  BY <1>a, <1>b, <1>c, KeepsDelivered
<1>8. Final
  BY <1>a, <1>b, <1>c DEF Final
<1> QED
  BY <1>1, <1>2, <1>3, <1>4, <1>5, <1>6, <1>7, <1>8 DEF TInv

\* The completion of a task returns the parents that waited for it alone,
\* releases the steps it was the last dependency of, and completes the run
\* when no other task of it is left.
LEMMA CompleteTaskTasks ==
  ASSUME Inv, TInv, NEW t \in Task, NEW a \in Agent, CompleteTask(t, a)
  PROVE  TInv' /\ Final
<1>a. /\ tasks[t].status = "in_progress" /\ tasks'[t].status = "completed"
      /\ tasks'[t].parent = tasks[t].parent
      /\ tasks'[t].kind = tasks[t].kind /\ tasks'[t].attempt = tasks[t].attempt
      /\ runs[RunOf[t]].status = "active"
  BY DEF CompleteTask, Claimed, Inv, TypeOK, TaskRecord
<1>b. ASSUME NEW u \in Task \ {t}
      PROVE  /\ tasks'[u].parent = tasks[u].parent
             /\ IF u \in ReturnedParents(t) \cup ReleasedSteps(t)
                THEN /\ tasks'[u].status = "ready"
                     /\ tasks[u].status \in {"waiting_handoff", "blocked"}
                ELSE tasks'[u] = tasks[u]
  BY DEF CompleteTask, ReturnedParents, ReleasedSteps, Inv, TypeOK, TaskRecord
<1>c. approvals' = approvals /\ outbox' = outbox
  BY DEF CompleteTask
<1>d. \A u \in Task : /\ tasks'[u].parent = tasks[u].parent
                      /\ tasks'[u].status = "completed" <=> u \in CompletedWith(t)
                      /\ tasks[u].status = "completed" => u \in CompletedWith(t)
                      /\ u \in CompletedWith(t) => tasks[u].status = "completed" \/ u = t
                      /\ tasks'[u].status = "absent" <=> tasks[u].status = "absent"
  BY <1>a, <1>b DEF CompletedWith
<1>e. \A u \in Task : Children(u)' = Children(u) /\ Children(u) \subseteq Task
  BY <1>d DEF Children
<1>f. /\ StepTask \subseteq Task
      /\ \A u \in Task : RunOf[u] \in Run
      /\ \A u \in Task : \A d \in DependsOn[u] : d \in Task /\ RunOf[d] = RunOf[u]
  BY WorkflowAssumption DEF WorkflowAssumption
<1>g. Startable(t)
  BY <1>a, PassedTheGates
<1>1. ParentsKnown'
  BY <1>d DEF TInv, ParentsKnown
<1>2. \A u \in Task : Startable(u) => Startable(u)'
  BY <1>d, <1>e, <1>f DEF Startable
<1>3. OpenApprovalIsStartable'
  BY <1>2, <1>c, KeepsOpenApprovals DEF Open
<1>4. DependenciesGateTheirSteps'
  <2> SUFFICES ASSUME NEW s \in StepTask
               PROVE  /\ tasks'[s].status = "blocked" =>
                           \E d \in DependsOn[s] : tasks'[d].status # "completed"
                      /\ tasks'[s].status \notin {"absent", "blocked", "cancelled"} =>
                           \A d \in DependsOn[s] : tasks'[d].status = "completed"
    BY DEF DependenciesGateTheirSteps
  <2>0. /\ tasks[s].status = "blocked" =>
             \E d \in DependsOn[s] : tasks[d].status # "completed"
        /\ tasks[s].status \notin {"absent", "blocked", "cancelled"} =>
             \A d \in DependsOn[s] : tasks[d].status = "completed"
    BY DEF TInv, DependenciesGateTheirSteps
  <2>1. CASE s = t
    BY <1>a, <1>d, <1>f, <1>g, <2>1 DEF Startable
  <2>2. CASE s # t /\ s \in ReleasedSteps(t)
    BY <1>b, <1>d, <1>f, <2>2 DEF ReleasedSteps
  <2>3. CASE s # t /\ s \in ReturnedParents(t) \ ReleasedSteps(t)
    <3>1. tasks[s].status = "waiting_handoff" /\ tasks'[s].status = "ready"
      BY <1>b, <1>f, <2>3 DEF ReturnedParents
    <3> QED
      BY <1>d, <1>f, <2>0, <3>1
  <2>4. CASE s # t /\ s \notin ReturnedParents(t) \cup ReleasedSteps(t)
    <3>1. tasks'[s] = tasks[s]
      BY <1>b, <1>f, <2>4
    <3>2. ASSUME tasks[s].status = "blocked"
          PROVE  ~(DependsOn[s] \subseteq CompletedWith(t))
      <4>1. CASE RunOf[s] = RunOf[t]
        BY <1>f, <2>4, <3>2, <4>1 DEF ReleasedSteps, TasksOf
      <4>2. CASE RunOf[s] # RunOf[t]
        BY <1>d, <1>f, <2>0, <3>2, <4>2
      <4> QED
        BY <4>1, <4>2
    <3> QED
      BY <1>d, <1>f, <2>0, <3>1, <3>2
  <2> QED
    BY <2>1, <2>2, <2>3, <2>4
<1>5. HandoffSuspendsParent'
  <2> SUFFICES ASSUME NEW p \in Task
               PROVE  /\ tasks'[p].status = "waiting_handoff" =>
                           \E c \in Children(p) : tasks'[c].status # "completed"
                      /\ (\E c \in Children(p) : tasks'[c].status # "completed") =>
                           tasks'[p].status \in {"waiting_handoff", "cancelled"}
    BY <1>e DEF HandoffSuspendsParent
  <2>0. /\ tasks[p].status = "waiting_handoff" =>
             \E c \in Children(p) : tasks[c].status # "completed"
        /\ (\E c \in Children(p) : tasks[c].status # "completed") =>
             tasks[p].status \in {"waiting_handoff", "cancelled"}
    BY DEF TInv, HandoffSuspendsParent
  <2>1. CASE p = t
    BY <1>a, <1>d, <1>e, <1>g, <2>1 DEF Startable
  <2>2. CASE p # t /\ p \in ReturnedParents(t)
    BY <1>b, <1>d, <1>e, <2>2 DEF ReturnedParents
  <2>3. CASE p # t /\ p \in ReleasedSteps(t) \ ReturnedParents(t)
    <3>1. tasks[p].status = "blocked" /\ tasks'[p].status = "ready"
      BY <1>b, <2>3 DEF ReleasedSteps
    <3> QED
      BY <1>d, <1>e, <2>0, <3>1
  <2>4. CASE p # t /\ p \notin ReturnedParents(t) \cup ReleasedSteps(t)
    <3>1. tasks'[p] = tasks[p]
      BY <1>b, <2>4
    <3>2. ASSUME tasks[p].status = "waiting_handoff"
          PROVE  ~(Children(p) \subseteq CompletedWith(t))
      <4>1. PICK c \in Children(p) : tasks[c].status # "completed"
        BY <2>0, <3>2
      <4>2. CASE c = t
        <5>1. RunOf[p] = RunOf[t]
          BY <4>2, NoneAssumption DEF NoneAssumption, Children, TInv, ParentsKnown
        <5> QED
          BY <2>4, <3>2, <4>1, <5>1 DEF ReturnedParents, TasksOf
      <4>3. CASE c # t
        BY <1>d, <1>e, <4>1, <4>3
      <4> QED
        BY <4>2, <4>3
    <3> QED
      BY <1>d, <1>e, <2>0, <3>1, <3>2
  <2> QED
    BY <2>1, <2>2, <2>3, <2>4
<1>6. RunAgreesWithTasks'
  <2>1. \A r \in Run : TasksOf(r)' = TasksOf(r) /\ TasksOf(r) \subseteq Task
    BY <1>d DEF TasksOf
  <2>2. /\ runs'[RunOf[t]].status = IF TasksOf(RunOf[t]) \subseteq CompletedWith(t)
                                    THEN "completed" ELSE "active"
        /\ \A r \in Run \ {RunOf[t]} : runs'[r] = runs[r]
    BY <1>a, <1>f DEF CompleteTask, RunAfterCompletion, Inv, TypeOK, RunRecord
  <2> SUFFICES ASSUME NEW r \in Run
               PROVE  /\ runs'[r].status = "absent" <=> TasksOf(r) = {}
                      /\ runs'[r].status \in {"completed", "absent"} <=>
                           \A u \in TasksOf(r) : tasks'[u].status = "completed"
                      /\ runs'[r].status = "failed" =>
                           \E u \in TasksOf(r) : tasks'[u].status = "failed"
                      /\ runs'[r].status = "active" =>
                           \A u \in TasksOf(r) : tasks'[u].status # "failed"
    BY <2>1 DEF RunAgreesWithTasks
  <2>3. CASE r = RunOf[t]
    <3>1. t \in TasksOf(r)
      BY <1>a, <2>3 DEF TasksOf
    <3>2. \A u \in TasksOf(r) : tasks'[u].status # "failed"
      BY <1>a, <1>b, <2>1, <2>3 DEF TInv, RunAgreesWithTasks
    <3> QED
      BY <1>d, <2>1, <2>2, <2>3, <3>1, <3>2
  <2>4. CASE r # RunOf[t]
    <3>1. \A u \in TasksOf(r) : tasks'[u] = tasks[u]
      BY <1>b, <2>4 DEF TasksOf, ReturnedParents, ReleasedSteps
    <3> QED
      BY <2>2, <2>4, <3>1 DEF TInv, RunAgreesWithTasks
  <2> QED
    BY <2>3, <2>4
<1>7. WaitingTaskHasRequest'
  BY <1>a, <1>b, <1>c, KeepsRequests
<1>8. CompletedTaskWasDelivered'
  <2> SUFFICES ASSUME \A g \in Registries : g.covers,
                      NEW u \in Task, tasks'[u].status = "completed",
                      tasks'[u].kind = "connector"
               PROVE  \E d \in Delivery : /\ DeliveriesOf(u)' = {d}
                                          /\ outbox'[d].status = "simulated"
    BY DEF CompletedTaskWasDelivered
  <2>1. CASE u = t
    <3>1. DeliveriesOf(t)' = DeliveriesOf(t)
      BY <1>a, <1>c DEF DeliveriesOf
    <3>2. registry.covers
      BY DEF Inv, TypeOK
    <3>3. tasks[t].kind = "connector"
      BY <1>a, <2>1
    <3>4. \E d \in Delivery : /\ DeliveriesOf(t) = {d}
                              /\ outbox[d].status = "simulated"
      BY <3>2, <3>3 DEF CompleteTask, DeliveryAllowsCompletion
    <3> QED
      BY <1>c, <2>1, <3>1, <3>4
  <2>2. CASE u # t
    <3>1. tasks'[u] = tasks[u]
      BY <1>b, <2>2
    <3>2. DeliveriesOf(u)' = DeliveriesOf(u)
      BY <1>c, <3>1 DEF DeliveriesOf
    <3> QED
      BY <1>c, <3>1, <3>2 DEF TInv, CompletedTaskWasDelivered
  <2> QED
    BY <2>1, <2>2
<1>9. Final
  BY <1>a, <1>b DEF Final, CompleteTask, Inv, TypeOK
<1> QED
  BY <1>1, <1>3, <1>4, <1>5, <1>6, <1>7, <1>8, <1>9 DEF TInv

\* The task of an open approval: what the approval commands rely on.
LEMMA TaskOfOpenApproval ==
  ASSUME Inv, TInv, NEW x \in Approval, Open(x)
  PROVE  /\ approvals[x].task \in Task
         /\ tasks[approvals[x].task].status \in {"ready", "waiting_approval", "cancelled"}
         /\ x \in ApprovalsOf(approvals[x].task)
         /\ Startable(approvals[x].task)
  BY DEF Inv, ApprovalsKnown, OneOpenApproval, ApprovalsOf, Open, TInv,
         OpenApprovalIsStartable

\* Recording what expired changes open approvals only, and into closed ones.
LEMMA ExpiredApprovals ==
  ASSUME Inv, NEW set, NEW x \in Approval
  PROVE  /\ Expired(set)[x].task = approvals[x].task
         /\ x \in set => Expired(set)[x].status = "expired"
         /\ x \notin set => Expired(set)[x] = approvals[x]
  BY DEF Expired, Inv, TypeOK, ApprovalRecord

LEMMA RequestApprovalTasks ==
  ASSUME Inv, TInv, NEW t \in Task, NEW x \in Approval, NEW ttl \in ApprovalTtl,
         RequestApproval(t, x, ttl)
  PROVE  TInv' /\ Final
<1>1. /\ tasks[t].status \in {"ready", "waiting_approval"}
      /\ tasks'[t].status = "waiting_approval"
      /\ tasks'[t].attempt = tasks[t].attempt
      /\ Moves(t)
  BY DEF RequestApproval, Grantable, StatusAfterExpiry, Moves, Inv, TypeOK, TaskRecord
<1>2. Startable(t)
  BY <1>1, PassedTheGates
<1>3. /\ ParentsKnown' /\ DependenciesGateTheirSteps' /\ HandoffSuspendsParent'
      /\ \A u \in Task : Startable(u) => Startable(u)'
  BY <1>1, <1>2, MovedTask
<1>4. RunAgreesWithTasks' /\ Final
  BY <1>1, RunUnchanged DEF RequestApproval
<1>5. /\ approvals'[x].status = "requested" /\ approvals'[x].task = t
      /\ approvals'[x].attempt = tasks[t].attempt
      /\ approvals[x].status = "absent"
      /\ \A y \in Approval \ {x} : approvals'[y] = Expired(StaleApprovals(t))[y]
  BY DEF RequestApproval, Expired
<1>6. OpenApprovalIsStartable'
  <2>1. \A y \in Approval \ {x} : Open(y)' => /\ Open(y)
                                             /\ approvals'[y].task = approvals[y].task
    BY <1>5, ExpiredApprovals DEF Open
  <2>2. \A y \in Approval : Open(y) => /\ approvals[y].task \in Task
                                      /\ Startable(approvals[y].task)
    BY TaskOfOpenApproval
  <2> QED
    BY <1>2, <1>3, <1>5, <2>1, <2>2 DEF OpenApprovalIsStartable
<1>7. WaitingTaskHasRequest'
  <2> SUFFICES ASSUME NEW u \in Task, tasks'[u].status = "waiting_approval"
               PROVE  \E y \in ApprovalsOf(u)' : approvals'[y].status = "requested"
    BY DEF WaitingTaskHasRequest
  <2>1. CASE u = t
    BY <1>1, <1>5, <2>1 DEF ApprovalsOf
  <2>2. CASE u # t
    <3>1. tasks'[u] = tasks[u]
      BY <1>1, <2>2 DEF Moves
    <3>2. PICK y \in ApprovalsOf(u) : approvals[y].status = "requested"
      BY <3>1 DEF TInv, WaitingTaskHasRequest
    <3>3. y \in Approval /\ y # x /\ y \notin StaleApprovals(t)
      BY <1>5, <2>2, <3>2 DEF ApprovalsOf, StaleApprovals
    <3>4. approvals'[y] = approvals[y]
      BY <1>5, <3>3, ExpiredApprovals
    <3> QED
      BY <3>1, <3>2, <3>4 DEF ApprovalsOf
  <2> QED
    BY <2>1, <2>2
<1>8. CompletedTaskWasDelivered'
  BY <1>1, KeepsDelivered DEF Moves, RequestApproval
<1> QED
  BY <1>3, <1>4, <1>6, <1>7, <1>8 DEF TInv

\* What recording an expired approval of t does to t.
LEMMA TaskAfterExpiry ==
  ASSUME Inv, TInv, NEW t \in Task,
         NEW set \in SUBSET ApprovalsOf(t), NEW x \in set, Open(x),
         tasks' = [tasks EXCEPT ![t].status = StatusAfterExpiry(t, set)],
         approvals' = Expired(set), UNCHANGED <<runs, outbox>>
  PROVE  TInv' /\ Final
<1>0. x \in Approval /\ approvals[x].task = t
  BY DEF ApprovalsOf
<1>1. /\ tasks[t].status \in {"ready", "waiting_approval", "cancelled"}
      /\ Startable(t)
  BY <1>0, TaskOfOpenApproval
<1>2. /\ tasks'[t].status \in {"ready", "cancelled"}
      /\ Moves(t)
  BY <1>1 DEF StatusAfterExpiry, Moves, Inv, TypeOK, TaskRecord
<1>3. RunAgreesWithTasks' /\ Final
  BY <1>1, <1>2, RunUnchanged
<1>4. \A y \in Approval : Open(y)' => /\ Open(y)
                                     /\ approvals'[y].task = approvals[y].task
  BY ExpiredApprovals DEF Open
<1>5. WaitingTaskHasRequest'
  <2>1. \A u \in Task \ {t} : \A y \in ApprovalsOf(u) : y \in Approval /\ y \notin set
    BY DEF ApprovalsOf
  <2>2. \A u \in Task \ {t} : \A y \in ApprovalsOf(u) : approvals'[y] = approvals[y]
    BY <2>1, ExpiredApprovals
  <2> QED
    BY <1>2, <2>2, KeepsRequests DEF Moves
<1> QED
  BY <1>1, <1>2, <1>3, <1>4, <1>5, MovedTaskCommand

LEMMA GrantApprovalTasks ==
  ASSUME Inv, TInv, NEW x \in Approval, GrantApproval(x)
  PROVE  TInv' /\ Final
<1> DEFINE t == approvals[x].task
<1>0. Open(x) /\ approvals[x].status = "requested"
  BY DEF GrantApproval, Decidable, Open
<1>1. /\ t \in Task /\ Startable(t)
      /\ tasks[t].status \in {"ready", "waiting_approval", "cancelled"}
  BY <1>0, TaskOfOpenApproval
<1>2. tasks' = [tasks EXCEPT ![t].status = "ready"]
  BY DEF GrantApproval
<1>3. \A y \in Approval : /\ approvals'[y].task = approvals[y].task
                          /\ y # x => approvals'[y] = approvals[y]
  BY DEF GrantApproval, Inv, TypeOK, ApprovalRecord
<1>4. runs' = runs /\ outbox' = outbox
  BY DEF GrantApproval
<1>a. \A u \in Task \ {t} : x \notin ApprovalsOf(u)
  BY DEF ApprovalsOf
<1> HIDE DEF t
<1>5. tasks'[t].status = "ready" /\ Moves(t)
  BY <1>1, <1>2 DEF Moves, Inv, TypeOK, TaskRecord
<1>6. RunAgreesWithTasks' /\ Final
  BY <1>1, <1>4, <1>5, RunUnchanged
<1>7. WaitingTaskHasRequest'
  <2>1. \A u \in Task \ {t} : \A y \in ApprovalsOf(u) : approvals'[y] = approvals[y]
    BY <1>3, <1>a DEF ApprovalsOf
  <2> QED
    BY <1>5, <2>1, KeepsRequests DEF Moves
<1> QED
  BY <1>0, <1>1, <1>3, <1>4, <1>5, <1>6, <1>7, MovedTaskCommand DEF Open

LEMMA DenyApprovalTasks ==
  ASSUME Inv, TInv, NEW x \in Approval, DenyApproval(x)
  PROVE  TInv' /\ Final
<1> DEFINE t == approvals[x].task
<1>0. Open(x)
  BY DEF DenyApproval, Decidable, Open
<1>1. /\ t \in Task
      /\ tasks[t].status \in {"ready", "waiting_approval", "cancelled"}
  BY <1>0, TaskOfOpenApproval
<1>2. /\ tasks' = [tasks EXCEPT ![t].status = "cancelled"]
      /\ runs' = [runs EXCEPT ![RunOf[t]].status = "cancelled"]
      /\ outbox' = outbox
  BY DEF DenyApproval
<1>3. \A y \in Approval : /\ approvals'[y].task = approvals[y].task
                          /\ y # x => approvals'[y] = approvals[y]
  BY DEF DenyApproval, Inv, TypeOK, ApprovalRecord
<1>4. \A u \in Task \ {t} : x \notin ApprovalsOf(u)
  BY DEF ApprovalsOf
<1> HIDE DEF t
<1>5. tasks'[t].status = "cancelled" /\ Moves(t)
  BY <1>1, <1>2 DEF Moves, Inv, TypeOK, TaskRecord
<1>6. RunAgreesWithTasks' /\ Final
  BY <1>1, <1>2, <1>5, RunFollows
<1>7. WaitingTaskHasRequest'
  <2>1. \A u \in Task \ {t} : \A y \in ApprovalsOf(u) : approvals'[y] = approvals[y]
    BY <1>3, <1>4 DEF ApprovalsOf
  <2> QED
    BY <1>5, <2>1, KeepsRequests DEF Moves
<1> QED
  BY <1>0, <1>1, <1>2, <1>3, <1>5, <1>6, <1>7, MovedTaskCommand DEF Open

\* A step on the outbox neither touches a simulated delivery nor gives one to
\* a task that is not being executed.
LEMMA DeliveryStep ==
  ASSUME Inv, OutboxStep, NEW d \in Delivery, outbox'[d] # outbox[d]
  PROVE  /\ outbox[d].status # "simulated"
         /\ outbox'[d].status # "absent"
         /\ \/ /\ outbox[d].status # "absent"
               /\ outbox'[d].task = outbox[d].task
               /\ outbox'[d].taskAttempt = outbox[d].taskAttempt
            \/ \E t \in Task : /\ outbox[d].status = "absent"
                               /\ outbox'[d].task = t
                               /\ tasks[t].status = "in_progress"
<1> USE DEF Inv, TypeOK
<1> DEFINE Goal == /\ outbox[d].status # "simulated"
                   /\ outbox'[d].status # "absent"
                   /\ \/ /\ outbox[d].status # "absent"
                         /\ outbox'[d].task = outbox[d].task
                         /\ outbox'[d].taskAttempt = outbox[d].taskAttempt
                      \/ \E t \in Task : /\ outbox[d].status = "absent"
                                         /\ outbox'[d].task = t
                                         /\ tasks[t].status = "in_progress"
<1>1. ASSUME NEW e \in Delivery, NEW t \in Task, NEW a \in Agent,
             NEW key \in DeliveryKey, PrepareDelivery(e, t, a, key)
      PROVE  Goal
  BY <1>1 DEF PrepareDelivery, Prepared, NoDelivery
<1>2. ASSUME NEW e \in Delivery, NEW lease \in ClaimLease, ClaimDelivery(e, lease)
      PROVE  Goal
  BY <1>2 DEF ClaimDelivery, DeliveryRecord
<1>3. ASSUME NEW e \in Delivery, outbox[e].status = "claimed", BecomesUncertain(e)
      PROVE  Goal
  BY <1>3 DEF BecomesUncertain, DeliveryRecord
<1>4. ASSUME NEW e \in Delivery, NEW claim, NEW retryable \in BOOLEAN,
             NEW outcome \in {"simulated", "failed", "uncertain"},
             RecordOutcome(e, claim, outcome, retryable)
      PROVE  Goal
  BY <1>4 DEF RecordOutcome, HoldsClaim, DeliveryRecord
<1>5. ASSUME NEW e \in Delivery, RetryDelivery(e)
      PROVE  Goal
  BY <1>5 DEF RetryDelivery, DeliveryRecord
<1>6. ASSUME NEW e \in Delivery, CancelDelivery(e)
      PROVE  Goal
  BY <1>6 DEF CancelDelivery, DeliveryRecord
<1>7. ASSUME NEW e \in Delivery, NEW retryable \in BOOLEAN,
             NEW decision \in {"simulated", "failed", "cancelled"},
             ResolveUncertain(e, decision, retryable)
      PROVE  Goal
  BY <1>7 DEF ResolveUncertain, DeliveryRecord
<1>8. ASSUME NEW g \in Registries, ReopenWithRegistry(g)
      PROVE  Goal
  BY <1>8 DEF ReopenWithRegistry
<1> HIDE DEF Goal
<1>9. Goal
  BY <1>1, <1>2, <1>3, <1>4, <1>5, <1>6, <1>7, <1>8
  DEF OutboxStep, ClaimFindsExpiredLease, RecordOutcomeTooLate, ReconcileExpired,
      HoldsClaim
<1> QED
  BY <1>9 DEF Goal

LEMMA SameTasks ==
  ASSUME TInv, UNCHANGED <<runs, tasks, approvals>>, CompletedTaskWasDelivered'
  PROVE  TInv' /\ Final
<1>1. ParentsKnown' /\ DependenciesGateTheirSteps'
  BY DEF TInv, ParentsKnown, DependenciesGateTheirSteps
<1>2. OpenApprovalIsStartable'
  BY DEF TInv, OpenApprovalIsStartable, Startable, Open, Children
<1>3. HandoffSuspendsParent'
  BY DEF TInv, HandoffSuspendsParent, Children
<1>4. RunAgreesWithTasks'
  BY DEF TInv, RunAgreesWithTasks, TasksOf
<1>5. WaitingTaskHasRequest'
  BY DEF TInv, WaitingTaskHasRequest, ApprovalsOf
<1> QED
  BY <1>1, <1>2, <1>3, <1>4, <1>5 DEF TInv, Final

LEMMA OutboxTasks ==
  ASSUME Inv, TInv, OutboxStep
  PROVE  TInv' /\ Final
<1>1. UNCHANGED <<runs, tasks, approvals>>
  BY OutboxLeavesTasks
<1>2. CompletedTaskWasDelivered'
  <2> SUFFICES ASSUME \A g \in Registries : g.covers,
                      NEW t \in Task, tasks[t].status = "completed",
                      tasks[t].kind = "connector"
               PROVE  \E d \in Delivery : /\ DeliveriesOf(t)' = {d}
                                          /\ outbox'[d].status = "simulated"
    BY <1>1 DEF CompletedTaskWasDelivered
  <2>1. PICK d \in Delivery : DeliveriesOf(t) = {d} /\ outbox[d].status = "simulated"
    BY DEF TInv, CompletedTaskWasDelivered
  <2>2. outbox'[d] = outbox[d]
    BY <2>1, DeliveryStep
  <2>3. \A e \in Delivery : e \in DeliveriesOf(t)' <=> e \in DeliveriesOf(t)
    BY <1>1, DeliveryStep DEF DeliveriesOf
  <2>4. DeliveriesOf(t)' = DeliveriesOf(t)
    BY <2>3 DEF DeliveriesOf
  <2> QED
    BY <2>1, <2>2, <2>4
<1> QED
  BY <1>1, <1>2, SameTasks

LEMMA NextTasks ==
  ASSUME Inv, TInv, Next
  PROVE  TInv' /\ Final
<1>1. CASE Tick
  BY <1>1, SameTasks DEF Tick, CompletedTaskWasDelivered, DeliveriesOf, TInv
<1>2. CASE WorkflowStep
  BY <1>2, StartWorkflowTasks, ClaimTaskTasks, CompleteTaskTasks, FailTaskTasks,
     HandoffTaskTasks, RetryTaskTasks, CancelTaskTasks
  DEF WorkflowStep
<1>3. CASE ApprovalStep
  <2>1. ASSUME NEW t \in Task, RequestApprovalRefused(t) PROVE TInv' /\ Final
    <3>1. PICK x \in StaleApprovals(t) : Open(x)
      BY <2>1 DEF RequestApprovalRefused, StaleApprovals, Open
    <3>2. StaleApprovals(t) \in SUBSET ApprovalsOf(t)
      BY DEF StaleApprovals
    <3> QED
      BY <2>1, <3>1, <3>2, TaskAfterExpiry DEF RequestApprovalRefused
  <2>2. ASSUME NEW x \in Approval, DecideExpiredApproval(x) PROVE TInv' /\ Final
    <3>1. Open(x)
      BY <2>2 DEF DecideExpiredApproval, Decidable, Open
    <3>2. approvals[x].task \in Task /\ {x} \in SUBSET ApprovalsOf(approvals[x].task)
      BY <3>1, TaskOfOpenApproval
    <3> QED
      BY <2>2, <3>1, <3>2, TaskAfterExpiry DEF DecideExpiredApproval
  <2> QED
    BY <1>3, <2>1, <2>2, RequestApprovalTasks, GrantApprovalTasks, DenyApprovalTasks
    DEF ApprovalStep
<1>4. CASE OutboxStep
  BY <1>4, OutboxTasks
<1> QED
  BY <1>1, <1>2, <1>3, <1>4 DEF Next

LEMMA InitTasks == Init => TInv
<1> SUFFICES ASSUME Init PROVE TInv
  OBVIOUS
<1>1. \A t \in Task : tasks[t].status = "absent" /\ tasks[t].parent = None
  BY DEF Init, NoTask
<1>2. \A r \in Run : runs[r].status = "absent" /\ TasksOf(r) = {}
  BY <1>1 DEF Init, NoRun, TasksOf
<1>3. \A t \in Task : Children(t) = {}
  BY <1>1, NoneAssumption DEF NoneAssumption, Children
<1>4. \A x \in Approval : ~Open(x)
  BY DEF Init, NoApproval, Open
<1>5. StepTask \subseteq Task
  BY WorkflowAssumption DEF WorkflowAssumption
<1>6. ParentsKnown /\ OpenApprovalIsStartable
  BY <1>1, <1>4 DEF ParentsKnown, OpenApprovalIsStartable
<1>7. DependenciesGateTheirSteps /\ HandoffSuspendsParent
  BY <1>1, <1>3, <1>5 DEF DependenciesGateTheirSteps, HandoffSuspendsParent
<1>8. RunAgreesWithTasks
  BY <1>2 DEF RunAgreesWithTasks
<1>9. WaitingTaskHasRequest /\ CompletedTaskWasDelivered
  BY <1>1 DEF WaitingTaskHasRequest, CompletedTaskWasDelivered
<1> QED
  BY <1>6, <1>7, <1>8, <1>9 DEF TInv

LEMMA StepTasks ==
  ASSUME Inv, TInv, [Next]_vars
  PROVE  TInv' /\ [Final]_vars
<1>1. CASE vars' = vars
  BY <1>1, SameTasks DEF vars, CompletedTaskWasDelivered, DeliveriesOf, TInv
<1> QED
  BY <1>1, NextTasks

LEMMA TasksInvariance == Spec => [](Inv /\ TInv)
<1>1. Inv /\ TInv /\ [Next]_vars => Inv' /\ TInv'
  BY StepTasks, NextInv
<1> QED
  BY <1>1, InitInv, InitTasks, PTL DEF Spec

-----------------------------------------------------------------------------

\* No step is released early or forgotten by completeTask, cancelTask, a retry
\* or an approval.
THEOREM DependenciesCorrect == Spec => []DependenciesGateTheirSteps
  BY TasksInvariance, PTL DEF TInv

\* A parent waits exactly as long as a child of it is not completed.
THEOREM HandoffCorrect == Spec => []HandoffSuspendsParent
  BY TasksInvariance, PTL DEF TInv

\* The status of a run agrees with its tasks.
THEOREM RunCorrect == Spec => []RunAgreesWithTasks
  BY TasksInvariance, PTL DEF TInv

\* A task that waits for an approval has one that can be decided or expire.
THEOREM WaitingCorrect == Spec => []WaitingTaskHasRequest
  BY TasksInvariance, PTL DEF TInv

\* When every registry the store is opened with covers the connector tasks, a
\* completed one has exactly one delivery for its attempt, and it was simulated:
\* no change of version or suspension, no retry and no cancellation gets round it.
THEOREM DeliveredCorrect == Spec => []CompletedTaskWasDelivered
  BY TasksInvariance, PTL DEF TInv

\* No step changes a completed task or a completed run.
THEOREM CompletionCorrect == Spec => CompletionIsFinal
<1>1. Inv /\ TInv /\ [Next]_vars => [Final]_vars
  BY StepTasks
<1> QED
  BY <1>1, TasksInvariance, PTL DEF Spec, CompletionIsFinal, Final

=============================================================================
