-------------------------- MODULE WorkflowCommands --------------------------
(***************************************************************************)
(* The commands of FdosRuntime on runs and tasks: startWorkflow, claimTask,*)
(* completeTask, failTask, retryTask, cancelTask and handoffTask. Each is  *)
(* one action: the guards of the handler, then the effect of all the       *)
(* events it appends.                                                      *)
(***************************************************************************)
EXTENDS RuntimeState

InitialTask(t) ==
  [NoTask EXCEPT !.status = IF DependsOn[t] = {} THEN "ready" ELSE "blocked",
                 !.role = StepRole[t],
                 !.kind = StepKind[t]]

\* An idempotency key that a run already carries returns that run, or is
\* refused with another request; neither appends an event.
StartWorkflow(r, key) ==
  /\ runs[r].status = "absent"
  /\ key = None \/ \A q \in Run : runs[q].key # key
  /\ runs' = [runs EXCEPT ![r] = [NoRun EXCEPT !.status = "active", !.key = key]]
  /\ tasks' = [t \in Task |-> IF t \in StepTask /\ RunOf[t] = r
                              THEN InitialTask(t) ELSE tasks[t]]
  /\ UNCHANGED <<now, registry, approvals, outbox>>

-----------------------------------------------------------------------------

\* Mutant: an approval that has expired still counts.
UsableApprovals_Expired(t) ==
  {x \in ApprovalsOf(t) : approvals[x].status = "granted"}

\* The approvals that may still authorize this attempt of t.
UsableApprovals(t) ==
  {x \in ApprovalsOf(t) : approvals[x].status = "granted" /\ ActiveApproval(x)}

\* evaluateTaskExecution allows an A0 or A1 task; an A2 task costs one
\* approval, which approval.consumed spends before task.claimed.
Authorize(t) ==
  \/ /\ tasks[t].kind # "A2"
     /\ UNCHANGED approvals
  \/ /\ tasks[t].kind = "A2"
     /\ \E x \in UsableApprovals(t) :
          approvals' = [approvals EXCEPT ![x].status = "consumed"]

ClaimTask(t, a) ==
  /\ tasks[t].status = "ready"
  /\ runs[RunOf[t]].status = "active"
  /\ \A d \in DependsOn[t] : tasks[d].status = "completed"
  /\ \A c \in Children(t) : tasks[c].status = "completed"
  /\ RoleOf[a] = tasks[t].role
  /\ Authorize(t)
  /\ tasks' = [tasks EXCEPT ![t].status = "in_progress", ![t].claimedBy = a]
  /\ UNCHANGED <<now, registry, runs, outbox>>

-----------------------------------------------------------------------------

Claimed(t, a) == tasks[t].status = "in_progress" /\ tasks[t].claimedBy = a

\* Mutant: the simulated delivery of any attempt will do.
DeliveryAllowsCompletion_AnyAttempt(t, a) ==
  tasks[t].kind = "connector" /\ registry.covers =>
    \E d \in Delivery : /\ outbox[d].task = t
                        /\ outbox[d].status = "simulated"
                        /\ outbox[d].requestedBy = a

\* A connector task is complete only with one exact delivery of this attempt,
\* simulated and requested by the agent that completes it: as long as the
\* registry of this process has a contract for the type of its action.
DeliveryAllowsCompletion(t, a) ==
  tasks[t].kind = "connector" /\ registry.covers =>
    \E d \in Delivery : /\ DeliveriesOf(t) = {d}
                        /\ outbox[d].status = "simulated"
                        /\ outbox[d].requestedBy = a

CompletedWith(t) == {u \in Task : tasks[u].status = "completed"} \cup {t}

\* Mutant: every waiting parent of the run returns.
ReturnedParents_Any(t) ==
  {p \in TasksOf(RunOf[t]) : tasks[p].status = "waiting_handoff"}

\* releaseHandoffParents and releaseWorkflowDependencies, after t completed.
ReturnedParents(t) ==
  {p \in TasksOf(RunOf[t]) : /\ tasks[p].status = "waiting_handoff"
                             /\ Children(p) # {}
                             /\ Children(p) \subseteq CompletedWith(t)}

\* Mutant: the dependencies are read before t is completed.
ReleasedSteps_Before(t) ==
  {s \in TasksOf(RunOf[t]) :
     /\ tasks[s].status = "blocked"
     /\ \A d \in DependsOn[s] : tasks[d].status = "completed"}

ReleasedSteps(t) ==
  {s \in TasksOf(RunOf[t]) : /\ tasks[s].status = "blocked"
                             /\ DependsOn[s] \subseteq CompletedWith(t)}

\* Mutant: every task of any run counts.
RunAfterCompletion_AllRuns(t) ==
  LET r == RunOf[t]
  IN  IF {u \in Task : tasks[u].status # "absent"} \subseteq CompletedWith(t)
      THEN [runs[r] EXCEPT !.status = "completed"]
      ELSE runs[r]

\* finalizeRunIfComplete, after t completed.
RunAfterCompletion(t) ==
  LET r == RunOf[t]
  IN  IF TasksOf(r) \subseteq CompletedWith(t)
      THEN [runs[r] EXCEPT !.status = "completed"]
      ELSE runs[r]

CompleteTask(t, a) ==
  /\ Claimed(t, a)
  /\ runs[RunOf[t]].status = "active"
  /\ DeliveryAllowsCompletion(t, a)
  /\ tasks' = [u \in Task |->
                 IF u = t
                 THEN [tasks[u] EXCEPT !.status = "completed", !.claimedBy = None]
                 ELSE IF u \in ReturnedParents(t) \cup ReleasedSteps(t)
                      THEN [tasks[u] EXCEPT !.status = "ready"]
                      ELSE tasks[u]]
  /\ runs' = [runs EXCEPT ![RunOf[t]] = RunAfterCompletion(t)]
  /\ UNCHANGED <<now, registry, approvals, outbox>>

-----------------------------------------------------------------------------

\* failTask looks neither at the run nor at the deliveries of the task.
FailTask(t, a, retryable) ==
  /\ Claimed(t, a)
  /\ tasks' = [tasks EXCEPT ![t].status = "failed", ![t].claimedBy = None,
                            ![t].retryable = retryable]
  /\ runs' = [runs EXCEPT ![RunOf[t]].status = "failed"]
  /\ UNCHANGED <<now, registry, approvals, outbox>>

\* task.retry.authorized re-activates the run unless another task failed.
RunStatusAfterRetry(t) ==
  IF \E u \in TasksOf(RunOf[t]) \ {t} : tasks[u].status = "failed"
  THEN "failed" ELSE "active"

\* Mutant: one attempt too many.
RetryTask_OverBudget(t) ==
  /\ tasks[t].status = "failed"
  /\ tasks[t].retryable
  /\ UnsettledDeliveries(t) = {}
  /\ tasks[t].attempt <= MaxTaskAttempts
  /\ tasks' = [tasks EXCEPT ![t].status = "ready", ![t].claimedBy = None,
                            ![t].attempt = @ + 1, ![t].retryable = FALSE]
  /\ runs' = [runs EXCEPT ![RunOf[t]].status = RunStatusAfterRetry(t)]
  /\ UNCHANGED <<now, registry, approvals, outbox>>

RetryTask(t) ==
  /\ tasks[t].status = "failed"
  /\ tasks[t].retryable
  /\ UnsettledDeliveries(t) = {}
  /\ tasks[t].attempt < MaxTaskAttempts
  /\ tasks' = [tasks EXCEPT ![t].status = "ready", ![t].claimedBy = None,
                            ![t].attempt = @ + 1, ![t].retryable = FALSE]
  /\ runs' = [runs EXCEPT ![RunOf[t]].status = RunStatusAfterRetry(t)]
  /\ UNCHANGED <<now, registry, approvals, outbox>>

\* Mutant: only a cancelled task cannot be cancelled.
CancelTask_Completed(t) ==
  /\ tasks[t].status \notin {"absent", "cancelled"}
  /\ UnsettledDeliveries(t) = {}
  /\ tasks' = [tasks EXCEPT ![t].status = "cancelled", ![t].claimedBy = None]
  /\ runs' = [runs EXCEPT ![RunOf[t]].status = "cancelled"]
  /\ UNCHANGED <<now, registry, approvals, outbox>>

\* Mutant: the claim of a cancelled task stays.
CancelTask_KeepsOwner(t) ==
  /\ tasks[t].status \notin {"absent", "completed", "cancelled"}
  /\ UnsettledDeliveries(t) = {}
  /\ tasks' = [tasks EXCEPT ![t].status = "cancelled"]
  /\ runs' = [runs EXCEPT ![RunOf[t]].status = "cancelled"]
  /\ UNCHANGED <<now, registry, approvals, outbox>>

\* A human may cancel a task in any state but completed and cancelled.
CancelTask(t) ==
  /\ tasks[t].status \notin {"absent", "completed", "cancelled"}
  /\ UnsettledDeliveries(t) = {}
  /\ tasks' = [tasks EXCEPT ![t].status = "cancelled", ![t].claimedBy = None]
  /\ runs' = [runs EXCEPT ![RunOf[t]].status = "cancelled"]
  /\ UNCHANGED <<now, registry, approvals, outbox>>

-----------------------------------------------------------------------------

\* The agent that works on parent hands a child task to another role and
\* lets go of the parent until the child is completed.
HandoffTask(parent, a, child, role, kind) ==
  /\ Claimed(parent, a)
  /\ RoleOf[a] \in DelegatingRole
  /\ runs[RunOf[parent]].status = "active"
  /\ HandoffCount(RunOf[parent]) < MaxHandoffsPerRun
  /\ tasks[parent].depth < MaxHandoffDepth
  /\ child \notin StepTask
  /\ tasks[child].status = "absent"
  /\ RunOf[child] = RunOf[parent]
  /\ tasks' = [tasks EXCEPT
                 ![parent].status = "waiting_handoff",
                 ![parent].claimedBy = None,
                 ![child] = [NoTask EXCEPT !.status = "ready",
                                           !.role = role,
                                           !.kind = kind,
                                           !.parent = parent,
                                           !.depth = tasks[parent].depth + 1]]
  /\ UNCHANGED <<now, registry, runs, approvals, outbox>>

=============================================================================
