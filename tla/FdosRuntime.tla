---------------------------- MODULE FdosRuntime -----------------------------
(***************************************************************************)
(* The governed workflow runtime: the commands on workflows, on approvals  *)
(* and on the outbox act on one state, in any order agents, humans and     *)
(* connector workers send them, while time passes. The properties here are *)
(* those that no command guarantees alone.                                 *)
(***************************************************************************)
EXTENDS WorkflowCommands, ApprovalCommands, OutboxCommands

\* The clock of the process, bounded by MaxTime.
Tick ==
  /\ now < MaxTime
  /\ now' = now + 1
  /\ UNCHANGED <<registry, runs, tasks, approvals, outbox>>

WorkflowStep ==
  \/ \E r \in Run, key \in RunKey \cup {None} : StartWorkflow(r, key)
  \/ \E t \in Task, a \in Agent :
       \/ ClaimTask(t, a)
       \/ CompleteTask(t, a)
       \/ \E retryable \in BOOLEAN : FailTask(t, a, retryable)
       \/ \E c \in Task, role \in Role, kind \in HandoffKind :
            HandoffTask(t, a, c, role, kind)
  \/ \E t \in Task : RetryTask(t) \/ CancelTask(t)

ApprovalStep ==
  \/ \E t \in Task :
       \/ \E x \in Approval, ttl \in ApprovalTtl : RequestApproval(t, x, ttl)
       \/ RequestApprovalRefused(t)
  \/ \E x \in Approval :
       GrantApproval(x) \/ DenyApproval(x) \/ DecideExpiredApproval(x)

OutboxStep ==
  \/ \E d \in Delivery, t \in Task, a \in Agent, key \in DeliveryKey :
       PrepareDelivery(d, t, a, key)
  \/ \E d \in Delivery :
       \/ \E lease \in ClaimLease : ClaimDelivery(d, lease)
       \/ ClaimFindsExpiredLease(d)
       \/ \E claim \in 1..MaxDeliveryAttempts :
            \/ \E outcome \in {"simulated", "failed", "uncertain"},
                  retryable \in BOOLEAN : RecordOutcome(d, claim, outcome, retryable)
            \/ RecordOutcomeTooLate(d, claim)
       \/ ReconcileExpired(d)
       \/ RetryDelivery(d)
       \/ CancelDelivery(d)
       \/ \E decision \in {"simulated", "failed", "cancelled"},
             retryable \in BOOLEAN : ResolveUncertain(d, decision, retryable)
  \/ \E g \in Registries : ReopenWithRegistry(g)

Next == Tick \/ WorkflowStep \/ ApprovalStep \/ OutboxStep

Spec == Init /\ [][Next]_vars

-----------------------------------------------------------------------------
(* Tasks and runs *)

\* A task has an owner exactly while it is in progress, and the owner holds
\* the role of the task: completing, failing, cancelling, handing off, a
\* denied approval and a retry all have to take the claim away.
OwnerOnlyWhileInProgress ==
  \A t \in Task :
    /\ tasks[t].status = "in_progress" <=> tasks[t].claimedBy # None
    /\ tasks[t].claimedBy # None => RoleOf[tasks[t].claimedBy] = tasks[t].role

\* No task is released early or forgotten: a blocked step always waits for a
\* dependency that is not completed, and every step that got further than
\* blocked (cancelled apart) has all its dependencies completed.
DependenciesGateTheirSteps ==
  \A t \in StepTask :
    /\ tasks[t].status = "blocked" =>
         \E d \in DependsOn[t] : tasks[d].status # "completed"
    /\ tasks[t].status \notin {"absent", "blocked", "cancelled"} =>
         \A d \in DependsOn[t] : tasks[d].status = "completed"

\* A handoff suspends its parent: while a child is not completed the parent
\* waits (or was cancelled), and a parent never waits for nothing.
HandoffSuspendsParent ==
  \A p \in Task :
    /\ tasks[p].status = "waiting_handoff" =>
         \E c \in Children(p) : tasks[c].status # "completed"
    /\ (\E c \in Children(p) : tasks[c].status # "completed") =>
         tasks[p].status \in {"waiting_handoff", "cancelled"}

\* The status of a run agrees with its tasks: completed exactly when all of
\* them are, failed only if one failed, active only if none did.
RunAgreesWithTasks ==
  \A r \in Run :
    /\ runs[r].status = "absent" <=> TasksOf(r) = {}
    /\ runs[r].status \in {"completed", "absent"} <=>
         \A t \in TasksOf(r) : tasks[t].status = "completed"
    /\ runs[r].status = "failed" => \E t \in TasksOf(r) : tasks[t].status = "failed"
    /\ runs[r].status = "active" => \A t \in TasksOf(r) : tasks[t].status # "failed"

\* Nothing a late failure, retry, cancellation, approval decision or handoff
\* does changes a task or a run that was completed.
CompletionIsFinal ==
  [][/\ \A t \in Task : tasks[t].status = "completed" => tasks'[t] = tasks[t]
     /\ \A r \in Run : runs[r].status = "completed" => runs'[r] = runs[r]]_vars

-----------------------------------------------------------------------------
(* Approvals *)

Open(x) == approvals[x].status \in {"requested", "granted"}

\* A task that waits for an approval has a request a human can still decide
\* or the runtime can expire; otherwise it would wait for ever.
WaitingTaskHasRequest ==
  \A t \in Task : tasks[t].status = "waiting_approval" =>
    \E x \in ApprovalsOf(t) : approvals[x].status = "requested"

\* At most one approval of a task is undecided or unspent, it is one of the
\* current attempt, and none is left over once the task is being executed:
\* an approval cannot carry over to a retry or to a second claim.
OneOpenApproval ==
  \A x \in Approval : Open(x) =>
    /\ approvals[x].attempt = tasks[approvals[x].task].attempt
    /\ tasks[approvals[x].task].status \in {"ready", "waiting_approval", "cancelled"}
    /\ \A y \in Approval :
         Open(y) /\ approvals[y].task = approvals[x].task => y = x

\* An A2 task starts only in a step that spends a granted approval of this
\* very attempt that has not expired; a spent approval is never spent again.
ExecutionSpendsApproval ==
  [][/\ \A t \in Task :
          /\ tasks[t].kind = "A2"
          /\ tasks[t].status # "in_progress"
          /\ tasks'[t].status = "in_progress"
          => \E x \in Approval :
               /\ approvals[x].status = "granted"
               /\ approvals'[x].status = "consumed"
               /\ approvals[x].task = t
               /\ approvals[x].attempt = tasks[t].attempt
               /\ approvals[x].expiresAt > now
     /\ \A x \in Approval :
          approvals[x].status = "consumed" => approvals'[x] = approvals[x]]_vars

-----------------------------------------------------------------------------
(* The outbox and its tasks *)

\* One attempt of a task has one delivery, and an idempotency key of an agent
\* names one delivery, across handoffs, retries and reopened runtimes.
OneDeliveryPerAttempt ==
  \A d, e \in Delivery :
    /\ d # e /\ outbox[d].status # "absent" /\ outbox[e].status # "absent"
    => /\ <<outbox[d].task, outbox[d].taskAttempt>>
            # <<outbox[e].task, outbox[e].taskAttempt>>
       /\ <<outbox[d].requestedBy, outbox[d].key>>
            # <<outbox[e].requestedBy, outbox[e].key>>

\* What an earlier attempt of a task left in the outbox is settled, and so is
\* the outbox of a cancelled task: no worker can still claim or report work
\* of an attempt that was given up, and no review of it is outstanding.
GivenUpAttemptIsSettled ==
  \A d \in Delivery : outbox[d].status \in LiveStatus =>
    /\ outbox[d].taskAttempt = tasks[outbox[d].task].attempt
    /\ tasks[outbox[d].task].status # "cancelled"

\* In a deployment whose processes all register the contract (in any version,
\* its connector active or not), a completed connector task has exactly one
\* delivery for its attempt, and that delivery was simulated.
CompletedTaskWasDelivered ==
  (\A g \in Registries : g.covers) =>
    \A t \in Task :
      tasks[t].status = "completed" /\ tasks[t].kind = "connector" =>
        \E d \in Delivery : DeliveriesOf(t) = {d} /\ outbox[d].status = "simulated"

\* A worker whose lease ran out, or whose claim was superseded, cannot settle
\* the delivery: a claim ends in a result only before its lease does, and
\* otherwise in "uncertain", which only a human review leaves.
LateWorkIsUncertain ==
  [][\A d \in Delivery :
       outbox[d].status = "claimed" /\ outbox'[d] # outbox[d] =>
         IF now < outbox[d].claimExpiresAt
         THEN outbox'[d].status \in {"simulated", "failed", "uncertain"}
         ELSE outbox'[d].status = "uncertain"]_vars

\* The claim of the n-th attempt, whose fresh identifier n stands for.
ClaimOf(n, expiresAt) == [id |-> n, expiresAt |-> expiresAt]

\* What the rules of replay read of a delivery and of the tasks.
Replayed(delivery) ==
  [status |-> delivery.status,
   attempt |-> delivery.attempt,
   retryable |-> delivery.retryable,
   idempotency |-> [requestedBy |-> delivery.requestedBy, key |-> delivery.key],
   claim |-> IF delivery.status = "claimed"
             THEN ClaimOf(delivery.attempt, delivery.claimExpiresAt)
             ELSE ClaimOf(0, 0)]

DeliveryView == [d \in Delivery |-> Replayed(outbox[d])]

BoundTasks == {TaskBinding(t) : t \in {u \in Task : tasks[u].status # "absent"}}

Events == INSTANCE OutboxEvents
  WITH ClaimId <- 0..MaxDeliveryAttempts, Time <- 0..MaxTime,
       clock <- now, bindings <- BoundTasks, deliveries <- DeliveryView

\* The event each command appends, with what the command writes into it.
AppendsItsEvent(d) ==
  /\ \A t \in Task, a \in Agent, key \in DeliveryKey :
       PrepareDelivery(d, t, a, key) =>
         Events!PreparedEvent(d, a, DeliveryIntent(t, a, key))
  /\ \A lease \in ClaimLease :
       ClaimDelivery(d, lease) =>
         Events!ClaimedEvent(d, outbox[d].attempt + 1,
                             ClaimOf(outbox[d].attempt + 1, now + lease))
  /\ \A claim \in 1..MaxDeliveryAttempts :
       \A outcome \in {"simulated", "failed", "uncertain"}, retryable \in BOOLEAN :
         RecordOutcome(d, claim, outcome, retryable) =>
           Events!OutcomeRecordedEvent(d, claim, outcome, retryable)
  /\ \/ ClaimFindsExpiredLease(d)
     \/ \E claim \in 1..MaxDeliveryAttempts : RecordOutcomeTooLate(d, claim)
     \/ ReconcileExpired(d)
     => Events!ClaimExpiredEvent(d, outbox[d].attempt, outbox[d].claimExpiresAt)
  /\ RetryDelivery(d) => Events!RetryAuthorizedEvent(d)
  /\ CancelDelivery(d) => Events!CancelledEvent(d)
  /\ \A decision \in {"simulated", "failed", "cancelled"}, retryable \in BOOLEAN :
       ResolveUncertain(d, decision, retryable) =>
         Events!UncertaintyResolvedEvent(d, decision, retryable)

\* Replay accepts every event the outbox commands append, with the content
\* they give it, and nothing else a command does touches the outbox: whatever
\* is in the log, the next process can rebuild its state from it.
EventsReplay ==
  /\ Events!Spec
  /\ [][\A d \in Delivery : AppendsItsEvent(d)]_vars

-----------------------------------------------------------------------------
(* Human Governance can always clear the outbox *)

\* Time passes, and the people who govern the runtime act on a delivery that
\* keeps waiting for them. Nothing is assumed of agents, of workers or of the
\* registered contract.
Governance ==
  /\ WF_vars(Tick)
  /\ \A d \in Delivery :
       /\ WF_vars(ReconcileExpired(d))
       /\ WF_vars(\E decision \in {"simulated", "failed", "cancelled"},
                     retryable \in BOOLEAN :
                     ResolveUncertain(d, decision, retryable))
       /\ WF_vars(CancelDelivery(d))

GovernedSpec == Spec /\ Governance

\* A failed task is not held back for ever by its delivery, whatever became
\* of the worker that claimed it and of the contract it was prepared under:
\* reconcile, resolve and cancel are enough to make it retryable.
FailedTaskBecomesRetryable ==
  \A t \in Task :
    tasks[t].status = "failed" ~>
      UnsettledDeliveries(t) = {} \/ tasks[t].status # "failed"

-----------------------------------------------------------------------------
(* What the documentation says and the code does not do *)

\* ARCHITECTURE.md, task state machine: no arrow leaves "cancelled".
CancelledTaskStaysCancelled ==
  [][\A t \in Task : tasks[t].status = "cancelled" =>
       tasks'[t].status = "cancelled"]_vars

\* ADR-0046 ("contracted-task completion only after one exact simulated
\* delivery") and test/connector-outbox.test.js ("contracted connector task
\* cannot bypass or outlive its exact delivery"): when a task is completed, the
\* delivery that binds its attempt has been simulated. completeTask asks for it
\* only while the registry has the contract.
TaskDoesNotOutliveDelivery ==
  \A t \in Task : tasks[t].status = "completed" =>
    \A d \in DeliveriesOf(t) : outbox[d].status = "simulated"

=============================================================================
