------------------------- MODULE FdosRuntimeProofs --------------------------
(***************************************************************************)
(* Theorems about FdosRuntime for every value of its constants: its types, *)
(* the events of the outbox as replay accepts them (a refinement), and     *)
(* what late work may do. Each rests on the type invariant alone.          *)
(***************************************************************************)
EXTENDS FdosRuntime, TLAPS

(* Type correctness. The sets of statuses and records stay folded: a leaf  *)
(* gets the memberships it needs from the lemmas of this section.          *)

LEMMA Statuses ==
  /\ "absent" \in RunStatus /\ "active" \in RunStatus /\ "failed" \in RunStatus
  /\ "cancelled" \in RunStatus /\ "completed" \in RunStatus
  /\ "absent" \in TaskStatus /\ "blocked" \in TaskStatus /\ "ready" \in TaskStatus
  /\ "waiting_approval" \in TaskStatus /\ "waiting_handoff" \in TaskStatus
  /\ "in_progress" \in TaskStatus /\ "completed" \in TaskStatus
  /\ "failed" \in TaskStatus /\ "cancelled" \in TaskStatus
  /\ "absent" \in ApprovalStatus /\ "requested" \in ApprovalStatus
  /\ "granted" \in ApprovalStatus /\ "denied" \in ApprovalStatus
  /\ "expired" \in ApprovalStatus /\ "consumed" \in ApprovalStatus
  /\ "absent" \in DeliveryStatus /\ "prepared" \in DeliveryStatus
  /\ "claimed" \in DeliveryStatus /\ "simulated" \in DeliveryStatus
  /\ "failed" \in DeliveryStatus /\ "uncertain" \in DeliveryStatus
  /\ "cancelled" \in DeliveryStatus
  BY DEF RunStatus, TaskStatus, ApprovalStatus, DeliveryStatus

LEMMA Zeroes ==
  /\ 0 \in 0..MaxHandoffDepth /\ 1 \in 1..MaxTaskAttempts
  /\ 1 \in 1..MaxContract /\ 0 \in 0..MaxDeliveryAttempts /\ 0 \in 0..MaxTime
  BY BoundAssumption DEF BoundAssumption, MaxTaskAttempts

LEMMA EmptyRecords ==
  /\ NoRun \in RunRecord
  /\ NoTask \in TaskRecord
  /\ NoApproval \in ApprovalRecord
  /\ NoDelivery \in DeliveryRecord
<1>1. NoRun \in RunRecord
  BY Statuses DEF NoRun, RunRecord
<1>2. NoTask \in TaskRecord
  BY Statuses, Zeroes DEF NoTask, TaskRecord
<1>3. NoApproval \in ApprovalRecord
  BY Statuses, Zeroes DEF NoApproval, ApprovalRecord
<1>4. NoDelivery \in DeliveryRecord
  BY Statuses, Zeroes DEF NoDelivery, DeliveryRecord
<1> QED
  BY <1>1, <1>2, <1>3, <1>4

\* What the commands write into a task and into a delivery keeps its type.
LEMMA TaskUpdate ==
  ASSUME NEW task \in TaskRecord, NEW s \in TaskStatus,
         NEW a \in Agent \cup {None}, NEW b \in BOOLEAN
  PROVE  /\ [task EXCEPT !.status = s] \in TaskRecord
         /\ [task EXCEPT !.status = s, !.claimedBy = a] \in TaskRecord
         /\ [task EXCEPT !.status = s, !.claimedBy = a, !.retryable = b] \in TaskRecord
<1>1. [task EXCEPT !.status = s] \in TaskRecord
  BY DEF TaskRecord
<1>2. [task EXCEPT !.status = s, !.claimedBy = a] \in TaskRecord
  BY DEF TaskRecord
<1>3. [task EXCEPT !.status = s, !.claimedBy = a, !.retryable = b] \in TaskRecord
  BY DEF TaskRecord
<1> QED
  BY <1>1, <1>2, <1>3

LEMMA DeliveryUpdate ==
  ASSUME NEW delivery \in DeliveryRecord, NEW s \in DeliveryStatus,
         NEW o \in {"simulated", "failed", "uncertain"}, NEW b \in BOOLEAN
  PROVE  /\ [delivery EXCEPT !.status = s, !.retryable = b] \in DeliveryRecord
         /\ [delivery EXCEPT !.status = s, !.lastOutcome = o, !.claimExpiresAt = 0,
                             !.retryable = b] \in DeliveryRecord
<1>1. [delivery EXCEPT !.status = s, !.retryable = b] \in DeliveryRecord
  BY DEF DeliveryRecord
<1>2. [delivery EXCEPT !.status = s, !.lastOutcome = o, !.claimExpiresAt = 0,
                       !.retryable = b] \in DeliveryRecord
  BY DEF DeliveryRecord
<1> QED
  BY <1>1, <1>2

LEMMA InitType == Init => TypeOK
  BY EmptyRecords, Zeroes DEF Init, TypeOK

\* Every command on workflows keeps the type of the state.
LEMMA WorkflowType == TypeOK /\ WorkflowStep => TypeOK'
<1> SUFFICES ASSUME TypeOK, WorkflowStep PROVE TypeOK'
  OBVIOUS
<1> USE Statuses, Zeroes DEF TypeOK
<1>a. \A t \in Task : RunOf[t] \in Run
  BY WorkflowAssumption DEF WorkflowAssumption
<1>1. ASSUME NEW r \in Run, NEW key \in RunKey \cup {None}, StartWorkflow(r, key)
      PROVE  TypeOK'
  <2>1. ASSUME NEW t \in StepTask PROVE InitialTask(t) \in TaskRecord
    <3>1. StepRole[t] \in Role /\ StepKind[t] \in Kind
      BY WorkflowAssumption DEF WorkflowAssumption
    <3> QED
      BY <3>1 DEF InitialTask, NoTask, TaskRecord
  <2>2. tasks' \in [Task -> TaskRecord]
    BY <1>1, <2>1 DEF StartWorkflow
  <2>3. runs' \in [Run -> RunRecord]
    BY <1>1 DEF StartWorkflow, RunRecord, NoRun
  <2> QED
    BY <1>1, <2>2, <2>3 DEF StartWorkflow
<1>2. ASSUME NEW t \in Task, NEW a \in Agent, ClaimTask(t, a)
      PROVE  TypeOK'
  <2>1. tasks' \in [Task -> TaskRecord]
    BY <1>2, TaskUpdate DEF ClaimTask
  <2>2. approvals' \in [Approval -> ApprovalRecord]
    BY <1>2 DEF ClaimTask, Authorize, UsableApprovals, ApprovalsOf, ApprovalRecord
  <2> QED
    BY <1>2, <2>1, <2>2 DEF ClaimTask
<1>3. ASSUME NEW t \in Task, NEW a \in Agent, CompleteTask(t, a)
      PROVE  TypeOK'
  <2>1. tasks' \in [Task -> TaskRecord]
    BY ZenonT(60), <1>3 DEF CompleteTask, TaskRecord
  <2>2. RunAfterCompletion(t) \in RunRecord
    BY <1>a DEF RunAfterCompletion, RunRecord
  <2>3. runs' \in [Run -> RunRecord]
    BY <1>3, <2>2 DEF CompleteTask
  <2> QED
    BY <1>3, <2>1, <2>3 DEF CompleteTask
<1>4. ASSUME NEW t \in Task, NEW a \in Agent, NEW retryable \in BOOLEAN,
             FailTask(t, a, retryable)
      PROVE  TypeOK'
  <2>1. tasks' \in [Task -> TaskRecord]
    BY <1>4, TaskUpdate DEF FailTask
  <2>2. runs' \in [Run -> RunRecord]
    BY <1>4 DEF FailTask, RunRecord
  <2> QED
    BY <1>4, <2>1, <2>2 DEF FailTask
<1>5. ASSUME NEW t \in Task, NEW a \in Agent, NEW c \in Task, NEW role \in Role,
             NEW kind \in HandoffKind, HandoffTask(t, a, c, role, kind)
      PROVE  TypeOK'
  <2> DEFINE child == [NoTask EXCEPT !.status = "ready", !.role = role,
                                     !.kind = kind, !.parent = t,
                                     !.depth = tasks[t].depth + 1]
  <2>1. tasks[t].depth + 1 \in 0..MaxHandoffDepth
    BY <1>5, BoundAssumption DEF BoundAssumption, HandoffTask, TaskRecord
  <2>2. child \in TaskRecord
    BY <2>1, AgentAssumption DEF AgentAssumption, NoTask, TaskRecord
  <2>3. tasks' = [tasks EXCEPT ![t].status = "waiting_handoff",
                               ![t].claimedBy = None, ![c] = child]
    BY <1>5 DEF HandoffTask
  <2> HIDE DEF child
  <2>4. tasks' \in [Task -> TaskRecord]
    BY <2>2, <2>3 DEF TaskRecord
  <2> QED
    BY <1>5, <2>4 DEF HandoffTask
<1>6. ASSUME NEW t \in Task, RetryTask(t)
      PROVE  TypeOK'
  <2>1. tasks[t].attempt + 1 \in 1..MaxTaskAttempts
    BY <1>6 DEF RetryTask, TaskRecord, MaxTaskAttempts
  <2>2. tasks' \in [Task -> TaskRecord]
    BY <1>6, <2>1 DEF RetryTask, TaskRecord
  <2>3. runs' \in [Run -> RunRecord]
    BY ZenonT(60), <1>6 DEF RetryTask, RunStatusAfterRetry, RunRecord
  <2> QED
    BY <1>6, <2>2, <2>3 DEF RetryTask
<1>7. ASSUME NEW t \in Task, CancelTask(t)
      PROVE  TypeOK'
  <2>1. tasks' \in [Task -> TaskRecord]
    BY <1>7, TaskUpdate DEF CancelTask
  <2>2. runs' \in [Run -> RunRecord]
    BY <1>7 DEF CancelTask, RunRecord
  <2> QED
    BY <1>7, <2>1, <2>2 DEF CancelTask
<1> QED
  BY <1>1, <1>2, <1>3, <1>4, <1>5, <1>6, <1>7 DEF WorkflowStep

\* Every command on approvals keeps the type of the state: recording expired
\* approvals does, and so does what follows it.
LEMMA ApprovalType == TypeOK /\ ApprovalStep => TypeOK'
<1> SUFFICES ASSUME TypeOK, ApprovalStep PROVE TypeOK'
  OBVIOUS
<1> USE Statuses, Zeroes DEF TypeOK
<1>a. ASSUME NEW set PROVE Expired(set) \in [Approval -> ApprovalRecord]
  BY DEF Expired, ApprovalRecord
<1>b. ASSUME NEW set, NEW t \in Task PROVE StatusAfterExpiry(t, set) \in TaskStatus
  BY DEF StatusAfterExpiry, TaskRecord
<1>1. ASSUME NEW t \in Task, NEW x \in Approval, NEW ttl \in ApprovalTtl,
             RequestApproval(t, x, ttl)
      PROVE  TypeOK'
  <2> DEFINE request == [status |-> "requested", task |-> t,
                         attempt |-> tasks[t].attempt, expiresAt |-> now + ttl]
  <2>1. request \in ApprovalRecord
    BY BoundAssumption DEF BoundAssumption, ApprovalRecord, TaskRecord
  <2>2. approvals' = [Expired(StaleApprovals(t)) EXCEPT ![x] = request]
    BY <1>1 DEF RequestApproval
  <2> HIDE DEF request
  <2>3. approvals' \in [Approval -> ApprovalRecord]
    BY <1>a, <2>1, <2>2
  <2>4. tasks' \in [Task -> TaskRecord]
    BY <1>1 DEF RequestApproval, TaskRecord
  <2> QED
    BY <1>1, <2>3, <2>4 DEF RequestApproval
<1>2. ASSUME NEW t \in Task, RequestApprovalRefused(t)
      PROVE  TypeOK'
  <2>1. approvals' \in [Approval -> ApprovalRecord]
    BY <1>2, <1>a DEF RequestApprovalRefused
  <2>2. tasks' \in [Task -> TaskRecord]
    BY <1>2, <1>b DEF RequestApprovalRefused, TaskRecord
  <2> QED
    BY <1>2, <2>1, <2>2 DEF RequestApprovalRefused
<1>3. ASSUME NEW x \in Approval, GrantApproval(x)
      PROVE  TypeOK'
  <2>1. approvals' \in [Approval -> ApprovalRecord]
    BY <1>3 DEF GrantApproval, ApprovalRecord
  <2>2. tasks' \in [Task -> TaskRecord]
    BY ZenonT(60), <1>3 DEF GrantApproval, TaskRecord
  <2> QED
    BY <1>3, <2>1, <2>2 DEF GrantApproval
<1>4. ASSUME NEW x \in Approval, DenyApproval(x)
      PROVE  TypeOK'
  <2>1. approvals' \in [Approval -> ApprovalRecord]
    BY <1>4 DEF DenyApproval, ApprovalRecord
  <2>2. tasks' \in [Task -> TaskRecord]
    BY ZenonT(60), <1>4 DEF DenyApproval, TaskRecord
  <2>3. runs' \in [Run -> RunRecord]
    BY <1>4 DEF DenyApproval, RunRecord
  <2> QED
    BY <1>4, <2>1, <2>2, <2>3 DEF DenyApproval
<1>5. ASSUME NEW x \in Approval, DecideExpiredApproval(x)
      PROVE  TypeOK'
  <2>1. approvals' \in [Approval -> ApprovalRecord]
    BY <1>5, <1>a DEF DecideExpiredApproval
  <2>2. tasks' \in [Task -> TaskRecord]
    BY ZenonT(60), <1>5, <1>b DEF DecideExpiredApproval, TaskRecord
  <2> QED
    BY <1>5, <2>1, <2>2 DEF DecideExpiredApproval
<1> QED
  BY <1>1, <1>2, <1>3, <1>4, <1>5 DEF ApprovalStep

\* Every command on the outbox keeps the type of the state.
LEMMA OutboxType == TypeOK /\ OutboxStep => TypeOK'
<1> SUFFICES ASSUME TypeOK, OutboxStep PROVE TypeOK'
  OBVIOUS
<1> USE Statuses, Zeroes DEF TypeOK
<1>a. ASSUME NEW d \in Delivery, BecomesUncertain(d) PROVE TypeOK'
  <2>1. outbox' \in [Delivery -> DeliveryRecord]
    BY <1>a, DeliveryUpdate DEF BecomesUncertain
  <2> QED
    BY <1>a, <2>1 DEF BecomesUncertain
<1>1. ASSUME NEW d \in Delivery, NEW t \in Task, NEW a \in Agent,
             NEW key \in DeliveryKey, PrepareDelivery(d, t, a, key)
      PROVE  TypeOK'
  <2>1. tasks[t].attempt \in 1..MaxTaskAttempts
    BY DEF TaskRecord
  <2>2. registry.version \in 1..MaxContract
    BY <1>1, RegistryAssumption, BoundAssumption DEF BoundAssumption, PrepareDelivery
  <2>3. Prepared(t, a, key) \in DeliveryRecord
    BY <2>1, <2>2 DEF Prepared, NoDelivery, DeliveryRecord
  <2>4. outbox' \in [Delivery -> DeliveryRecord]
    BY <1>1, <2>3 DEF PrepareDelivery
  <2> QED
    BY <1>1, <2>4 DEF PrepareDelivery
<1>2. ASSUME NEW d \in Delivery, NEW lease \in ClaimLease, ClaimDelivery(d, lease)
      PROVE  TypeOK'
  <2>1. outbox[d].attempt + 1 \in 0..MaxDeliveryAttempts /\ now + lease \in Nat
    BY <1>2, BoundAssumption DEF BoundAssumption, ClaimDelivery, DeliveryRecord
  <2>2. outbox' \in [Delivery -> DeliveryRecord]
    BY <1>2, <2>1 DEF ClaimDelivery, DeliveryRecord
  <2> QED
    BY <1>2, <2>2 DEF ClaimDelivery
<1>3. ASSUME NEW d \in Delivery,
             NEW claim, NEW outcome \in {"simulated", "failed", "uncertain"},
             NEW retryable \in BOOLEAN, RecordOutcome(d, claim, outcome, retryable)
      PROVE  TypeOK'
  <2>1. outcome \in DeliveryStatus
    OBVIOUS
  <2>2. outbox' \in [Delivery -> DeliveryRecord]
    BY <1>3, <2>1, DeliveryUpdate DEF RecordOutcome
  <2> QED
    BY <1>3, <2>2 DEF RecordOutcome
<1>4. ASSUME NEW d \in Delivery, RetryDelivery(d)
      PROVE  TypeOK'
  <2>1. outbox' \in [Delivery -> DeliveryRecord]
    BY <1>4 DEF RetryDelivery, DeliveryRecord
  <2> QED
    BY <1>4, <2>1 DEF RetryDelivery
<1>5. ASSUME NEW d \in Delivery, CancelDelivery(d)
      PROVE  TypeOK'
  <2>1. outbox' \in [Delivery -> DeliveryRecord]
    BY <1>5, DeliveryUpdate DEF CancelDelivery
  <2> QED
    BY <1>5, <2>1 DEF CancelDelivery
<1>6. ASSUME NEW d \in Delivery, NEW decision \in {"simulated", "failed", "cancelled"},
             NEW retryable \in BOOLEAN, ResolveUncertain(d, decision, retryable)
      PROVE  TypeOK'
  <2>1. decision \in DeliveryStatus
    OBVIOUS
  <2>2. outbox' \in [Delivery -> DeliveryRecord]
    BY <1>6, <2>1, DeliveryUpdate DEF ResolveUncertain
  <2> QED
    BY <1>6, <2>2 DEF ResolveUncertain
<1>7. ASSUME NEW g \in Registries, ReopenWithRegistry(g)
      PROVE  TypeOK'
  BY <1>7 DEF ReopenWithRegistry
<1> QED
  BY <1>a, <1>1, <1>2, <1>3, <1>4, <1>5, <1>6, <1>7
  DEF OutboxStep, ClaimFindsExpiredLease, RecordOutcomeTooLate, ReconcileExpired

LEMMA NextType == TypeOK /\ [Next]_vars => TypeOK'
<1>1. TypeOK /\ Tick => TypeOK'
  BY BoundAssumption DEF BoundAssumption, TypeOK, Tick
<1> SUFFICES ASSUME TypeOK, [Next]_vars PROVE TypeOK'
  OBVIOUS
<1>2. CASE vars' = vars
  BY <1>2 DEF TypeOK, vars
<1> QED
  BY <1>1, <1>2, WorkflowType, ApprovalType, OutboxType DEF Next

\* Every reachable state has the type of a state; in particular no task is
\* attempted more than twice, no delivery more often than its contract says,
\* and no handoff goes deeper than the workflow allows.
THEOREM TypeCorrect == Spec => []TypeOK
  BY InitType, NextType, PTL DEF Spec

-----------------------------------------------------------------------------
(* The outbox: the events its commands append, and late work *)

LEMMA ViewOf ==
  ASSUME NEW d \in Delivery
  PROVE  /\ DeliveryView[d].status = outbox[d].status
         /\ DeliveryView[d].attempt = outbox[d].attempt
         /\ DeliveryView[d].retryable = outbox[d].retryable
         /\ DeliveryView[d].idempotency =
              [requestedBy |-> outbox[d].requestedBy, key |-> outbox[d].key]
         /\ outbox[d].status = "claimed" =>
              DeliveryView[d].claim = ClaimOf(outbox[d].attempt, outbox[d].claimExpiresAt)
         /\ outbox[d].status # "claimed" => DeliveryView[d].claim = ClaimOf(0, 0)
  BY DEF DeliveryView, Replayed

\* A step that changes one delivery changes one delivery of the view, and
\* nothing else of what the rules read.
LEMMA OneDeliveryChanges ==
  ASSUME TypeOK, NEW d \in Delivery, NEW new,
         outbox' = [outbox EXCEPT ![d] = new], UNCHANGED <<now, tasks>>
  PROVE  /\ DeliveryView' = [DeliveryView EXCEPT ![d] = Replayed(new)]
         /\ UNCHANGED <<now, BoundTasks>>
<1>1. /\ DeliveryView = [x \in Delivery |-> Replayed(outbox[x])]
      /\ DeliveryView' = [x \in Delivery |-> Replayed(outbox'[x])]
  BY DEF DeliveryView, Replayed, ClaimOf
<1>2. outbox'[d] = new /\ \A x \in Delivery \ {d} : outbox'[x] = outbox[x]
  BY DEF TypeOK
<1>3. DeliveryView' = [DeliveryView EXCEPT ![d] = Replayed(new)]
  BY <1>1, <1>2
<1>4. UNCHANGED <<now, BoundTasks>>
  BY DEF BoundTasks, TaskBinding
<1> QED
  BY <1>3, <1>4

\* A step that gives one delivery this status, attempt and so on, and leaves who
\* requested it under which key, is the event that says so.
LEMMA OneDeliveryBecomes ==
  ASSUME TypeOK, NEW d \in Delivery, NEW new, NEW s, NEW n, NEW b, NEW c,
         outbox' = [outbox EXCEPT ![d] = new], UNCHANGED <<now, tasks>>,
         new.status = s, new.attempt = n, new.retryable = b,
         new.requestedBy = outbox[d].requestedBy, new.key = outbox[d].key,
         c = IF s = "claimed" THEN ClaimOf(n, new.claimExpiresAt) ELSE ClaimOf(0, 0)
  PROVE  Events!Becomes(d, s, n, b, c)
<1> DEFINE digest == [requestedBy |-> outbox[d].requestedBy, key |-> outbox[d].key]
<1>1. /\ DeliveryView' = [DeliveryView EXCEPT ![d] = Replayed(new)]
      /\ UNCHANGED <<now, BoundTasks>>
  BY OneDeliveryChanges
<1>2. DeliveryView[d].idempotency = digest
  BY ViewOf
<1>3. Replayed(new) = Events!Known(s, n, b, digest, c)
  BY DEF Replayed, Events!Known
<1> HIDE DEF digest
<1> QED
  BY <1>1, <1>2, <1>3 DEF Events!Becomes

LEMMA InitEvents == Init => Events!Init
<1> SUFFICES ASSUME Init PROVE Events!Init
  OBVIOUS
<1>1. now \in 0..MaxTime
  BY Zeroes DEF Init
<1>2. BoundTasks = {}
  BY DEF Init, NoTask, BoundTasks
<1>3. Replayed(NoDelivery) =
        Events!Known("absent", 0, FALSE, [requestedBy |-> None, key |-> None],
                     Events!NoClaim)
  BY DEF Replayed, NoDelivery, ClaimOf, Events!Known, Events!NoClaim
<1>4. DeliveryView = [d \in Delivery |-> Replayed(NoDelivery)]
  BY DEF Init, DeliveryView
<1> QED
  BY <1>1, <1>2, <1>3, <1>4 DEF Events!Init

LEMMA PrepareDeliveryEvent ==
  ASSUME TypeOK, NEW d \in Delivery, NEW t \in Task, NEW a \in Agent,
         NEW key \in DeliveryKey, PrepareDelivery(d, t, a, key)
  PROVE  /\ Events!PreparedEvent(d, a, DeliveryIntent(t, a, key))
         /\ TaskBinding(t) \in BoundTasks
<1> DEFINE new == Prepared(t, a, key)
           digest == [requestedBy |-> a, key |-> key]
<1>1. /\ outbox' = [outbox EXCEPT ![d] = new] /\ UNCHANGED <<now, tasks>>
      /\ outbox[d].status = "absent" /\ tasks[t].status = "in_progress"
  BY DEF PrepareDelivery
<1>2. \A e \in Delivery :
        [requestedBy |-> outbox[e].requestedBy, key |-> outbox[e].key] # digest
  BY DEF PrepareDelivery
<1>3. Replayed(new) = Events!Known("prepared", 0, FALSE, digest, Events!NoClaim)
  <2>1. /\ new.status = "prepared" /\ new.attempt = 0 /\ new.retryable = FALSE
        /\ new.requestedBy = a /\ new.key = key
    BY DEF Prepared, NoDelivery
  <2> HIDE DEF new
  <2> QED
    BY <2>1 DEF Replayed, ClaimOf, Events!Known, Events!NoClaim
<1>4. /\ DeliveryIntent(t, a, key).requestedBy = a
      /\ DeliveryIntent(t, a, key).task = TaskBinding(t)
      /\ DeliveryIntent(t, a, key).idempotency = digest
  BY DEF DeliveryIntent
<1>5. TaskBinding(t) \in BoundTasks
  BY <1>1 DEF BoundTasks
<1> HIDE DEF new, digest
<1>6. /\ DeliveryView' = [DeliveryView EXCEPT ![d] = Replayed(new)]
      /\ UNCHANGED <<now, BoundTasks>>
  BY <1>1, OneDeliveryChanges
<1>7. \A e \in Delivery : DeliveryView[e].idempotency # digest
  BY <1>2, ViewOf
<1>8. DeliveryView[d].status = "absent"
  BY <1>1, ViewOf
<1> QED
  BY <1>3, <1>4, <1>5, <1>6, <1>7, <1>8 DEF Events!PreparedEvent

LEMMA ClaimDeliveryEvent ==
  ASSUME TypeOK, NEW d \in Delivery, NEW lease \in ClaimLease, ClaimDelivery(d, lease)
  PROVE  /\ Events!ClaimedEvent(d, outbox[d].attempt + 1,
                                 ClaimOf(outbox[d].attempt + 1, now + lease))
         /\ outbox[d].attempt + 1 \in 1..MaxDeliveryAttempts
         /\ now + lease \in 0..MaxTime
<1> DEFINE attempt == outbox[d].attempt + 1
           expiresAt == now + lease
           no == FALSE
           claim == ClaimOf(attempt, expiresAt)
           new == [outbox[d] EXCEPT !.status = "claimed", !.attempt = attempt,
                                    !.claimExpiresAt = expiresAt, !.retryable = no]
<1>0. outbox[d] \in DeliveryRecord
  BY DEF TypeOK
<1>1. /\ outbox' = [outbox EXCEPT ![d] = new] /\ UNCHANGED <<now, tasks>>
      /\ outbox[d].status = "prepared"
  BY DEF ClaimDelivery, TypeOK
<1>2. /\ expiresAt \in 0..MaxTime /\ expiresAt > now
      /\ attempt \in 1..MaxDeliveryAttempts /\ attempt <= MaxDeliveryAttempts
  BY <1>0, BoundAssumption DEF BoundAssumption, ClaimDelivery, TypeOK, DeliveryRecord
<1>3. attempt = outbox[d].attempt + 1 /\ claim.expiresAt = expiresAt
  BY DEF ClaimOf
<1> HIDE DEF attempt, expiresAt, no
<1>4. /\ new.status = "claimed" /\ new.attempt = attempt
      /\ new.retryable = no /\ new.claimExpiresAt = expiresAt
      /\ new.requestedBy = outbox[d].requestedBy /\ new.key = outbox[d].key
  BY <1>0 DEF DeliveryRecord
<1> HIDE DEF new
<1>5. claim = IF "claimed" = "claimed" THEN ClaimOf(attempt, new.claimExpiresAt)
              ELSE ClaimOf(0, 0)
  BY <1>4
<1> HIDE DEF claim
<1>6. Events!Becomes(d, "claimed", attempt, no, claim)
  BY <1>1, <1>4, <1>5, OneDeliveryBecomes, Zenon
<1>7. DeliveryView[d].status = "prepared" /\ attempt = DeliveryView[d].attempt + 1
  BY <1>1, <1>3, ViewOf
<1>8. claim.expiresAt > now
  BY <1>2, <1>3
<1>9. Events!ClaimedEvent(d, attempt, claim)
  BY <1>2, <1>6, <1>7, <1>8 DEF Events!ClaimedEvent, no
<1> QED
  BY <1>2, <1>9 DEF attempt, expiresAt, claim

LEMMA ClaimExpiredEventStep ==
  ASSUME TypeOK, NEW d \in Delivery, outbox[d].status = "claimed",
         ClaimExpired(d), BecomesUncertain(d)
  PROVE  Events!ClaimExpiredEvent(d, outbox[d].attempt, outbox[d].claimExpiresAt)
<1> DEFINE new == [outbox[d] EXCEPT !.status = "uncertain", !.lastOutcome = "uncertain",
                                    !.claimExpiresAt = 0, !.retryable = FALSE]
<1>0. outbox[d] \in DeliveryRecord
  BY DEF TypeOK
<1>1. outbox' = [outbox EXCEPT ![d] = new] /\ UNCHANGED <<now, tasks>>
  BY DEF BecomesUncertain, TypeOK
<1>2. /\ new.status = "uncertain" /\ new.attempt = outbox[d].attempt
      /\ new.retryable = FALSE
      /\ new.requestedBy = outbox[d].requestedBy /\ new.key = outbox[d].key
  BY <1>0 DEF DeliveryRecord
<1> HIDE DEF new
<1>3. Events!NoClaim = IF "uncertain" = "claimed"
                       THEN ClaimOf(outbox[d].attempt, new.claimExpiresAt)
                       ELSE ClaimOf(0, 0)
  BY DEF Events!NoClaim, ClaimOf
<1>4. Events!Becomes(d, "uncertain", outbox[d].attempt, FALSE, Events!NoClaim)
  BY <1>1, <1>2, <1>3, OneDeliveryBecomes
<1>5. now >= outbox[d].claimExpiresAt
  BY <1>0 DEF ClaimExpired, TypeOK, DeliveryRecord
<1>6. /\ DeliveryView[d].status = "claimed"
      /\ DeliveryView[d].attempt = outbox[d].attempt
      /\ DeliveryView[d].claim.id = outbox[d].attempt
      /\ DeliveryView[d].claim.expiresAt = outbox[d].claimExpiresAt
  <2>1. DeliveryView[d].claim = ClaimOf(outbox[d].attempt, outbox[d].claimExpiresAt)
    BY ViewOf
  <2>2. /\ DeliveryView[d].status = "claimed"
        /\ DeliveryView[d].attempt = outbox[d].attempt
    BY ViewOf
  <2> QED
    BY <2>1, <2>2 DEF ClaimOf
<1> QED
  BY <1>4, <1>5, <1>6 DEF Events!ClaimExpiredEvent

LEMMA RecordOutcomeEvent ==
  ASSUME TypeOK, NEW d \in Delivery, NEW claim,
         NEW outcome \in {"simulated", "failed", "uncertain"}, NEW retryable \in BOOLEAN,
         RecordOutcome(d, claim, outcome, retryable)
  PROVE  Events!OutcomeRecordedEvent(d, claim, outcome, retryable)
<1> DEFINE new == [outbox[d] EXCEPT !.status = outcome, !.lastOutcome = outcome,
                                    !.claimExpiresAt = 0, !.retryable = retryable]
<1>0. outbox[d] \in DeliveryRecord
  BY DEF TypeOK
<1>1. /\ outbox' = [outbox EXCEPT ![d] = new] /\ UNCHANGED <<now, tasks>>
      /\ outbox[d].status = "claimed" /\ ~ClaimExpired(d)
      /\ outbox[d].attempt = claim
      /\ retryable => outcome = "failed"
  BY DEF RecordOutcome, HoldsClaim, TypeOK
<1>2. /\ new.status = outcome /\ new.attempt = outbox[d].attempt
      /\ new.retryable = retryable
      /\ new.requestedBy = outbox[d].requestedBy /\ new.key = outbox[d].key
  BY <1>0 DEF DeliveryRecord
<1> HIDE DEF new
<1>3. Events!NoClaim = IF outcome = "claimed"
                       THEN ClaimOf(outbox[d].attempt, new.claimExpiresAt)
                       ELSE ClaimOf(0, 0)
  BY DEF Events!NoClaim, ClaimOf
<1>4. Events!Becomes(d, outcome, outbox[d].attempt, retryable, Events!NoClaim)
  BY <1>1, <1>2, <1>3, OneDeliveryBecomes
<1>5. now <= outbox[d].claimExpiresAt
  BY <1>0, <1>1 DEF ClaimExpired, TypeOK, DeliveryRecord
<1>6. /\ DeliveryView[d].status = "claimed"
      /\ DeliveryView[d].attempt = outbox[d].attempt
      /\ DeliveryView[d].claim.id = claim
      /\ DeliveryView[d].claim.expiresAt = outbox[d].claimExpiresAt
  <2>1. DeliveryView[d].claim = ClaimOf(outbox[d].attempt, outbox[d].claimExpiresAt)
    BY <1>1, ViewOf
  <2>2. /\ DeliveryView[d].status = "claimed"
        /\ DeliveryView[d].attempt = outbox[d].attempt
    BY <1>1, ViewOf
  <2> QED
    BY <1>1, <2>1, <2>2 DEF ClaimOf
<1> QED
  BY <1>1, <1>4, <1>5, <1>6 DEF Events!OutcomeRecordedEvent

\* retryDelivery, cancelDelivery and resolveUncertainDelivery change the status
\* of a delivery nobody holds, and whether it may be retried.
LEMMA GovernanceChange ==
  ASSUME TypeOK, NEW d \in Delivery, NEW s, s # "claimed", NEW b,
         outbox[d].status # "claimed", UNCHANGED <<now, tasks>>,
         outbox' = [outbox EXCEPT ![d].status = s, ![d].retryable = b]
  PROVE  /\ Events!Becomes(d, s, outbox[d].attempt, b, Events!NoClaim)
         /\ DeliveryView[d].claim = Events!NoClaim
<1> DEFINE new == [outbox[d] EXCEPT !.status = s, !.retryable = b]
<1>0. outbox[d] \in DeliveryRecord
  BY DEF TypeOK
<1>1. outbox' = [outbox EXCEPT ![d] = new]
  BY DEF TypeOK
<1>2. /\ new.status = s /\ new.attempt = outbox[d].attempt /\ new.retryable = b
      /\ new.requestedBy = outbox[d].requestedBy /\ new.key = outbox[d].key
  BY <1>0 DEF DeliveryRecord
<1> HIDE DEF new
<1>3. Events!NoClaim = IF s = "claimed"
                       THEN ClaimOf(outbox[d].attempt, new.claimExpiresAt)
                       ELSE ClaimOf(0, 0)
  BY DEF Events!NoClaim, ClaimOf
<1>4. Events!Becomes(d, s, outbox[d].attempt, b, Events!NoClaim)
  BY <1>1, <1>2, <1>3, OneDeliveryBecomes, Zenon
<1>5. DeliveryView[d].claim = Events!NoClaim
  BY ViewOf DEF Events!NoClaim, ClaimOf
<1> QED
  BY <1>4, <1>5

LEMMA RetryDeliveryEvent ==
  ASSUME TypeOK, NEW d \in Delivery, RetryDelivery(d)
  PROVE  Events!RetryAuthorizedEvent(d)
<1> DEFINE no == FALSE
<1>1. /\ outbox' = [outbox EXCEPT ![d].status = "prepared", ![d].retryable = no]
      /\ UNCHANGED <<now, tasks>> /\ outbox[d].status = "failed"
      /\ outbox[d].retryable /\ outbox[d].attempt < MaxDeliveryAttempts
  BY DEF RetryDelivery
<1> HIDE DEF no
<1>2. /\ Events!Becomes(d, "prepared", outbox[d].attempt, no, Events!NoClaim)
      /\ DeliveryView[d].claim = Events!NoClaim
  BY <1>1, GovernanceChange
<1> QED
  BY <1>1, <1>2, ViewOf DEF Events!RetryAuthorizedEvent, no

LEMMA CancelDeliveryEvent ==
  ASSUME TypeOK, NEW d \in Delivery, CancelDelivery(d)
  PROVE  Events!CancelledEvent(d)
<1> DEFINE no == FALSE
<1>1. /\ outbox' = [outbox EXCEPT ![d].status = "cancelled", ![d].retryable = no]
      /\ UNCHANGED <<now, tasks>> /\ outbox[d].status \in {"prepared", "failed"}
  BY DEF CancelDelivery
<1> HIDE DEF no
<1>2. Events!Becomes(d, "cancelled", outbox[d].attempt, no, Events!NoClaim)
  BY <1>1, GovernanceChange
<1> QED
  BY <1>1, <1>2, ViewOf DEF Events!CancelledEvent, no

LEMMA ResolveUncertainEvent ==
  ASSUME TypeOK, NEW d \in Delivery, NEW decision \in {"simulated", "failed", "cancelled"},
         NEW b \in BOOLEAN, ResolveUncertain(d, decision, b)
  PROVE  Events!UncertaintyResolvedEvent(d, decision, b)
<1>1. /\ outbox' = [outbox EXCEPT ![d].status = decision, ![d].retryable = b]
      /\ UNCHANGED <<now, tasks>> /\ outbox[d].status = "uncertain"
      /\ b => decision = "failed"
  BY DEF ResolveUncertain
<1>2. /\ Events!Becomes(d, decision, outbox[d].attempt, b, Events!NoClaim)
      /\ DeliveryView[d].claim = Events!NoClaim
  BY <1>1, GovernanceChange
<1> QED
  BY <1>1, <1>2, ViewOf DEF Events!UncertaintyResolvedEvent

\* Each command of the outbox is the event it appends.
LEMMA CommandsAppend ==
  ASSUME TypeOK, NEW d \in Delivery
  PROVE  AppendsItsEvent(d)
<1>1. ASSUME \/ ClaimFindsExpiredLease(d)
             \/ \E claim \in 1..MaxDeliveryAttempts : RecordOutcomeTooLate(d, claim)
             \/ ReconcileExpired(d)
      PROVE  Events!ClaimExpiredEvent(d, outbox[d].attempt, outbox[d].claimExpiresAt)
  BY <1>1, ClaimExpiredEventStep
  DEF ClaimFindsExpiredLease, RecordOutcomeTooLate, ReconcileExpired, HoldsClaim
<1>2. \A t \in Task, a \in Agent, key \in DeliveryKey :
        PrepareDelivery(d, t, a, key) =>
          Events!PreparedEvent(d, a, DeliveryIntent(t, a, key))
  BY PrepareDeliveryEvent
<1>3. \A lease \in ClaimLease :
        ClaimDelivery(d, lease) =>
          Events!ClaimedEvent(d, outbox[d].attempt + 1,
                              ClaimOf(outbox[d].attempt + 1, now + lease))
  BY ClaimDeliveryEvent
<1>4. \A claim \in 1..MaxDeliveryAttempts :
        \A outcome \in {"simulated", "failed", "uncertain"}, retryable \in BOOLEAN :
          RecordOutcome(d, claim, outcome, retryable) =>
            Events!OutcomeRecordedEvent(d, claim, outcome, retryable)
  BY RecordOutcomeEvent
<1>5. \A decision \in {"simulated", "failed", "cancelled"}, retryable \in BOOLEAN :
        ResolveUncertain(d, decision, retryable) =>
          Events!UncertaintyResolvedEvent(d, decision, retryable)
  BY ResolveUncertainEvent
<1> QED
  BY <1>1, <1>2, <1>3, <1>4, <1>5, RetryDeliveryEvent, CancelDeliveryEvent
  DEF AppendsItsEvent

\* Only the steps of the outbox change it or, with the clock, time.
LEMMA OtherStepsLeaveOutbox ==
  ASSUME WorkflowStep \/ ApprovalStep
  PROVE  UNCHANGED <<now, outbox>>
<1>1. ASSUME NEW r \in Run, NEW key \in RunKey \cup {None}, StartWorkflow(r, key)
      PROVE  UNCHANGED <<now, outbox>>
  BY <1>1 DEF StartWorkflow
<1>2. ASSUME NEW t \in Task, NEW a \in Agent, ClaimTask(t, a)
      PROVE  UNCHANGED <<now, outbox>>
  BY <1>2 DEF ClaimTask
<1>3. ASSUME NEW t \in Task, NEW a \in Agent,
             CompleteTask(t, a) \/ \E b \in BOOLEAN : FailTask(t, a, b)
      PROVE  UNCHANGED <<now, outbox>>
  BY <1>3 DEF CompleteTask, FailTask
<1>4. ASSUME NEW t \in Task, NEW a \in Agent, NEW c \in Task, NEW role \in Role,
             NEW kind \in HandoffKind, HandoffTask(t, a, c, role, kind)
      PROVE  UNCHANGED <<now, outbox>>
  BY <1>4 DEF HandoffTask
<1>5. ASSUME NEW t \in Task, RetryTask(t) \/ CancelTask(t)
      PROVE  UNCHANGED <<now, outbox>>
  BY <1>5 DEF RetryTask, CancelTask
<1>6. CASE ApprovalStep
  BY <1>6 DEF ApprovalStep, RequestApproval, RequestApprovalRefused, GrantApproval,
              DenyApproval, DecideExpiredApproval
<1> QED
  BY <1>1, <1>2, <1>3, <1>4, <1>5, <1>6 DEF WorkflowStep

\* A step that appends no connector event.
LEMMA NoEvent ==
  ASSUME UNCHANGED <<now, outbox>>, TypeOK
  PROVE  Events!Next \/ UNCHANGED Events!eventVars
<1>1. UNCHANGED DeliveryView
  BY DEF DeliveryView, Replayed, ClaimOf
<1> QED
  BY <1>1 DEF TypeOK, Events!Next, Events!OtherEvents

LEMMA OutboxEventStep ==
  ASSUME TypeOK, OutboxStep
  PROVE  Events!Next \/ UNCHANGED Events!eventVars
<1>1. ASSUME NEW d \in Delivery, Events!DeliveryEvent(d)
      PROVE  Events!Next
  BY <1>1 DEF Events!Next
<1>2. ASSUME NEW g \in Registries, ReopenWithRegistry(g)
      PROVE  Events!Next \/ UNCHANGED Events!eventVars
  BY <1>2, NoEvent DEF ReopenWithRegistry
<1>3. ASSUME NEW d \in Delivery, NEW t \in Task, NEW a \in Agent,
             NEW key \in DeliveryKey, PrepareDelivery(d, t, a, key)
      PROVE  Events!DeliveryEvent(d)
  BY <1>3, PrepareDeliveryEvent DEF DeliveryIntent, Events!DeliveryEvent
<1>4. ASSUME NEW d \in Delivery, NEW lease \in ClaimLease, ClaimDelivery(d, lease)
      PROVE  Events!DeliveryEvent(d)
  <2> DEFINE attempt == outbox[d].attempt + 1
             expiresAt == now + lease
  <2>1. /\ Events!ClaimedEvent(d, attempt, [id |-> attempt, expiresAt |-> expiresAt])
        /\ attempt \in 1..MaxDeliveryAttempts /\ expiresAt \in 0..MaxTime
    BY <1>4, ClaimDeliveryEvent DEF ClaimOf
  <2> HIDE DEF attempt, expiresAt
  <2>2. attempt \in 0..MaxDeliveryAttempts
    BY <2>1
  <2> QED
    BY <2>1, <2>2 DEF Events!DeliveryEvent
<1>5. ASSUME NEW d \in Delivery, outbox[d].status = "claimed", ClaimExpired(d),
             BecomesUncertain(d)
      PROVE  Events!DeliveryEvent(d)
  <2>1. /\ outbox[d].attempt \in 0..MaxDeliveryAttempts
        /\ outbox[d].claimExpiresAt \in 0..MaxTime
    BY <1>5, BoundAssumption DEF BoundAssumption, ClaimExpired, TypeOK, DeliveryRecord
  <2> QED
    BY <1>5, <2>1, ClaimExpiredEventStep DEF Events!DeliveryEvent
<1>6. ASSUME NEW d \in Delivery, NEW claim \in 1..MaxDeliveryAttempts,
             NEW outcome \in {"simulated", "failed", "uncertain"},
             NEW retryable \in BOOLEAN, RecordOutcome(d, claim, outcome, retryable)
      PROVE  Events!DeliveryEvent(d)
  <2>1. claim \in 0..MaxDeliveryAttempts
    OBVIOUS
  <2> QED
    BY <1>6, <2>1, RecordOutcomeEvent DEF Events!DeliveryEvent
<1>7. ASSUME NEW d \in Delivery, NEW decision \in {"simulated", "failed", "cancelled"},
             NEW b \in BOOLEAN, ResolveUncertain(d, decision, b)
      PROVE  Events!DeliveryEvent(d)
  BY <1>7, ResolveUncertainEvent DEF Events!DeliveryEvent
<1>8. ASSUME NEW d \in Delivery, RetryDelivery(d) \/ CancelDelivery(d)
      PROVE  Events!DeliveryEvent(d)
  BY <1>8, RetryDeliveryEvent, CancelDeliveryEvent DEF Events!DeliveryEvent
<1> QED
  BY <1>1, <1>2, <1>3, <1>4, <1>5, <1>6, <1>7, <1>8
  DEF OutboxStep, ClaimFindsExpiredLease, RecordOutcomeTooLate, ReconcileExpired,
      HoldsClaim

LEMMA NextEvents ==
  ASSUME TypeOK, TypeOK', [Next]_vars
  PROVE  Events!Next \/ UNCHANGED Events!eventVars
<1>1. CASE UNCHANGED <<now, outbox>>
  BY <1>1, NoEvent
<1>2. CASE Tick
  <2>1. now' \in 0..MaxTime /\ outbox' = outbox
    BY <1>2 DEF Tick, TypeOK
  <2>2. UNCHANGED DeliveryView
    BY <2>1 DEF DeliveryView, Replayed, ClaimOf
  <2> QED
    BY <2>1, <2>2 DEF Events!Next, Events!OtherEvents
<1>3. CASE OutboxStep
  BY <1>3, OutboxEventStep
<1>4. CASE WorkflowStep \/ ApprovalStep
  BY <1>1, <1>4, OtherStepsLeaveOutbox
<1> QED
  BY <1>1, <1>2, <1>3, <1>4 DEF Next, vars

\* Every event that a command on the outbox appends is, with the content the
\* command gives it, one that replay accepts: its task binding, its idempotency
\* digest, its claim and its time. No command leaves a log that cannot be
\* opened again.
THEOREM EventsCorrect == Spec => EventsReplay
<1>1. Init => Events!Init
  BY InitEvents
<1>2. TypeOK /\ TypeOK' /\ [Next]_vars => [Events!Next]_Events!eventVars
  BY NextEvents
<1>3. TypeOK => \A d \in Delivery : AppendsItsEvent(d)
  BY CommandsAppend
<1> QED
  BY <1>1, <1>2, <1>3, TypeCorrect, PTL DEF Spec, EventsReplay, Events!Spec

-----------------------------------------------------------------------------

\* What a step may do to a delivery that a worker has claimed.
Settles(d) ==
  outbox[d].status = "claimed" /\ outbox'[d] # outbox[d] =>
    IF now < outbox[d].claimExpiresAt
    THEN outbox'[d].status \in {"simulated", "failed", "uncertain"}
    ELSE outbox'[d].status = "uncertain"

LEMMA ClaimSettles ==
  ASSUME TypeOK, OutboxStep, NEW d \in Delivery
  PROVE  Settles(d)
<1> USE DEF TypeOK, Settles
<1>1. ASSUME NEW e \in Delivery, NEW t \in Task, NEW a \in Agent,
             NEW key \in DeliveryKey, PrepareDelivery(e, t, a, key)
      PROVE  Settles(d)
  BY <1>1 DEF PrepareDelivery
<1>2. ASSUME NEW e \in Delivery, NEW lease \in ClaimLease, ClaimDelivery(e, lease)
      PROVE  Settles(d)
  BY <1>2 DEF ClaimDelivery
<1>3. ASSUME NEW e \in Delivery, ClaimExpired(e), BecomesUncertain(e)
      PROVE  Settles(d)
  BY <1>3 DEF BecomesUncertain, ClaimExpired, DeliveryRecord
<1>4. ASSUME NEW e \in Delivery, NEW claim, NEW retryable \in BOOLEAN,
             NEW outcome \in {"simulated", "failed", "uncertain"},
             RecordOutcome(e, claim, outcome, retryable)
      PROVE  Settles(d)
  BY <1>4 DEF RecordOutcome, ClaimExpired, DeliveryRecord
<1>5. ASSUME NEW e \in Delivery,
             \/ RetryDelivery(e)
             \/ CancelDelivery(e)
             \/ \E decision \in {"simulated", "failed", "cancelled"}, b \in BOOLEAN :
                  ResolveUncertain(e, decision, b)
      PROVE  Settles(d)
  BY <1>5 DEF RetryDelivery, CancelDelivery, ResolveUncertain
<1>6. ASSUME NEW g \in Registries, ReopenWithRegistry(g)
      PROVE  Settles(d)
  BY <1>6 DEF ReopenWithRegistry
<1> QED
  BY <1>1, <1>2, <1>3, <1>4, <1>5, <1>6
  DEF OutboxStep, ClaimFindsExpiredLease, RecordOutcomeTooLate, ReconcileExpired

\* A worker that is late cannot settle its delivery: a claim whose lease ended
\* only becomes uncertain, and one whose lease runs only gets its outcome.
THEOREM LateWorkCorrect == Spec => LateWorkIsUncertain
<1>1. ASSUME TypeOK, [Next]_vars
      PROVE  \A d \in Delivery : Settles(d)
  <2>1. CASE UNCHANGED outbox
    BY <2>1 DEF Settles
  <2>2. CASE OutboxStep
    BY <1>1, <2>2, ClaimSettles
  <2> QED
    BY <1>1, <2>1, <2>2, OtherStepsLeaveOutbox DEF Next, Tick, vars
<1> QED
  BY <1>1, TypeCorrect, PTL DEF Spec, LateWorkIsUncertain, Settles

=============================================================================
