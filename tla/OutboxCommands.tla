--------------------------- MODULE OutboxCommands ---------------------------
(***************************************************************************)
(* The connector outbox: prepareDelivery by the agent that holds the task, *)
(* claimDelivery and recordDeliveryOutcome by the connector worker, and    *)
(* reconcile, retry, cancel and resolve by Human Governance. A claim is a  *)
(* lease on the delivery; its claim id is fresh for every claim, and so is *)
(* the attempt number, which stands for it.                                *)
(***************************************************************************)
EXTENDS RuntimeState

\* What a delivery intent binds of its task: the task, its attempt, the role
\* that owns it and its action intent.
TaskBinding(t) ==
  [id |-> t, attempt |-> tasks[t].attempt, role |-> tasks[t].role,
   action |-> tasks[t].kind]

\* createDeliveryIntent. The idempotency digest is of the requester and its
\* key (and of the connector and the operation, of which there is one).
DeliveryIntent(t, a, key) ==
  [task |-> TaskBinding(t), requestedBy |-> a,
   idempotency |-> [requestedBy |-> a, key |-> key]]

Prepared(t, a, key) ==
  [NoDelivery EXCEPT !.status = "prepared", !.task = t,
                     !.taskAttempt = tasks[t].attempt, !.requestedBy = a,
                     !.key = key, !.contract = registry.version]

\* Mutant: only the idempotency key is looked up.
PrepareDelivery_KeyOnly(d, t, a, key) ==
  /\ tasks[t].status = "in_progress"
  /\ tasks[t].claimedBy = a
  /\ runs[RunOf[t]].status = "active"
  /\ tasks[t].kind = "connector"
  /\ registry.version # 0
  /\ outbox[d].status = "absent"
  /\ \A e \in Delivery : <<outbox[e].requestedBy, outbox[e].key>> # <<a, key>>
  /\ outbox' = [outbox EXCEPT ![d] = Prepared(t, a, key)]
  /\ UNCHANGED <<now, registry, runs, tasks, approvals>>

\* Mutant: only the delivery of the attempt is looked up.
PrepareDelivery_AttemptOnly(d, t, a, key) ==
  /\ tasks[t].status = "in_progress"
  /\ tasks[t].claimedBy = a
  /\ runs[RunOf[t]].status = "active"
  /\ tasks[t].kind = "connector"
  /\ registry.version # 0
  /\ outbox[d].status = "absent"
  /\ DeliveriesOf(t) = {}
  /\ outbox' = [outbox EXCEPT ![d] = Prepared(t, a, key)]
  /\ UNCHANGED <<now, registry, runs, tasks, approvals>>

\* The connector has to be an active instance bound to a contract with the
\* operation (resolveOperation). A known idempotency key returns its delivery,
\* or is refused with another request; neither appends an event.
PrepareDelivery(d, t, a, key) ==
  /\ tasks[t].status = "in_progress"
  /\ tasks[t].claimedBy = a
  /\ runs[RunOf[t]].status = "active"
  /\ tasks[t].kind = "connector"
  /\ registry.version # 0
  /\ outbox[d].status = "absent"
  /\ \A e \in Delivery : <<outbox[e].requestedBy, outbox[e].key>> # <<a, key>>
  /\ DeliveriesOf(t) = {}
  /\ outbox' = [outbox EXCEPT ![d] = Prepared(t, a, key)]
  /\ UNCHANGED <<now, registry, runs, tasks, approvals>>

-----------------------------------------------------------------------------

\* assertCurrentConnectorBinding: an active instance is bound to the contract
\* the delivery was prepared under.
CurrentBinding(d) == outbox[d].contract = registry.version

\* assertDeliveryTaskActive
SourceTaskActive(d) ==
  LET t == outbox[d].task
  IN  /\ runs[RunOf[t]].status = "active"
      /\ tasks[t].status = "in_progress"
      /\ tasks[t].claimedBy = outbox[d].requestedBy
      /\ tasks[t].attempt = outbox[d].taskAttempt

ClaimDelivery(d, lease) ==
  /\ outbox[d].status = "prepared"
  /\ CurrentBinding(d)
  /\ SourceTaskActive(d)
  /\ outbox[d].attempt < MaxDeliveryAttempts
  /\ now + lease <= MaxTime
  /\ outbox' = [outbox EXCEPT ![d].status = "claimed", ![d].attempt = @ + 1,
                              ![d].claimExpiresAt = now + lease,
                              ![d].retryable = FALSE]
  /\ UNCHANGED <<now, registry, runs, tasks, approvals>>

\* connector.delivery.claim-expired: nobody knows what the worker did.
BecomesUncertain(d) ==
  /\ outbox' = [outbox EXCEPT ![d].status = "uncertain",
                              ![d].lastOutcome = "uncertain",
                              ![d].claimExpiresAt = 0,
                              ![d].retryable = FALSE]
  /\ UNCHANGED <<now, registry, runs, tasks, approvals>>

\* A second claim finds the lease of the first one run out: it records that
\* and is refused.
ClaimFindsExpiredLease(d) ==
  /\ outbox[d].status = "claimed"
  /\ CurrentBinding(d)
  /\ ClaimExpired(d)
  /\ BecomesUncertain(d)

\* The worker reports under the claim id it was given, however long ago.
HoldsClaim(d, claim) ==
  /\ outbox[d].status = "claimed"
  /\ CurrentBinding(d)
  /\ outbox[d].attempt = claim

RecordOutcome(d, claim, outcome, retryable) ==
  /\ HoldsClaim(d, claim)
  /\ ~ClaimExpired(d)
  /\ retryable => outcome = "failed"
  /\ outbox' = [outbox EXCEPT ![d].status = outcome, ![d].lastOutcome = outcome,
                              ![d].claimExpiresAt = 0,
                              ![d].retryable = retryable]
  /\ UNCHANGED <<now, registry, runs, tasks, approvals>>

RecordOutcomeTooLate(d, claim) ==
  /\ HoldsClaim(d, claim)
  /\ ClaimExpired(d)
  /\ BecomesUncertain(d)

-----------------------------------------------------------------------------

\* Mutant: reconciling wants the current contract, as the worker's commands do.
ReconcileExpired_Bound(d) ==
  /\ outbox[d].status = "claimed"
  /\ CurrentBinding(d)
  /\ ClaimExpired(d)
  /\ BecomesUncertain(d)

ReconcileExpired(d) ==
  /\ outbox[d].status = "claimed"
  /\ ClaimExpired(d)
  /\ BecomesUncertain(d)

\* Mutant: a retry does not ask for the attempt of the task.
RetryDelivery_OldAttempt(d) ==
  /\ outbox[d].status = "failed"
  /\ outbox[d].retryable
  /\ CurrentBinding(d)
  /\ outbox[d].attempt < MaxDeliveryAttempts
  /\ outbox' = [outbox EXCEPT ![d].status = "prepared", ![d].retryable = FALSE]
  /\ UNCHANGED <<now, registry, runs, tasks, approvals>>

RetryDelivery(d) ==
  /\ outbox[d].status = "failed"
  /\ outbox[d].retryable
  /\ CurrentBinding(d)
  /\ SourceTaskActive(d)
  /\ outbox[d].attempt < MaxDeliveryAttempts
  /\ outbox' = [outbox EXCEPT ![d].status = "prepared", ![d].retryable = FALSE]
  /\ UNCHANGED <<now, registry, runs, tasks, approvals>>

\* cancelDelivery asks only for the status of the delivery.
CancelDelivery(d) ==
  /\ outbox[d].status \in {"prepared", "failed"}
  /\ outbox' = [outbox EXCEPT ![d].status = "cancelled", ![d].retryable = FALSE]
  /\ UNCHANGED <<now, registry, runs, tasks, approvals>>

\* confirmed_simulated, failed or cancelled, on human evidence.
ResolveUncertain(d, decision, retryable) ==
  /\ outbox[d].status = "uncertain"
  /\ retryable => decision = "failed"
  /\ outbox' = [outbox EXCEPT ![d].status = decision, ![d].retryable = retryable]
  /\ UNCHANGED <<now, registry, runs, tasks, approvals>>

-----------------------------------------------------------------------------

\* A process with another connector registry opens the store: the contract has
\* another version, its connector is suspended, or neither is registered. The
\* state is rebuilt from the events, which name the contract they were made
\* under.
ReopenWithRegistry(g) ==
  /\ g # registry
  /\ registry' = g
  /\ UNCHANGED <<now, runs, tasks, approvals, outbox>>

=============================================================================
