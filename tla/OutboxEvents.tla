---------------------------- MODULE OutboxEvents ----------------------------
(***************************************************************************)
(* The connector events that applyRuntimeEvent accepts (state.js), whoever *)
(* appended them. An event is written to the log before it is applied, and *)
(* every later open replays it: a command whose guard let through an event *)
(* these rules refuse would leave a log that no process can open again.    *)
(* The commands of OutboxCommands therefore have to implement this module. *)
(*                                                                         *)
(* Left out: the shape and the digests of a payload, the identity of the   *)
(* one connector, and the invocation and the worker receipt of an outcome. *)
(***************************************************************************)
EXTENDS Naturals

CONSTANTS
  None,
  Delivery,
  Agent,
  DeliveryKey,
  MaxDeliveryAttempts,
  ClaimId,              \* the identifiers claims may have
  Time                  \* the times an event may carry

VARIABLES
  clock,       \* the time the events carry
  bindings,    \* what an intent may bind: the tasks as replay has left them
  deliveries   \* state.outbox

eventVars == <<clock, bindings, deliveries>>

NoClaim == [id |-> 0, expiresAt |-> 0]

\* The part of a delivery that the rules read.
Known(status, attempt, retryable, idempotency, claim) ==
  [status |-> status, attempt |-> attempt, retryable |-> retryable,
   idempotency |-> idempotency, claim |-> claim]

Init ==
  /\ clock \in Time
  /\ bindings = {}
  /\ deliveries = [d \in Delivery |->
       Known("absent", 0, FALSE, [requestedBy |-> None, key |-> None], NoClaim)]

\* One event changes one delivery, and neither the time nor a task. Only
\* prepared sets the idempotency digest.
Becomes(d, status, attempt, retryable, claim) ==
  /\ deliveries' =
       [deliveries EXCEPT ![d] =
          Known(status, attempt, retryable, deliveries[d].idempotency, claim)]
  /\ UNCHANGED <<clock, bindings>>

\* verifyPreparedDelivery: the intent is its actor's and binds its task as it
\* is now. The identifier is new, and so is the idempotency digest.
PreparedEvent(d, actor, intent) ==
  /\ intent.requestedBy = actor
  /\ intent.task \in bindings
  /\ deliveries[d].status = "absent"
  /\ \A e \in Delivery : deliveries[e].status # "absent" =>
       deliveries[e].idempotency # intent.idempotency
  /\ deliveries' = [deliveries EXCEPT ![d] =
                      Known("prepared", 0, FALSE, intent.idempotency, NoClaim)]
  /\ UNCHANGED <<clock, bindings>>

\* verifyClaim: the next attempt, within the budget, for a lease that ends
\* after it began.
ClaimedEvent(d, attempt, claim) ==
  /\ deliveries[d].status = "prepared"
  /\ attempt = deliveries[d].attempt + 1
  /\ attempt <= MaxDeliveryAttempts
  /\ claim.expiresAt > clock
  /\ Becomes(d, "claimed", attempt, FALSE, claim)

OutcomeRecordedEvent(d, claimId, outcome, retryable) ==
  /\ deliveries[d].status = "claimed"
  /\ claimId = deliveries[d].claim.id
  /\ clock <= deliveries[d].claim.expiresAt
  /\ retryable => outcome = "failed"
  /\ Becomes(d, outcome, deliveries[d].attempt, retryable, NoClaim)

\* expiredAt is the end of the lease, which has come.
ClaimExpiredEvent(d, claimId, expiredAt) ==
  /\ deliveries[d].status = "claimed"
  /\ claimId = deliveries[d].claim.id
  /\ expiredAt = deliveries[d].claim.expiresAt
  /\ clock >= expiredAt
  /\ Becomes(d, "uncertain", deliveries[d].attempt, FALSE, NoClaim)

RetryAuthorizedEvent(d) ==
  /\ deliveries[d].status = "failed"
  /\ deliveries[d].retryable
  /\ deliveries[d].attempt < MaxDeliveryAttempts
  /\ Becomes(d, "prepared", deliveries[d].attempt, FALSE, deliveries[d].claim)

CancelledEvent(d) ==
  /\ deliveries[d].status \in {"prepared", "failed"}
  /\ Becomes(d, "cancelled", deliveries[d].attempt, FALSE, NoClaim)

UncertaintyResolvedEvent(d, decision, retryable) ==
  /\ deliveries[d].status = "uncertain"
  /\ retryable => decision = "failed"
  /\ Becomes(d, decision, deliveries[d].attempt, retryable, deliveries[d].claim)

DeliveryEvent(d) ==
  \/ \E actor \in Agent, task \in bindings, key \in DeliveryKey :
       PreparedEvent(d, actor, [task |-> task, requestedBy |-> actor,
                                idempotency |-> [requestedBy |-> actor, key |-> key]])
  \/ \E id \in ClaimId, attempt \in 1..MaxDeliveryAttempts, expiresAt \in Time :
       ClaimedEvent(d, attempt, [id |-> id, expiresAt |-> expiresAt])
  \/ \E id \in ClaimId :
       \/ \E outcome \in {"simulated", "failed", "uncertain"},
             retryable \in BOOLEAN :
            OutcomeRecordedEvent(d, id, outcome, retryable)
       \/ \E expiredAt \in Time : ClaimExpiredEvent(d, id, expiredAt)
  \/ RetryAuthorizedEvent(d)
  \/ CancelledEvent(d)
  \/ \E decision \in {"simulated", "failed", "cancelled"}, retryable \in BOOLEAN :
       UncertaintyResolvedEvent(d, decision, retryable)

\* Time passes, and the other events of the log change the tasks.
OtherEvents ==
  /\ clock' \in Time
  /\ UNCHANGED deliveries

Next == OtherEvents \/ \E d \in Delivery : DeliveryEvent(d)

Spec == Init /\ [][Next]_eventVars

=============================================================================
