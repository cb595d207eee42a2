-------------------------- MODULE ApprovalCommands --------------------------
(***************************************************************************)
(* requestApproval and decideApproval. Both record an approval whose time  *)
(* has run out as expired, and that event stays even when the command then *)
(* throws: a failing command keeps the events it appended before.          *)
(***************************************************************************)
EXTENDS RuntimeState

StaleApprovals(t) ==
  {x \in ApprovalsOf(t) : /\ approvals[x].status \in {"requested", "granted"}
                          /\ ~ActiveApproval(x)}

\* approval.expired, for every approval of the set.
Expired(set) ==
  [x \in Approval |-> IF x \in set THEN [approvals[x] EXCEPT !.status = "expired"]
                                   ELSE approvals[x]]

\* Mutant: the waiting task keeps waiting.
StatusAfterExpiry_Waits(t, set) == tasks[t].status

\* approval.expired returns a waiting task to ready.
StatusAfterExpiry(t, set) ==
  IF set # {} /\ tasks[t].status = "waiting_approval"
  THEN "ready" ELSE tasks[t].status

MayRequest(t) ==
  /\ tasks[t].status # "absent"
  /\ runs[RunOf[t]].status = "active"
  /\ tasks[t].kind = "A2"

\* Mutant: only the status of the task is looked at.
Grantable_StatusOnly(t) == StatusAfterExpiry(t, StaleApprovals(t)) = "ready"

Grantable(t) ==
  /\ ~\E x \in ApprovalsOf(t) : ActiveApproval(x)
  /\ StatusAfterExpiry(t, StaleApprovals(t)) = "ready"

\* An agent of the task's role, or a human, asks for an approval.
RequestApproval(t, x, ttl) ==
  /\ MayRequest(t)
  /\ Grantable(t)
  /\ approvals[x].status = "absent"
  /\ approvals' = [Expired(StaleApprovals(t)) EXCEPT
                     ![x] = [status |-> "requested", task |-> t,
                             attempt |-> tasks[t].attempt, expiresAt |-> now + ttl]]
  /\ tasks' = [tasks EXCEPT ![t].status = "waiting_approval"]
  /\ UNCHANGED <<now, registry, runs, outbox>>

\* The same command refused, for an active approval, a task that is not ready
\* or a missing reason, after it recorded what had expired.
RequestApprovalRefused(t) ==
  /\ MayRequest(t)
  /\ StaleApprovals(t) # {}
  /\ approvals' = Expired(StaleApprovals(t))
  /\ tasks' = [tasks EXCEPT ![t].status = StatusAfterExpiry(t, StaleApprovals(t))]
  /\ UNCHANGED <<now, registry, runs, outbox>>

-----------------------------------------------------------------------------

Decidable(x) ==
  /\ approvals[x].status = "requested"
  /\ tasks[approvals[x].task].attempt = approvals[x].attempt

\* decideApproval looks at the approval and the attempt of its task, never
\* at the status of the task or of the run: approval.granted makes the task
\* ready whatever it was.
GrantApproval(x) ==
  /\ Decidable(x)
  /\ ActiveApproval(x)
  /\ approvals' = [approvals EXCEPT ![x].status = "granted"]
  /\ tasks' = [tasks EXCEPT ![approvals[x].task].status = "ready"]
  /\ UNCHANGED <<now, registry, runs, outbox>>

DenyApproval(x) ==
  /\ Decidable(x)
  /\ ActiveApproval(x)
  /\ approvals' = [approvals EXCEPT ![x].status = "denied"]
  /\ tasks' = [tasks EXCEPT ![approvals[x].task].status = "cancelled"]
  /\ runs' = [runs EXCEPT ![RunOf[approvals[x].task]].status = "cancelled"]
  /\ UNCHANGED <<now, registry, outbox>>

\* The decision came too late.
DecideExpiredApproval(x) ==
  /\ Decidable(x)
  /\ ~ActiveApproval(x)
  /\ approvals' = Expired({x})
  /\ LET t == approvals[x].task
     IN  tasks' = [tasks EXCEPT ![t].status = StatusAfterExpiry(t, {x})]
  /\ UNCHANGED <<now, registry, runs, outbox>>

=============================================================================
