------------------------ MODULE AuthenticatedCommands ------------------------
(***************************************************************************)
(* FdosRuntime.executeAuthenticatedCommand (runtime/fdos-runtime.js) on    *)
(* the SQLite event store: one transaction accepts the invocation, runs    *)
(* the command in a savepoint and records its business failure.            *)
(*                                                                         *)
(* The gateway and mutate run one command at a time, and each append is    *)
(* awaited, so the store sees one call after another; but any statement    *)
(* may fail, the process may end between any two, and callers send the     *)
(* same invocation again when they like, or sign its identifier again. The *)
(* command itself is the number of events it appends and how it ends.      *)
(***************************************************************************)
EXTENDS SqliteEventStore, InvocationVerifier

CONSTANT MaxEffects     \* bound on the events a command appends

(* What an event of the runtime says: the receipt of an accepted           *)
(* invocation, or an effect or failure attributed to it.                   *)
Attributed ==
  [what : {"accepted", "effect", "execution-failed"},
   invocation : Invocation, receipt : Receipt \cup {None}]

ASSUME CommandAssumption ==
  /\ MaxEffects \in Nat
  /\ None \notin Invocation

VARIABLES
  pc,        \* where the command is, or "idle"
  current,   \* the invocation being executed
  request,   \* the envelope and command that came, or None
  receipt,   \* what verify() returned for it, or None
  outcome,   \* how its executor ended
  state,     \* #state: the events applied to the runtime state
  verifier,  \* #invocationVerifier
  answer     \* what the last caller was told

commandVars == <<pc, current, request, receipt, outcome>>

vars == <<storeVars, commandVars, state, verifier, answer>>

Step ==
  {"idle", "begin", "verify", "accept", "savepoint", "execute", "release",
   "restore", "evidence", "finalise", "abort"}

(* Told: it succeeded; it failed and that is recorded; it was not          *)
(* accepted; it was rolled back; unknown.                                  *)
Told == {"done", "failed", "denied", "rolled-back", "uncertain"}

Request == [envelope : Envelope, command : Operation]

Init ==
  /\ StoreInit
  /\ pc = "idle" /\ current = None /\ request = None /\ receipt = None
  /\ outcome = None
  /\ state = <<>> /\ verifier \in Verifier /\ answer = None

TypeOK ==
  /\ StoreTypeOK(Attributed)
  /\ pc \in Step /\ current \in Invocation \cup {None}
  /\ request \in Request \cup {None} /\ receipt \in Receipt \cup {None}
  /\ outcome \in Told \cup {None}
  /\ state \in Seq(Event(Attributed)) /\ verifier \in Verifier
  /\ answer = None \/ answer \in [to : Invocation, told : Told, effects : Nat]

-----------------------------------------------------------------------------
(* applyRuntimeEvent on the events of this module *)

\* Mutant: a receipt is consumed, not an invocation.
AcceptedIn_Receipt(log, r) ==
  \E n \in 1..Len(log) : log[n].says.what = "accepted" /\ log[n].says.receipt = r

(* acceptedInvocations has the identifier of this receipt. *)
AcceptedIn(log, r) ==
  \E n \in 1..Len(log) :
     log[n].says.what = "accepted" /\ log[n].says.invocation = r.invocation

AppliesAcceptance(log, e) ==
  LET r == e.says.receipt
  IN  /\ VerifyReceipt(r)
      /\ ~AcceptedIn(log, r)
      /\ e.at + r.skew >= r.verifiedAt

(* Any other event belongs to the transaction that accepted its            *)
(* invocation.                                                             *)
AppliesAttribution(log, e) ==
  \E n \in 1..Len(log) :
     /\ log[n].says.what = "accepted"
     /\ log[n].says.invocation = e.says.invocation
     /\ log[n].tx = e.tx

Applies(log, e) ==
  IF e.says.what = "accepted"
  THEN AppliesAcceptance(log, e) ELSE AppliesAttribution(log, e)

AppliesAt(events, n) == Applies(SubSeq(events, 1, n - 1), events[n])

(* rehydrate(): the events are applied until one throws. *)
Rehydrated(events) ==
  LET n == CHOOSE k \in 0..Len(events) :
             /\ \A m \in 1..k : AppliesAt(events, m)
             /\ k < Len(events) => ~AppliesAt(events, k + 1)
  IN  SubSeq(events, 1, n)

Replays(events) == \A n \in 1..Len(events) : AppliesAt(events, n)

-----------------------------------------------------------------------------

Goto(step) ==
  pc' = step /\ UNCHANGED <<current, request, receipt, verifier, answer>>

Saying(what) ==
  [what |-> what, invocation |-> current,
   receipt |-> IF what = "accepted" THEN receipt ELSE None]

\* Mutant: what was appended is taken for applied.
AppendAndApply_Unchecked(what, applied, rejected) ==
  /\ Insert(active.id, Saying(what))
  /\ state' = Append(state, NextEvent(active.id, Saying(what)))
  /\ Goto(applied) /\ UNCHANGED outcome

(* append(): the store first, then applyRuntimeEvent, which may throw.     *)
AppendAndApply(what, applied, rejected) ==
  LET e == NextEvent(active.id, Saying(what))
  IN  /\ Insert(active.id, Saying(what))
      /\ \/ /\ Applies(state, e)
            /\ state' = Append(state, e)
            /\ Goto(applied) /\ UNCHANGED outcome
         \/ /\ ~Applies(state, e)
            /\ outcome' = "rolled-back"
            /\ Goto(rejected) /\ UNCHANGED state

Effects == Cardinality({n \in active.base + 1..Len(memory) :
                          memory[n].says.what = "effect"})

Answer(told) ==
  /\ pc' = "idle" /\ outcome' = None
  /\ current' = None /\ request' = None /\ receipt' = None
  /\ answer' = [to |-> current, told |-> told,
                effects |-> IF told \in {"done", "failed"} THEN Effects ELSE 0]
  /\ UNCHANGED verifier

(* A command reaches the runtime. A store that needs recovery refuses it,  *)
(* and the catch block of the command rehydrates.                          *)
Submit(e, command) ==
  /\ open /\ pc = "idle"
  /\ IF Writable
       THEN /\ pc' = "begin" /\ current' = e.invocation /\ answer' = None
            /\ request' = [envelope |-> e, command |-> command]
            /\ UNCHANGED state
       ELSE /\ answer' = [to |-> e.invocation, told |-> "uncertain", effects |-> 0]
            /\ state' = Rehydrated(memory)
            /\ UNCHANGED <<pc, current, request>>
  /\ UNCHANGED <<storeVars, receipt, outcome, verifier>>

BeginTransaction ==
  /\ pc = "begin"
  /\ \E id \in TxId : Begin(id)
  /\ Goto("verify") /\ UNCHANGED <<outcome, state>>

BeginRefused ==
  /\ pc = "begin"
  /\ BeginFails
  /\ Answer("denied") /\ state' = Rehydrated(memory)

(* acceptAuthenticatedInvocation, up to its append. *)
Acceptable(at) ==
  LET r == ReceiptOf(verifier, request.envelope, at)
  IN  /\ Verify(verifier, request.envelope, request.command, at)
      /\ VerifyReceipt(r)
      /\ MayInvoke(r)
      /\ ~AcceptedIn(state, r)

VerifyInvocation ==
  LET at == now + verifier.lead
  IN  /\ pc = "verify" /\ Acceptable(at)
      /\ pc' = "accept"
      /\ receipt' = ReceiptOf(verifier, request.envelope, at)
      /\ UNCHANGED <<storeVars, current, request, outcome, state, verifier, answer>>

Deny ==
  /\ pc = "verify" /\ ~Acceptable(now + verifier.lead)
  /\ outcome' = "denied"
  /\ Goto("abort") /\ UNCHANGED <<storeVars, state>>

Accept ==
  /\ pc = "accept"
  /\ AppendAndApply("accepted", "savepoint", "abort")

AcceptFails ==
  /\ pc = "accept"
  /\ InsertFails(active.id)
  /\ outcome' = "rolled-back"
  /\ Goto("abort") /\ UNCHANGED state

EnterSavepoint ==
  /\ pc = "savepoint"
  /\ \/ /\ Savepoint /\ Goto("execute") /\ UNCHANGED outcome
     \/ /\ SavepointFails /\ Goto("abort") /\ outcome' = "rolled-back"
  /\ UNCHANGED state

-----------------------------------------------------------------------------
(* The executor *)

Effect ==
  /\ pc = "execute" /\ Effects < MaxEffects
  /\ AppendAndApply("effect", "execute", "restore")

EffectFails ==
  /\ pc = "execute" /\ Effects < MaxEffects
  /\ InsertFails(active.id)
  /\ outcome' = "rolled-back"
  /\ Goto("restore") /\ UNCHANGED state

(* It returns; it throws one of the five recordable errors; or another. *)
Executed ==
  /\ pc = "execute"
  /\ \/ outcome' \in {"done", "failed"} /\ Goto("release")
     \/ outcome' = "rolled-back" /\ Goto("restore")
  /\ UNCHANGED <<storeVars, state>>

ReleaseSavepoint ==
  /\ pc = "release"
  /\ Release
  /\ Goto(IF outcome = "done" THEN "finalise" ELSE "evidence")
  /\ UNCHANGED <<outcome, state>>

ReleaseFails ==
  /\ pc = "release"
  /\ outcome' = "rolled-back"
  /\ Goto("restore") /\ UNCHANGED <<storeVars, state>>

(* The state is not cut back here: the outermost catch block rehydrates. *)
Restore ==
  /\ pc = "restore"
  /\ \E restored \in BOOLEAN : RollbackTo(restored)
  /\ Goto("abort") /\ UNCHANGED <<outcome, state>>

RecordFailure ==
  /\ pc = "evidence"
  /\ \/ AppendAndApply("execution-failed", "finalise", "abort")
     \/ /\ InsertFails(active.id)
        /\ Goto("abort") /\ outcome' = "rolled-back" /\ UNCHANGED state

-----------------------------------------------------------------------------

CommitTransaction ==
  /\ pc = "finalise"
  /\ Commit
  /\ Answer(outcome) /\ UNCHANGED state

CommitTransactionFails ==
  /\ pc = "finalise"
  /\ CommitFails
  /\ outcome' = "rolled-back"
  /\ Goto("abort") /\ UNCHANGED state

\* Mutant: the runtime state is not rehydrated after a rollback.
AbortTransaction_KeepsState ==
  /\ pc = "abort"
  /\ \E rolledBack, reloaded \in BOOLEAN :
       /\ Abort(rolledBack, reloaded)
       /\ Answer(IF rolledBack /\ reloaded /\ Replays(memory') THEN outcome ELSE "uncertain")
  /\ UNCHANGED state

\* Mutant: a rollback that was not confirmed is reported as one.
AbortTransaction_Unconfirmed ==
  /\ pc = "abort"
  /\ \E rolledBack, reloaded \in BOOLEAN :
       /\ Abort(rolledBack, reloaded)
       /\ Answer(IF reloaded THEN outcome ELSE "uncertain")
  /\ state' = Rehydrated(memory')

(* The transaction's catch block, then the command's. *)
AbortTransaction ==
  /\ pc = "abort"
  /\ \E rolledBack, reloaded \in BOOLEAN :
       /\ Abort(rolledBack, reloaded)
       /\ Answer(IF rolledBack /\ reloaded /\ Replays(memory') THEN outcome ELSE "uncertain")
  /\ state' = Rehydrated(memory')

-----------------------------------------------------------------------------

NoCommand ==
  /\ pc' = "idle" /\ outcome' = None
  /\ current' = None /\ request' = None /\ receipt' = None
  /\ state' = <<>>

(* The process ends; a caller that was waiting is told nothing. *)
Crash ==
  /\ EndProcess /\ NoCommand
  /\ answer' = IF pc = "idle" THEN answer ELSE None
  /\ UNCHANGED verifier

Close == pc = "idle" /\ CloseStore /\ NoCommand /\ UNCHANGED <<verifier, answer>>

(* FdosRuntime.open: the verified events are applied one after another, by *)
(* a runtime that may trust other keys than the one before.                *)
Open ==
  /\ OpenStore /\ Replays(memory')
  /\ state' = memory' /\ verifier' \in Verifier
  /\ UNCHANGED <<commandVars, answer>>

TimePasses == Tick /\ UNCHANGED <<commandVars, state, verifier, answer>>

Next ==
  \/ \E e \in Envelope, command \in Operation : Submit(e, command)
  \/ BeginTransaction \/ BeginRefused
  \/ VerifyInvocation \/ Deny \/ Accept \/ AcceptFails \/ EnterSavepoint
  \/ Effect \/ EffectFails \/ Executed
  \/ ReleaseSavepoint \/ ReleaseFails \/ Restore \/ RecordFailure
  \/ CommitTransaction \/ CommitTransactionFails \/ AbortTransaction
  \/ Crash \/ Close \/ Open \/ TimePasses

Spec == Init /\ [][Next]_vars

-----------------------------------------------------------------------------
(* Properties *)

EventsOfTx(t, what) == {e \in file.events : e.tx = t.id /\ e.says.what = what}

CommandOf(i, t) ==
  [invocation |-> i,
   outcome |-> IF EventsOfTx(t, "execution-failed") = {} THEN "done" ELSE "failed",
   effects |-> Cardinality(EventsOfTx(t, "effect"))]

(* The commands in the file, one per transaction. *)
Durable ==
  UNION {{CommandOf(e.says.invocation, t) : e \in EventsOfTx(t, "accepted")} :
           t \in file.txs}

Atomic == INSTANCE AtomicCommands WITH done <- Durable

\* Commands implement AtomicCommands: over crashes, failed statements, replays
\* and reopens the file changes by whole commands, each invocation once.
ImplementsAtomicCommands == Atomic!Spec

\* Whatever happened, the file can be opened again: the chain and every
\* transaction in it verify, and the reducer accepts its events one after
\* another, with the receipts as they were checked when they were accepted.
FileVerifies == Verified(file) /\ Replays(EventsOf(file))

\* A caller is told the truth: a success or a recorded failure is in the file
\* as it was reported, and a rolled-back or denied command left nothing; only
\* "uncertain" says nothing.
AnswerIsTrue ==
  answer # None =>
    /\ answer.told \in {"done", "failed"} =>
         [invocation |-> answer.to, outcome |-> answer.told,
          effects |-> answer.effects] \in Durable
    /\ answer.told = "rolled-back" =>
         \A c \in Durable : c.invocation # answer.to

\* Between commands the runtime state, the events in memory and the file
\* agree, unless the store asks to be reopened: replays are then refused on
\* the state alone.
StateIsTheFile ==
  open /\ pc = "idle" /\ ~recoveryRequired =>
    /\ state = memory
    /\ memory = EventsOf(file)
    /\ db = file

=============================================================================
