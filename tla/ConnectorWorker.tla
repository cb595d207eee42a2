--------------------------- MODULE ConnectorWorker ---------------------------
(***************************************************************************)
(* A connector that claims a delivery, runs it in a separate process and   *)
(* records the result with a receipt:                                      *)
(*   ProcessSeparatedDryRunWorker.execute                                  *)
(*       (integrations/process-separated-dry-run-worker.js), the caller,   *)
(*   dry-run-worker-bootstrap.js and dry-run-connector-worker.js, the      *)
(*       child process,                                                    *)
(*   recordVerifiedWorkerOutcome (runtime/fdos-runtime.js) with the        *)
(*       binding of verified-worker-receipt.js, the runtime.               *)
(*                                                                         *)
(* The three take turns in any order: a child may answer, fail, hang or be *)
(* killed while its timer fires and people reconcile and retry the         *)
(* delivery. The same claim may be executed more than once. The worker     *)
(* host has a clock of its own, and the package file, which the caller     *)
(* verifies before it spawns the child and the child before it evaluates   *)
(* it, may be replaced at any time: each reading finds any package.        *)
(*                                                                         *)
(* Of the delivery only what the worker sees is here: FdosRuntime has the  *)
(* rest. A request is identified by the call that made it, so that its     *)
(* challenge is fresh.                                                     *)
(***************************************************************************)
EXTENDS Integers, WorkerPackage

CONSTANTS
  Call,           \* invocations of execute()
  Release,        \* what workers may be configured with
  Package,        \* what a reading of the package file may find
  Lease,          \* lengths of claims
  Ahead,          \* how far the clock of the worker host may be ahead
  Timeout,        \* timeoutMs
  Validity,       \* max(2 * timeoutMs, 1000)
  MaxSkew,        \* MAX_PARENT_RUNTIME_CLOCK_SKEW_MS
  MaxAttempts,    \* of a delivery
  MaxTime,        \* bound on the clock
  None

VARIABLES
  now,        \* the clock of the runtime
  ahead,      \* of the worker host, relative to it
  delivery,   \* in the runtime
  call,       \* in the calling process
  child       \* the child process of each call

vars == <<now, ahead, delivery, call, child>>

HostNow == now + ahead

Claim == [attempt : 1..MaxAttempts, at : Nat, until : Nat]

Request == [claim : Claim, issued : Int, expires : Int, deadline : Nat]

ASSUME WorkerAssumption ==
  /\ Lease \subseteq Nat \ {0} /\ Ahead \subseteq Int
  /\ {Timeout, Validity, MaxAttempts} \subseteq Nat \ {0}
  /\ {MaxSkew, MaxTime} \subseteq Nat
  /\ None \notin Call \cup Release \cup PackageFile \cup Claim \cup Request
  /\ None \notin {"result", "failure"}
  /\ Release \subseteq ReleaseEnvelope /\ Package \subseteq PackageFile

Idle ==
  [pc |-> "idle", release |-> None, claim |-> None, binding |-> None,
   request |-> None, answer |-> None, terminated |-> FALSE, outcome |-> None]

NoChild ==
  [state |-> "none", evaluated |-> None, binding |-> None,
   killed |-> FALSE, clean |-> FALSE]

Init ==
  /\ now = 0 /\ ahead \in Ahead
  /\ delivery = [status |-> "prepared", attempt |-> 0, claim |-> None,
                 receipt |-> None, recorded |-> 0]
  /\ call = [c \in Call |-> Idle]
  /\ child = [c \in Call |-> NoChild]

CallRecord ==
  [pc : {"idle", "preparing", "running", "settled"}, release : Release \cup {None},
   claim : Claim \cup {None}, binding : PackageBinding \cup {None},
   request : Request \cup {None}, answer : Int \cup {None},
   terminated : BOOLEAN, outcome : {"result", "failure", None}]

ChildRecord ==
  [state : {"none", "booting", "loaded", "working", "responded", "ended"},
   evaluated : PackageFile \cup {None}, binding : PackageBinding \cup {None},
   killed : BOOLEAN, clean : BOOLEAN]

DeliveryRecord ==
  [status : {"prepared", "claimed", "simulated", "failed", "uncertain", "cancelled"},
   attempt : 0..MaxAttempts, claim : Claim \cup {None},
   receipt : Call \cup {None}, recorded : Nat]

TypeOK ==
  /\ now \in 0..MaxTime /\ ahead \in Ahead
  /\ delivery \in DeliveryRecord
  /\ delivery.status = "claimed" <=> delivery.claim # None
  /\ call \in [Call -> CallRecord]
  /\ child \in [Call -> ChildRecord]

-----------------------------------------------------------------------------
(* The runtime *)

ClaimDelivery(lease) ==
  /\ delivery.status = "prepared" /\ delivery.attempt < MaxAttempts
  /\ now + lease <= MaxTime
  /\ delivery' = [delivery EXCEPT
       !.status = "claimed", !.attempt = @ + 1,
       !.claim = [attempt |-> delivery.attempt + 1, at |-> now, until |-> now + lease]]
  /\ UNCHANGED <<now, ahead, call, child>>

ClaimExpired == delivery.claim.until <= now

\* Mutant: the claim stays with the delivery.
ClaimLost_KeepsClaim ==
  /\ delivery.status = "claimed" /\ ClaimExpired
  /\ delivery' = [delivery EXCEPT !.status = "uncertain"]
  /\ UNCHANGED <<now, ahead, call, child>>

ClaimLost ==
  /\ delivery.status = "claimed" /\ ClaimExpired
  /\ delivery' = [delivery EXCEPT !.status = "uncertain", !.claim = None]
  /\ UNCHANGED <<now, ahead, call, child>>

(* The receipt names this claim, and lies in it. *)
Binds(c) ==
  LET request == call[c].request
  IN  /\ request.claim.attempt = delivery.claim.attempt
      /\ request.issued >= delivery.claim.at
      /\ request.expires <= delivery.claim.until
      /\ call[c].answer - now <= MaxSkew

Record(c) ==
  /\ delivery' = [delivery EXCEPT !.status = "simulated", !.claim = None,
                                  !.receipt = c, !.recorded = now]
  /\ UNCHANGED <<now, ahead, call, child>>

\* Mutant: any live claim will do.
RecordVerifiedWorkerOutcome_AnyClaim(c) ==
  /\ call[c].outcome = "result"
  /\ delivery.status = "claimed" /\ ~ClaimExpired
  /\ call[c].answer - now <= MaxSkew
  /\ Record(c)

(* recordVerifiedWorkerOutcome, with the result of some call, perhaps late *)
(* and perhaps again.                                                      *)
RecordVerifiedWorkerOutcome(c) ==
  /\ call[c].outcome = "result"
  /\ delivery.status = "claimed" /\ ~ClaimExpired
  /\ Binds(c)
  /\ Record(c)

(* recordDeliveryOutcome: the connector's own word, without a receipt. *)
RecordOutcome(outcome) ==
  /\ delivery.status = "claimed" /\ ~ClaimExpired
  /\ delivery' = [delivery EXCEPT !.status = outcome, !.claim = None]
  /\ UNCHANGED <<now, ahead, call, child>>

(* A human resolves an uncertain delivery. *)
ResolveUncertain(decision) ==
  /\ delivery.status = "uncertain"
  /\ delivery' = [delivery EXCEPT !.status = decision]
  /\ UNCHANGED <<now, ahead, call, child>>

(* Any failure may be a retryable one. *)
RetryDelivery ==
  /\ delivery.status = "failed" /\ delivery.attempt < MaxAttempts
  /\ delivery' = [delivery EXCEPT !.status = "prepared"]
  /\ UNCHANGED <<now, ahead, call, child>>

CancelDelivery ==
  /\ delivery.status \in {"prepared", "failed"}
  /\ delivery' = [delivery EXCEPT !.status = "cancelled"]
  /\ UNCHANGED <<now, ahead, call, child>>

-----------------------------------------------------------------------------
(* The calling process *)

UpdateCall(c, new) ==
  call' = [call EXCEPT ![c] = new] /\ UNCHANGED <<now, ahead, delivery>>

(* A call that gave no result leaves nothing behind. *)
Failed == [Idle EXCEPT !.pc = "settled", !.outcome = "failure"]

(* execute(), by a worker with some release, with the claim the connector  *)
(* got. prepareWorkerPackage reads the package file and verifies the        *)
(* release of what it found.                                                *)
Execute(c, release) ==
  /\ call[c].pc = "idle" /\ delivery.status = "claimed"
  /\ \E package \in Package :
       UpdateCall(c,
         IF ReleaseVerifies(package, release)
           THEN [call[c] EXCEPT !.pc = "preparing", !.release = release,
                   !.claim = delivery.claim, !.binding = Binding(package, release)]
           ELSE Failed)
  /\ UNCHANGED child

(* The launcher is not trusted, the claim is over, or spawn fails. *)
Reject(c) ==
  /\ call[c].pc = "preparing"
  /\ UpdateCall(c, Failed)
  /\ UNCHANGED child

Lesser(a, b) == IF a <= b THEN a ELSE b

(* Package and launcher were inspected first: the delivery, and the package *)
(* file, may have changed.                                                  *)
Launch(c) ==
  /\ call[c].pc = "preparing"
  /\ HostNow < call[c].claim.until
  /\ now + Timeout <= MaxTime
  /\ UpdateCall(c, [call[c] EXCEPT
       !.pc = "running",
       !.request = [claim |-> call[c].claim, issued |-> HostNow,
                    expires |-> Lesser(HostNow + Validity, call[c].claim.until),
                    deadline |-> now + Timeout]])
  /\ child' = [child EXCEPT ![c].state = "booting"]

Alive(c) == child[c].state \in {"booting", "loaded", "working", "responded"}

(* terminate(), which a call asks for when its timer fires or its output is *)
(* too long: it sets timedOut or outputExceeded, terminated here, and the   *)
(* second of the two changes nothing.                                       *)
Kill(c) == child' = [child EXCEPT ![c].killed = @ \/ Alive(c)]

(* More than 32 KiB on stdout, or 4 KiB on stderr. *)
OutputExceeded(c) ==
  /\ call[c].pc = "running" /\ ~call[c].terminated
  /\ UpdateCall(c, [call[c] EXCEPT !.terminated = TRUE])
  /\ Kill(c)

\* Mutant: the call settles when its timer fires.
TimerFires_Settles(c) ==
  /\ call[c].pc = "running" /\ ~call[c].terminated
  /\ now >= call[c].request.deadline
  /\ UpdateCall(c, Failed)
  /\ Kill(c)

\* Mutant: the child is not killed.
TimerFires_NoKill(c) ==
  /\ call[c].pc = "running" /\ ~call[c].terminated
  /\ now >= call[c].request.deadline
  /\ UpdateCall(c, [call[c] EXCEPT !.terminated = TRUE])
  /\ UNCHANGED child

TimerFires(c) ==
  /\ call[c].pc = "running" /\ ~call[c].terminated
  /\ now >= call[c].request.deadline
  /\ UpdateCall(c, [call[c] EXCEPT !.terminated = TRUE])
  /\ Kill(c)

(* Everything the close handler asks of the child; a call that fails says   *)
(* which of these it was: WORKER_TIMEOUT, WORKER_OUTPUT_LIMIT,              *)
(* WORKER_EXIT_UNTRUSTED, or a response that does not verify.               *)
Earned(c) ==
  /\ ~call[c].terminated
  /\ child[c].clean
  /\ call[c].answer # None

(* The close event: the child has ended and its pipes are drained. *)
ChildCloses(c) ==
  /\ call[c].pc = "running"
  /\ child[c].state = "ended"
  /\ IF Earned(c)
       THEN /\ UpdateCall(c, [call[c] EXCEPT !.pc = "settled", !.outcome = "result"])
            /\ UNCHANGED child
       ELSE /\ UpdateCall(c, Failed)
            /\ child' = [child EXCEPT ![c] = NoChild]

-----------------------------------------------------------------------------
(* The child process *)

UpdateChild(c, new) ==
  child' = [child EXCEPT ![c] = new] /\ UNCHANGED <<now, ahead, delivery, call>>

InWindow(c) == HostNow \in call[c].request.issued..call[c].request.expires

(* The bootstrap reads the package file again, verifies its release, and   *)
(* evaluates the bytes it verified; its session is of this package.        *)
Boot(c) ==
  /\ child[c].state = "booting"
  /\ \E package \in Package :
       /\ ReleaseVerifies(package, call[c].release)
       /\ UpdateChild(c, [child[c] EXCEPT !.state = "loaded", !.evaluated = package,
                            !.binding = Binding(package, call[c].release)])

(* The request is read: its window, and the package it names, which is the *)
(* one that was evaluated.                                                 *)
Verify(c) ==
  /\ child[c].state = "loaded" /\ InWindow(c)
  /\ child[c].binding = call[c].binding
  /\ UpdateChild(c, [child[c] EXCEPT !.state = "working"])

(* The probes of the isolation passed; the response is signed and written, *)
(* once. The caller keeps when it was completed; one that does not verify  *)
(* is none.                                                                *)
Respond(c) ==
  /\ child[c].state = "working" /\ InWindow(c)
  /\ \E answer \in {HostNow, None} : call' = [call EXCEPT ![c].answer = answer]
  /\ child' = [child EXCEPT ![c].state = "responded"]
  /\ UNCHANGED <<now, ahead, delivery>>

(* stop(0) after the response: exit code 0 and nothing on stderr. *)
Exit(c) ==
  /\ child[c].state = "responded"
  /\ UpdateChild(c, [child[c] EXCEPT !.state = "ended", !.clean = TRUE])

(* stop() with a reason on stderr, or a signal, ours or another. *)
Die(c) ==
  /\ Alive(c)
  /\ UpdateChild(c, [child[c] EXCEPT !.state = "ended"])

-----------------------------------------------------------------------------

Tick == now < MaxTime /\ now' = now + 1 /\ UNCHANGED <<ahead, delivery, call, child>>

Runtime ==
  \/ \E lease \in Lease : ClaimDelivery(lease)
  \/ ClaimLost \/ RetryDelivery \/ CancelDelivery
  \/ \E c \in Call : RecordVerifiedWorkerOutcome(c)
  \/ \E outcome \in {"simulated", "failed", "uncertain"} : RecordOutcome(outcome)
  \/ \E decision \in {"simulated", "failed", "cancelled"} : ResolveUncertain(decision)

Caller(c) ==
  \/ \E release \in Release : Execute(c, release)
  \/ Reject(c) \/ Launch(c)
  \/ OutputExceeded(c) \/ TimerFires(c) \/ ChildCloses(c)

Process(c) ==
  Boot(c) \/ Verify(c) \/ Respond(c) \/ Exit(c) \/ Die(c)

Next ==
  \/ Runtime \/ Tick
  \/ \E c \in Call : Caller(c) \/ Process(c)

Spec == Init /\ [][Next]_vars

(* Time passes, the caller's event loop handles its events, and a killed   *)
(* process ends. A child that hangs does nothing, for ever.                *)
FairSpec ==
  /\ Spec
  /\ WF_vars(Tick)
  /\ \A c \in Call :
       /\ WF_vars(TimerFires(c)) /\ WF_vars(ChildCloses(c))
       /\ WF_vars(child[c].killed /\ Die(c))

-----------------------------------------------------------------------------
(* Properties *)

\* A receipt was earned: the call ran for the claim it was recorded under, its
\* child answered once, in the window of its request and inside the claim, and
\* ended by itself, in silence and in time.
ReceiptIsEarned ==
  delivery.receipt # None =>
    LET c == delivery.receipt
        request == call[c].request
    IN  /\ delivery.status = "simulated"
        /\ request.claim.attempt = delivery.attempt
        /\ request.claim.at <= request.issued
        /\ call[c].answer \in request.issued..request.expires
        /\ request.expires <= request.claim.until
        /\ delivery.recorded < request.claim.until
        /\ child[c].clean
        /\ ~call[c].terminated

\* Behind every receipt is released code: what the child evaluated are the very
\* modules that the holder of the pinned key attested, whatever was put at the
\* path of the package between the caller's reading and the child's.
ReleasedCodeRan ==
  delivery.receipt # None =>
    LET c == delivery.receipt
        release == call[c].release
    IN  /\ child[c].evaluated = release.attestation.package
        /\ child[c].evaluated = call[c].binding.package
        /\ child[c].evaluated.modules = release.attestation.artifact
        /\ child[c].evaluated.modules \in Conforming
        /\ release.attestation.signedBy = release.pin.publicKey

\* When a call has settled, its child has ended: no process goes on working
\* for a caller that has turned to something else.
NoOrphans ==
  \A c \in Call : call[c].pc = "settled" => ~Alive(c)

\* A call that launched its child settles, even if the child hangs or floods
\* its output.
CallsSettle ==
  \A c \in Call : call[c].pc = "running" ~> call[c].pc = "settled"

=============================================================================
