----------------------- MODULE ConnectorWorkerProofs ------------------------
(***************************************************************************)
(* What a receipt proves, for every number of calls, leases, packages and  *)
(* releases. The argument has two halves. CallOK says of one call and its  *)
(* child what each stage of them knows: it is a predicate on two records,  *)
(* so that the steps of other calls and of the runtime keep it for free,   *)
(* and a call with a result is final. ClaimsMatch says that the attempt    *)
(* number of a claim stands for the claim: a late call with a claim that   *)
(* was lost cannot match a later one.                                      *)
(***************************************************************************)
EXTENDS ConnectorWorker, TLAPS

AliveStates == {"booting", "loaded", "working", "responded"}

\* What the child evaluated was released, and is what the caller has read.
RanReleased(k, h) ==
  /\ ReleaseVerifies(h.evaluated, k.release)
  /\ h.binding = Binding(h.evaluated, k.release)

CallOK(k, h) ==
  /\ k.pc \in {"idle", "preparing"} => /\ h = NoChild /\ k.request = None
                                       /\ k.answer = None /\ ~k.terminated
  /\ k.outcome \in {"result", "failure"} <=> k.pc = "settled"
  /\ k.outcome = "failure" => h = NoChild
  /\ k.outcome = "result" => /\ h.clean /\ ~k.terminated
                             /\ k.answer # None
  /\ k.pc \in {"preparing", "running"} \/ k.outcome = "result"
       => k.claim \in Claim /\ k.release \in Release
  /\ k.pc = "running" \/ k.outcome = "result" => k.request \in Request
  /\ k.request # None => /\ k.request.claim = k.claim
                         /\ k.request.expires <= k.claim.until
  /\ h.state \in AliveStates => k.pc = "running"
  /\ h.state \in {"loaded", "working", "responded"} => RanReleased(k, h)
  /\ h.state \in {"working", "responded"} => h.binding = k.binding
  /\ k.answer # None => /\ h.state \in {"responded", "ended"}
                        /\ RanReleased(k, h) /\ h.binding = k.binding
                        /\ k.answer \in k.request.issued..k.request.expires
  /\ h.clean => h.state = "ended"

CallsOK == \A c \in Call : CallOK(call[c], child[c])

ClaimsMatch ==
  /\ delivery.claim # None => delivery.claim.attempt = delivery.attempt
  /\ \A c \in Call : call[c].claim # None =>
       /\ call[c].claim.attempt <= delivery.attempt
       /\ delivery.claim # None /\ call[c].claim.attempt = delivery.attempt
            => call[c].claim = delivery.claim

ReceiptOfResult ==
  delivery.receipt # None => call[delivery.receipt].outcome = "result"

Inv ==
  /\ TypeOK
  /\ CallsOK
  /\ ClaimsMatch
  /\ ReceiptOfResult
  /\ ReceiptIsEarned

-----------------------------------------------------------------------------
(* A step of one call and its child *)

\* Call c goes on, with a claim it has or gets from the delivery; a result is
\* final.
Moves(c) ==
  /\ UNCHANGED <<now, ahead, delivery>>
  /\ call' \in [Call -> CallRecord] /\ child' \in [Call -> ChildRecord]
  /\ \A x \in Call \ {c} : call'[x] = call[x] /\ child'[x] = child[x]
  /\ CallOK(call'[c], child'[c])
  /\ call[c].outcome # "result"
  /\ call'[c].claim \in {None, call[c].claim, delivery.claim}

LEMMA MovesKeepsInv ==
  ASSUME Inv, NEW c \in Call, Moves(c)
  PROVE  Inv'
<1> USE DEF Inv, Moves
<1>1. TypeOK'
  BY DEF TypeOK
<1>2. CallsOK'
  BY DEF CallsOK
<1>3. ClaimsMatch'
  BY DEF ClaimsMatch, TypeOK, DeliveryRecord, Claim
<1>4. ReceiptOfResult' /\ ReceiptIsEarned'
  <2>1. CASE delivery.receipt = None
    BY <2>1 DEF ReceiptOfResult, ReceiptIsEarned
  <2>2. CASE delivery.receipt # None
    <3>1. delivery.receipt \in Call \ {c}
      BY <2>2 DEF ReceiptOfResult, TypeOK, DeliveryRecord
    <3> QED
      BY <3>1 DEF ReceiptOfResult, ReceiptIsEarned
  <2> QED
    BY <2>1, <2>2
<1> QED
  BY <1>1, <1>2, <1>3, <1>4

\* The shape of such a step: the new records of call and child.
LEMMA BecomesMoves ==
  ASSUME TypeOK, NEW c \in Call, NEW k \in CallRecord, NEW h \in ChildRecord,
         call' = [call EXCEPT ![c] = k], child' = [child EXCEPT ![c] = h],
         UNCHANGED <<now, ahead, delivery>>, CallOK(k, h),
         call[c].outcome # "result", k.claim \in {None, call[c].claim, delivery.claim}
  PROVE  Moves(c)
  BY DEF TypeOK, Moves

\* A call that fails before its child runs, or after it ended, leaves nothing.
LEMMA FailureOK ==
  /\ Failed \in CallRecord /\ NoChild \in ChildRecord
  /\ Failed.claim = None /\ CallOK(Failed, NoChild)
<1> DEFINE k == Failed
           h == NoChild
<1>1. /\ k.pc = "settled" /\ k.claim = None /\ k.request = None /\ k.answer = None
      /\ k.outcome = "failure"
  BY DEF Failed, Idle
<1>2. h.state = "none" /\ ~h.clean
  BY DEF NoChild
<1>3. Failed \in CallRecord /\ NoChild \in ChildRecord
  BY DEF Failed, Idle, NoChild, CallRecord, ChildRecord
<1> HIDE DEF k, h
<1>4. CallOK(k, h)
  BY <1>1, <1>2 DEF CallOK, AliveStates, h
<1> QED
  BY <1>1, <1>3, <1>4 DEF k, h

\* What a record of a call says, whoever reads it.
LEMMA Records ==
  ASSUME TypeOK, NEW c \in Call
  PROVE  call[c] \in CallRecord /\ child[c] \in ChildRecord
  BY DEF TypeOK

-----------------------------------------------------------------------------
(* The caller *)

LEMMA ExecuteMoves ==
  ASSUME TypeOK, CallsOK, NEW c \in Call, NEW release \in Release, Execute(c, release)
  PROVE  Moves(c)
<1>0. /\ call[c].pc = "idle" /\ CallOK(call[c], child[c])
      /\ call[c] \in CallRecord /\ child[c] \in ChildRecord
      /\ delivery.claim \in Claim
  BY Records DEF Execute, CallsOK, TypeOK, DeliveryRecord
<1>1. /\ call[c].outcome \notin {"result", "failure"} /\ child[c] = NoChild
      /\ call[c].answer = None /\ call[c].request = None /\ ~call[c].terminated
  BY <1>0 DEF CallOK
<1>u. UNCHANGED <<now, ahead, delivery>>
  BY DEF Execute, UpdateCall
<1>2. child' = [child EXCEPT ![c] = NoChild]
  BY <1>1 DEF Execute, TypeOK
<1>3. CASE call' = [call EXCEPT ![c] = Failed]
  BY <1>1, <1>u, <1>2, <1>3, FailureOK, BecomesMoves
<1>4. ASSUME NEW package \in Package, ReleaseVerifies(package, release),
             call' = [call EXCEPT ![c] =
               [call[c] EXCEPT !.pc = "preparing", !.release = release,
                  !.claim = delivery.claim, !.binding = Binding(package, release)]]
      PROVE  Moves(c)
  <2> DEFINE binding == Binding(package, release)
             k == [call[c] EXCEPT !.pc = "preparing", !.release = release,
                     !.claim = delivery.claim, !.binding = binding]
  <2>1. binding \in PackageBinding
    BY WorkerAssumption
    DEF WorkerAssumption, Binding, PackageBinding, PackageFile, ReleaseEnvelope
  <2> HIDE DEF binding
  <2>2. /\ k.pc = "preparing" /\ k.claim = delivery.claim /\ k.answer = None
        /\ k.release = release
        /\ k.request = call[c].request /\ k.outcome = call[c].outcome
        /\ k.terminated = call[c].terminated
    BY <1>0, <1>1 DEF CallRecord
  <2>3. k \in CallRecord
    BY <1>0, <2>1 DEF CallRecord
  <2> HIDE DEF k
  <2>4. CallOK(k, NoChild)
    BY <1>0, <1>1, <2>2 DEF CallOK, AliveStates, NoChild
  <2>5. call' = [call EXCEPT ![c] = k]
    BY <1>4 DEF k, binding
  <2> QED
    BY <1>1, <1>u, <1>2, <2>2, <2>3, <2>4, <2>5, FailureOK, BecomesMoves
<1> QED
  BY <1>3, <1>4 DEF Execute, UpdateCall

LEMMA RejectMoves ==
  ASSUME TypeOK, CallsOK, NEW c \in Call, Reject(c)
  PROVE  Moves(c)
<1>1. /\ CallOK(call[c], child[c]) /\ call[c].pc = "preparing"
      /\ call' = [call EXCEPT ![c] = Failed] /\ UNCHANGED <<now, ahead, delivery>>
  BY DEF Reject, UpdateCall, CallsOK
<1>2. child[c] = NoChild /\ call[c].outcome # "result"
  BY <1>1 DEF CallOK
<1>3. child' = [child EXCEPT ![c] = NoChild]
  BY <1>2 DEF Reject, TypeOK
<1> QED
  BY <1>1, <1>2, <1>3, FailureOK, BecomesMoves

LEMMA LaunchMoves ==
  ASSUME TypeOK, CallsOK, NEW c \in Call, Launch(c)
  PROVE  Moves(c)
<1> DEFINE request == [claim |-> call[c].claim, issued |-> HostNow,
                       expires |-> Lesser(HostNow + Validity, call[c].claim.until),
                       deadline |-> now + Timeout]
           k == [call[c] EXCEPT !.pc = "running", !.request = request]
           h == [child[c] EXCEPT !.state = "booting"]
<1>0. /\ CallOK(call[c], child[c]) /\ call[c].pc = "preparing"
      /\ call[c] \in CallRecord /\ child[c] \in ChildRecord
  BY Records DEF Launch, CallsOK
<1>1. /\ call' = [call EXCEPT ![c] = k] /\ child' = [child EXCEPT ![c] = h]
      /\ UNCHANGED <<now, ahead, delivery>>
  BY <1>0 DEF Launch, UpdateCall, TypeOK
<1>2. /\ call[c].claim \in Claim /\ call[c].release \in Release
      /\ child[c] = NoChild /\ call[c].answer = None
      /\ ~call[c].terminated /\ call[c].outcome \notin {"result", "failure"}
  BY <1>0 DEF CallOK
<1>3. /\ request \in Request /\ request.claim = call[c].claim
      /\ request.expires <= call[c].claim.until
  BY <1>2, WorkerAssumption
  DEF WorkerAssumption, Request, Claim, HostNow, Lesser, TypeOK
<1> HIDE DEF request
<1>4. /\ k.pc = "running" /\ k.request = request /\ k.claim = call[c].claim
      /\ k.release = call[c].release
      /\ k.answer = None /\ k.outcome = call[c].outcome
  BY <1>0, <1>2 DEF CallRecord
<1>5. h.state = "booting" /\ ~h.clean
  BY <1>0, <1>2 DEF ChildRecord, NoChild
<1>6. k \in CallRecord /\ h \in ChildRecord
  BY <1>0, <1>3 DEF CallRecord, ChildRecord
<1> HIDE DEF k, h
<1>7. CallOK(k, h)
  BY <1>2, <1>3, <1>4, <1>5 DEF CallOK, AliveStates
<1> QED
  BY <1>1, <1>2, <1>4, <1>6, <1>7, BecomesMoves

\* The timer and the output limit end the child and are remembered.
LEMMA TerminationMoves ==
  ASSUME TypeOK, CallsOK, NEW c \in Call, OutputExceeded(c) \/ TimerFires(c)
  PROVE  Moves(c)
<1> DEFINE k == [call[c] EXCEPT !.terminated = TRUE]
           h == [child[c] EXCEPT !.killed = @ \/ Alive(c)]
<1>0. /\ CallOK(call[c], child[c]) /\ call[c].pc = "running"
      /\ call[c] \in CallRecord /\ child[c] \in ChildRecord
  BY Records DEF OutputExceeded, TimerFires, CallsOK
<1>1. /\ call' = [call EXCEPT ![c] = k] /\ UNCHANGED <<now, ahead, delivery>>
      /\ Kill(c)
  BY DEF OutputExceeded, TimerFires, UpdateCall
<1>2. child' = [child EXCEPT ![c] = h]
  BY <1>0, <1>1 DEF Kill, TypeOK
<1>3. /\ k.pc = "running" /\ k.release = call[c].release /\ k.claim = call[c].claim
      /\ k.binding = call[c].binding /\ k.request = call[c].request
      /\ k.answer = call[c].answer /\ k.outcome = call[c].outcome
  BY <1>0 DEF CallRecord
<1>4. /\ h.state = child[c].state /\ h.evaluated = child[c].evaluated
      /\ h.binding = child[c].binding /\ h.clean = child[c].clean
  BY <1>0 DEF ChildRecord
<1>5. k \in CallRecord /\ h \in ChildRecord
  BY <1>0 DEF CallRecord, ChildRecord, Alive
<1>6. call[c].outcome \notin {"result", "failure"}
  BY <1>0 DEF CallOK
<1> HIDE DEF k, h
<1>7. CallOK(k, h)
  BY <1>0, <1>3, <1>4, <1>6 DEF CallOK, RanReleased
<1> QED
  BY <1>1, <1>2, <1>3, <1>5, <1>6, <1>7, BecomesMoves

LEMMA ChildClosesMoves ==
  ASSUME TypeOK, CallsOK, NEW c \in Call, ChildCloses(c)
  PROVE  Moves(c)
<1>0. /\ CallOK(call[c], child[c]) /\ call[c].pc = "running"
      /\ call[c] \in CallRecord /\ child[c] \in ChildRecord
      /\ child[c].state = "ended"
  BY Records DEF ChildCloses, CallsOK
<1>1. call[c].outcome \notin {"result", "failure"}
  BY <1>0 DEF CallOK
<1>2. CASE Earned(c)
  <2> DEFINE k == [call[c] EXCEPT !.pc = "settled", !.outcome = "result"]
  <2>1. /\ call' = [call EXCEPT ![c] = k] /\ UNCHANGED <<now, ahead, delivery, child>>
    BY <1>2 DEF ChildCloses, UpdateCall
  <2>2. child' = [child EXCEPT ![c] = child[c]]
    BY <2>1 DEF TypeOK
  <2>3. /\ k.pc = "settled" /\ k.release = call[c].release /\ k.claim = call[c].claim
        /\ k.binding = call[c].binding /\ k.request = call[c].request
        /\ k.answer = call[c].answer /\ k.outcome = "result"
        /\ k.terminated = call[c].terminated
    BY <1>0 DEF CallRecord
  <2>4. k \in CallRecord
    BY <1>0 DEF CallRecord
  <2> HIDE DEF k
  <2>5. CallOK(k, child[c])
    BY <1>0, <1>2, <2>3 DEF CallOK, RanReleased, Earned, AliveStates
  <2> QED
    BY <1>0, <1>1, <2>1, <2>2, <2>3, <2>4, <2>5, BecomesMoves
<1>3. CASE ~Earned(c)
  <2>1. /\ call' = [call EXCEPT ![c] = Failed] /\ UNCHANGED <<now, ahead, delivery>>
        /\ child' = [child EXCEPT ![c] = NoChild]
    BY <1>3 DEF ChildCloses, UpdateCall
  <2> QED
    BY <1>1, <2>1, FailureOK, BecomesMoves
<1> QED
  BY <1>2, <1>3

-----------------------------------------------------------------------------
(* The child *)

\* A step of the child alone, while its call runs.
LEMMA ChildMoves ==
  ASSUME TypeOK, CallsOK, NEW c \in Call, NEW h \in ChildRecord, UpdateChild(c, h),
         call[c].pc = "running", CallOK(call[c], h)
  PROVE  Moves(c)
<1>1. call' = [call EXCEPT ![c] = call[c]]
  BY DEF UpdateChild, TypeOK
<1>2. call[c].outcome # "result" /\ call[c] \in CallRecord
  BY Records DEF CallsOK, CallOK
<1> QED
  BY <1>1, <1>2, BecomesMoves DEF UpdateChild

LEMMA BootMoves ==
  ASSUME TypeOK, CallsOK, NEW c \in Call, Boot(c)
  PROVE  Moves(c)
<1>0. /\ CallOK(call[c], child[c]) /\ child[c].state = "booting"
      /\ call[c] \in CallRecord /\ child[c] \in ChildRecord
  BY Records DEF Boot, CallsOK
<1>1. /\ call[c].pc = "running" /\ call[c].answer = None
      /\ call[c].outcome \notin {"result", "failure"}
  BY <1>0 DEF CallOK, AliveStates
<1>2. PICK package \in Package :
        /\ ReleaseVerifies(package, call[c].release)
        /\ UpdateChild(c, [child[c] EXCEPT !.state = "loaded", !.evaluated = package,
                             !.binding = Binding(package, call[c].release)])
  BY DEF Boot
<1> DEFINE binding == Binding(package, call[c].release)
           h == [child[c] EXCEPT !.state = "loaded", !.evaluated = package,
                                 !.binding = binding]
<1>3. binding \in PackageBinding /\ package \in PackageFile
  BY <1>0, <1>1, WorkerAssumption
  DEF CallOK, WorkerAssumption, Binding, PackageBinding, PackageFile, ReleaseEnvelope
<1> HIDE DEF binding
<1>4. h.state = "loaded" /\ h.evaluated = package /\ h.binding = binding
      /\ h.clean = child[c].clean
  BY <1>0 DEF ChildRecord
<1>5. h \in ChildRecord
  BY <1>0, <1>3 DEF ChildRecord
<1>6. UpdateChild(c, h)
  BY <1>2 DEF binding
<1>7. RanReleased(call[c], h)
  BY <1>2, <1>4 DEF RanReleased, binding
<1> HIDE DEF h
<1>8. CallOK(call[c], h)
  BY <1>0, <1>1, <1>4, <1>7 DEF CallOK, AliveStates
<1> QED
  BY <1>1, <1>5, <1>6, <1>8, ChildMoves

LEMMA VerifyMoves ==
  ASSUME TypeOK, CallsOK, NEW c \in Call, Verify(c)
  PROVE  Moves(c)
<1> DEFINE h == [child[c] EXCEPT !.state = "working"]
<1>0. /\ CallOK(call[c], child[c]) /\ child[c].state = "loaded"
      /\ call[c] \in CallRecord /\ child[c] \in ChildRecord
      /\ child[c].binding = call[c].binding /\ UpdateChild(c, h)
  BY Records DEF Verify, CallsOK
<1>1. call[c].pc = "running" /\ call[c].outcome \notin {"result", "failure"}
  BY <1>0 DEF CallOK, AliveStates
<1>2. /\ h.state = "working" /\ h.evaluated = child[c].evaluated
      /\ h.binding = child[c].binding /\ h.clean = child[c].clean
  BY <1>0 DEF ChildRecord
<1>3. h \in ChildRecord
  BY <1>0 DEF ChildRecord
<1> HIDE DEF h
<1>4. CallOK(call[c], h)
  BY <1>0, <1>1, <1>2 DEF CallOK, RanReleased, AliveStates
<1> QED
  BY <1>0, <1>1, <1>3, <1>4, ChildMoves

LEMMA RespondMoves ==
  ASSUME TypeOK, CallsOK, NEW c \in Call, Respond(c)
  PROVE  Moves(c)
<1>0. /\ CallOK(call[c], child[c]) /\ child[c].state = "working"
      /\ call[c] \in CallRecord /\ child[c] \in ChildRecord
      /\ InWindow(c)
  BY Records DEF Respond, CallsOK
<1>1. PICK answer \in {HostNow, None} : call' = [call EXCEPT ![c].answer = answer]
  BY DEF Respond
<1> DEFINE k == [call[c] EXCEPT !.answer = answer]
           h == [child[c] EXCEPT !.state = "responded"]
<1>2. /\ call[c].pc = "running" /\ call[c].outcome \notin {"result", "failure"}
      /\ ~child[c].clean
  BY <1>0 DEF CallOK, AliveStates
<1>3. /\ call' = [call EXCEPT ![c] = k] /\ child' = [child EXCEPT ![c] = h]
      /\ UNCHANGED <<now, ahead, delivery>>
  BY <1>1 DEF Respond, TypeOK
<1>4. HostNow \in Int
  BY WorkerAssumption DEF WorkerAssumption, HostNow, TypeOK
<1>5. /\ k.pc = "running" /\ k.release = call[c].release /\ k.claim = call[c].claim
      /\ k.binding = call[c].binding /\ k.request = call[c].request
      /\ k.answer = answer /\ k.outcome = call[c].outcome
  BY <1>0, <1>2 DEF CallRecord
<1>6. /\ h.state = "responded" /\ h.evaluated = child[c].evaluated
      /\ h.binding = child[c].binding /\ h.clean = child[c].clean
  BY <1>0 DEF ChildRecord
<1>7. k \in CallRecord /\ h \in ChildRecord
  BY <1>0, <1>4 DEF CallRecord, ChildRecord
<1> HIDE DEF k, h
<1>8. CallOK(k, h)
  BY <1>0, <1>2, <1>5, <1>6 DEF CallOK, RanReleased, AliveStates, InWindow
<1> QED
  BY <1>2, <1>3, <1>5, <1>7, <1>8, BecomesMoves

LEMMA EndMoves ==
  ASSUME TypeOK, CallsOK, NEW c \in Call, Exit(c) \/ Die(c)
  PROVE  Moves(c)
<1>0. /\ CallOK(call[c], child[c]) /\ child[c].state \in AliveStates
      /\ call[c] \in CallRecord /\ child[c] \in ChildRecord
  BY Records DEF Exit, Die, Alive, AliveStates, CallsOK
<1>1. call[c].pc = "running" /\ call[c].outcome \notin {"result", "failure"}
  BY <1>0 DEF CallOK
<1>2. ASSUME NEW h \in ChildRecord, UpdateChild(c, h), h.state = "ended",
             h.evaluated = child[c].evaluated, h.binding = child[c].binding
      PROVE  Moves(c)
  <2>1. CallOK(call[c], h)
    BY <1>0, <1>1, <1>2 DEF CallOK, RanReleased, AliveStates
  <2> QED
    BY <1>1, <1>2, <2>1, ChildMoves
<1>3. CASE Exit(c)
  <2> DEFINE h == [child[c] EXCEPT !.state = "ended", !.clean = TRUE]
  <2>1. h.state = "ended" /\ h.evaluated = child[c].evaluated
        /\ h.binding = child[c].binding
    BY <1>0 DEF ChildRecord
  <2>2. h \in ChildRecord /\ UpdateChild(c, h)
    BY <1>0, <1>3 DEF ChildRecord, Exit
  <2> HIDE DEF h
  <2> QED
    BY <1>2, <2>1, <2>2
<1>4. CASE Die(c)
  <2> DEFINE h == [child[c] EXCEPT !.state = "ended"]
  <2>1. h.state = "ended" /\ h.evaluated = child[c].evaluated
        /\ h.binding = child[c].binding
    BY <1>0 DEF ChildRecord
  <2>2. h \in ChildRecord /\ UpdateChild(c, h)
    BY <1>0, <1>4 DEF ChildRecord, Die
  <2> HIDE DEF h
  <2> QED
    BY <1>2, <2>1, <2>2
<1> QED
  BY <1>3, <1>4

-----------------------------------------------------------------------------
(* The runtime *)

\* A step of the runtime ends the claim of the delivery, if it has one, or gives
\* out the next one; the receipt it leaves behind must have been earned.
LEMMA DeliveryBecomes ==
  ASSUME Inv, NEW d \in DeliveryRecord, delivery' = d,
         UNCHANGED <<now, ahead, call, child>>,
         d.status = "claimed" <=> d.claim # None,
         \/ d.claim = None /\ d.attempt = delivery.attempt
         \/ /\ d.attempt = delivery.attempt + 1
            /\ d.claim \in Claim /\ d.claim.attempt = d.attempt,
         d.receipt # None => ReceiptOfResult' /\ ReceiptIsEarned'
  PROVE  Inv'
<1> USE DEF Inv
<1>1. TypeOK'
  BY DEF TypeOK
<1>2. CallsOK'
  BY DEF CallsOK
<1>3. ClaimsMatch'
  <2>1. ASSUME NEW c \in Call, call[c].claim # None
        PROVE  call[c].claim.attempt \in Nat /\ call[c].claim.attempt <= delivery.attempt
    BY <2>1, Records DEF ClaimsMatch, TypeOK, CallRecord, Claim
  <2> QED
    BY <2>1 DEF ClaimsMatch, TypeOK, DeliveryRecord, Claim
<1>4. ReceiptOfResult' /\ ReceiptIsEarned'
  BY DEF ReceiptOfResult, ReceiptIsEarned
<1> QED
  BY <1>1, <1>2, <1>3, <1>4

\* Every step but that of a receipt finds no receipt, and leaves none.
LEMMA NoReceiptYet ==
  ASSUME Inv, delivery.status # "simulated"
  PROVE  delivery.receipt = None
  BY DEF Inv, ReceiptIsEarned

LEMMA ClaimDeliveryInv ==
  ASSUME Inv, NEW lease \in Lease, ClaimDelivery(lease)
  PROVE  Inv'
<1> DEFINE attempt == delivery.attempt + 1
           claim == [attempt |-> attempt, at |-> now, until |-> now + lease]
           d == [delivery EXCEPT !.status = "claimed", !.attempt = attempt,
                                 !.claim = claim]
<1>0. /\ delivery \in DeliveryRecord /\ delivery.receipt = None
      /\ delivery' = d /\ UNCHANGED <<now, ahead, call, child>>
  BY NoReceiptYet DEF Inv, TypeOK, ClaimDelivery
<1>1. attempt \in 0..MaxAttempts /\ claim \in Claim /\ claim.attempt = attempt
  BY <1>0, WorkerAssumption
  DEF WorkerAssumption, ClaimDelivery, Inv, TypeOK, DeliveryRecord, Claim
<1>2. attempt = delivery.attempt + 1
  OBVIOUS
<1> HIDE DEF attempt, claim
<1>3. d.status = "claimed" /\ d.attempt = attempt /\ d.claim = claim /\ d.receipt = None
  BY <1>0 DEF DeliveryRecord
<1>4. d \in DeliveryRecord
  BY <1>0, <1>1 DEF DeliveryRecord
<1> HIDE DEF d
<1>5. claim # None
  BY <1>1, WorkerAssumption DEF WorkerAssumption
<1> QED
  BY <1>0, <1>1, <1>2, <1>3, <1>4, <1>5, DeliveryBecomes

\* The steps after which the delivery has no claim and the receipt it had.
LEMMA ReleaseInv ==
  ASSUME Inv, NEW status \in {"prepared", "simulated", "failed", "uncertain", "cancelled"},
         delivery.status # "simulated", UNCHANGED <<now, ahead, call, child>>,
         delivery' = [delivery EXCEPT !.status = status, !.claim = None]
  PROVE  Inv'
<1> DEFINE d == [delivery EXCEPT !.status = status, !.claim = None]
<1>0. delivery \in DeliveryRecord /\ delivery.receipt = None
  BY NoReceiptYet DEF Inv, TypeOK
<1>1. d.status = status /\ d.attempt = delivery.attempt /\ d.claim = None
      /\ d.receipt = None
  BY <1>0 DEF DeliveryRecord
<1>2. d \in DeliveryRecord
  BY <1>0 DEF DeliveryRecord
<1> HIDE DEF d
<1>3. delivery' = d
  BY DEF d
<1> QED
  BY <1>1, <1>2, <1>3, DeliveryBecomes

\* An unclaimed delivery has no claim to lose.
LEMMA StatusInv ==
  ASSUME Inv, NEW status \in {"prepared", "simulated", "failed", "uncertain", "cancelled"},
         delivery.status \notin {"simulated", "claimed"},
         UNCHANGED <<now, ahead, call, child>>,
         delivery' = [delivery EXCEPT !.status = status]
  PROVE  Inv'
<1>1. delivery \in DeliveryRecord /\ delivery.claim = None
  BY DEF Inv, TypeOK
<1>2. [delivery EXCEPT !.status = status]
        = [delivery EXCEPT !.status = status, !.claim = None]
  BY <1>1 DEF DeliveryRecord
<1> QED
  BY <1>2, ReleaseInv

LEMMA RecordVerifiedWorkerOutcomeInv ==
  ASSUME Inv, NEW c \in Call, RecordVerifiedWorkerOutcome(c)
  PROVE  Inv'
<1> DEFINE d == [delivery EXCEPT !.status = "simulated", !.claim = None,
                                 !.receipt = c, !.recorded = now]
           request == call[c].request
<1>0. /\ delivery \in DeliveryRecord /\ delivery.claim \in Claim /\ now \in Nat
      /\ call[c] \in CallRecord /\ CallOK(call[c], child[c])
      /\ delivery.claim # None
  BY Records, WorkerAssumption
  DEF Inv, TypeOK, DeliveryRecord, CallsOK, RecordVerifiedWorkerOutcome, WorkerAssumption
<1>1. /\ call[c].outcome = "result" /\ ~ClaimExpired /\ Binds(c)
      /\ delivery' = d /\ UNCHANGED <<now, ahead, call, child>>
  BY DEF RecordVerifiedWorkerOutcome, Record
<1>2. /\ d.status = "simulated" /\ d.attempt = delivery.attempt /\ d.claim = None
      /\ d.receipt = c /\ d.recorded = now
  BY <1>0 DEF DeliveryRecord
<1>3. d \in DeliveryRecord
  BY <1>0 DEF DeliveryRecord
<1> HIDE DEF d
<1>4. /\ child[c].clean /\ ~call[c].terminated /\ call[c].answer # None
      /\ call[c].claim \in Claim /\ request \in Request
  BY <1>0, <1>1 DEF CallOK
<1>5. /\ request.claim = call[c].claim /\ request.expires <= call[c].claim.until
      /\ call[c].answer \in request.issued..request.expires
  BY <1>0, <1>4, WorkerAssumption DEF CallOK, WorkerAssumption
<1>6. /\ call[c].claim # None /\ call[c].claim = delivery.claim
      /\ delivery.claim.attempt = delivery.attempt
  BY <1>0, <1>1, <1>4, <1>5, WorkerAssumption
  DEF Inv, ClaimsMatch, Binds, WorkerAssumption
<1>7. ReceiptOfResult' /\ ReceiptIsEarned'
  <2>1. now < delivery.claim.until /\ delivery.claim.at <= request.issued
    BY <1>0, <1>1, <1>4 DEF ClaimExpired, Binds, Claim, Request
  <2> HIDE DEF request
  <2>2. delivery'.receipt = c /\ delivery'.attempt = delivery.attempt
        /\ delivery'.status = "simulated" /\ delivery'.recorded = now
    BY <1>1, <1>2
  <2>3. ReceiptIsEarned'
    BY <1>1, <1>4, <1>5, <1>6, <2>1, <2>2 DEF ReceiptIsEarned, request
  <2> QED
    BY <1>1, <2>2, <2>3 DEF ReceiptOfResult
<1> QED
  BY <1>1, <1>2, <1>3, <1>7, DeliveryBecomes

-----------------------------------------------------------------------------
(* The invariant and what it means *)

LEMMA InitInv == Init => Inv
<1> SUFFICES ASSUME Init PROVE Inv
  OBVIOUS
<1>1. TypeOK
  BY WorkerAssumption
  DEF WorkerAssumption, Init, TypeOK, DeliveryRecord, CallRecord, ChildRecord, Idle,
      NoChild
<1>2. Idle.pc = "idle" /\ Idle.request = None /\ Idle.answer = None /\ ~Idle.terminated
      /\ Idle.outcome = None
  BY DEF Idle
<1>3. NoChild.state = "none" /\ ~NoChild.clean
  BY DEF NoChild
<1>4. CallOK(Idle, NoChild)
  BY <1>2, <1>3, WorkerAssumption DEF CallOK, AliveStates, WorkerAssumption
<1> QED
  BY <1>1, <1>4 DEF Init, Inv, CallsOK, ClaimsMatch, ReceiptOfResult, ReceiptIsEarned, Idle

LEMMA RuntimeInv == Inv /\ Runtime => Inv'
<1> SUFFICES ASSUME Inv, Runtime PROVE Inv'
  OBVIOUS
<1>1. CASE ClaimLost
  BY <1>1, ReleaseInv DEF ClaimLost
<1>2. ASSUME NEW outcome \in {"simulated", "failed", "uncertain"}, RecordOutcome(outcome)
      PROVE  Inv'
  BY <1>2, ReleaseInv DEF RecordOutcome
<1>3. ASSUME NEW decision \in {"simulated", "failed", "cancelled"},
             ResolveUncertain(decision)
      PROVE  Inv'
  BY <1>3, StatusInv DEF ResolveUncertain
<1>4. CASE RetryDelivery \/ CancelDelivery
  BY <1>4, StatusInv DEF RetryDelivery, CancelDelivery
<1> QED
  BY <1>1, <1>2, <1>3, <1>4, ClaimDeliveryInv, RecordVerifiedWorkerOutcomeInv DEF Runtime

LEMMA NextInv == Inv /\ [Next]_vars => Inv'
<1> SUFFICES ASSUME Inv, [Next]_vars PROVE Inv'
  OBVIOUS
<1> USE DEF Inv
<1>1. CASE Tick
  BY <1>1, WorkerAssumption
  DEF WorkerAssumption, Tick, TypeOK, CallsOK, ClaimsMatch, ReceiptOfResult,
      ReceiptIsEarned
<1>2. CASE UNCHANGED vars
  BY <1>2 DEF vars, TypeOK, CallsOK, ClaimsMatch, ReceiptOfResult, ReceiptIsEarned
<1>3. ASSUME NEW c \in Call, Caller(c) \/ Process(c) PROVE Inv'
  <2>1. Moves(c)
    BY <1>3, ExecuteMoves, RejectMoves, LaunchMoves, TerminationMoves, ChildClosesMoves,
       BootMoves, VerifyMoves, RespondMoves, EndMoves
    DEF Caller, Process
  <2> QED
    BY <2>1, MovesKeepsInv
<1> QED
  BY <1>1, <1>2, <1>3, RuntimeInv DEF Next

LEMMA Invariance == Spec => []Inv
  BY InitInv, NextInv, PTL DEF Spec

\* Every reachable state of the worker protocol has its types.
THEOREM TypeCorrect == Spec => []TypeOK
<1>1. Inv => TypeOK
  BY DEF Inv
<1> QED
  BY <1>1, Invariance, PTL

\* A receipt is recorded only under the claim its call ran for, for an answer
\* given in the window of the request and inside the lease, by a child that
\* ended by itself: lost claims, retries, late answers and repeated recordings
\* do not change that.
THEOREM ReceiptCorrect == Spec => []ReceiptIsEarned
<1>1. Inv => ReceiptIsEarned
  BY DEF Inv
<1> QED
  BY <1>1, Invariance, PTL

\* Whatever is put in the place of the package, at any time: what a child whose
\* answer earned a receipt evaluated is what the holder of the pinned key attested.
THEOREM ReleasedCodeCorrect == Spec => []ReleasedCodeRan
<1>1. Inv => ReleasedCodeRan
  <2> SUFFICES ASSUME Inv, delivery.receipt # None PROVE ReleasedCodeRan
    BY DEF ReleasedCodeRan
  <2> DEFINE c == delivery.receipt
             release == call[c].release
             package == child[c].evaluated
  <2>1. c \in Call /\ call[c].outcome = "result" /\ CallOK(call[c], child[c])
    BY DEF Inv, TypeOK, DeliveryRecord, CallsOK, ReceiptOfResult
  <2>2. /\ ReleaseVerifies(package, release)
        /\ child[c].binding = Binding(package, release)
        /\ child[c].binding = call[c].binding
    BY <2>1 DEF CallOK, RanReleased
  <2>3. call[c].binding.package = package
    BY <2>2 DEF Binding
  <2> HIDE DEF c, release, package
  <2>4. /\ package = release.attestation.package
        /\ package.modules = release.attestation.artifact
        /\ package.modules \in Conforming
        /\ release.attestation.signedBy = release.pin.publicKey
    BY <2>2 DEF ReleaseVerifies, Normal, SourceGraphVerifies
  <2> QED
    BY <2>3, <2>4 DEF ReleasedCodeRan, c, release, package
<1> QED
  BY <1>1, Invariance, PTL

\* No child outlives the call that launched it.
THEOREM NoOrphansCorrect == Spec => []NoOrphans
<1>1. Inv => NoOrphans
  BY DEF Inv, CallsOK, CallOK, NoOrphans, Alive, AliveStates
<1> QED
  BY <1>1, Invariance, PTL

=============================================================================
