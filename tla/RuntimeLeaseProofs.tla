------------------------- MODULE RuntimeLeaseProofs --------------------------
(***************************************************************************)
(* The lease on the runtime directory, for any number of processes,        *)
(* leases and system calls that fail.                                      *)
(*                                                                         *)
(* The types need what each process remembers at each point of acquire()   *)
(* and release() (LocalOK), and that what it reclaims is the expired lease *)
(* of a process that ended (Founded).                                      *)
(*                                                                         *)
(* An owner keeps its lease as long as no process ends: the only lease     *)
(* that is stale then is the one that was found at the start, and until    *)
(* it is moved the marker in its directory is of one process (Secure).     *)
(* When at most two processes open the directory the owner keeps its lease *)
(* whatever happens, because one that is left alone has no rival (Keeps).  *)
(* With three, one of which ended, it does not: the two that live may both *)
(* be reclaiming the lease of the third.                                   *)
(***************************************************************************)
EXTENDS RuntimeLease, TLAPS

Reclaims(x) == x.aim = "reclaim" /\ x.pc # "dead"

Owns(x) == x.pc = "held" \/ (x.aim = "release" /\ x.pc # "dead")

LocalOK(p, x) ==
  /\ x.aim = "reclaim" => ~x.second
  /\ x.pc \in {"idle", "install", "look", "read", "held", "closed"} => x.aim = None
  /\ x.pc \in {"mark"} \cup Marked => x.aim \in Marker /\ x.lease \in Lease
  /\ x.pc \in {"install", "look", "read"} \/ Reclaims(x) => x.nr < MaxLeases
  /\ Owns(x) => x.lease \in Lease /\ x.lease.pid = p
  /\ Reclaims(x) => x.lease.expiresAt <= x.now

Founded(x) ==
  /\ x.now <= time
  /\ Reclaims(x) => ~ProcessIsAlive(x.lease.pid)

BaseInv ==
  /\ TypeOK
  /\ \A p \in Process : LocalOK(p, proc[p])
  /\ \A p \in Process : Founded(proc[p])

NoneDied == \A p \in Process : proc[p].pc # "dead"

\* The process is reclaiming the directory of the lease found at the start,
\* and its marker is in it.
ReclaimsGone(p) ==
  /\ Reclaims(proc[p]) /\ proc[p].pc \in Marked
  /\ Present /\ lock.owner.pid = Gone

Secured(p) ==
  /\ Owns(proc[p]) => lock.owner = proc[p].lease
  /\ Reclaims(proc[p]) => proc[p].lease.pid = Gone
  /\ Reclaims(proc[p]) /\ proc[p].pc \in {"list", "move"}
       => lock.owner = proc[p].lease
  /\ ReclaimsGone(p) => "reclaim" \in lock.markers

Secure ==
  NoneDied => /\ \A p \in Process : Secured(p)
              /\ \A p, q \in Process : ReclaimsGone(p) /\ ReclaimsGone(q) => p = q

AtMostTwo == \A p, q, r \in Process : p = q \/ q = r \/ p = r

LEMMA FreshFields ==
  /\ Fresh \in LocalRecord
  /\ Fresh.pc = "idle" /\ ~Fresh.second /\ Fresh.lease = None
  /\ Fresh.aim = None /\ Fresh.now = 0 /\ Fresh.nr = 0
BY LeaseAssumption DEF Fresh, LocalRecord, ProgramPoint, LeaseAssumption

LEMMA LockFields ==
  ASSUME TypeOK
  PROVE  /\ lock.owner \in Lease \cup {None}
         /\ lock.markers \subseteq Marker
         /\ lock = [owner |-> lock.owner, markers |-> lock.markers]
BY DEF TypeOK, LockRecord

-----------------------------------------------------------------------------
(* Types and local variables *)

\* What a step of one process has to give: its own record is a proper one, and
\* so is the lock. Who has ended stays so.
LEMMA OneProcess ==
  ASSUME BaseInv, NEW p \in Process, proc[p].pc # "dead",
         NEW x \in LocalRecord, LocalOK(p, x), Founded(x),
         proc' = [proc EXCEPT ![p] = x], time' = time, lock' \in LockRecord,
         faults' \in FaultRecord
  PROVE  BaseInv'
<1>1. TypeOK' /\ \A q \in Process : LocalOK(q, proc'[q])
  BY DEF BaseInv, TypeOK, LocalOK
<1>2. proc'[p] = x /\ \A q \in Process : q # p => proc'[q] = proc[q]
  BY DEF BaseInv, TypeOK
<1>3. \A q : ~ProcessIsAlive(q) => ~ProcessIsAlive(q)'
  BY <1>2 DEF ProcessIsAlive
<1>4. ASSUME NEW q \in Process PROVE Founded(proc[q])'
  <2>1. Founded(proc'[q])
    BY <1>2 DEF BaseInv
  <2> QED
    BY <1>3, <2>1 DEF Founded
<1> QED
  BY <1>1, <1>4 DEF BaseInv

\* What a process remembers, and what GiveUp leaves of it.
LEMMA Remembers ==
  ASSUME BaseInv, NEW p \in Process
  PROVE  /\ proc[p] \in LocalRecord /\ LocalOK(p, proc[p])
         /\ lock \in LockRecord /\ lock.markers \subseteq Marker
         /\ time \in 0..MaxTime /\ Founded(proc[p])
BY DEF BaseInv, TypeOK, LockRecord

GivenUp(p) ==
  IF proc[p].aim = "release"
    THEN [Fresh EXCEPT !.pc = "closed", !.lease = proc[p].lease, !.nr = proc[p].nr]
    ELSE [Fresh EXCEPT !.nr = proc[p].nr]

LEMMA GivenUpFields ==
  ASSUME BaseInv, NEW p \in Process
  PROVE  /\ GivenUp(p) \in LocalRecord
         /\ GivenUp(p).pc \in {"closed", "idle"} /\ GivenUp(p).aim = None
         /\ GivenUp(p).now = 0
<1>1. proc[p] \in LocalRecord
  BY Remembers
<1>2. CASE proc[p].aim = "release"
  BY <1>1, <1>2, FreshFields DEF GivenUp, LocalRecord, ProgramPoint
<1>3. CASE proc[p].aim # "release"
  BY <1>1, <1>3, FreshFields DEF GivenUp, LocalRecord, ProgramPoint
<1> QED
  BY <1>2, <1>3

LEMMA GivenUpOK ==
  ASSUME BaseInv, NEW p \in Process
  PROVE  /\ GivenUp(p) \in LocalRecord /\ LocalOK(p, GivenUp(p))
         /\ Founded(GivenUp(p))
         /\ GiveUp(p) => proc' = [proc EXCEPT ![p] = GivenUp(p)]
         /\ Fail(p) /\ proc[p].aim = None => proc' = [proc EXCEPT ![p] = GivenUp(p)]
<1>1. GivenUp(p) \in LocalRecord
  BY GivenUpFields
<1>2. LocalOK(p, GivenUp(p))
  BY GivenUpFields, LeaseAssumption
   DEF LocalOK, LeaseAssumption, Marker, Marked, Reclaims, Owns
<1>3. GiveUp(p) => proc' = [proc EXCEPT ![p] = GivenUp(p)]
  BY DEF GiveUp, Fail, Closed, GivenUp
<1>4. Fail(p) /\ proc[p].aim = None => proc' = [proc EXCEPT ![p] = GivenUp(p)]
  <2>1. None # "release"
    BY LeaseAssumption DEF LeaseAssumption, Marker
  <2> QED
    BY <2>1 DEF Fail, GivenUp
<1>5. Founded(GivenUp(p))
  BY GivenUpFields, Remembers, LeaseAssumption
   DEF Founded, Reclaims, LeaseAssumption, Marker
<1> QED
  BY <1>1, <1>2, <1>3, <1>4, <1>5

\* Going on to another point with the same local variables.
LEMMA GotoOK ==
  ASSUME BaseInv, NEW p \in Process, NEW pc \in ProgramPoint, Goto(p, pc)
  PROVE  \E x \in LocalRecord :
           /\ proc' = [proc EXCEPT ![p] = x]
           /\ x.pc = pc /\ x.now = proc[p].now /\ x.second = proc[p].second
           /\ x.lease = proc[p].lease /\ x.aim = proc[p].aim /\ x.nr = proc[p].nr
<1>1. proc \in [Process -> LocalRecord]
  BY DEF BaseInv, TypeOK
<1> DEFINE x == [proc[p] EXCEPT !.pc = pc]
<1>2. /\ x \in LocalRecord
      /\ x.pc = pc /\ x.now = proc[p].now /\ x.second = proc[p].second
      /\ x.lease = proc[p].lease /\ x.aim = proc[p].aim /\ x.nr = proc[p].nr
  BY <1>1 DEF LocalRecord
<1>3. proc' = [proc EXCEPT ![p] = x]
  BY <1>1 DEF Goto
<1> HIDE DEF x
<1> QED
  BY <1>2, <1>3

\* A step within acquire() before there is a marker.
LEMMA LooksOn ==
  ASSUME BaseInv, NEW p \in Process, faults' \in FaultRecord,
         proc[p].pc \in {"install", "look"}, NEW to \in {"look", "read"},
         Goto(p, to), time' = time, lock' \in LockRecord
  PROVE  BaseInv'
<1>1. PICK x \in LocalRecord :
        /\ proc' = [proc EXCEPT ![p] = x]
        /\ x.pc = to /\ x.aim = proc[p].aim /\ x.nr = proc[p].nr
        /\ x.second = proc[p].second /\ x.now = proc[p].now
  BY GotoOK DEF ProgramPoint
<1>2. proc[p].aim = None /\ proc[p].nr < MaxLeases /\ proc[p].now <= time
  BY Remembers DEF LocalOK, Founded
<1>3. LocalOK(p, x) /\ Founded(x)
  BY <1>1, <1>2, LeaseAssumption
   DEF LocalOK, Reclaims, Owns, LeaseAssumption, Marker, Marked, Founded
<1> QED
  BY <1>1, <1>3, OneProcess

\* A step of reclaim() or release() that goes on, and one that gives up.
LEMMA GoesOn ==
  ASSUME BaseInv, NEW p \in Process, faults' \in FaultRecord,
         proc[p].pc \in {"mark"} \cup Marked, NEW to \in Marked,
         Goto(p, to), time' = time, lock' \in LockRecord
  PROVE  BaseInv'
<1>1. PICK x \in LocalRecord :
        /\ proc' = [proc EXCEPT ![p] = x]
        /\ x.pc = to /\ x.aim = proc[p].aim /\ x.nr = proc[p].nr
        /\ x.second = proc[p].second /\ x.lease = proc[p].lease
        /\ x.now = proc[p].now
  BY GotoOK DEF ProgramPoint, Marked
<1>2. Reclaims(x) = Reclaims(proc[p]) /\ Owns(x) = Owns(proc[p])
  BY <1>1 DEF Reclaims, Owns, Marked
<1>3. LocalOK(p, x)
  BY <1>1, <1>2, Remembers DEF LocalOK, Marked
<1>4. Founded(x)
  BY <1>1, <1>2, Remembers DEF Founded
<1>5. proc[p].pc # "dead"
  BY DEF Marked
<1> QED
  BY <1>1, <1>3, <1>4, <1>5, OneProcess

LEMMA GivesUp ==
  ASSUME BaseInv, NEW p \in Process, faults' \in FaultRecord, proc[p].pc # "dead",
         GiveUp(p), time' = time, lock' \in LockRecord
  PROVE  BaseInv'
BY GivenUpOK, OneProcess

\* A step of acquire() that only reads, and one that installs a lease.
LEMMA AcquireBase ==
  ASSUME BaseInv, NEW p \in Process, faults' \in FaultRecord,
         proc[p].pc # "dead", Acquire(p) \/ Install(p) \/ Look(p) \/ Read(p)
  PROVE  BaseInv'
<1> USE DEF Marked
<1>1. CASE Acquire(p)
  <2> DEFINE x == [Fresh EXCEPT !.pc = "install", !.now = time, !.nr = proc[p].nr]
  <2>1. /\ x \in LocalRecord /\ x.pc = "install" /\ x.aim = None
        /\ x.nr = proc[p].nr /\ x.now = time
    BY Remembers, FreshFields DEF LocalRecord, ProgramPoint
  <2>2. LocalOK(p, x)
    BY <1>1, <2>1, LeaseAssumption
     DEF Acquire, LocalOK, Reclaims, Owns, LeaseAssumption, Marker
  <2>3. proc' = [proc EXCEPT ![p] = x] /\ lock' = lock /\ time' = time
    BY <1>1 DEF Acquire
  <2>4. Founded(x)
    BY <2>1, Remembers, LeaseAssumption DEF Founded, Reclaims, LeaseAssumption, Marker
  <2> HIDE DEF x
  <2> QED
    BY <2>1, <2>2, <2>3, <2>4, Remembers, OneProcess
<1>2. CASE Install(p) /\ ~Present
  <2> DEFINE x == [pc |-> "held", now |-> 0, second |-> FALSE, lease |-> NewLease(p),
                   aim |-> None, nr |-> proc[p].nr + 1]
  <2>1. proc[p].nr < MaxLeases /\ proc[p].nr \in 0..MaxLeases /\ proc[p].now \in Nat
    BY <1>2, Remembers, LeaseAssumption
     DEF Install, LocalOK, LocalRecord, LeaseAssumption
  <2>2. NewLease(p) \in Lease /\ NewLease(p).pid = p
    BY <2>1, LeaseAssumption DEF NewLease, Lease, LeaseAssumption
  <2>3. x \in LocalRecord
    BY <2>1, <2>2, LeaseAssumption DEF LocalRecord, ProgramPoint, LeaseAssumption
  <2>4. LocalOK(p, x)
    BY <2>2, LeaseAssumption DEF LocalOK, Reclaims, Owns, LeaseAssumption, Marker
  <2>5. /\ proc' = [proc EXCEPT ![p] = x] /\ time' = time
        /\ lock' = [owner |-> NewLease(p), markers |-> {}]
    BY <1>2 DEF Install, Fresh
  <2>6. lock' \in LockRecord
    BY <2>2, <2>5 DEF LockRecord
  <2>7. Founded(x)
    BY Remembers, LeaseAssumption DEF Founded, Reclaims, LeaseAssumption, Marker
  <2> HIDE DEF x
  <2> QED
    BY <2>3, <2>4, <2>5, <2>6, <2>7, OneProcess
<1>3. CASE (Install(p) /\ Present) \/ (Look(p) /\ Present)
  <2> DEFINE to == IF proc[p].pc = "install" THEN "look" ELSE "read"
  <2>1. /\ to \in {"look", "read"} /\ Goto(p, to) /\ time' = time /\ lock' = lock
        /\ proc[p].pc \in {"install", "look"}
    BY <1>3 DEF Install, Look
  <2> HIDE DEF to
  <2> QED
    BY <2>1, Remembers, LooksOn
<1>4. CASE Fail(p) /\ UNCHANGED <<time, lock>> /\ proc[p].pc \in {"look", "read"}
  <2>1. proc[p].aim = None
    BY <1>4, Remembers DEF LocalOK
  <2> QED
    BY <1>4, <2>1, GivenUpOK, Remembers, OneProcess
<1>5. CASE Read(p) /\ ~Fail(p)
  <2>1. proc[p].aim = None /\ proc[p].nr < MaxLeases /\ proc[p].now <= time
    BY <1>5, Remembers DEF LocalOK, Read, Founded
  <2>2. PICK x \in LocalRecord :
          LocalOK(p, x) /\ Founded(x) /\ proc' = [proc EXCEPT ![p] = x]
    <3>1. CASE proc' = [proc EXCEPT ![p].pc = "install", ![p].second = TRUE]
      <4> DEFINE x == [proc[p] EXCEPT !.pc = "install", !.second = TRUE]
      <4>1. /\ x \in LocalRecord /\ x.pc = "install" /\ x.aim = None
            /\ x.nr < MaxLeases /\ x.now <= time
        BY <2>1, Remembers DEF LocalRecord, ProgramPoint
      <4>2. proc' = [proc EXCEPT ![p] = x]
        BY <3>1, Remembers DEF BaseInv, TypeOK
      <4>3. LocalOK(p, x) /\ Founded(x)
        BY <4>1, LeaseAssumption
         DEF LocalOK, Reclaims, Owns, LeaseAssumption, Marker, Founded
      <4> QED
        BY <4>1, <4>2, <4>3
    <3>2. CASE /\ Present /\ ~proc[p].second
               /\ IsSafelyStale(lock.owner, proc[p].now)
               /\ proc' = [proc EXCEPT ![p].pc = "mark", ![p].lease = lock.owner,
                                       ![p].aim = "reclaim"]
      <4> DEFINE x == [proc[p] EXCEPT !.pc = "mark", !.lease = lock.owner,
                                      !.aim = "reclaim"]
      <4>1. lock.owner \in Lease
        BY <3>2, LockFields DEF BaseInv, Present
      <4>2. /\ x \in LocalRecord /\ x.pc = "mark" /\ x.aim = "reclaim"
            /\ x.nr < MaxLeases /\ x.lease \in Lease /\ ~x.second
            /\ x.lease = lock.owner /\ x.now = proc[p].now
        BY <2>1, <3>2, <4>1, Remembers DEF LocalRecord, ProgramPoint, Marker
      <4>3. proc' = [proc EXCEPT ![p] = x]
        BY <3>2, Remembers DEF BaseInv, TypeOK
      <4> HIDE DEF x
      <4>4. LocalOK(p, x)
        BY <3>2, <4>2 DEF LocalOK, Reclaims, Owns, Marker, IsSafelyStale
      <4>5. Founded(x)
        BY <2>1, <3>2, <4>2 DEF Founded, IsSafelyStale
      <4> QED
        BY <4>2, <4>3, <4>4, <4>5
    <3> QED
      BY <1>5, <3>1, <3>2 DEF Read
  <2> QED
    BY <1>5, <2>2, Remembers, OneProcess DEF Read
<1> QED
  BY <1>1, <1>2, <1>3, <1>4, <1>5 DEF Install, Look, Read

\* close(), with or without a marker to come.
LEMMA CloseBase ==
  ASSUME BaseInv, NEW p \in Process, faults' \in FaultRecord,
         proc[p].pc = "held", UNCHANGED <<time, lock>>,
         \/ Closed(p)
         \/ proc' = [proc EXCEPT ![p].pc = "mark", ![p].aim = "release"]
  PROVE  BaseInv'
<1>1. /\ proc[p].aim = None /\ proc[p].lease \in Lease /\ proc[p].lease.pid = p
      /\ proc[p].now <= time
  BY Remembers DEF LocalOK, Owns, Founded
<1>2. PICK x \in LocalRecord :
        LocalOK(p, x) /\ Founded(x) /\ proc' = [proc EXCEPT ![p] = x]
  <2>1. CASE proc' = [proc EXCEPT ![p].pc = "mark", ![p].aim = "release"]
    <3> DEFINE x == [proc[p] EXCEPT !.pc = "mark", !.aim = "release"]
    <3>1. /\ x \in LocalRecord /\ x.pc = "mark" /\ x.aim = "release"
          /\ x.lease = proc[p].lease /\ x.now = proc[p].now
      BY Remembers DEF LocalRecord, ProgramPoint, Marker
    <3>2. proc' = [proc EXCEPT ![p] = x]
      BY <2>1, Remembers DEF BaseInv, TypeOK
    <3> HIDE DEF x
    <3>3. LocalOK(p, x) /\ Founded(x)
      BY <1>1, <3>1 DEF LocalOK, Reclaims, Owns, Marker, Founded
    <3> QED
      BY <3>1, <3>2, <3>3
  <2>2. CASE Closed(p)
    <3> DEFINE x == [Fresh EXCEPT !.pc = "closed", !.lease = proc[p].lease,
                                  !.nr = proc[p].nr]
    <3>1. x \in LocalRecord /\ x.pc = "closed" /\ x.aim = None /\ x.now = 0
      BY Remembers, FreshFields DEF LocalRecord, ProgramPoint
    <3>2. proc' = [proc EXCEPT ![p] = x]
      BY <2>2 DEF Closed
    <3> HIDE DEF x
    <3>3. LocalOK(p, x) /\ Founded(x)
      BY <3>1, Remembers, LeaseAssumption
       DEF LocalOK, Reclaims, Owns, Marker, Marked, LeaseAssumption, Founded
    <3> QED
      BY <3>1, <3>2, <3>3
  <2> QED
    BY <2>1, <2>2
<1> QED
  BY <1>2, Remembers, OneProcess

\* A step of reclaim() or release(), and the end of a process.
LEMMA MarkerBase ==
  ASSUME BaseInv, NEW p \in Process, faults' \in FaultRecord, proc[p].pc # "dead",
         \/ Mark(p) \/ Recheck(p) \/ List(p) \/ Move(p) \/ Unmark(p) \/ Crash(p)
  PROVE  BaseInv'
<1>m. CASE Mark(p)
  <2>1. CASE Present /\ proc[p].aim \notin lock.markers
    <3>1. /\ Goto(p, "recheck") /\ proc[p].pc = "mark" /\ time' = time
          /\ lock' = [lock EXCEPT !.markers = @ \cup {proc[p].aim}]
      BY <1>m, <2>1 DEF Mark
    <3>2. lock' \in LockRecord
      BY <3>1, Remembers DEF LocalOK, LockRecord
    <3> QED
      BY <3>1, <3>2, GoesOn DEF Marked
  <2>2. CASE ~(Present /\ proc[p].aim \notin lock.markers)
    BY <1>m, <2>2, Remembers, GivesUp DEF Mark
  <2> QED
    BY <2>1, <2>2
<1>r. CASE Recheck(p)
  BY <1>r, GoesOn, Remembers DEF Recheck, Marked
<1>l. CASE List(p)
  BY <1>l, GoesOn, Remembers DEF List, Marked
<1>n. CASE Unmark(p)
  <2>1. lock' \in LockRecord
    BY <1>n, Remembers DEF Unmark, LockRecord
  <2> QED
    BY <1>n, <2>1, GivesUp DEF Unmark
<1>v. CASE Move(p)
  <2>1. CASE ~Present
    BY <1>v, <2>1, GoesOn, Remembers DEF Move, Marked
  <2>2. CASE Present
    <3>1. lock' \in LockRecord /\ time' = time
      BY <1>v, <2>2 DEF Move, NoLock, LockRecord
    <3>2. CASE GiveUp(p)
      BY <3>1, <3>2, GivesUp
    <3>3. CASE ~GiveUp(p)
      <4> DEFINE x == [proc[p] EXCEPT !.pc = "install", !.second = TRUE,
                                      !.lease = None, !.aim = None]
      <4>1. /\ proc[p].aim = "reclaim" /\ proc[p].pc = "move"
            /\ proc' = [proc EXCEPT ![p] = x]
        BY <1>v, <2>2, <3>3 DEF Move
      <4>2. proc[p].nr < MaxLeases /\ proc[p].now <= time
        BY <4>1, Remembers DEF LocalOK, Reclaims, Founded
      <4>3. /\ x \in LocalRecord /\ x.pc = "install" /\ x.aim = None
            /\ x.nr = proc[p].nr /\ x.now = proc[p].now
        BY Remembers DEF LocalRecord, ProgramPoint
      <4> HIDE DEF x
      <4>4. LocalOK(p, x) /\ Founded(x)
        BY <4>2, <4>3, LeaseAssumption
         DEF LocalOK, Reclaims, Owns, Marker, Marked, LeaseAssumption, Founded
      <4> QED
        BY <3>1, <4>1, <4>3, <4>4, OneProcess
    <3> QED
      BY <3>2, <3>3
  <2> QED
    BY <2>1, <2>2
<1>d. CASE Crash(p)
  <2> DEFINE x == [Fresh EXCEPT !.pc = "dead"]
  <2>1. proc' = [proc EXCEPT ![p] = x] /\ lock' = lock /\ time' = time
    BY <1>d DEF Crash
  <2>2. x \in LocalRecord /\ x.pc = "dead" /\ x.aim = None /\ x.now = 0
    BY FreshFields DEF LocalRecord, ProgramPoint
  <2> HIDE DEF x
  <2>3. LocalOK(p, x) /\ Founded(x)
    BY <2>2, Remembers, LeaseAssumption
     DEF LocalOK, Reclaims, Owns, Marker, Marked, LeaseAssumption, Founded
  <2> QED
    BY <2>1, <2>2, <2>3, Remembers, OneProcess
<1> QED
  BY <1>m, <1>r, <1>l, <1>v, <1>n, <1>d

\* A system call that fails.
LEMMA FailsBase ==
  ASSUME BaseInv, NEW p \in Process, faults' \in FaultRecord, time' = time,
         FailsUnmarked(p) \/ FailsToMark(p) \/ FailsMarked(p)
  PROVE  BaseInv'
<1>1. CASE FailsUnmarked(p)
  <2>1. CASE proc[p].pc \in {"install", "look", "read"} /\ Fail(p)
    <3>1. proc[p].aim = None /\ lock' = lock
      BY <1>1, <2>1, Remembers DEF LocalOK, FailsUnmarked
    <3> QED
      BY <2>1, <3>1, GivenUpOK, Remembers, OneProcess
  <2>2. CASE proc[p].pc = "install" /\ Goto(p, "look")
    BY <1>1, <2>2, LooksOn, Remembers DEF FailsUnmarked
  <2>3. CASE proc[p].pc = "held" /\ Closed(p)
    BY <1>1, <2>3, CloseBase DEF FailsUnmarked
  <2> QED
    BY <1>1, <2>1, <2>2, <2>3 DEF FailsUnmarked
<1>2. CASE FailsToMark(p)
  <2>1. proc[p].pc = "mark" /\ GiveUp(p) /\ proc[p].aim \in Marker
    BY <1>2, Remembers DEF FailsToMark, LocalOK
  <2>2. [lock EXCEPT !.markers = @ \cup {proc[p].aim}] \in LockRecord
    BY <2>1, Remembers DEF LockRecord
  <2>3. lock' \in LockRecord
    BY <1>2, <2>2, Remembers DEF FailsToMark
  <2> QED
    BY <2>1, <2>3, GivesUp
<1>3. CASE FailsMarked(p)
  <2>1. CASE /\ proc[p].pc \in {"recheck", "list", "move"} /\ Goto(p, "unmark")
             /\ UNCHANGED lock
    BY <2>1, GoesOn, Remembers DEF Marked
  <2>2. CASE proc[p].pc \in {"move", "unmark"} /\ GiveUp(p) /\ lock' \in {lock, NoLock}
    <3>1. lock' \in LockRecord
      BY <2>2, Remembers DEF NoLock, LockRecord
    <3> QED
      BY <2>2, <3>1, GivesUp
  <2> QED
    BY <1>3, <2>1, <2>2 DEF FailsMarked
<1> QED
  BY <1>1, <1>2, <1>3

LEMMA FaultsType ==
  ASSUME BaseInv, [Next]_vars
  PROVE  faults' \in FaultRecord
<1>1. faults \in FaultRecord
  BY DEF BaseInv, TypeOK
<1>2. CASE UNCHANGED faults
  BY <1>1, <1>2
<1>3. ASSUME NEW p \in Process, Crash(p) PROVE faults' \in FaultRecord
  BY <1>1, <1>3 DEF Crash, FaultRecord
<1>4. ASSUME NEW p \in Process, CallFails(p) PROVE faults' \in FaultRecord
  BY <1>1, <1>4, LeaseAssumption DEF CallFails, FaultRecord, LeaseAssumption
<1> QED
  BY <1>2, <1>3, <1>4
   DEF Next, Step, Acquire, Install, Look, Read, Close, Mark, Recheck, List, Move,
       Unmark, Tick, vars

LEMMA BaseInvariance == Spec => []BaseInv
<1>1. Init => BaseInv
  <2> SUFFICES ASSUME Init PROVE BaseInv
    OBVIOUS
  <2>1. proc = [p \in Process |-> Fresh] /\ time = 0
    BY DEF Init
  <2>2. lock \in LockRecord /\ faults \in FaultRecord
    BY LeaseAssumption DEF Init, NoLock, LockRecord, Lease, LeaseAssumption, FaultRecord
  <2>3. TypeOK
    BY <2>1, <2>2, FreshFields, LeaseAssumption DEF TypeOK, LeaseAssumption, Marker
  <2>4. ASSUME NEW p \in Process PROVE LocalOK(p, proc[p]) /\ Founded(proc[p])
    BY <2>1, FreshFields, LeaseAssumption
     DEF LocalOK, Reclaims, Owns, LeaseAssumption, Marker, Marked, Founded
  <2> QED
    BY <2>3, <2>4 DEF BaseInv
<1>2. BaseInv /\ [Next]_vars => BaseInv'
  <2> SUFFICES ASSUME BaseInv, [Next]_vars PROVE BaseInv'
    OBVIOUS
  <2>1. CASE Tick
    <3>1. /\ time' \in 0..MaxTime /\ time' = time + 1 /\ time \in Nat
          /\ UNCHANGED <<lock, proc, faults>>
      BY <2>1, LeaseAssumption DEF Tick, BaseInv, TypeOK, LeaseAssumption
    <3>2. TypeOK' /\ \A p \in Process : LocalOK(p, proc'[p])
      BY <3>1 DEF BaseInv, TypeOK
    <3>3. ASSUME NEW p \in Process PROVE Founded(proc[p])'
      <4>1. proc[p].now \in Int /\ Founded(proc[p])
        BY Remembers DEF LocalRecord
      <4> QED
        BY <3>1, <4>1 DEF Founded, ProcessIsAlive
    <3> QED
      BY <3>2, <3>3 DEF BaseInv
  <2>2. CASE UNCHANGED vars
    BY <2>2 DEF vars, BaseInv, TypeOK, LocalOK, Founded, ProcessIsAlive
  <2>3. ASSUME NEW p \in Process,
               Acquire(p) \/ Step(p) \/ Close(p) \/ Crash(p) \/ CallFails(p)
        PROVE  BaseInv'
    <3>1. faults' \in FaultRecord
      BY FaultsType
    <3>2. CASE CallFails(p)
      BY <3>1, <3>2, FailsBase DEF CallFails
    <3>3. CASE Close(p)
      BY <3>1, <3>3, CloseBase DEF Close
    <3>4. CASE Acquire(p) \/ Step(p) \/ Crash(p)
      <4>1. proc[p].pc # "dead"
        BY <3>4 DEF Acquire, Step, Install, Look, Read, Mark, Recheck, List, Move,
                    Unmark, Crash
      <4> QED
        BY <3>1, <3>4, <4>1, AcquireBase, MarkerBase DEF Step
    <3> QED
      BY <2>3, <3>2, <3>3, <3>4
  <2> QED
    BY <2>1, <2>2, <2>3 DEF Next
<1> QED
  BY <1>1, <1>2, PTL DEF Spec

-----------------------------------------------------------------------------
(* The owner keeps its lease *)

LEMMA OnlyOne ==
  ASSUME BaseInv, NEW p \in Process, NEW q \in Process, p # q,
         \/ Acquire(p) \/ Step(p) \/ Close(p) \/ Crash(p) \/ CallFails(p)
  PROVE  proc'[q] = proc[q]
BY DEF BaseInv, TypeOK, Acquire, Step, Install, Look, Read, Close, Mark, Recheck,
       List, Move, Unmark, Crash, Goto, Fail, Closed, GiveUp, CallFails,
       FailsUnmarked, FailsToMark, FailsMarked

\* What a step of one process has to give: either the lease stays in place and
\* so do the marks of others, or there was no lease to keep and none to reclaim.
LEMMA OneSecured ==
  ASSUME BaseInv, BaseInv', NoneDied, Secure, NEW p \in Process,
         \A q \in Process \ {p} : proc'[q] = proc[q],
         Secured(p)',
         ReclaimsGone(p)' => ReclaimsGone(p) \/ "reclaim" \notin lock.markers,
         \/ /\ lock'.owner = lock.owner
            /\ \A q \in Process \ {p} : ReclaimsGone(q) =>
                 "reclaim" \in lock'.markers
         \/ /\ Present' => lock'.owner.pid # Gone
            /\ \A q \in Process \ {p} :
                 /\ ~Owns(proc[q])
                 /\ ~(Reclaims(proc[q]) /\ proc[q].pc \in {"list", "move"})
  PROVE  Secure'
<1>1. \A q \in Process : Secured(q)
  BY DEF Secure
<1>2. \A q, r \in Process : ReclaimsGone(q) /\ ReclaimsGone(r) => q = r
  BY DEF Secure
<1>3. ASSUME NEW q \in Process, q # p
      PROVE  Secured(q)' /\ (ReclaimsGone(q)' => ReclaimsGone(q))
  <2>1. proc'[q] = proc[q] /\ Secured(q)
    BY <1>1, <1>3
  <2>2. CASE lock'.owner = lock.owner /\ (ReclaimsGone(q) => "reclaim" \in lock'.markers)
    BY <2>1, <2>2 DEF Secured, ReclaimsGone, Present
  <2>3. CASE /\ Present' => lock'.owner.pid # Gone
             /\ ~Owns(proc[q])
             /\ ~(Reclaims(proc[q]) /\ proc[q].pc \in {"list", "move"})
    BY <2>1, <2>3 DEF Secured, ReclaimsGone, Present
  <2> QED
    BY <1>3, <2>2, <2>3
<1>4. ASSUME NEW q \in Process, q # p, ReclaimsGone(q)', ReclaimsGone(p)'
      PROVE  FALSE
  <2>1. ReclaimsGone(q)
    BY <1>3, <1>4
  <2>2. "reclaim" \in lock.markers
    BY <1>1, <2>1 DEF Secured
  <2> QED
    BY <1>2, <1>4, <2>1, <2>2
<1> QED
  BY <1>2, <1>3, <1>4 DEF Secure

\* The fields of a process's record after each way a step changes it.
LEMMA Became ==
  ASSUME BaseInv, NEW p \in Process
  PROVE  /\ \A pc \in ProgramPoint : Goto(p, pc) =>
              /\ proc'[p].pc = pc /\ proc'[p].aim = proc[p].aim
              /\ proc'[p].lease = proc[p].lease
         /\ GiveUp(p) => proc'[p].pc \in {"closed", "idle"} /\ proc'[p].aim = None
         /\ Fail(p) => proc'[p].pc = "idle" /\ proc'[p].aim = None
         /\ Closed(p) => proc'[p].pc = "closed" /\ proc'[p].aim = None
<1>1. proc \in [Process -> LocalRecord]
  BY DEF BaseInv, TypeOK
<1>2. ASSUME NEW pc \in ProgramPoint, Goto(p, pc)
      PROVE  /\ proc'[p].pc = pc /\ proc'[p].aim = proc[p].aim
             /\ proc'[p].lease = proc[p].lease
  BY <1>1, <1>2 DEF Goto, LocalRecord
<1>3. Fail(p) => proc'[p].pc = "idle" /\ proc'[p].aim = None
  BY <1>1, FreshFields DEF Fail, LocalRecord
<1>4. Closed(p) => proc'[p].pc = "closed" /\ proc'[p].aim = None
  BY <1>1, FreshFields DEF Closed, LocalRecord
<1> QED
  BY <1>2, <1>3, <1>4 DEF GiveUp

\* A process with no marker and no lease of its own has nothing to secure.
LEMMA Bystander ==
  ASSUME NEW p \in Process, proc'[p].aim = None \/ proc'[p].pc = "dead",
         proc'[p].pc # "held"
  PROVE  Secured(p)' /\ ~ReclaimsGone(p)'
BY LeaseAssumption DEF LeaseAssumption, Marker, Secured, ReclaimsGone, Reclaims, Owns

LEMMA SecureStep ==
  ASSUME BaseInv, BaseInv', NoneDied, Secure, NEW p \in Process,
         \/ Acquire(p) \/ Step(p) \/ Close(p) \/ CallFails(p)
  PROVE  Secure'
<1> DEFINE keeps == /\ lock'.owner = lock.owner
                    /\ \A q \in Process \ {p} : ReclaimsGone(q) =>
                         "reclaim" \in lock'.markers
<1>1. /\ \A q \in Process \ {p} : proc'[q] = proc[q]
      /\ \A q \in Process : Secured(q)
      /\ \A q, r \in Process : ReclaimsGone(q) /\ ReclaimsGone(r) => q = r
  BY OnlyOne DEF Secure
<1>2. lock' = lock => keeps
  BY <1>1 DEF Secured
<1>b. ASSUME keeps, proc'[p].aim = None, proc'[p].pc # "held" PROVE Secure'
  BY <1>1, <1>b, Bystander, OneSecured
<1>a. CASE Acquire(p)
  <2>1. lock' = lock /\ proc'[p].pc = "install" /\ proc'[p].aim = None
    BY <1>a, FreshFields, Remembers DEF Acquire, LocalRecord, BaseInv, TypeOK
  <2> QED
    BY <1>2, <1>b, <2>1
<1>c. CASE Install(p) /\ Present
  BY <1>c, <1>2, <1>b, Became, Remembers DEF Install, LocalOK, ProgramPoint
<1>d. CASE Look(p)
  BY <1>d, <1>2, <1>b, Became, Remembers DEF Look, LocalOK, ProgramPoint
<1>e. CASE Read(p)
  <2>1. lock' = lock /\ proc[p].aim = None /\ proc[p].pc = "read"
    BY <1>e, Remembers DEF Read, LocalOK
  <2>2. CASE proc' = [proc EXCEPT ![p].pc = "install", ![p].second = TRUE]
    BY <1>2, <1>b, <2>1, <2>2, Remembers DEF BaseInv, TypeOK, LocalRecord
  <2>3. CASE Fail(p)
    BY <1>2, <1>b, <2>1, <2>3, Became
  <2>4. CASE /\ Present /\ IsSafelyStale(lock.owner, proc[p].now)
             /\ proc' = [proc EXCEPT ![p].pc = "mark", ![p].lease = lock.owner,
                                     ![p].aim = "reclaim"]
    <3>1. proc'[p].pc = "mark" /\ proc'[p].aim = "reclaim" /\ proc'[p].lease = lock.owner
      BY <2>4, Remembers DEF BaseInv, TypeOK, LocalRecord
    <3>2. lock.owner.pid = Gone
      <4>1. lock.owner.pid \in Process \cup {Gone}
        BY <2>4, LockFields DEF BaseInv, Present, Lease
      <4> QED
        BY <2>4, <4>1 DEF IsSafelyStale, ProcessIsAlive, NoneDied
    <3>3. Secured(p)' /\ ~ReclaimsGone(p)'
      BY <3>1, <3>2 DEF Secured, ReclaimsGone, Marked, Owns, Reclaims
    <3> QED
      BY <1>1, <1>2, <2>1, <3>3, OneSecured
  <2> QED
    BY <1>e, <2>2, <2>3, <2>4 DEF Read
<1>f. CASE Install(p) /\ ~Present
  <2>1. /\ lock'.owner = NewLease(p) /\ proc'[p].lease = NewLease(p)
        /\ proc'[p].pc = "held" /\ proc'[p].aim = None /\ lock.owner = None
    <3>1. proc'[p] = [Fresh EXCEPT !.pc = "held", !.lease = NewLease(p),
                                   !.nr = proc[p].nr + 1]
      BY <1>f DEF Install, BaseInv, TypeOK
    <3>2. [Fresh EXCEPT !.pc = "held", !.lease = NewLease(p),
                        !.nr = proc[p].nr + 1].pc = "held"
      BY FreshFields DEF LocalRecord
    <3>3. [Fresh EXCEPT !.pc = "held", !.lease = NewLease(p),
                        !.nr = proc[p].nr + 1].lease = NewLease(p)
      BY FreshFields DEF LocalRecord
    <3>4. [Fresh EXCEPT !.pc = "held", !.lease = NewLease(p),
                        !.nr = proc[p].nr + 1].aim = None
      BY FreshFields DEF LocalRecord
    <3> QED
      BY <1>f, <3>1, <3>2, <3>3, <3>4 DEF Install, Present
  <2>2. Present' => lock'.owner.pid # Gone
    BY <2>1, LeaseAssumption DEF NewLease, LeaseAssumption
  <2>3. Secured(p)' /\ ~ReclaimsGone(p)'
    BY <2>1, LeaseAssumption
     DEF Secured, ReclaimsGone, Reclaims, Owns, LeaseAssumption, Marker
  <2>4. ASSUME NEW q \in Process \ {p}
        PROVE  /\ ~Owns(proc[q])
               /\ ~(Reclaims(proc[q]) /\ proc[q].pc \in {"list", "move"})
    BY <1>1, <2>1, <2>4, Remembers, LeaseAssumption
     DEF Secured, LocalOK, LeaseAssumption, Marked
  <2> QED
    BY <1>1, <2>2, <2>3, <2>4, OneSecured
<1>g. CASE Close(p)
  <2>1. lock' = lock /\ proc[p].pc = "held"
    BY <1>g DEF Close
  <2>2. CASE Closed(p)
    BY <1>2, <1>b, <2>1, <2>2, Became
  <2>3. CASE /\ lock.owner = proc[p].lease
             /\ proc' = [proc EXCEPT ![p].pc = "mark", ![p].aim = "release"]
    <3>1. /\ proc'[p].pc = "mark" /\ proc'[p].aim = "release"
          /\ proc'[p].lease = proc[p].lease
      BY <2>3, Remembers DEF BaseInv, TypeOK, LocalRecord
    <3>2. Secured(p)' /\ ~ReclaimsGone(p)'
      BY <2>1, <2>3, <3>1 DEF Secured, ReclaimsGone, Marked, Owns, Reclaims
    <3> QED
      BY <1>1, <1>2, <2>1, <3>2, OneSecured
  <2> QED
    BY <1>g, <2>2, <2>3 DEF Close
<1>h. CASE Mark(p)
  <2>1. CASE GiveUp(p) /\ lock' = lock
    BY <1>2, <1>b, <2>1, Became
  <2>2. CASE /\ Present /\ proc[p].aim \notin lock.markers
             /\ lock' = [lock EXCEPT !.markers = @ \cup {proc[p].aim}]
             /\ Goto(p, "recheck")
    <3>1. /\ lock'.owner = lock.owner
          /\ lock'.markers = lock.markers \cup {proc[p].aim}
      BY <2>2, Remembers DEF LockRecord
    <3>2. /\ proc'[p].pc = "recheck" /\ proc'[p].aim = proc[p].aim
          /\ proc'[p].lease = proc[p].lease /\ proc[p].pc = "mark"
      BY <1>h, <2>2, Became DEF ProgramPoint, Mark
    <3>3. Secured(p)'
      BY <1>1, <3>1, <3>2 DEF Secured, ReclaimsGone, Owns, Reclaims
    <3>4. ReclaimsGone(p)' => "reclaim" \notin lock.markers
      BY <2>2, <3>2 DEF ReclaimsGone, Reclaims
    <3>5. keeps
      BY <1>1, <3>1 DEF Secured
    <3> QED
      BY <1>1, <3>3, <3>4, <3>5, OneSecured
  <2> QED
    BY <1>h, <2>1, <2>2 DEF Mark
<1>i. CASE /\ lock' = lock /\ proc[p].pc \in Marked
           /\ \/ Goto(p, "unmark")
              \/ /\ Goto(p, "list") /\ lock.owner = proc[p].lease
              \/ /\ Goto(p, "move") /\ proc[p].pc = "list"
  <2>1. /\ proc'[p].pc \in {"unmark", "list", "move"}
        /\ proc'[p].aim = proc[p].aim /\ proc'[p].lease = proc[p].lease
        /\ proc'[p].pc = "list" => lock.owner = proc[p].lease
        /\ proc'[p].pc = "move" => proc[p].pc = "list"
    BY <1>i, Became DEF ProgramPoint
  <2>2. Owns(proc'[p]) = Owns(proc[p]) /\ Reclaims(proc'[p]) = Reclaims(proc[p])
    BY <1>i, <2>1 DEF Owns, Reclaims, Marked
  <2>3. Secured(p)' /\ (ReclaimsGone(p)' => ReclaimsGone(p))
    BY <1>1, <1>i, <2>1, <2>2 DEF Secured, ReclaimsGone, Present
  <2> QED
    BY <1>1, <1>2, <1>i, <2>3, OneSecured
<1>j. CASE Recheck(p)
  BY <1>i, <1>j DEF Recheck, Marked
<1>k. CASE List(p)
  BY <1>i, <1>k DEF List, Marked
<1>l. CASE Move(p) /\ ~Present
  BY <1>i, <1>l DEF Move, Marked
<1>m. CASE /\ proc[p].pc = "move" /\ Present /\ lock' = NoLock
           /\ \/ GiveUp(p)
              \/ proc' = [proc EXCEPT ![p] =
                            [@ EXCEPT !.pc = "install", !.second = TRUE,
                                      !.lease = None, !.aim = None]]
  <2>1. lock'.owner = None /\ proc[p].pc = "move"
    BY <1>m DEF NoLock
  <2>2. proc'[p].aim = None /\ proc'[p].pc # "held"
    <3>1. CASE GiveUp(p)
      BY <3>1, Became
    <3>2. CASE proc' = [proc EXCEPT ![p] =
                          [@ EXCEPT !.pc = "install", !.second = TRUE,
                                    !.lease = None, !.aim = None]]
      BY <3>2, Remembers DEF BaseInv, TypeOK, LocalRecord
    <3> QED
      BY <1>m, <3>1, <3>2
  <2>3. \/ Owns(proc[p]) /\ lock.owner = proc[p].lease /\ lock.owner.pid = p
        \/ ReclaimsGone(p) /\ lock.owner = proc[p].lease
    BY <1>1, <1>m, <2>1, Remembers
     DEF Secured, LocalOK, ReclaimsGone, Owns, Reclaims, Marked, Marker
  <2>4. ASSUME NEW q \in Process \ {p}
        PROVE  /\ ~Owns(proc[q])
               /\ ~(Reclaims(proc[q]) /\ proc[q].pc \in {"list", "move"})
    <3>1. Owns(proc[q]) => lock.owner.pid = q
      BY <1>1, Remembers DEF Secured, LocalOK
    <3>2. Reclaims(proc[q]) /\ proc[q].pc \in {"list", "move"} => ReclaimsGone(q)
      BY <1>1, <1>m DEF Secured, ReclaimsGone, Marked
    <3>3. ReclaimsGone(p) \/ ReclaimsGone(q) => lock.owner.pid = Gone
      BY DEF ReclaimsGone
    <3> QED
      BY <1>1, <2>3, <3>1, <3>2, <3>3, LeaseAssumption DEF LeaseAssumption
  <2>5. Secured(p)' /\ ~ReclaimsGone(p)'
    BY <2>2, Bystander
  <2> QED
    BY <1>1, <2>1, <2>4, <2>5, OneSecured DEF Present
<1>n. CASE Unmark(p)
  <2>1. /\ lock'.owner = lock.owner /\ lock'.markers = lock.markers \ {proc[p].aim}
        /\ proc'[p].aim = None /\ proc'[p].pc # "held" /\ proc[p].pc = "unmark"
    BY <1>n, Became, Remembers DEF Unmark, LockRecord
  <2>2. ASSUME NEW q \in Process \ {p}, ReclaimsGone(q)
        PROVE  "reclaim" \in lock'.markers
    <3>1. "reclaim" \in lock.markers /\ ~ReclaimsGone(p)
      BY <1>1, <2>2 DEF Secured
    <3>2. proc[p].aim # "reclaim"
      BY <2>1, <2>2, <3>1 DEF ReclaimsGone, Reclaims, Marked
    <3> QED
      BY <2>1, <3>1, <3>2
  <2> QED
    BY <1>b, <2>1, <2>2
<1>o. CASE FailsUnmarked(p)
  BY <1>o, <1>2, <1>b, Became, Remembers DEF FailsUnmarked, LocalOK, ProgramPoint
<1>p. CASE FailsToMark(p)
  <2>1. proc'[p].aim = None /\ proc'[p].pc # "held"
    BY <1>p, Became DEF FailsToMark
  <2>2. [lock EXCEPT !.markers = @ \cup {proc[p].aim}]
          = [owner |-> lock.owner, markers |-> lock.markers \cup {proc[p].aim}]
    BY Remembers DEF LockRecord
  <2>3. lock'.owner = lock.owner /\ lock.markers \subseteq lock'.markers
    BY <1>p, <2>2 DEF FailsToMark
  <2>4. keeps
    BY <1>1, <2>3 DEF Secured
  <2> QED
    BY <1>b, <2>1, <2>4
<1>q. CASE FailsMarked(p)
  <2>1. CASE proc[p].pc = "unmark" /\ GiveUp(p) /\ UNCHANGED lock
    BY <1>2, <1>b, <2>1, Became
  <2> QED
    BY <1>i, <1>m, <1>q, <2>1 DEF FailsMarked, Marked
<1>r. CASE Move(p) /\ Present
  BY <1>m, <1>r DEF Move
<1> QED
  BY <1>a, <1>c, <1>d, <1>e, <1>f, <1>g, <1>h, <1>j, <1>k, <1>l, <1>n, <1>o, <1>p,
     <1>q, <1>r
   DEF Step, CallFails

\* A process that ended stays so, and every other step of a process leaves it
\* alive; the one that makes it an owner installs its lease.
LEMMA CrashedIsDead ==
  ASSUME BaseInv, NEW p \in Process, Crash(p)
  PROVE  proc'[p].pc = "dead"
<1> DEFINE x == [Fresh EXCEPT !.pc = "dead"]
<1>1. x.pc = "dead"
  BY FreshFields DEF LocalRecord
<1>2. proc' = [proc EXCEPT ![p] = x]
  BY DEF Crash
<1> HIDE DEF x
<1> QED
  BY <1>1, <1>2 DEF BaseInv, TypeOK

LEMMA NoneDiedBefore ==
  ASSUME BaseInv, NEW p \in Process,
         Acquire(p) \/ Step(p) \/ Close(p) \/ Crash(p) \/ CallFails(p)
  PROVE  /\ proc[p].pc # "dead"
         /\ NoneDied' => NoneDied /\ ~Crash(p)
<1>1. proc[p].pc # "dead"
  BY DEF Acquire, Step, Install, Look, Read, Close, Mark, Recheck, List, Move, Unmark,
         Crash, CallFails, FailsUnmarked, FailsToMark, FailsMarked
<1>2. ASSUME NoneDied' PROVE NoneDied
  <2> SUFFICES ASSUME NEW q \in Process, q # p PROVE proc[q].pc # "dead"
    BY <1>1 DEF NoneDied
  <2>1. proc'[q] = proc[q]
    BY OnlyOne
  <2> QED
    BY <1>2, <2>1 DEF NoneDied
<1> QED
  BY <1>1, <1>2, CrashedIsDead DEF NoneDied

LEMMA SecureNext ==
  ASSUME BaseInv, BaseInv', Secure, [Next]_vars
  PROVE  Secure'
<1>1. CASE UNCHANGED <<lock, proc>>
  BY <1>1 DEF Secure, NoneDied, Secured, ReclaimsGone, Present
<1>2. ASSUME NEW p \in Process,
             Acquire(p) \/ Step(p) \/ Close(p) \/ Crash(p) \/ CallFails(p)
      PROVE  Secure'
  <2>1. CASE NoneDied'
    BY <1>2, <2>1, NoneDiedBefore, SecureStep
  <2>2. CASE ~NoneDied'
    BY <2>2 DEF Secure
  <2> QED
    BY <2>1, <2>2
<1> QED
  BY <1>1, <1>2 DEF Next, Tick, vars

LEMMA SecureInvariance == Spec => [](BaseInv /\ Secure)
<1>1. Init => Secure
  BY FreshFields, LeaseAssumption
   DEF Init, Secure, Secured, ReclaimsGone, Reclaims, Owns, LeaseAssumption, Marker
<1>2. BaseInv /\ BaseInv' /\ Secure /\ [Next]_vars => Secure'
  BY SecureNext
<1> QED
  BY <1>1, <1>2, BaseInvariance, PTL DEF Spec

\* What a process owns or is about to move away is in the lock directory.
Keeps(p) ==
  /\ Owns(proc[p]) => lock.owner = proc[p].lease
  /\ Reclaims(proc[p]) /\ proc[p].pc \in {"list", "move"}
       => lock.owner = proc[p].lease

LEMMA KeepsNothing ==
  ASSUME NEW p \in Process, proc'[p].pc # "held",
         proc'[p].aim = None \/ proc'[p].pc = "dead"
  PROVE  Keeps(p)'
BY LeaseAssumption DEF LeaseAssumption, Marker, Keeps, Owns, Reclaims

\* A step of a process leaves it alive, and what it keeps in its place.
LEMMA LivesOn ==
  ASSUME BaseInv, NEW p \in Process, Keeps(p),
         Acquire(p) \/ Step(p) \/ Close(p) \/ CallFails(p)
  PROVE  proc'[p].pc # "dead" /\ Keeps(p)'
<1>1. proc \in [Process -> LocalRecord]
  BY DEF BaseInv, TypeOK
<1>u. ASSUME proc'[p].aim = None, proc'[p].pc \notin {"held", "dead"}
      PROVE  proc'[p].pc # "dead" /\ Keeps(p)'
  BY <1>u, KeepsNothing
<1>g. ASSUME NEW pc \in ProgramPoint \ {"dead", "held"}, Goto(p, pc),
             proc[p].pc \notin {"dead", "held"}, lock'.owner = lock.owner,
             proc[p].aim = "reclaim" /\ pc = "list" => lock.owner = proc[p].lease,
             pc = "move" => proc[p].pc = "list"
      PROVE  proc'[p].pc # "dead" /\ Keeps(p)'
  <2>1. /\ proc'[p].pc = pc /\ proc'[p].aim = proc[p].aim
        /\ proc'[p].lease = proc[p].lease
    BY <1>g, Became
  <2>2. Owns(proc'[p]) => Owns(proc[p])
    BY <1>g, <2>1 DEF Owns
  <2> QED
    BY <1>g, <2>1, <2>2 DEF Keeps, Reclaims
<1>3. CASE GiveUp(p) \/ Fail(p) \/ Closed(p)
  BY <1>3, <1>u, Became
<1>4. CASE Acquire(p)
  <2>1. proc'[p].pc = "install" /\ proc'[p].aim = None
    BY <1>4, <1>1, FreshFields DEF Acquire, LocalRecord
  <2> QED
    BY <1>u, <2>1
<1>5. CASE Install(p) /\ ~Present
  <2> DEFINE x == [Fresh EXCEPT !.pc = "held", !.lease = NewLease(p),
                                !.nr = proc[p].nr + 1]
  <2>1. x.pc = "held" /\ x.lease = NewLease(p)
    BY FreshFields DEF LocalRecord
  <2>2. proc'[p] = x /\ lock'.owner = NewLease(p)
    BY <1>1, <1>5 DEF Install
  <2> HIDE DEF x
  <2> QED
    BY <2>1, <2>2 DEF Keeps
<1>6. CASE (Install(p) /\ Present) \/ (Look(p) /\ ~Fail(p))
  BY <1>g, <1>6 DEF Install, Look, ProgramPoint
<1>7. CASE Read(p) /\ ~Fail(p)
  <2>1. proc[p].aim = None
    BY <1>7, Remembers DEF Read, LocalOK
  <2>2. CASE proc' = [proc EXCEPT ![p].pc = "install", ![p].second = TRUE]
    BY <1>1, <1>u, <2>1, <2>2 DEF LocalRecord
  <2>3. CASE proc' = [proc EXCEPT ![p].pc = "mark", ![p].lease = lock.owner,
                                  ![p].aim = "reclaim"]
    <3>1. proc'[p].pc = "mark" /\ proc'[p].aim = "reclaim"
      BY <1>1, <2>3 DEF LocalRecord
    <3> QED
      BY <3>1 DEF Keeps, Owns
  <2> QED
    BY <1>7, <2>2, <2>3 DEF Read
<1>8. CASE Close(p) /\ ~Closed(p)
  <2>1. /\ proc'[p].pc = "mark" /\ proc'[p].aim = "release"
        /\ proc'[p].lease = proc[p].lease
    BY <1>1, <1>8 DEF Close, LocalRecord
  <2> QED
    BY <1>8, <2>1 DEF Keeps, Close
<1>9. CASE Mark(p) /\ ~GiveUp(p)
  <2>1. lock'.owner = lock.owner
    BY <1>9, Remembers DEF Mark, LockRecord
  <2> QED
    BY <1>g, <1>9, <2>1 DEF Mark, ProgramPoint
<1>10. CASE Recheck(p)
  BY <1>g, <1>10 DEF Recheck, ProgramPoint
<1>11. CASE List(p)
  BY <1>g, <1>11 DEF List, ProgramPoint
<1>12. CASE Move(p) /\ ~GiveUp(p)
  <2>1. CASE Present
    <3>1. proc'[p].pc = "install" /\ proc'[p].aim = None
      BY <1>1, <1>12, <2>1 DEF Move, LocalRecord
    <3> QED
      BY <1>u, <3>1
  <2>2. CASE ~Present
    BY <1>g, <1>12, <2>2 DEF Move, ProgramPoint
  <2> QED
    BY <2>1, <2>2
<1>13. CASE CallFails(p) /\ ~(GiveUp(p) \/ Fail(p) \/ Closed(p))
  <2>1. PICK to \in {"look", "unmark"} :
               /\ Goto(p, to) /\ lock' = lock
               /\ proc[p].pc \in {"install", "recheck", "list", "move"}
    BY <1>13 DEF CallFails, FailsUnmarked, FailsToMark, FailsMarked
  <2> QED
    BY <1>g, <2>1 DEF ProgramPoint
<1>14. CASE Unmark(p)
  BY <1>3, <1>14 DEF Unmark
<1> QED
  BY <1>3, <1>4, <1>5, <1>6, <1>7, <1>8, <1>9, <1>10, <1>11, <1>12, <1>13, <1>14
   DEF Step

\* A lease names its owner, so that two owners cannot have one lease.
LEMMA LeaseIsOfOne == BaseInv /\ OwnerKeepsLease => ExclusiveOwner
  BY DEF OwnerKeepsLease, ExclusiveOwner, BaseInv, LocalOK, Owns

AllKeep == \A p \in Process : Keeps(p)

LEMMA AllKeepLease == AllKeep => OwnerKeepsLease
  BY DEF AllKeep, Keeps, OwnerKeepsLease, Owns

\* As long as no process ended they all keep what they have.
LEMMA NoneDiedKeeps == Secure /\ NoneDied => AllKeep
  BY DEF Secure, Secured, AllKeep, Keeps

\* Of two processes one that is left alone keeps what it has.
LEMMA KeepsNext ==
  ASSUME BaseInv, BaseInv', Secure, Secure', AllKeep, AtMostTwo, [Next]_vars
  PROVE  AllKeep'
<1>1. CASE UNCHANGED <<lock, proc>>
  BY <1>1 DEF AllKeep, Keeps
<1>2. CASE NoneDied'
  BY <1>2, NoneDiedKeeps, PTL
<1>3. ASSUME NEW p \in Process, NEW q \in Process, NEW d \in Process,
             proc'[d].pc = "dead",
             Acquire(q) \/ Step(q) \/ Close(q) \/ Crash(q) \/ CallFails(q)
      PROVE  Keeps(p)'
  <2>1. CASE proc'[p].pc = "dead"
    BY <2>1, KeepsNothing
  <2>2. CASE Crash(q) /\ proc'[p].pc # "dead"
    <3>1. q # p
      BY <2>2, CrashedIsDead
    <3>2. proc'[p] = proc[p] /\ lock' = lock
      BY <1>3, <2>2, <3>1, OnlyOne DEF Crash
    <3> QED
      BY <3>2 DEF AllKeep, Keeps
  <2>3. CASE ~Crash(q) /\ proc'[p].pc # "dead"
    <3>1. Keeps(q)
      BY DEF AllKeep
    <3>2. proc'[q].pc # "dead" /\ Keeps(q)'
      BY <1>3, <2>3, <3>1, LivesOn
    <3>3. q = p
      BY <1>3, <2>3, <3>2 DEF AtMostTwo
    <3> QED
      BY <3>2, <3>3
  <2> QED
    BY <2>1, <2>2, <2>3
<1> QED
  BY <1>1, <1>2, <1>3 DEF Next, Tick, vars, NoneDied, AllKeep

\* Who moves a lease away while all keep what they have is its owner, or
\* reclaims it with good reason.
EndsRightly ==
  Present /\ lock'.owner # lock.owner =>
    \/ lock.owner.expiresAt <= time /\ ~ProcessIsAlive(lock.owner.pid)
    \/ \E p \in Process : /\ proc[p].lease = lock.owner
                         /\ proc[p].aim = "release" /\ proc[p].pc = "move"

LEMMA LeaseEnds ==
  ASSUME BaseInv, AllKeep, [Next]_vars
  PROVE  EndsRightly
<1> SUFFICES ASSUME Present, lock'.owner # lock.owner
             PROVE  \/ lock.owner.expiresAt <= time /\ ~ProcessIsAlive(lock.owner.pid)
                    \/ \E p \in Process :
                         /\ proc[p].lease = lock.owner
                         /\ proc[p].aim = "release" /\ proc[p].pc = "move"
  BY DEF EndsRightly
<1>1. ASSUME NEW p \in Process, Mark(p) \/ Unmark(p) \/ FailsToMark(p)
      PROVE  FALSE
  <2>1. \A markers : [lock EXCEPT !.markers = markers].owner = lock.owner
    BY DEF BaseInv, TypeOK, LockRecord
  <2> QED
    BY <1>1, <2>1 DEF Mark, Unmark, FailsToMark
<1>2. PICK p \in Process : proc[p].pc = "move"
  BY <1>1 DEF Next, Step, Acquire, Install, Look, Read, Close, Recheck, List, Move,
              Crash, CallFails, FailsUnmarked, FailsMarked, Tick, vars
<1>3. proc[p].aim \in Marker /\ Keeps(p) /\ LocalOK(p, proc[p]) /\ Founded(proc[p])
  BY <1>2, Remembers DEF AllKeep, LocalOK, Marked
<1>4. CASE proc[p].aim = "release"
  BY <1>2, <1>3, <1>4 DEF Keeps, Owns
<1>5. CASE proc[p].aim = "reclaim"
  <2>1. Reclaims(proc[p]) /\ lock.owner = proc[p].lease
    BY <1>2, <1>3, <1>5 DEF Keeps, Reclaims
  <2>2. proc[p].now \in Int /\ proc[p].lease.expiresAt \in Int /\ time \in Int
    <3>1. proc[p].lease \in Lease /\ time \in 0..MaxTime /\ proc[p].now \in 0..MaxTime
      BY <1>2, Remembers DEF LocalOK, LocalRecord, Marked
    <3> QED
      BY <3>1 DEF Lease
  <2> QED
    BY <1>3, <2>1, <2>2 DEF LocalOK, Founded
<1> QED
  BY <1>3, <1>4, <1>5 DEF Marker

LEMMA OfTwoInvariance ==
  ASSUME AtMostTwo
  PROVE  Spec => [](BaseInv /\ AllKeep)
<1>1. Init => AllKeep
  BY FreshFields, LeaseAssumption
   DEF Init, AllKeep, Keeps, Owns, Reclaims, LeaseAssumption, Marker
<1>2. BaseInv /\ BaseInv' /\ Secure /\ Secure' /\ AllKeep /\ [Next]_vars => AllKeep'
  BY AtMostTwo, KeepsNext
<1> QED
  BY <1>1, <1>2, SecureInvariance, PTL DEF Spec

-----------------------------------------------------------------------------
(* Theorems *)

\* Every process and the lock directory hold what they may, and one acquire()
\* reclaims at most once.
THEOREM TypeCorrect == Spec => []TypeOK
  BY BaseInvariance, PTL DEF BaseInv

\* The lease of an owner stays in place, and so there is only one owner, as
\* long as no process has ended, however many open the directory and whatever
\* system calls fail.
THEOREM OwnerCorrect == Spec => [](NoneDied => OwnerKeepsLease /\ ExclusiveOwner)
<1>1. BaseInv /\ Secure => (NoneDied => OwnerKeepsLease /\ ExclusiveOwner)
  BY NoneDiedKeeps, AllKeepLease, LeaseIsOfOne
<1> QED
  BY <1>1, SecureInvariance, PTL

\* The lease of an owner stays in place whoever ends when, if at most two
\* processes open the directory: there is only one owner.
THEOREM OwnerOfTwoCorrect ==
  ASSUME AtMostTwo
  PROVE  Spec => [](OwnerKeepsLease /\ ExclusiveOwner)
<1>1. BaseInv /\ AllKeep => OwnerKeepsLease /\ ExclusiveOwner
  BY AllKeepLease, LeaseIsOfOne
<1> QED
  BY <1>1, AtMostTwo, OfTwoInvariance, PTL

\* While no process has ended, only the owner takes its lease away, or it was
\* the expired one found at the start: however many open the directory.
THEOREM LeaseEndsCorrect == Spec => [][NoneDied => EndsRightly]_vars
<1>1. BaseInv /\ Secure /\ [Next]_vars => [NoneDied => EndsRightly]_vars
  BY NoneDiedKeeps, LeaseEnds
<1> QED
  BY <1>1, SecureInvariance, PTL DEF Spec

\* If at most two processes open the directory, a lease is taken away only by
\* its owner, or when it expired and its process ended, whoever ends when.
THEOREM LeaseEndsOfTwoCorrect ==
  ASSUME AtMostTwo
  PROVE  Spec => OnlyStaleLeaseIsReclaimed
<1>1. BaseInv /\ AllKeep /\ [Next]_vars => [EndsRightly]_vars
  BY LeaseEnds
<1> QED
  BY <1>1, AtMostTwo, OfTwoInvariance, PTL
   DEF Spec, OnlyStaleLeaseIsReclaimed, EndsRightly

=============================================================================
