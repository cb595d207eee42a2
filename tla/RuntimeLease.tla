---------------------------- MODULE RuntimeLease -----------------------------
(***************************************************************************)
(* The lease on a runtime directory (kernel/runtime-lease.js), which is to *)
(* make one process the owner of the local event store.                    *)
(*                                                                         *)
(* The lease is a directory at a fixed path that holds owner.json. It is   *)
(* installed by renaming a complete staging directory to that path.        *)
(* Reclaiming and releasing both put a marker file into the directory,     *)
(* look at the owner and at the files again, and rename the directory      *)
(* away; if a check fails they unlink the marker. Every one of these is a  *)
(* system call on the PATH, whatever directory is there by then, so each   *)
(* is a step of its own here and processes take them in any order. Each    *)
(* may also fail, a marker's file being there or not, and a process may    *)
(* end between any two.                                                    *)
(*                                                                         *)
(* A process that ended and is started again is another process: a PID is  *)
(* taken not to be reused.                                                 *)
(***************************************************************************)
EXTENDS Integers

CONSTANTS
  Process,        \* processes that open the runtime directory
  Gone,           \* a process that ended before the first step
  None,           \* no lease, no marker
  Ttl,            \* ttlMs
  MaxTime,        \* bound on the clock
  MaxLeases,      \* bound on the leases a process acquires
  MaxFailures     \* bound on the system calls that fail

ProgramPoint ==
  {"idle", "install", "look", "read", "mark", "recheck", "list", "move",
   "unmark", "held", "closed", "dead"}

Marker == {"reclaim", "release"}    \* reclaim.json and release.json

(* A lease is told apart by its id, here its process and a number. *)
Lease == [pid : Process \cup {Gone}, nr : 0..MaxLeases, expiresAt : Nat]

ASSUME LeaseAssumption ==
  /\ Gone \notin Process
  /\ None \notin Process \cup {Gone} \cup Lease \cup Marker
  /\ Ttl \in Nat \ {0} /\ MaxTime \in Nat
  /\ MaxLeases \in Nat /\ MaxFailures \in Nat

VARIABLES
  time,    \* the clock all processes read
  lock,    \* the directory at the lock path: its owner.json, its markers
  proc,    \* of each process: where it is, and its local variables
  faults   \* what went wrong: the calls that failed, and whether one of them,
           \* or the end of a process, left a marker behind for good

vars == <<time, lock, proc, faults>>

NoLock == [owner |-> None, markers |-> {}]

(* The local variables of acquire(), reclaim() and release(): now, whether *)
(* this is the second of the two attempts, the lease it is after, the      *)
(* marker it put (or is putting) there; and the leases it has had.         *)
Fresh == [pc |-> "idle", now |-> 0, second |-> FALSE, lease |-> None,
          aim |-> None, nr |-> 0]

(* A process that crashed may have left a lease behind. *)
Init ==
  /\ time = 0
  /\ lock \in {NoLock,
               [owner |-> [pid |-> Gone, nr |-> 0, expiresAt |-> Ttl],
                markers |-> {}]}
  /\ proc = [p \in Process |-> Fresh]
  /\ faults = [calls |-> 0, stray |-> FALSE]

\* The points between putting a marker there and having removed it.
Marked == {"recheck", "list", "move", "unmark"}

LockRecord == [owner : Lease \cup {None}, markers : SUBSET Marker]

LocalRecord ==
  [pc : ProgramPoint, now : 0..MaxTime, second : BOOLEAN,
   lease : Lease \cup {None}, aim : Marker \cup {None}, nr : 0..MaxLeases]

FaultRecord == [calls : 0..MaxFailures, stray : BOOLEAN]

(* The types; and one acquire() reclaims at most once. *)
TypeOK ==
  /\ time \in 0..MaxTime
  /\ lock \in LockRecord
  /\ proc \in [Process -> LocalRecord]
  /\ faults \in FaultRecord
  /\ \A p \in Process : proc[p].aim = "reclaim" => ~proc[p].second

-----------------------------------------------------------------------------
(* Reading the directory *)

Present == lock.owner # None

ProcessIsAlive(p) == p \in Process /\ proc[p].pc # "dead"

\* Mutant: a lease need not have expired.
IsSafelyStale_AnyTime(lease, now) == ~ProcessIsAlive(lease.pid)

IsSafelyStale(lease, now) ==
  lease.expiresAt <= now /\ ~ProcessIsAlive(lease.pid)

Goto(p, pc) == proc' = [proc EXCEPT ![p].pc = pc]

(* acquire() throws: the process is not the owner. *)
Fail(p) == proc' = [proc EXCEPT ![p] = [Fresh EXCEPT !.nr = proc[p].nr]]

(* release() returned or threw: close() has closed the runtime before. *)
Closed(p) ==
  proc' = [proc EXCEPT ![p] = [Fresh EXCEPT !.pc = "closed",
                                            !.lease = proc[p].lease,
                                            !.nr = proc[p].nr]]

GiveUp(p) == IF proc[p].aim = "release" THEN Closed(p) ELSE Fail(p)

-----------------------------------------------------------------------------
(* acquire() *)

(* The clock is read once for the whole of acquire(). *)
Acquire(p) ==
  /\ proc[p].pc \in {"idle", "closed"}
  /\ proc[p].nr < MaxLeases
  /\ proc' = [proc EXCEPT ![p] = [Fresh EXCEPT !.pc = "install", !.now = time,
                                               !.nr = proc[p].nr]]
  /\ UNCHANGED <<time, lock, faults>>

NewLease(p) ==
  [pid |-> p, nr |-> proc[p].nr + 1, expiresAt |-> proc[p].now + Ttl]

(* installFreshLease: the rename succeeds only where there is no lock      *)
(* directory (one with files in it cannot be renamed over).                *)
Install(p) ==
  /\ proc[p].pc = "install"
  /\ IF Present
       THEN Goto(p, "look") /\ UNCHANGED lock
       ELSE /\ lock' = [owner |-> NewLease(p), markers |-> {}]
            /\ proc' = [proc EXCEPT ![p] =
                          [Fresh EXCEPT !.pc = "held", !.lease = NewLease(p),
                                        !.nr = proc[p].nr + 1]]
  /\ UNCHANGED <<time, faults>>

(* The rename failed; with no owner there now the error stands. *)
Look(p) ==
  /\ proc[p].pc = "look"
  /\ IF Present THEN Goto(p, "read") ELSE Fail(p)
  /\ UNCHANGED <<time, lock, faults>>

\* Mutant: the second attempt reclaims too.
Read_AnyAttempt(p) ==
  /\ proc[p].pc = "read"
  /\ \/ /\ ~Present /\ ~proc[p].second
        /\ proc' = [proc EXCEPT ![p].pc = "install", ![p].second = TRUE]
     \/ /\ Present /\ IsSafelyStale(lock.owner, proc[p].now)
        /\ proc' = [proc EXCEPT ![p].pc = "mark", ![p].lease = lock.owner,
                                ![p].aim = "reclaim"]
     \/ /\ Present => ~IsSafelyStale(lock.owner, proc[p].now)
        /\ Fail(p)
  /\ UNCHANGED <<time, lock, faults>>

(* Who owns it? Nobody: the second attempt, unless this was it, or unless  *)
(* the directory vanished between lstat and open. A stale lease is         *)
(* reclaimed on the first attempt; otherwise the store has an owner.       *)
Read(p) ==
  /\ proc[p].pc = "read"
  /\ \/ /\ ~Present /\ ~proc[p].second
        /\ proc' = [proc EXCEPT ![p].pc = "install", ![p].second = TRUE]
     \/ /\ Present /\ ~proc[p].second
        /\ IsSafelyStale(lock.owner, proc[p].now)
        /\ proc' = [proc EXCEPT ![p].pc = "mark", ![p].lease = lock.owner,
                                ![p].aim = "reclaim"]
     \/ /\ Present => \/ proc[p].second
                      \/ ~IsSafelyStale(lock.owner, proc[p].now)
        /\ Fail(p)
  /\ UNCHANGED <<time, lock, faults>>

-----------------------------------------------------------------------------
(* reclaim() and release(), which differ in the marker and in one check *)

(* close(): from here on the runtime writes nothing more. release() finds  *)
(* another owner, or none, and returns; or it goes on to its marker.       *)
Close(p) ==
  /\ proc[p].pc = "held"
  /\ IF lock.owner = proc[p].lease
       THEN proc' = [proc EXCEPT ![p].pc = "mark", ![p].aim = "release"]
       ELSE Closed(p)
  /\ UNCHANGED <<time, lock, faults>>

(* The marker is created exclusively, in the directory that is there now. *)
Mark(p) ==
  /\ proc[p].pc = "mark"
  /\ IF Present /\ proc[p].aim \notin lock.markers
       THEN /\ lock' = [lock EXCEPT !.markers = @ \cup {proc[p].aim}]
            /\ Goto(p, "recheck")
       ELSE GiveUp(p) /\ UNCHANGED lock
  /\ UNCHANGED <<time, faults>>

\* Mutant: the owner is not read again.
Recheck_Skipped(p) ==
  proc[p].pc = "recheck" /\ Goto(p, "list") /\ UNCHANGED <<time, lock, faults>>

(* The owner is read again. *)
Recheck(p) ==
  /\ proc[p].pc = "recheck"
  /\ IF /\ lock.owner = proc[p].lease
        /\ proc[p].aim = "reclaim" => IsSafelyStale(lock.owner, proc[p].now)
       THEN Goto(p, "list")
       ELSE Goto(p, "unmark")
  /\ UNCHANGED <<time, lock, faults>>

\* Mutant: the marker itself is not expected.
List_OwnerOnly(p) ==
  /\ proc[p].pc = "list"
  /\ IF Present /\ lock.markers = {} THEN Goto(p, "move") ELSE Goto(p, "unmark")
  /\ UNCHANGED <<time, lock, faults>>

(* assertExpectedFiles: the owner and this marker, nothing else. *)
List(p) ==
  /\ proc[p].pc = "list"
  /\ IF Present /\ lock.markers = {proc[p].aim}
       THEN Goto(p, "move") ELSE Goto(p, "unmark")
  /\ UNCHANGED <<time, lock, faults>>

(* The directory is renamed away and removed. Removing it fails when       *)
(* another marker came along with it, and then so does the caller.         *)
Move(p) ==
  /\ proc[p].pc = "move"
  /\ IF Present
       THEN /\ lock' = NoLock
            /\ IF proc[p].aim = "reclaim" /\ lock.markers \subseteq {"reclaim"}
                 THEN proc' = [proc EXCEPT ![p] =
                                 [@ EXCEPT !.pc = "install", !.second = TRUE,
                                           !.lease = None, !.aim = None]]
                 ELSE GiveUp(p)
       ELSE Goto(p, "unmark") /\ UNCHANGED lock
  /\ UNCHANGED <<time, faults>>

(* The marker is unlinked by its path: in the directory that is there now. *)
Unmark(p) ==
  /\ proc[p].pc = "unmark"
  /\ lock' = [lock EXCEPT !.markers = @ \ {proc[p].aim}]
  /\ GiveUp(p)
  /\ UNCHANGED <<time, faults>>

-----------------------------------------------------------------------------
(* The environment *)

(* The process ends, at any point; what it put into the directory stays. *)
Crash(p) ==
  /\ proc[p].pc # "dead"
  /\ proc' = [proc EXCEPT ![p] = [Fresh EXCEPT !.pc = "dead"]]
  /\ faults' = [faults EXCEPT !.stray = @ \/ proc[p].pc \in Marked]
  /\ UNCHANGED <<time, lock>>

(* acquire() throws, or goes on to look for the owner when it is the        *)
(* rename that failed; release() throws before its marker is there.        *)
FailsUnmarked(p) ==
  /\ \/ proc[p].pc \in {"install", "look", "read"} /\ Fail(p)
     \/ proc[p].pc = "install" /\ Goto(p, "look")
     \/ proc[p].pc = "held" /\ Closed(p)
  /\ UNCHANGED lock

(* writeExclusiveJson is called outside the try block that unlinks the     *)
(* marker: where its open succeeds and its write or sync fails, the marker *)
(* stays.                                                                  *)
FailsToMark(p) ==
  /\ proc[p].pc = "mark"
  /\ \/ UNCHANGED lock
     \/ Present /\ lock' = [lock EXCEPT !.markers = @ \cup {proc[p].aim}]
  /\ GiveUp(p)

(* With the marker there: it is unlinked, unless that fails too, or the    *)
(* directory is renamed away and only removing it fails.                   *)
FailsMarked(p) ==
  \/ proc[p].pc \in {"recheck", "list", "move"} /\ Goto(p, "unmark") /\ UNCHANGED lock
  \/ proc[p].pc = "move" /\ Present /\ lock' = NoLock /\ GiveUp(p)
  \/ proc[p].pc = "unmark" /\ GiveUp(p) /\ UNCHANGED lock

(* A system call of the process fails. *)
CallFails(p) ==
  /\ faults.calls < MaxFailures
  /\ FailsUnmarked(p) \/ FailsToMark(p) \/ FailsMarked(p)
  /\ faults' = [calls |-> faults.calls + 1,
                stray |-> \/ faults.stray \/ proc[p].pc = "unmark"
                          \/ lock'.markers # lock.markers /\ lock' # NoLock]
  /\ UNCHANGED time

Tick ==
  /\ time < MaxTime
  /\ time' = time + 1
  /\ UNCHANGED <<lock, proc, faults>>

Step(p) ==
  \/ Install(p) \/ Look(p) \/ Read(p)
  \/ Mark(p) \/ Recheck(p) \/ List(p) \/ Move(p) \/ Unmark(p)

Next ==
  \/ \E p \in Process : Acquire(p) \/ Step(p) \/ Close(p) \/ Crash(p) \/ CallFails(p)
  \/ Tick

Spec == Init /\ [][Next]_vars

(* The clock advances, a system call that was begun is finished (only      *)
(* finitely many fail), and people start the program again.                *)
Fairness ==
  /\ WF_vars(Tick)
  /\ \A p \in Process : WF_vars(Acquire(p)) /\ WF_vars(Step(p))

FairSpec == Spec /\ Fairness

-----------------------------------------------------------------------------
(* Properties *)

\* The local store has one exclusive process owner: no two live processes
\* are past acquire() and not yet in close().
ExclusiveOwner ==
  \A p, q \in Process : proc[p].pc = "held" /\ proc[q].pc = "held" => p = q

\* An owner's lease stays in place until the owner closes the runtime or
\* ends: whoever finds the lock directory finds the owner's record in it.
OwnerKeepsLease ==
  \A p \in Process : proc[p].pc = "held" => lock.owner = proc[p].lease

\* A lease in the lock directory ends by its owner's release, or when it has
\* expired and its process has ended: until then nobody moves it away.
OnlyStaleLeaseIsReclaimed ==
  [][Present /\ lock'.owner # lock.owner =>
       \/ lock.owner.expiresAt <= time /\ ~ProcessIsAlive(lock.owner.pid)
       \/ \E p \in Process : /\ proc[p].lease = lock.owner
                            /\ proc[p].aim = "release" /\ proc[p].pc = "move"]_vars

\* A store whose owner died is opened again, as long as processes keep trying
\* and no marker was left behind by a call that failed or a process that ended:
\* contenders do not refuse each other for ever, nor leave a marker themselves.
Recoverable ==
  /\ Present /\ ~ProcessIsAlive(lock.owner.pid)
  /\ lock.owner.expiresAt <= MaxTime
  /\ \E p \in Process : proc[p].pc # "dead" /\ proc[p].nr < MaxLeases
  /\ ~faults.stray

AbandonedStoreReopens == Recoverable ~> ~Recoverable

=============================================================================
