--------------------------- MODULE AtomicCommands ----------------------------
(***************************************************************************)
(* What authenticated commands promise, whatever fails and whenever the    *)
(* process ends: an invocation takes effect at most once, with everything  *)
(* it did and with the fact that it was accepted, or not at all.           *)
(***************************************************************************)
EXTENDS Naturals

CONSTANTS Invocation, MaxEffects

VARIABLE done    \* the commands that took effect

(* A command succeeded or failed, and the number of events it left. *)
Command ==
  [invocation : Invocation, outcome : {"done", "failed"},
   effects : 0..MaxEffects]

Init == done = {}

TakeEffect(c) ==
  /\ \A d \in done : d.invocation # c.invocation
  /\ done' = done \cup {c}

Next == \E c \in Command : TakeEffect(c)

Spec == Init /\ [][Next]_done

=============================================================================
