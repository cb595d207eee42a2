---------------------------- MODULE MCAdmission -----------------------------
EXTENDS Admission

CONSTANTS p1, p2, p3, c1, c2, c3, c4, x, y, bin, main, dev

(* Documents: c1 and c2 have both allowed files, c3 has the second one     *)
(* under another name and c4 has it not.                                   *)
File_(c) == [kind |-> "regular", content |-> c]
MCTreeOf ==
  [c \in Commit |-> [p \in Path |->
     CASE c = c1 /\ p = p1 -> File_(x)
       [] c = c1 /\ p = p2 -> [kind |-> "symlink", content |-> x]
       [] c = c2 /\ p = p1 -> File_(y)
       [] c = c2 /\ p = p2 -> File_(bin)
       [] c \in {c3, c4} /\ p = p1 -> File_(x)
       [] c = c3 /\ p = p3 -> File_(y)
       [] OTHER -> Nothing]]
MCWritten == {Nothing, File_(x), File_(y)}
MCSize == [c \in Content |-> 1]

(* Workflows: every graph of three steps, and everything of two. *)
MCProposal ==
  {[key |-> "workflow@1.0.0",
    steps |-> [i \in 1..3 |-> [id |-> i, dependencies |-> needs[i]]]] :
      needs \in {f \in [1..3 -> SUBSET (1..3)] : \A i \in 1..3 : i \notin f[i]}}
  \cup
  {[key |-> "workflow@1.0.0",
    steps |-> [i \in 1..2 |-> [id |-> ids[i], dependencies |-> needs[i]]]] :
      needs \in [1..2 -> SUBSET (1..3)], ids \in [1..2 -> 1..3]}

(* Containers: a launcher, daemon and image that are admitted, and others  *)
(* that differ in one respect.                                             *)
Docker == [program |-> "docker", size |-> 1, writable |-> FALSE, executable |-> TRUE]
MCLauncher ==
  {Docker, [Docker EXCEPT !.program = "other"], [Docker EXCEPT !.writable = TRUE],
   [Docker EXCEPT !.size = 2]}
Linux ==
  [api |-> MinimumApi, os |-> "linux", cgroup |-> 2,
   security |-> {"name=seccomp,profile=builtin"}, architecture |-> "arm64"]
MCDaemon ==
  {Linux, [Linux EXCEPT !.api = <<1, 48>>], [Linux EXCEPT !.security = {}],
   [Linux EXCEPT !.architecture = "amd64"]}
Worker ==
  [reference |-> "worker@d1", os |-> "linux", architecture |-> "arm64",
   user |-> ClosedProcess.user, directory |-> ClosedProcess.directory,
   command |-> ClosedProcess.command, environment |-> {"PATH"},
   volumes |-> FALSE, ports |-> FALSE, layers |-> 1]
MCImage == {Worker, [Worker EXCEPT !.user = "0:0"], [Worker EXCEPT !.architecture = "amd64"]}
MCPolicy ==
  LET pilot == PilotPolicy("worker@d1", "d1", "arm64")
  IN  {pilot, [pilot EXCEPT !.security.network = "host"]}

(* One repository and one host to begin with; both change from there. *)
MCInit ==
  /\ Init
  /\ repo.head = main /\ HeadCommit(repo) = c1
  /\ host = [link |-> "docker-29", files |-> [f \in File |-> Docker],
             daemon |-> {Linux}, image |-> {Worker}]

MCSpec == MCInit /\ [][Next]_admissionVars /\ ProviderFairness

=============================================================================
