------------------------- MODULE DockerOciProvider --------------------------
(***************************************************************************)
(* DockerOciWorkloadProvider.preflight (integrations/docker-oci-workload-  *)
(* provider.js) under the closed policies of domain/oci-workload-          *)
(* policy.js: the launcher is inspected, three docker commands are run,    *)
(* and what they answered is bound into a preflight.                       *)
(*                                                                         *)
(* Meanwhile the host changes: the link to the launcher is moved to        *)
(* another file, a launcher is replaced, the daemon stops or becomes       *)
(* another one, another image is pulled. A docker command may answer, say  *)
(* what is of no use, say too much, or hang.                               *)
(*                                                                         *)
(* Digests are what they are of; names are values, and shapes are left     *)
(* out. File system, processes and docker are external.                    *)
(***************************************************************************)
EXTENDS Naturals, FiniteSets

CONSTANTS
  File,              \* files the launcher's path may lead to
  Launcher,          \* the launchers that are put there
  Daemon,            \* the Docker daemons that serve the socket
  Image,             \* what a daemon may have under the policy's reference
  Policy,            \* the policies preflights are asked for
  MaxHostChanges     \* bound on what happens to the host

MaxExecutableMiB == 64
MinimumApi == <<1, 49>>
MaxLayers == 256
AllowedImageEnvironment == {"LANG", "LC_ALL", "PATH", "TZ"}

LauncherFile ==
  [program : {"docker", "other"}, size : Nat, writable : BOOLEAN,
   executable : BOOLEAN]

DaemonState ==
  [api : Nat \X Nat, os : STRING, cgroup : Nat, security : SUBSET STRING,
   architecture : STRING]

ImageConfig ==
  [reference : STRING, os : STRING, architecture : STRING, user : STRING,
   directory : STRING, command : STRING, environment : SUBSET STRING,
   volumes : BOOLEAN, ports : BOOLEAN, layers : Nat]

ASSUME ProviderAssumption ==
  /\ File # {} /\ Launcher \subseteq LauncherFile
  /\ Daemon \subseteq DaemonState
  /\ Image \subseteq ImageConfig
  /\ MaxHostChanges \in Nat

VARIABLES
  host,         \* the machine: where the launcher leads, files, daemon, image
  hostChanges,  \* how often it changed
  preflight,    \* preflight(): where it is, and what it has observed
  child,        \* the docker command it runs
  admitted,     \* the preflight it returned last, if any
  held          \* the requirements that were met during it (for a property)

providerVars == <<host, hostChanges, preflight, child, admitted, held>>

-----------------------------------------------------------------------------
(* domain/oci-workload-policy.js *)

(* The image is named by the digest that the policy binds. *)
VerifyReference(image) == image.referenceDigest = image.manifestDigest

VerifyPolicyImage(image) ==
  /\ VerifyReference(image)
  /\ image.os = "linux" /\ image.architecture \in {"amd64", "arm64"}

ClosedProcess ==
  [command |-> "pilot worker", user |-> "65532:65532",
   directory |-> "/opt/fdos/worker"]

ClosedSecurity ==
  [privileged |-> FALSE, noNewPrivileges |-> TRUE, capabilitiesDrop |-> "ALL",
   seccomp |-> "builtin", network |-> "none", ipc |-> "private",
   rootfs |-> "read-only", hostMounts |-> {}, hostDevices |-> {}]

(* Memory and tmpfs in MiB. *)
VerifyResources(r) ==
  /\ r.cpuQuotaMillis \in 100..2000
  /\ r.memory \in 64..512 /\ r.memorySwap = r.memory
  /\ r.pidsLimit \in 8..128
  /\ r.openFilesSoft \in 64..4096 /\ r.openFilesHard = r.openFilesSoft
  /\ r.tmpfs \in 1..64

VerifyPolicy(policy) ==
  /\ VerifyPolicyImage(policy.image)
  /\ policy.process = ClosedProcess
  /\ policy.security = ClosedSecurity
  /\ VerifyResources(policy.resources)

(* createOciWorkloadPolicy, with its defaults. *)
PilotPolicy(reference, digest, architecture) ==
  [image |-> [reference |-> reference, referenceDigest |-> digest,
              manifestDigest |-> digest, os |-> "linux",
              architecture |-> architecture],
   process |-> ClosedProcess, security |-> ClosedSecurity,
   resources |-> [cpuQuotaMillis |-> 500, memory |-> 128, memorySwap |-> 128,
                  pidsLimit |-> 32, openFilesSoft |-> 512, openFilesHard |-> 512,
                  tmpfs |-> 16]]

-----------------------------------------------------------------------------
(* What the provider accepts of each observation *)

(* The local trust checks of a launcher. *)
VerifyLauncher(file) ==
  /\ file.size \in 1..MaxExecutableMiB
  /\ ~file.writable /\ file.executable

(* apiVersionAtLeast, of major and minor numbers. *)
ApiVersionAtLeast(actual, minimum) ==
  \/ actual[1] > minimum[1]
  \/ actual[1] = minimum[1] /\ actual[2] >= minimum[2]

RuntimeControls(info) ==
  /\ info.os = "linux" /\ info.cgroup = 2
  /\ "name=seccomp,profile=builtin" \in info.security

\* Mutant: the controls of the daemon are recorded, and not required.
VerifyRuntime_Recorded(runtime) ==
  /\ VerifyLauncher(runtime.launcher)
  /\ ApiVersionAtLeast(runtime.api, MinimumApi)
  /\ runtime.info.architecture \in {"amd64", "arm64"}

VerifyRuntime(runtime) ==
  /\ VerifyLauncher(runtime.launcher)
  /\ ApiVersionAtLeast(runtime.api, MinimumApi)
  /\ RuntimeControls(runtime.info)
  /\ runtime.info.architecture \in {"amd64", "arm64"}

(* What an image must be whatever the policy. *)
ClosedImage(image) ==
  /\ image.architecture \in {"amd64", "arm64"}
  /\ image.environment \subseteq AllowedImageEnvironment
  /\ image.layers \in 1..MaxLayers
  /\ ~image.volumes /\ ~image.ports

(* The image of a policy, as the daemon describes it. *)
VerifyImage(image, policy) ==
  /\ ClosedImage(image)
  /\ image.reference = policy.image.reference
  /\ image.os = policy.image.os /\ image.architecture = policy.image.architecture
  /\ image.user = policy.process.user
  /\ image.directory = policy.process.directory
  /\ image.command = policy.process.command

(* createLaunchTemplateUnsigned: docker run --rm --pull=never ... *)
TemplateOf(policy, runtime, image) ==
  [executable |-> runtime.path, runtime |-> runtime, image |-> image,
   reference |-> policy.image.reference, architecture |-> policy.image.architecture,
   process |-> policy.process, security |-> policy.security,
   resources |-> policy.resources]

(* createLaunchTemplate: the inputs are bound to each other. *)
Bound(policy, runtime, image) ==
  /\ VerifyImage(image, policy)
  /\ runtime.info.architecture = policy.image.architecture

(* verifyOciWorkloadPreflight *)
VerifyPreflight(p) ==
  /\ VerifyPolicy(p.policy)
  /\ VerifyRuntime(p.runtime)
  /\ Bound(p.policy, p.runtime, p.image)
  /\ p.template = TemplateOf(p.policy, p.runtime, p.image)

-----------------------------------------------------------------------------
(* The host *)

(* The requirements that a host meets, for a policy. *)
Met(h, policy) ==
  {"api" : x \in {d \in h.daemon : ApiVersionAtLeast(d.api, MinimumApi)}}
  \cup {"controls" : x \in {d \in h.daemon : RuntimeControls(d)}}
  \cup {"architecture" : x \in {d \in h.daemon :
                                  d.architecture = policy.image.architecture}}
  \cup {"image" : x \in {i \in h.image : VerifyImage(i, policy)}}

Happens(h) ==
  /\ hostChanges < MaxHostChanges /\ hostChanges' = hostChanges + 1
  /\ host' = h
  /\ held' = IF preflight.pc = "idle" THEN held
             ELSE held \cup Met(h, preflight.policy)
  /\ UNCHANGED <<preflight, child, admitted>>

MoveLink(f) == f # host.link /\ Happens([host EXCEPT !.link = f])

ReplaceLauncher(f, file) ==
  file # host.files[f] /\ Happens([host EXCEPT !.files[f] = file])

ChangeDaemon(daemon) == daemon # host.daemon /\ Happens([host EXCEPT !.daemon = daemon])

ChangeImage(image) == image # host.image /\ Happens([host EXCEPT !.image = image])

AtMostOne(S) == {{}} \cup {{x} : x \in S}

HostNext ==
  \/ \E f \in File : MoveLink(f)
  \/ \E f \in File, file \in Launcher : ReplaceLauncher(f, file)
  \/ \E daemon \in AtMostOne(Daemon) : ChangeDaemon(daemon)
  \/ \E image \in AtMostOne(Image) : ChangeImage(image)

-----------------------------------------------------------------------------
(* preflight(): inspectLauncher() *)

(* The record with one more field. *)
With(record, field, value) ==
  [x \in DOMAIN record \cup {field} |-> IF x = field THEN value ELSE record[x]]

NoChild == [state |-> "none"]

Idle == [pc |-> "idle"]

Goes(new) ==
  /\ preflight' = new
  /\ UNCHANGED <<host, hostChanges, child, admitted, held>>

BeginPreflight(policy) ==
  /\ preflight.pc = "idle"
  /\ VerifyPolicy(policy)
  /\ preflight' = [pc |-> "resolve", policy |-> policy, asked |-> {}, ran |-> {}]
  /\ held' = Met(host, policy)
  /\ UNCHANGED <<host, hostChanges, child, admitted>>

(* lstat and realpath *)
ResolveLauncher ==
  /\ preflight.pc = "resolve"
  /\ Goes(With([preflight EXCEPT !.pc = "stat"], "path", host.link))

(* stat, and the trust checks of what it says. *)
StatLauncher ==
  /\ preflight.pc = "stat"
  /\ LET file == host.files[preflight.path]
     IN  Goes(IF VerifyLauncher(file)
                THEN With([preflight EXCEPT !.pc = "read"], "file", file)
                ELSE Idle)

(* readFile: as long as stat said, or the launcher changed. *)
ReadLauncher ==
  /\ preflight.pc = "read"
  /\ LET file == host.files[preflight.path]
     IN  Goes(IF file.size = preflight.file.size
                THEN [preflight EXCEPT !.pc = "version", !.file.program = file.program]
                ELSE Idle)

-----------------------------------------------------------------------------
(* #runJson() and defaultCommandRunner() *)

Commands == {"version", "info", "image"}

\* Mutant: the command is run by the path the provider was configured with.
Executable_Configured == host.link

Executable == preflight.path

RunCommand ==
  /\ preflight.pc \in Commands /\ child = NoChild
  /\ LET program == host.files[Executable].program
     IN  /\ child' = [state |-> "running", program |-> program,
                      timedOut |-> FALSE, answer |-> {}]
         /\ preflight' = [preflight EXCEPT !.asked = @ \cup {Executable},
                                           !.ran = @ \cup {program}]
  /\ UNCHANGED <<host, hostChanges, admitted, held>>

ChildBecomes(new) ==
  /\ child' = new
  /\ UNCHANGED <<host, hostChanges, preflight, admitted, held>>

(* What a command may print: docker what the daemon says at this instant,  *)
(* if there is one; another program anything.                              *)
Answers ==
  LET truth == IF host.daemon = {} THEN {}
               ELSE IF preflight.pc = "image" THEN host.image ELSE host.daemon
  IN  IF child.program = "docker" THEN truth
      ELSE IF preflight.pc = "image" THEN Image ELSE Daemon

ChildAnswers ==
  /\ child.state = "running"
  /\ \E answer \in Answers :
       ChildBecomes([child EXCEPT !.state = "exited", !.answer = {answer}])

(* It fails, writes to stderr, prints no JSON; or is ended for its output. *)
ChildFails ==
  child.state = "running" /\ ChildBecomes([child EXCEPT !.state = "exited"])

\* Mutant: the timer does not end the process.
Terminate_NoKill == ChildBecomes([child EXCEPT !.timedOut = TRUE])

(* SIGKILL, unless the process has ended already. *)
Terminate == ChildBecomes([child EXCEPT !.timedOut = TRUE, !.state = "exited"])

TimerFires ==
  /\ child.state \in {"running", "exited"} /\ ~child.timedOut
  /\ Terminate

(* What is bound into the preflight when the last command has answered. *)
Observed(image) ==
  LET runtime == [path |-> preflight.path, launcher |-> preflight.file,
                  api |-> preflight.api, info |-> preflight.info]
  IN  [policy |-> preflight.policy, runtime |-> runtime, image |-> image,
       template |-> TemplateOf(preflight.policy, runtime, image)]

Runtime(info) ==
  [launcher |-> preflight.file, api |-> preflight.api, info |-> info]

(* A command that was ended for the time it took, exited with an error, or *)
(* printed what is no answer.                                              *)
CommandFailed == child.timedOut \/ child.answer = {}

KeepVersion(answer) ==
  /\ preflight.pc = "version"
  /\ preflight' = With([preflight EXCEPT !.pc = "info"], "api", answer.api)
  /\ UNCHANGED admitted

(* inspectRuntime() returns: the controls are required now. *)
KeepInfo(answer) ==
  /\ preflight.pc = "info"
  /\ preflight' = IF VerifyRuntime(Runtime(answer))
                    THEN With([preflight EXCEPT !.pc = "image"], "info", answer)
                    ELSE Idle
  /\ UNCHANGED admitted

(* inspectImage() returns, the template is made and all is verified. *)
BindImage(answer) ==
  /\ preflight.pc = "image"
  /\ preflight' = Idle
  /\ admitted' = IF VerifyPreflight(Observed(answer)) THEN {Observed(answer)}
                                                       ELSE admitted

(* The event close: the command failed closed, or its answer is kept. *)
ChildCloses ==
  /\ child.state = "exited"
  /\ child' = NoChild
  /\ \/ CommandFailed /\ preflight' = Idle /\ UNCHANGED admitted
     \/ /\ ~CommandFailed
        /\ \E answer \in child.answer :
             KeepVersion(answer) \/ KeepInfo(answer) \/ BindImage(answer)
  /\ UNCHANGED <<host, hostChanges, held>>

Inspect == ResolveLauncher \/ StatLauncher \/ ReadLauncher \/ RunCommand

ProviderInit ==
  /\ host \in [link : File, files : [File -> Launcher],
               daemon : AtMostOne(Daemon), image : AtMostOne(Image)]
  /\ hostChanges = 0
  /\ preflight = Idle /\ child = NoChild
  /\ admitted = {} /\ held = {}

ProviderNext ==
  \/ HostNext
  \/ \E policy \in Policy : BeginPreflight(policy)
  \/ Inspect
  \/ ChildAnswers \/ ChildFails \/ TimerFires \/ ChildCloses

(* Node goes on with what is ready, and a timer fires some time; a docker  *)
(* command need not answer. (That its pipes close when it has ended is     *)
(* assumed: no process it started keeps them open for ever.)               *)
ProviderFairness ==
  WF_providerVars(Inspect) /\ WF_providerVars(TimerFires) /\ WF_providerVars(ChildCloses)

-----------------------------------------------------------------------------
(* Properties *)

ProviderTypeOK ==
  /\ host.link \in File /\ host.files \in [File -> Launcher]
  /\ host.daemon \in AtMostOne(Daemon) /\ host.image \in AtMostOne(Image)
  /\ hostChanges \in 0..MaxHostChanges
  /\ preflight.pc \in {"idle", "resolve", "stat", "read"} \cup Commands
  /\ preflight.pc = "idle" => child = NoChild
  /\ child # NoChild => preflight.pc \in Commands
  /\ Cardinality(admitted) <= 1 /\ \A p \in admitted : VerifyPreflight(p)
  /\ held \subseteq {"api", "controls", "architecture", "image"}

\* Every command of a preflight is run by the file that was inspected, which
\* is the one the launch template names, wherever the link is moved meanwhile.
OneLauncher ==
  [][\A p \in admitted' \ admitted :
       /\ preflight.asked = {p.template.executable}
       /\ p.runtime.path = p.template.executable]_providerVars

\* Each requirement a preflight says is met was met while it ran, if it was
\* docker that answered: however the daemon and the image change meanwhile, no
\* answer is of another time, and none is left unchecked.
ControlsHeld ==
  [][\A p \in admitted' \ admitted :
       preflight.ran = {"docker"} =>
         {"api", "controls", "architecture", "image"} \subseteq held]_providerVars

\* A preflight ends, whatever docker does.
PreflightEnds == (preflight.pc # "idle") ~> (preflight.pc = "idle")

=============================================================================
