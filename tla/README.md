# Formal models of the FDOS runtime

TLA+ models of the FDOS reference runtime
(`src/02_Reference_Implementations/FDOS_Runtime`), the TLC runs that check them
on small instances and the proofs TLAPS checks for every instance. Source paths
below are relative to that directory; `fdos-runtime.js:1139` stands for
`src/runtime/fdos-runtime.js`, line 1139.

## The system

The repository is mostly a body of governance documents around one program: a
Node.js runtime that executes governed workflows for agents under human control.

| Component | State | Operations | What makes it correct |
|---|---|---|---|
| Workflow runtime (`runtime/fdos-runtime.js`, `runtime/state.js`) | runs, tasks | startWorkflow, claimTask, completeTask, failTask, retryTask, cancelTask, handoffTask | one owner per running task, dependencies gate steps, a parent waits for its children, a run's status follows its tasks, completion is final |
| Approvals (same files, `domain/policy-engine.js`) | approvals of A2 tasks | requestApproval, decideApproval; spent by claimTask | an A2 task starts only on a granted, unexpired approval of this attempt, used once; no task waits without a request |
| Connector outbox (same files, `domain/delivery-intent.js`, `domain/connector-contract.js`) | deliveries with claims (leases) | prepare, claim, recordOutcome, reconcile, retry, cancel, resolve | one delivery per attempt, late work is uncertain, no live delivery of an attempt that was given up, a completed task was delivered |
| Event reducer (`runtime/state.js`) | the state rebuilt from events | applyRuntimeEvent | accepts every event the commands append |
| Organizational memory (same files, `domain/role-registry.js`) | memory entries | proposeMemory, reviewMemory, readMemory | only reviewed knowledge is readable, by those whose department it is of; no entry makes the others unreadable |
| Authenticated commands (`fdos-runtime.js:617-844`, `authenticated-gateway.js`) | accepted invocations | executeAuthenticatedCommand | an invocation has effects at most once, over crashes and restarts |
| Invocation verifier (`identity/invocation.js`) | trusted keys | verify, verifyInvocationReceipt | only signed, current, exactly scoped commands; what was accepted verifies at every replay |
| SQLite event store (`kernel/sqlite-event-store.js`) | events, transactions, recoveryRequired | append, transaction, savepoint, reopen | atomic and durable commands, memory agrees with the file |
| JSONL event log (`kernel/event-log.js`) | events | append, open | a hash chain that verifies after a restart |
| Runtime directory lease (`kernel/runtime-lease.js`) | lock directory and its marker files | acquire, reclaim, release | one process owns the store |
| Connector workers (`workers/`, `integrations/process-separated-dry-run-worker.js`) | child process, session | execute | a result counts only from a clean, bound, timely response |
| Worker packages and releases (`domain/worker-package-release.js`, `integrations/dry-run-worker-package.js`) | the package file | read and verify, in the caller and in the child | the child runs the modules that were released |
| Git reference intake (`integrations/git-reference-source.js`) | a capture under way, the snapshot the caller holds | captureSnapshot, readDocument | a snapshot is of one instant, and evidence is what its commit holds, while people work in the repository |
| OCI admission (`integrations/docker-oci-workload-provider.js`, `domain/oci-workload-policy.js`) | a preflight under way, the docker command it runs | preflight | every control was in force while it was inspected; it ends |
| Registries (`domain/workflow-definition.js` and others) | definitions by id and version | register | an acyclic workflow is registered, a cyclic one is not |
| Kernel helpers | none | encoding, validation | sequential checks on data |

How they interact: a caller hands a signed command to the gateway;
`executeAuthenticatedCommand` opens a SQLite transaction, verifies and consumes
the invocation and runs the handler. The handler reads the in-memory state,
appends events, and every appended event is applied to that state. `mutate`
(fdos-runtime.js:558) queues commands, so that one command at a time runs in a
process; the directory lease keeps a second process out. Connector workers and
humans act between commands, on what an earlier command left. Documents, memory,
workflows and container hosts are admitted from outside the runtime, each by
checks of its own, while what is checked goes on changing.

What is hard: the interleavings of agents, humans and workers across commands
(a decision, an outcome or a retry that arrives when the task has moved on);
leases and approvals that expire; budgets; commands that append events and then
fail; the event that cannot be replayed; crashes in a transaction; clocks that
differ; several processes at the lock directory; a file, a repository or a host
that is inspected in several steps and replaced between them. PROJECT.json lists these hazards at their lines.

## Modules

| Module | Models |
|---|---|
| `RuntimeState` | the state of the runtime, its types, and the helpers several commands share |
| `WorkflowCommands` | the seven commands on runs and tasks |
| `ApprovalCommands` | requestApproval and decideApproval |
| `OutboxCommands` | the seven commands on deliveries, and reopening with another connector registry |
| `OutboxEvents` | abstract: what the reducer accepts of connector events at replay |
| `FdosRuntime` | their composition, its properties, fairness |
| `MCFdosRuntime` | instances for TLC |
| `FdosRuntimeProofs`, `FdosRuntimeSafety`, `FdosRuntimeTasks` | theorems about `FdosRuntime`: types and the refinement of `OutboxEvents`; the joint invariant of owners, approvals and deliveries; that of tasks and runs on top of it |
| `InvocationVerifier` | signed invocations, their verification, and that of the receipts a log keeps |
| `SqliteEventStore` | the steps of the event store, as operators on its state |
| `AuthenticatedCommands` | one command over the store, statement by statement; its properties |
| `AtomicCommands` | abstract: an invocation takes effect once and wholly, or not at all |
| `MCAuthenticatedCommands` | instances for TLC |
| `AuthenticatedCommandsProofs` | theorems about `AuthenticatedCommands` and the store under it |
| `RuntimeLease` | acquire, reclaim and release of the runtime directory, system call by system call |
| `MCRuntimeLease` | instances for TLC |
| `RuntimeLeaseProofs` | theorems about `RuntimeLease` |
| `WorkerPackage` | package files and the attestations that release them |
| `ConnectorWorker` | a connector's call, its child process, and the recording of its result under a claim |
| `MCConnectorWorker` | an instance for TLC |
| `ConnectorWorkerProofs` | theorems about `ConnectorWorker` |
| `GitReferenceSource` | a repository people work in, the capture of a snapshot and the reading of documents |
| `OrganizationalMemory` | proposals, reviews and reads of memory under the access rules of the roles |
| `WorkflowRegistry` | registration of workflows, with its search for cycles call by call |
| `DockerOciProvider` | the closed policies, and the preflight of a container host that changes |
| `Admission` | the last four side by side |
| `MCAdmission` | an instance for TLC |
| `WorkflowRegistryProofs`, `AdmissionProofs` | theorems about the search for cycles; about the other three and all four together |

Four levels meet at their interfaces. `RuntimeLease` justifies one process per
store, `AuthenticatedCommands` justifies that a command is one step, and
`FdosRuntime` takes both for granted, as does `ConnectorWorker`, which looks at
one delivery of `FdosRuntime` from the side of the worker.

How `FdosRuntime` corresponds to the code:

- *One command is one step.* `mutate` serialises commands, and an authenticated
  command is one SQLite transaction. A handler's guards are the conjuncts of its
  action; all the events it appends, with what the reducer does for each, are the
  primed variables. `CompleteTask` contains `releaseHandoffParents`,
  `releaseWorkflowDependencies` and `finalizeRunIfComplete`.
- *Failing commands.* A command that throws before it appended anything is no
  step. Three throw after they appended: a claim that finds an expired lease
  (`ClaimFindsExpiredLease`), a request or a decision that finds expired
  approvals (`RequestApprovalRefused`, `DecideExpiredApproval`); the savepoint of
  the transaction is released, so what they appended stays. A late outcome
  (`RecordOutcomeTooLate`) is recorded as uncertain and also throws.
- *Idempotent repeats* (a known idempotency key) return what exists and append
  nothing: no step, and the key's freshness is the guard of the creating action.
- *Identifiers* are elements of constant sets, with status "absent" until an
  event creates them. A claim id is fresh for every claim; the attempt number,
  which grows with every claim, stands for it.
- *Action intents* are their kind: "A1" (no approval), "A2" (approval),
  "connector" (of an action type a connector contract can cover, which A2 and
  above cannot be, connector-contract.js:133-143).
- *The connector registry* (`registry`) is what the process that has the store open
  has registered. `covers`: one of its contracts has the action type; `version`: the
  version of that contract an active connector instance is bound to, 0 if none is
  (the instance is suspended, or there is none). Both lists are empty by default
  (fdos-runtime.js:390), and opening compares the deliveries in the log with no
  registry: `ReopenWithRegistry` takes any member of the constant `Registries`.
  `completeTask` asks for a delivery only while `covers` holds (`hasActionType`,
  fdos-runtime.js:1245), so whether a task needs one may change between its claim
  and its completion. A delivery remembers the version it was prepared under, and the
  commands of the worker and retries require it to be the current one
  (`assertCurrentConnectorBinding`).
- *Replay.* `OutboxEvents` is what the reducer checks of a connector event, written
  from `state.js` and not from the commands: the intent is its actor's, binds the
  task with the attempt, role and intent replay has left it with
  (`verifyPreparedDelivery`, state.js:149-160), under an idempotency digest no other
  delivery has (state.js:560-569); a claim is the next attempt, within the budget,
  with a lease that ends after it began; an outcome or an expiry names the claim that
  is open (state.js:627, 714), an outcome not after its lease's end and an expiry not
  before it. Left out are
  the shape and the digests of a payload, the identity of the one connector, and the
  invocation and worker receipt of an outcome. `EventsReplay` asks two things of the
  commands: every step of the deliveries is an event these rules accept, and the
  event a command appends is accepted with the content the command gives it
  (`AppendsItsEvent`).
- *Time* is a counter that only grows, bounded by `MaxTime`. The code compares
  wall-clock readings; `FdosRuntime` assumes they do not go back.

How `AuthenticatedCommands` corresponds: the request is an envelope and the
command it came with; `VerifyInvocation` is `verify` by the verifier's clock
(identity/invocation.js:690) with what `acceptAuthenticatedInvocation` adds,
`Accept` appends the acceptance, and every event that is appended or replayed goes
through the reducer's checks (`Applies`, state.js:260-364): attribution to an
accepted invocation, and the receipt against the time the store gave the event.
Keys, audiences and organizations are values, a signature names its key. `pc` is the place in
`executeAuthenticatedCommand` and in the store's `transaction` and `#savepoint`
under it; every SQL statement is a step, which may fail. `file` is what is on
disk, `db` what the connection sees, `memory` the store's `#events`, `state` the
events applied to the runtime state. A command is the number of events it appends
and how it ends; hashes are sequence numbers without a gap. SQLite is external:
an uncommitted transaction is gone after a restart, and a failing COMMIT may have
taken effect. The clock is read where the code reads it, at the start and at the
end of a transaction.

How `RuntimeLease` corresponds: the file system is the identity of the directory
at the lock path and the files in it; a process runs through mkdir, open, readdir,
lstat, unlink, rename and rmdir one at a time, and may end after any of them. Up to
`MaxFailures` of the calls fail (`CallFails`). `writeExclusiveJson` opens a marker with
O_EXCL and then writes and syncs it (runtime-lease.js:97), outside the `try` whose end
unlinks it (280-288, 352-364): when the open fails there is no marker, when the write or
the sync fails the marker stays and nobody tends it. Both are outcomes of
`FailsToMark`. `faults.stray` notes that a failed call, or the end of a process, left a
marker behind. A rename that reports a failure is taken not to have happened. A
dead process's id is taken not to be used again.

How `ConnectorWorker` corresponds: `call` is an invocation of `execute`
(process-separated-dry-run-worker.js:257) with its local variables, `child` the
process it spawns, `delivery` what the runtime keeps. A reading of
the package file, by the caller (`Execute`) or by the child's bootstrap (`Boot`),
finds any package of the constant `Package`, since the file may have been replaced
just before: a digest is what it covers, so a package is the modules in it and the
artifact it claims to be. What happens to the delivery between the inspection of
package and launcher and the start of the child happens in the state "preparing"; then the
events of the Node process (timer, output beyond its limit, close) come in any
order with the steps of the child, which ends by itself, is killed, or hangs. That
the output is too long may be found at any time before the close event. Answers
that fail verification, for whatever reason, are no answers. Times of the request
and the response are read off the clock of the host, times of the claim off that
of the runtime, and their difference is a constant of a behaviour. A result may be
recorded late, or again, under whatever claim the delivery then has. Not here: the
crash of the calling process, which takes the result with it and leaves a claim to
expire. Bootstrap and node executable are not packaged: they are those of the
installation, and trusted.

How `GitReferenceSource` corresponds: one step is one git command of
`captureSnapshot` (git-reference-source.js:619), which sees the repository at one
instant; the four commands that run together are one step, because three of them
read a commit that cannot change. `repo` is the part of a repository the commands
can tell apart: the branch, what its commits have at each path, the worktree.
`status` pairs renames as git does, which matters for the counts the snapshot
carries. Index and work tree are one worktree: what is staged is not told apart from what is
edited. `ReadDocument` uses the snapshot the caller holds, however old.

How `OrganizationalMemory` corresponds: an agent is its role, with the scopes and
the capabilities of the pilot's roles (role-registry.js) kept apart as in the code,
wildcard included. `readMemory` is the operator `ReadMemory`, since it changes
nothing; the properties range over every reader in every state.

How `WorkflowRegistry` corresponds: `assertAcyclic` (workflow-definition.js:22) is
a recursive function with two sets it marks steps in. Here a frame of `stack` is a
call, its `rest` the dependencies the loop has not come to; `Visit` is the body up
to the loop and `Leave` what follows it. Loops may go in any order.

How `DockerOciProvider` corresponds: `preflight` is `preflight()`
(docker-oci-workload-provider.js:1521) with its local variables, one step per file
operation and per docker command; `child` is the process of a command with the
timer and the output limits of `defaultCommandRunner`; `host` is everything they
look at. What a daemon or an image is, is the record of the fields the checks read.
`held` notes what was true during the preflight; only properties read it.

## Runs

| Run | Instance | Shows |
|---|---|---|
| outbox | a step and a handoff task, 2 agents, 2 deliveries, 2 keys, 2 delivery attempts, a registry with the contract and one without, time 0..1, lease 1 | one delivery per attempt; given-up attempts are settled; late work is uncertain; every event the commands append is one `OutboxEvents` accepts |
| approval | 2 A2 tasks, 3 approvals, time 0..3 | approvals are unique, are spent by one execution each while they are valid, and never leave a task waiting for nothing |
| workflow | 2 runs, a chain of 2 steps and 1 step, 2 tasks for handoffs, depth 2, 2 roles, 1 approval | owners, suspended parents, dependencies, run status, completion is final, one run leaves the other alone |
| governance | a chain of 2 steps, 1 delivery, 2 contract versions or a suspended connector, time 0..2, fairness | where every process registers the contract, a completed connector task was delivered; a failed task is never held back for ever by its delivery |
| commands | 5 signed envelopes for 2 invocations, 2 verifiers with their own keys, limits and clocks, 3 transaction ids, up to 2 events per command, clock 0..1 | whole commands once, over failed statements, crashes, replays and reopens with another verifier; the file verifies and replays; callers are told the truth; state, memory and file agree |
| lease | 2 processes that may end anywhere, up to 2 failing calls, and what a third left | the owner keeps its lease; only its release, or its expiry and the end of its process, take it away; an abandoned store opens again |
| worker | 2 executions, 2 attempts, time 0..3, leases of 1 and 2, a host whose clock is 1 ahead, 4 packages, 3 releases | a receipt was earned under the claim it is recorded for; released code earned it; no child outlives its call; calls settle |
| admission | 3 paths, 4 commits, 2 branches, 3 changes; 1 entry of memory; every graph of 3 steps, and everything of 2; 2 launcher files, daemons and images that differ in one respect, 2 host changes | snapshots verify and are of one instant, evidence is committed; memory stays in its department and readable; acyclic workflows are registered and only cyclic ones refused for a cycle; one launcher ran every command, every control held, preflights end |
| cancelled_task | 2 A2 tasks | violation: an approval granted after the cancellation revives the task |
| outlived | a chain of 2 steps, 1 delivery, a registry with the contract and one without | violation: a task is completed over its unfinished delivery |
| lease_stolen | 3 processes | violation: two processes own the store |
| clock | as commands, and the clock may be set back | violation: a committed file that does not verify |

Why the bounds are enough: every guard of `FdosRuntime` relates at most two tasks
(a step and a dependency, a parent and a child), two attempts of one task (the
code allows no more), two deliveries or two approvals; one more of a kind is there
where a third can come between (three approvals). Time needs an instant before,
at and after an expiry. `MaxTime`, `MaxContract`, `Registries`, the budgets `MaxHandoffDepth`,
`MaxHandoffsPerRun` and the sizes of the identifier sets are the only bounds;
`ClaimDelivery` also keeps a lease from ending after `MaxTime`, so that every lease
of the model can run out. A third invocation in `commands` would find what the
second finds, a log with a transaction in it; the third transaction identifier
lets one be rolled back while two are in the file. Two registries are enough where
what changes is whether the contract is there (`outbox`, `outlived`); `governance` has
two versions and none active, so that a version can be replaced, withdrawn and come
back. In `lease`, `MaxFailures` lets the call that puts a marker there fail and then one
of its owner's or of a contender's; three were not tried, and the safety theorems hold for
any number. A marker in `lease` can be
overtaken by one other process; that it takes three processes to share the store
is what `lease_stolen` shows. The five envelopes of `commands` are a good one
of each of two identifiers, one of them signed again for another command by
another key, one whose signature is by the wrong key and one for a command its
principal may not send; the verifiers differ in everything they are configured
with. Two executions in `worker` are two of one
claim, or one of each of two claims; the leases differ so that a short first one
leaves time for a second. The packages are the released one, another, one that
claims to be the other, and one with forbidden imports; caller and child each find
any of them. The releases are the good one, one by a key that is trusted and not
pinned, and one by a key that is not trusted. A host clock that is behind the runtime's, or equal to
it, was tried with one execution only. In `admission` a capture has two readings
of each thing, so that two changes can go there and back between them, and a third
can edit a file meanwhile; of three
paths two are allowed, so that a file can move into, out of and within the
allowlist. All sizes are 1 there, so that the size limits of a document and of a
capture never bite in the run; the theorems hold for any sizes and limits. An entry of memory meets the others only in `readMemory`, which refuses
for one of them. Three steps make every cycle shorter than four and a step that
two others need; larger graphs are the theorem's. Each docker command and each
file operation of a preflight looks at one thing, so that two changes put every
pair of them at odds. The runs of `FdosRuntime`, of the
commands and of the worker set
CHECK_DEADLOCK FALSE because a workload may simply be finished: all tasks
completed, all identifiers used, time at its bound.

Fairness (`Governance`): the clock advances, and people reconcile an expired
claim, resolve an uncertain delivery and cancel a prepared one that keep waiting
for them. That is an assumption about the people the runtime is built for
(docs/CONNECTOR_OUTBOX.md:139-141), not about its scheduler; nothing is assumed
of agents, workers or the registered contract. The property says that the guards
of these commands never leave governance without a move.

Fairness of `RuntimeLease` (`FairSpec`): time passes, a process inside an
operation takes its next system call (the event loop never drops a continuation),
and somebody keeps trying to open the store. Nothing is assumed of failing calls but that there are
finitely many. `AbandonedStoreReopens` holds only while no failed call and no end of a
process has left a marker behind (`~faults.stray`), and says so: nothing in the code
removes such a marker, the store stays closed until somebody does, and no document
promises otherwise.

Fairness of `DockerOciProvider` (`ProviderFairness`): Node goes on with what is
ready, the timer of a command fires, and the close event comes once its process has
ended. Docker itself owes nothing: a command may never answer. That nobody else
keeps the pipes of a killed command open is assumed; the code would wait for them.

Fairness of `ConnectorWorker` (`FairSpec`): time passes, the event loop of the
caller handles its timers and the close event, and a process that was sent SIGKILL
ends. Nothing is assumed of a child that was not killed: it may hang for ever.

## Disagreements with the documents

- `cancelled_task`: docs/ARCHITECTURE.md:316 shows no way out of `cancelled`.
  `cancelTask` leaves the approvals of the task open and `decideApproval` does not
  look at the task's status, so a grant makes a cancelled task `ready`. The run
  stays cancelled, so the task cannot be claimed until a retry of another failed
  task re-activates the run.
- `outlived`: test/connector-outbox.test.js:532 has "contracted connector task cannot
  bypass or outlive its exact delivery", and ADR-0046:113 "contracted-task completion
  only after one exact simulated delivery". `completeTask` asks for the delivery only if
  the contracts registered now cover the action type (fdos-runtime.js:1245). When the
  store is reopened without the contract, the task is completed while its delivery is
  still prepared or claimed. `CompletedTaskWasDelivered` therefore has the premise that
  every process registers the contract.
- `lease_stolen`: docs/ARCHITECTURE.md:73 promises exact ownership. `reclaim`
  writes and unlinks its marker by path; a contender that was overtaken acts on
  the directory of the next owner, and a third process then reclaims a live lease.
- `clock`: sqlite-event-store.js:203 rejects a transaction that committed before
  it started, at every open. `transaction()` writes such a row when the wall clock
  is set back between its two readings.

## Proofs

Every safety property of every component is a theorem, for all finite or infinite sets
of tasks, agents, deliveries, invocations, processes, packages, paths and so on, all
plans and all budgets. The assumptions are
the named ones of the modules (`NoneAssumption`: no identifier is `None`;
`WorkflowAssumption` and `StepAssumption`: what the registries accept of workflows;
`AgentAssumption`: agents have roles; `BoundAssumption`: budgets are naturals; and
`StoreAssumption`, `VerifierAssumption`, `CommandAssumption`, `LeaseAssumption`, `WorkerAssumption`, `PackageAssumption`, `SourceAssumption`,
`MemoryAssumption`, `RegistryAssumption`, `ProviderAssumption` in their modules), which
TLC evaluates in every run of the component.

**The runtime.** `FdosRuntimeProofs` proves `TypeCorrect`, `EventsCorrect` and
`LateWorkCorrect`. `EventsCorrect` is a refinement: the deliveries, seen through
`DeliveryView`, take only the steps of `OutboxEvents`, one event or a stutter for each
command, and the event each command appends is one the rules accept with its content
(`CommandsAppend`, one lemma per command). The type invariant is enough for it: the view
shows a claim only while the delivery is claimed, which is when the reducer reads one,
and an intent is built from the task it names, so that it binds it as replay left it.

`FdosRuntimeSafety` proves four invariants as one inductive invariant, `Inv`, because
none of them is inductive alone. That an attempt has one delivery needs that a
delivery is only prepared by the owner of a running task, and that an attempt that is
left with work under way settles it; that settled work stays settled needs that no
live delivery belongs to an older attempt; the owner invariant says which tasks can
move to another attempt at all. `ExecutionCorrect`, an action property, follows.

`FdosRuntimeTasks` proves five more with a second invariant on top, `TInv`. A grant
can make a cancelled task ready (the finding `cancelled_task`), past the gates every
other command checks; that no step starts early nonetheless needs
`OpenApprovalIsStartable`: an approval is only requested for a task whose dependencies
and children are completed, and what is completed stays so. `ParentsKnown` says that
parent and child are of one run. `RunAgreesWithTasks` is proved command by
command from what it does to one task; that a run without tasks does not count as
completed needs `StepAssumption` (every workflow has a step). `CompletionCorrect`
follows from both invariants. `DeliveredCorrect` has the premise its property names,
that every registry of the deployment covers the action type: the run `outlived` shows
that it is needed.

Each action has one lemma that takes the invariants across it, with one step per
invariant it can disturb; updates of a record of many fields go through lemmas
about functions of records (`TaskUpdate`, `DeliveryUpdate`).

**Authenticated commands.** `AuthenticatedCommandsProofs` has one invariant, `Inv`, by the
place where the command is. The file is at all times a log that replays and consists of
whole transactions (`Whole`): each row of a transaction says where its events are, and
each event has such a row. While the command runs, connection, memory and runtime state
are that log with what the command has appended (`InTransaction`), and what it has
appended says how it will end (`Progress`): one acceptance first, effects, a recorded
failure exactly if its outcome is "failed". Once a statement has failed, memory,
connection and state may all differ, and one thing is known (`Failing`): as long as the
SQL transaction is open the file has no acceptance of this invocation. That is why a
confirmed rollback may be reported as one, and why after a COMMIT that threw only
"uncertain" may be said. `AnswerIsTrue` is part of the invariant. The refinement
`RefinementCorrect` follows because only a COMMIT changes the file (`FileSteps`) and
what it adds is one command (`CommitAddsCommand`): the events of a transaction are
counted by a bijection between places of the log and rows of the file. The lemmas on
logs carry the rest: rows with the events of a log are read back as that log
(`HeldRows`), a log that replays and an event the reducer accepts make one that replays
(`LongerLog`), and rehydrating a log that replays gives the log (`RehydratedLog`).
`TypeCorrect`, `RefinementCorrect`, `AnswerCorrect` and `StateCorrect` hold whatever the
clock does. `FileCorrect` assumes that it is not set back, which the run `clock` shows to
be needed; its own invariant is `ClockInv`: no transaction started later than now, in
the file, on the connection or in the savepoint that may be restored.

**Connector workers.** `ConnectorWorkerProofs` has one predicate on a call and its
child (`CallOK`: what each stage of them knows of the other), which the steps of other
calls and of the runtime keep for free, and one on claims (`ClaimsMatch`): an attempt
number stands for its claim, so that a late result cannot be taken for one of a later
claim. `ReceiptIsEarned` and `ReleasedCodeRan` follow for any number of calls,
packages and releases.

**The directory lease.** `RuntimeLeaseProofs` proves, for any number of processes and of
failing calls, the types and what each process may rely on (`BaseInv`: who owns holds a
lease of its own; who reclaims is after one that has expired and whose process has
ended). That the owner keeps its lease is false for three processes of
which one may end (run `lease_stolen`); the theorems say how much is true. As long as no
process has ended, for any number of them (`OwnerCorrect`, `LeaseEndsCorrect`): the
invariant `Secure` says that only the lease found at the start can be stale, and that
its directory has one reclaimer at a time. If at most two processes open the directory,
whoever ends when (`OwnerOfTwoCorrect`, `LeaseEndsOfTwoCorrect`): while a process lives
that has a lease in the directory, the one other process cannot get past its second
look at it (`Keeps`). The theorems on how a lease ends are action properties
that follow from these invariants: a move takes away the mover's own lease, or a stale
one.

**Admission.** `AdmissionProofs` has an invariant per part. `SourceInv`: each thing a
capture has read was so at an instant of the capture; a snapshot has the documents of
its commit, because nothing it takes from the worktree ends up in them. That a
snapshot verifies rests on counting: a status record names at most one path that is in
the commit (`RecordNamesOne`), so an injection takes the allowed files that changed to the
records. The first attempt at this proof failed for a good reason: if
HEAD leaves the commit and comes back, the status may be that of the other commit, a
rename then names two files that are both in this one, and `captureSnapshot` returns a
snapshot with more changed allowed files than changes, which `verifyReferenceSnapshot`
refuses. Both readings of HEAD agree, so the code cannot tell; `SnapshotVerifies` and
`SnapshotIsOfOneInstant` name the exception (`HeadReturned`), and the run's
bounds were raised until TLC met it. `MemoryInv`: an entry has a sensitivity its scope
allows, an accepted one was reviewed by a human, and whoever may read a scope at all
may read whatever may be in it (`ReadersReadAll`). `ProviderInv`: at each
point of a preflight, all commands so far were run by the file that was inspected, and
what docker answered was so during the preflight. `SpecOfParts` shows that a behaviour
of `Admission` is one of each part, so that the theorems hold of the composition
(`PartsCorrect`), and `TypeCorrect` is stated of it.

`WorkflowRegistryProofs` proves `RegistryAcyclic` and `RefusedForACycle` for
workflows of any size. The invariant describes the
depth-first search (`SearchTyped`, `OnPath`, `Explored`, `Done`): the stack is a path of
dependencies and its steps are those in `visiting`; what a frame no longer has in
its rest was visited, or is the frame above it; what was visited needs only what
was visited, and has no cycle. When the search ends everything is visited; when it
meets a step of its path, the path from there is the cycle. Because loops may go in
any order, and no order is used, the proof covers the order of the code.

Only model-checked: the liveness properties (`FailedTaskBecomesRetryable`,
`AbandonedStoreReopens`, `CallsSettle`, `PreflightEnds`), which are out of the prover's
reach.

## Not modelled

- Cryptography and encodings: a signature names its key, a digest is what it covers.
  Shapes, lengths and character sets of records are left out; canonical JSON and the
  other kernel helpers are sequential functions without state.
- Agents, personalities, actions and connector contracts: their registries check
  records once, at start; what the runtime relies on is in the assumptions of
  `RuntimeState`. Which contracts a process registers is a choice of each opening.
  There is one contract; with several, `Registries` would be a function of them.
- The network isolation contract and the macOS sandbox probe
  (`integrations/darwin-sandbox-exec-network-write-deny.js`): the probes of a worker
  pass or the call fails. Which probe fails, and what the kernel denies, is outside.
- A launcher that is replaced after its bytes were hashed and before a docker command
  runs it is not noticed by the code; `ControlsHeld` speaks of preflights whose
  commands docker itself answered.
- Building and signing packages, and attestations of artifacts that are not packaged
  (`domain/worker-artifact-attestation.js` beyond the artifact of a package): done
  before anything runs.
- The JSONL log (`kernel/event-log.js`): the store before SQLite, for a new directory
  when SQLite is not asked for; the authenticated gateway refuses it
  (docs/TRANSACTIONAL_PERSISTENCE.md:141). It has no transactions and no recovery.
- The records of delivery intents (`domain/delivery-intent.js`): what they bind and
  their idempotency digest are in `OutboxEvents`, their shape and digests are not.
- The pilot, the command line and the demos: scripted use of the above. The documents
  of governance: quoted where they speak of the runtime.
- docs/VERIFIED_WORKER_RECEIPT.md:100-103 bounds the distance between the completion of
  a response and its recording by 30 seconds; the code bounds only how far the
  completion may lie ahead (verified-worker-receipt.js:787). No run shows this.

## Plan

1. `JsonlLog`: failed and partial appends of kernel/event-log.js, and reopening.

New components share runs with the ones they interact with; a run is added only
for a question none of the present ones asks.
