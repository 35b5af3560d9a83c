# Verification of agent-task-orchestrator

TLA+ models of the orchestrator under `src/src/`: what a Task may do, who may
execute it, how an operation with an effect outside the database (a backend turn,
a Codex SDK run, a worktree, a merge, a gate, a scheduler registration) is
carried out exactly once although processes die and answers get lost, how a
dispatcher works through the eligible Tasks, what it takes to complete a Task,
and how the database itself is backed up and restored. The models are checked
with TLC on small instances, and every safety property that a passing run checks is
proved with TLAPS for instances of every size.

## 1. The system

The orchestrator is a set of short-lived Node processes over one SQLite
database. No process talks to another; they meet in the database only. A write
transaction is `BEGIN IMMEDIATE`, so transactions are atomic and serialized, and
everything between two transactions of one process interleaves with everything
else. Effects outside the database (a backend turn, a worktree, a merge, an
operating-system timer) are bracketed by durable *intents*: written before the
effect, re-read after a crash, finalized with a receipt.

### Inventory

| component | state it keeps | operations | talks to | what is hard |
|---|---|---|---|---|
| task domain (`domain.ts`) | Projects; Tasks with state, revision, body, parent, dependencies, supersession, waiting fact, terminal fact | register and enable Projects; create, edit, parent, add and remove dependencies, supersede; ten transitions | pure; every service calls it inside a transaction | acyclicity kept edge by edge; continuation of a waiting Task whose dependencies have changed; a cancellation that has to reach ready dependents in the same commit |
| execution claims (`execution-application.ts`) | execution sequence, attempts with owner, lease, fence, supersession; request keys | claim, inspect, renew, takeover | domain (claim_accepted), loop (unfinished intents), authorization | preflight and transaction are two moments with one clock reading; retries under the same key; renewal racing takeover |
| reliable loop (`execution-loop.ts`) | intents (pending, executing, observed, verified, finalized, retry_wait, ambiguous, failed), observations, verifications, finalizations, terminal states, authorization bindings | start, report, cancel, inspect, resume, retry, reconcile, reconcileExpiredStartNoEffect, acceptCompletion | backend, domain, claims | a process may die between any two steps; two processes on one intent; a lost answer; a fence that changes while a call is under way |
| Manual backend (`manual-execution-backend.ts`, `persistence/manual-backend-repository.ts`) | turns and operations of the Manual journal | start, resume, cancel, record outcome, inspect | loop | at most one operation per intent; refusal against a replaced authorization |
| dispatcher (`dispatcher.ts`, `dispatcher-application.ts`) | runs with owner, run revision, lease, status; reconciliation summary; sealed membership and member outcomes; trigger requests | run, resume, scheduled delivery, begin, inventory, commit, seal, claim a member, heartbeat, takeover, finalize | claims, loop, scheduler, itself (a stale run is continued inside another run) | lease boundary; two owners in turn; recursion; a claim made and its start not yet prepared |
| Codex backend, worker, product (`codex-*.ts`, `persistence/codex-backend-repository.ts`) | Codex turns, product operations with stages, profiles | dispatch a run, resume, retry; prepare, run the SDK, record, inspect | loop, workspace, targeted dispatcher | a call that takes minutes outside any transaction; the same key executed by two calls; stages written without compare-and-set |
| workspace (`workspace-application.ts`, `workspace-git-adapter.ts`) | workspace generations, workspace intents, receipts | reserve, create, inspect, recover, cleanup | Git, a worker process, completion | an effect on disk without a receipt; a worker that outlives its caller; cleanup under somebody's feet |
| completion gates and policy (`completion-application.ts`, `local-completion-backend.ts`) | policy receipts, gate intents and receipts, evidence leaves, completion decisions | evaluate policy, run, inspect and cancel a gate, accept | child processes, workspace, loop | evidence that is stale when it is used; a verdict read by another process than the one that ran the gate |
| integration (`completion-application.ts`, `local-git-integration-backend.ts`) | target sequence, reservations with lease and fence, apply and push intents | reserve, renew, take over, release, apply, push, inspect, recover | Git references, policy, acceptance | the target branch moves; a reservation outlives its process; a merge without a receipt |
| scheduler registration (`scheduler-application.ts`) | registrations per configuration revision, their intents and observations | register, remove, inspect, reconcile | operating system, dispatcher | an ambiguous call; a reconciliation beside the call |
| authorization (`authorization.ts`, `application-policy.ts`) | grants, decisions | evaluate, grant, revoke, confirm | every service | a decision that is no longer current when the effect happens |
| application service and registry | requests, previews, confirmations, Project roots | Project and Task commands | domain | confirmation bound to a revision |
| persistence, backup and restore (`persistence/`) | the database, lifecycle lock, connection receipts, backup generations, restore intent and receipts | open, close, migrate, back up, restore, recover | file system | crash between any two file operations; a commit after the authorization of a restore |
| command line and runtime | none | parse, wire, print | all | nothing stateful |

`PROJECT.json` lists every component with its status, and under `hazards` each
place where the code is hard to test.

### What makes each part correct

* Domain: every command leaves a snapshot that `parseSnapshot` accepts; work
  runs on completed dependencies only; a terminal Task never changes.
* Claims: a Task has at most one current attempt, with increasing fences; a key
  never names two executions; a live lease is not superseded, nor an execution with
  an unfinished intent or a Manual turn.
* Loop: an intent has its effect at most once, is told the truth about it, is
  finalized in the end if the revisions it was prepared under stay current, and
  does nothing once its execution is fenced; Task and turn agree.
* Dispatcher: one run per trigger, one claim per Task, one owner at a time, a
  final sealed set, and a summary that accounts for every member.
* Codex: the SDK runs once per product operation, what is recorded is what it
  did, and nothing continues a turn that may still be running.
* Workspace: what a generation says is on the disk is there; a worktree is
  removed only when nobody can be at work on it.
* Gates and integration: a verdict is what the gate did; a Task is completed
  only on an object on which every required gate passed and which was put on
  both references by the holder of the current fence.
* Scheduler: a registration at rest says what the scheduler has; an operation
  calls the backend at most once and stays settled.
* Backup: a store sees one whole database, an interrupted restore can be
  finished, a restore loses no commit.

## 2. Modules

| module | models | extends or instantiates |
|---|---|---|
| `TaskDomain` | `domain.ts` | |
| `TaskDomainProofs` | theorems about `TaskDomain` and, in its second part, about `WorkspaceOperations` | `TaskDomain`, `WorkspaceOperations`, TLAPS |
| `ExecutionClaims` | `execution-application.ts` over the execution rows of `application-repository-transaction.ts` | |
| `ExecutionClaimsProofs` | theorems about `ExecutionClaims` and, in its second part, about `CodexProduct` | `ExecutionClaims`, `CodexProduct`, TLAPS |
| `ReliableLoop` | `execution-loop.ts`, the Manual backend and its journal, `processIntent` of `dispatcher.ts` | |
| `ReliableLoopProofs` | theorems about `ReliableLoop` | `ReliableLoop`, TLAPS |
| `DispatcherRun` | the Manual part of `dispatcher-application.ts`, `continueRun`, `run` and `resume` of `dispatcher.ts` | |
| `DispatcherRunProofs` | theorems about `DispatcherRun` | `DispatcherRun`, TLAPS |
| `WorkspaceOperations` | `workspace-application.ts`, the cleanup of `completion-application.ts`, the Git adapter and its worker | |
| `CompletionGates` | policy, gates and acceptance of `completion-application.ts`, `local-completion-backend.ts` | |
| `CompletionGatesProofs` | theorems about `CompletionGates` | `CompletionGates`, TLAPS |
| `Integration` | reservations, apply, push, inspect, recover of `completion-application.ts`, `local-git-integration-backend.ts` | |
| `IntegrationProofs` | theorems about `Integration` | `Integration`, TLAPS |
| `Operation` | what an operation with an external effect promises (abstract) | |
| `SchedulerRegistration` | `scheduler-application.ts` over `scheduler-port.ts` | `Operation` (refinement) |
| `SchedulerRegistrationProofs` | theorems about `SchedulerRegistration` | `SchedulerRegistration`, TLAPS |
| `BackupRestore` | `persistence/backup.ts`, `store.ts`, `runtime.ts` | |
| `BackupRestoreProofs` | theorems about `BackupRestore` | `BackupRestore`, TLAPS |
| `CodexProduct` | `codex-product-application.ts`, the targeted half of `dispatcher-application.ts`, the Codex half of `execution-loop.ts`, `codex-execution-backend.ts`, `codex-backend-repository.ts` | |
| `MC...` | model values and symmetry of the runs | the module of that name |

Two proof modules hold the theorems of two components each: a workspace belongs to
a Task, and a product operation to an execution. For that `WorkspaceOperations`
and `CodexProduct` name their specifications `WorkspaceSpec` and `ProductSpec`
(with `...Init`, `...Next`, `...TypeOK` and their variables likewise), where the
other modules say `Spec`.

Each module starts with the list of its abstractions. They have one shape in
common: control is kept, data is reduced to what the code compares.

**TaskDomain.** `project` and `task` are the snapshot; an action is a command
that is accepted, with the checks of the command as its guard; a command that
is refused changes nothing. `Replace` is `replaceTasks` with `nextTask`: it
advances the revision and rebinds a waiting fact. Reachability in the
dependency graph is stated without recursion (b is in every set that contains a
and is closed under the edges), so that it can be proved about.

**ExecutionClaims.** A client builds a command from what it has read (`Read`
values may be stale by the time it is submitted), the preflight reads clock and
state, the transaction checks again with the preflight's clock. Answers are
lost, commands repeated. The loop, with Manual and with Codex turns, and the editors
of Tasks and Projects are environment actions.

**ReliableLoop.** One Task, its attempts, intents, turns and journal operations,
and for each process the program counter of `processIntent`. The steps are the
transactions and the backend call: prepare, refresh, authorize, mark executing,
invoke, inspect, observe, verify, finalize, and the failure branch. `Stop` ends a
process anywhere: a crash and a refusal leave the same state behind.

**DispatcherRun.** Runs, their leases and members, Tasks reduced to what a
dispatcher sees of them, and for each worker the stack of `continueRun` calls,
because a run that finds an older one stale continues that one first. A worker
passes a view of its run that any foreign advance makes stale, and the clock it
read before its transaction. The reliable loop appears as the step that settles
a start.

**WorkspaceOperations.** One generation, its intents by idempotency key, the
worktree on disk and the create worker of each key, which once spawned begins and
ends on its own, whether or not its caller lives. The services validate the whole state
before every commit and a trigger refuses illegal status changes, so a
transaction is an action guarded by `Commit`; what may not commit is rolled back
and its caller stops. Each operation is prepare, act, backend, observe, verify,
finalize. Two initial states: nothing reserved, and a worktree that is ready. The
chain of causes behind a recovery is the least set that contains the named cause
and, with each recovery, what that one names (`Visited`), so that it can be proved
about.

**CompletionGates.** The binding of a command (revisions, workspace receipt, the
object it names), the real check-out, policy receipts, gate operations with
their evidence leaf and child process, and the acceptance with its reopening of
the gate set. `ran` is history: what each child really did, and on which object.

**Integration.** The reservations of one target, apply and push intents, and the
two references, which a stranger may move. `reached` is history: which sources
the references have ever named.

**SchedulerRegistration and Operation.** `Operation` is the promise common to the
application layer's effects: prepared once, one permit to touch the world issued
by the authorization at the point of use, the permit used at most once (also
late, after somebody settled the operation, or never), settled for good.
`ImplementsOperation` instantiates it with the mapping: pending is prepared;
executing, observed, verified and ambiguous are acted; finalized and failed are
settled; a permit is a caller between act and backend; the effects are the calls
counted.

**BackupRestore.** The runtime directory one file operation at a time: which
incarnation's database file and journal are in place, staged or retained, the
restore intent and receipts (whole or torn), the lock, and connection receipts.
`Crash` ends a process between any two operations and leaves its residues; the
`Operator...` actions are the user who removes them, because no code does.

**CodexProduct.** A product operation owns a run, a member, an attempt, a
workspace, an intent and at most one turn, all indexed by the operation; each
call has a program counter through the stages. `sdk` is what the SDK really did,
`runs` how often it was run. The backend verifies before it inspects a turn that the
worktree still has the HEAD of the intent (`HeadStands`), so a turn that left a
commit is never proven.

The modules are separate specifications that share the code's interfaces: each
sees the others as the environment actions they amount to (`ExecutionClaims` the
loop as unfinished intents, `ReliableLoop` the claims as takeover and renewal,
`DispatcherRun` both as claims and settled starts, `CompletionGates` the
workspace as changes of HEAD, `CodexProduct` workspace creation as one step).
`CodexProduct` composes product, targeted dispatcher, loop, backend and journal.
Each header states what the module leaves to the others.

## 3. Runs

All passing runs complete; the sizes are those of the last check with two
workers.

| run | instance | shows |
|---|---|---|
| `TaskDomain` | 2 Tasks, 1 Project, 1 execution, 2 bodies, revisions to 5 | snapshots stay valid, work runs on completed dependencies, a cancellation reaches the ready dependents in the same step |
| `ExecutionClaims` | 2 clients, 2 executions, 2 keys, clock to 2, leases of 2, Manual and Codex turns, one Task edit, wait or completion and one Project edit; 933 000 states | at most one current attempt, one execution per key, no takeover of a live lease, of an unfinished intent or of a Manual turn (of a settled Codex turn there is one, see below), superseded attempts frozen |
| `ReliableLoopSequence` | 1 process, 3 intents, 2 attempts, one renewal, fail, succeed, confirm_cancelled and wait, fairness; 435 000 states | operations in sequence, each possibly cut off anywhere: Task, turn and terminal state agree; superseded executions are frozen; every intent is finalized in the end unless a renewal made its revisions stale, and the loop itself never makes them stale |
| `ReliableLoopRace` | 2 processes, 2 intents, 2 attempts, renewal, one Task edit; 1 377 000 states | two processes on the same intents, lost answers, expiring lease, proven-no-effect finalization, takeover: one effect per intent, true observations, one unfinished intent |
| `DispatcherRun` | 2 workers, 1 Task, 1 key, 1 scheduled tuple, 2 runs, 1 lease expiry, any number of deaths; 973 000 states | one run per trigger, one claim per Task, only the owner advances, the sealed set is final, stale runs come first, the summary accounts for everything |
| `WorkspaceOperations` | 2 processes, 3 keys, 1 inspect; 1 552 000 states | status and disk agree, cleanup is quiet |
| `Integration` | 2 processes, 1 execution, 2 keys, 2 reservations, a stranger's object; 1 636 000 states | only the holder of the current fence touches a reference, completed work was on both |
| `CompletionGates` | 2 calls, 2 processes, 1 gate, 2 objects, 3 gate operations, 1 policy receipt, 1 change of the binding; 2 038 000 states | verdicts are true, completion rests on passes of its object |
| `SchedulerRegistration` | 2 callers, 2 keys, 2 configuration revisions, 3 observations; 482 000 states | registrations are true, the operations refine `Operation` |
| `BackupRestore` | 2 processes, 1 generation, 2 restores, 5 commits; 271 000 states | whole databases, recoverable restores, nothing lost |
| `CodexProduct` | 2 calls, a start and one continuation, 2 acts of the start and 1 of the continuation, 2 profile revisions; 1 379 000 states | one SDK run per operation, true results, no continuation of a running turn |
| `StaleFinalHead` | 1 call, 1 operation whose turn commits | see below |

**Why these bounds.** The interesting cases need two of a kind. Two clients,
processes or workers are enough for every race between a check and its use, and
every comparison in the code is between one process and the database, so a third
process adds no new kind of stale value. Two attempts are a predecessor and its
successor; three intents are a start, a report on it and what follows (a
resumption, a second report, the start of the successor). In `ReliableLoop` the
constant `TransientErrors` is FALSE in both runs: the port lets a backend answer
retryable, but neither the Manual nor the Codex backend ever does, and with it
the race of renewal, Task edit and takeover is out of reach of a run of a few
minutes. Without the Task edit, or without the renewal, the race has been
checked with retryable answers too (1.4 and 1.0 million states). The sequence has
the renewal and not the Task edit: either makes the tuple of an intent stale in the
same comparison (`execution-loop.ts:1706`), and with both the liveness check is out of
reach of a run of a few minutes. The race has both. A clock of three instants has a
lease that is live, at its end and past it. Two revisions beyond the first separate a stale value from a
current one and from the next. In `DispatcherRun` one expiry of a run lease lets
the second worker take over while the first is still alive, or recover the run
from inside its own; two expiries multiply the states tenfold and are out of
reach of a run of a few minutes. Three workspace keys are an effect, its retry or
recovery and a cleanup; three gate operations are a run, a cancel or inspection
of it and a second run; two reservations are a holder and its successor; two
restores are one that is interrupted and one over its result. In `CodexProduct`
the second turn may leave what its final inspection cannot settle, and no turn
commits: which HEAD is recorded is the question of `StaleFinalHead`. `TaskDomain` has two Tasks in TLC; longer cycles
and chains are covered by the theorems. `CHECK_DEADLOCK FALSE` is set in every
configuration: with bounded counters every system comes to rest, and so does the
program when all work is done.

**Symmetry** is used for sets whose members the code never orders (Tasks,
Projects, processes, owners, keys). It is not used in runs that check liveness.

**Fairness.** `FairSpec` of `ReliableLoop` assumes that a process which can take
its next step eventually takes it or stops (the operating system schedules it),
that from some time on processes stop only when a step is refused (not every
process crashes for ever), and that a caller keeps calling reconcile on an
unfinished intent: strong fairness of the one action "somebody reconciles
something", not of each intent. The last is an assumption on the user or the
dispatcher, not on the loop: nothing in the program runs by itself. No fairness is assumed of a
successful answer of the backend, of a lease renewal or of a Task edit. The other
modules state no liveness: in most of them the code really leaves operations
unfinished for good after a crash (next section), so there is nothing to promise.

### Where the code and its documents differ

One difference has a run of its own, in which TLC finds the documented property
violated by what the code does:

* `StaleFinalHead`. After a turn the workspace is inspected and the product
  result is to carry the HEAD that the inspection observed
  (reliability-protocol.md:427). `workspaceReceipt`
  (`codex-product-application.ts:836`) takes the first receipt that left the
  generation ready at its present revision; an inspection does not advance that
  revision, so the receipt of the create qualifies as well, and which of the two
  comes first depends on the digests that are their identifiers.

The others were met while modelling. The models contain the behaviour, and where a
property is about it the property says exactly what still holds; it is then weaker
than the sentence of the documents.

Execution claims, loop and dispatcher:

* The direct takeover looks for unfinished intents and Manual turns
  (`execution-application.ts:538`); an expired execution with a settled Codex turn
  is taken over, where reliability-protocol.md:226 names the Codex journal too. The
  run `ExecutionClaims` contains such takeovers; `TakeoverIsSafe` promises nothing
  about an execution whose Codex turn is settled.
* A renewal while an intent is unfinished leaves the intent's execution revision
  behind, and no operation can finalize it afterwards (`execution-loop.ts:1706`;
  reliability-protocol.md:696: a conflict routes reconciliation). An edit of the
  Task does the same. The run `ReliableLoopSequence` contains the renewal;
  `IntentsFinalize` demands the end only of intents whose tuple stays current
  (`TupleIsCurrent`), and that the loop itself never makes one stale.
* The dispatcher resubmits report, cancel and resume intents of an expired
  execution and is refused for ever (`dispatcher.ts:199`;
  reliability-protocol.md:693: reconcile by inspection).
* The process that comes second is refused by the journal and records the intent
  as failed although the turn exists (`execution-loop.ts:2316`;
  reliability-protocol.md:694: observe, verify, continue).
* A start that failed without a turn leaves its Task waiting, and everything that
  could continue it needs a turn (`execution-loop.ts:2363`; domain-contract.md:50).
* A renewal also compares the Task revision
  (`application-repository-transaction.ts:1915`), where reliability-protocol.md:210
  lists five lease values; a `succeed` reported on a waiting turn leaves the Task
  waiting (`execution-loop.ts:2199`), where cli-contract.md:404 says running.

Workspace operations:

* Two recoveries of an ambiguous reserve prepared at one revision: the second
  finds the generation moved and stays pending, and the recovery that
  completion-workspace-contract.md:66 promises is not available any more.
* The transaction that records a failed cleanup is rolled back by the validator,
  and so is a denied act of a cleanup: an interrupted cleanup stays `cleaning`.
* `cleanupQuiescence` counts ambiguous intents, so a workspace that once had one
  that was not recovered is never cleaned.

Gates:

* The transaction that records a backend failure names observation 0, which the
  schema refuses (`migrations.ts:2065`); the intent stays where it was, and nobody
  continues the gate intent of another process.
* A gate request freezes the execution revision, so a lease renewal in between
  makes it stale. A later failing run does not displace an earlier pass. The
  cancellation of a gate that has already passed ends as accepted.

Integration:

* An intent that became ambiguous at finalization has its receipt already, and
  the recovery that would settle it is refused: it is ambiguous for ever
  (completion-workspace-contract.md:322-329).
* An inspection that finds foreign objects on an idle reservation makes the
  reservation ambiguous without an ambiguous intent, which recovery requires.
* A process that dies between prepare and finalize strands its intent, and with
  it takeover, release and recovery of the target.
* An inspection between the preflight and the observation of an effect takes the
  observation's number; a failure with no earlier observation cannot be recorded
  (observation 0 again); the act does not look at the Task's state; the
  reservation of an execution that is never completed is never released; renewal
  and prepare read the clock before the state.

Scheduler registration:

* A reconciliation that looks between the act of an operation and its call
  settles it as not done, and the call then happens (scheduler-contract.md:89-91).
  From the moment of that late call `RegistrationIsTrue` no longer speaks of its
  configuration revision (variable `early`); before the call, and for every other
  revision, it does.
* A `refused` or `still_present` receipt cannot be recorded: the validator wants an
  adapter failure of a failed intent. A registration that is present but disabled
  is never finalized. Several configuration revisions may be active at once.

Backup and restore:

* A crash leaves the lifecycle lock, connection receipts or a backup stage that
  no code removes, as persistence-contract.md:566-574 says; a torn intent or
  receipt wedges the recovery; a crash before the intent leaves the staged target.
* `doctor` calls any interrupted second restore ambiguous.

Codex:

* An inspection of a turn that is still running demotes it to unknown; the live
  call's own terminal record then conflicts, and the intent is marked failed
  although the SDK completed. Of two calls under one key, the one that comes
  second to the journal marks the intent failed while the SDK runs.
* A crash between the journalled turn and the SDK's thread identifier leaves an
  execution that every later call refuses; a turn longer than the lease leaves
  its product operation unfinalized; a public inspection after finalization adds
  a receipt that blocks continuation.
* A turn that left a commit is never proven: the inspection of the turn first asks
  for the HEAD of the create (`codex-execution-backend.ts:634`), so its intent ends
  waiting although the SDK succeeded (`ResultIsTrue` speaks of accepted outcomes).
* A final inspection that is ambiguous or fails still lets the operation finalize
  with the HEAD of the create. Stages are written without compare-and-set; what
  keeps an older stage from replacing a newer one is the validation of the state
  as a whole, and that is what `SdkRunsOnce` relies on.

### Mutants

Every property of every passing run has a mutant in the module it is about: a
definition with a plausible mistake (a dropped check, a stale value trusted, a
missing rebinding), named `Mutant...` and placed before the definition it would
replace. With the mutant in place the property is violated.

## 4. Proofs

Every theorem has the form `Spec => []Inv` (or `Spec =>` an action property or a
refinement) and holds for every value of the constants that the named
assumptions admit. `IInv` is the inductive invariant of a component (`WorkspaceInv`
and `CodexInv` of the two that share a proof module); TLC checked it on the
instance of the component's run before it was proved.
Below, what is proved, and why the invariant has to be stronger than the property.

**TaskDomainProofs** (`DomainTypeOK`, `DomainSnapshotValid`,
`DomainRunsOnCompleted`, `DomainCancellationReaches`). Assumptions: `DomainAssumption` (the bound is positive,
`None` is no name) and `NullAssumption` (`None` is no waiting fact). `IInv` is the
conjunction of the three properties; none is inductive alone: that a running
Task keeps its completed dependencies needs that a terminal Task is not mutable
and that a dependency is registered; that a new edge closes no cycle needs that
there was none. Most commands replace one Task, so the argument is made once:
`Sound(t, r)` says what is demanded of the record that replaces Task t,
`ReplacePreserves` shows that replacing by a sound record preserves the invariant
provided the graphs stay acyclic, `SameGraph`, `AddKeepsAcyclic` and
`ParentKeepsAcyclic` provide that, and each command only has to show that its
record is sound. `AddKeepsAcyclic` is the heart of it: if the target cannot
reach the source, the set of what the target reaches is closed under the new
edges too, so a cycle through the new edge would have been one before.
`CancelStep` treats the one command that changes several Tasks, and the action
property follows because no other command cancels (`OthersCancelNone`).

**ExecutionClaimsProofs** (`ClaimsTypeOK`, `ClaimsOneCurrent`, `ClaimsKeyNamesOne`,
`TakeoverSafe`). Assumptions: `ClaimsAssumption` and `AbsentAssumption` (`None` is
neither a row nor a command nor an answer). To the properties `IInv` adds what a
client carries over the gap between its preflight and its transaction: the
command names a stored execution of its Task (`CommandIsBound`), an answer "ok"
names a stored execution (`AnswerIsBound`), and the clock read in the preflight
is not in the future (`TrustedIsPast`), without which an expired lease could be
judged live. `TakeoverSafe` is the action property, shown step by step from
`IInv` for any set of backends: the transaction looks again at the unfinished
intents and the Manual turns, and `TrustedIsPast` bounds the age of its clock.

**SchedulerRegistrationProofs** (`SchedulerTypeOK`, `SchedulerImplementsOperation`,
`SchedulerRegistrationIsTrue`). Assumption: `SchedulerAssumption`. The refinement
maps initial states to initial states and every action to one action of
`Operation` or a stutter, from the invariant `Structure` (types, the shape of
intents and calls, at most one call per key between act and settle). The truth
of registrations needs more: one unsettled intent per revision (`OneOwner`),
revisions registered in order (`InOrder`), and for every revision without an
operation that was settled early and called late, what each intent and each call
under way implies about the scheduler (`RevisionIsTrue`). For the revisions with
such an operation nothing is proved, because the code does not keep the promise.

**IntegrationProofs** (`IntegrationTypeOK`, `IntegrationHolderIsCurrent`,
`IntegrationCompleted`). Assumption: `IntegrationAssumption`. The commit rules of
the code (`ReservationIsValid` of every reservation) are part of `IInv`, and with
them: the place of a process in the protocol is the state of its intent and it
owns the reservation while it may move a reference (`Holder`), an intent has one
process (`OneHolder`), fences are given out in order, and what is recorded or
answered as succeeded has been seen on its reference (`IntentReached`,
`AnswerReached`). `InvariantStep` proves once what a step of one process leaves
to the others.

**BackupRestoreProofs** (`BackupTypeOK`, `BackupStoreSees`,
`BackupPendingRecoverable`, `BackupReplacedRetained`). Assumptions:
`BackupAssumption` and `AbsentAssumption` (what is absent or torn is no content,
and the residue of a lock is nobody's). The lock makes lifecycle operations
sequential (`LockHeld`), so `OperationInPlace` can say for each place of an
operation what is on disk; `PendingInPlace` says what a pending restore replaces
and that it was allowed to. That the retained database keeps its commits through
all later writes is not inductive by itself: incarnations are ordered by the
restores that made them, and a retained one is older than the one in place
(`ReceiptInPlace`), so nothing appends to it.

**CompletionGatesProofs** (`GatesTypeOK`, `GatesVerdictIsTrue`, `GatesCompleted`).
Assumption: `GatesAssumption`. The evidence leaf carries the argument: a
published verdict is what the child did on the object of the policy's subject
(`Evidence`), a call may hold a verdict only if the leaf of its run has it
(`InCall`), an inspection is about a run of its gate under its receipt (`Row`).
`Grows` states what every step keeps (receipts their subject, runs what they are
about, published verdicts what they report), and everything not touched by a
step follows from it. `CompletedOnPassingHead` is carried as
`CompletedOnEvidence`, because the leaf is final while the history variable is
written twice.

**ReliableLoopProofs** (`LoopTypeOK`, `LoopOneUnfinished`, `LoopEffectAtMostOnce`,
`LoopObservationIsTrue`, `LoopTaskMatchesTurn`, `LoopSupersededIsFrozen`).
Assumption: `LoopAssumption`. The five invariants need each other, and what a
process carries from one transaction to the next: a receipt that it read of the
turn is still the turn when it is persisted (`Holds` in `WorkerShape`, and in
`RowShape` until the intent is finalized), because only the one unfinished
intent may be performed, and only while it is not. `RowShape`, `TurnShape` and
`ExecShape` say what the rows of an intent, a turn and an attempt imply about
each other (a performed operation is not ahead of its turn, a cancelled turn has
its request, attempts after the last have nothing). The steps fall into six
classes with one lemma each: a process only (`WorkerStep`), the unfinished intent
moves on (`ProgressStep`) or is finalized (`FinalStep`), an intent is prepared
(`InsertStep`), the journal performs (`PerformStep`, where `OneMoreCounted`
compares the revision of the turn with the number of the operations that moved
it), and everything around the loop (`OutsideStep`). `Grows` is what each of them
keeps. The theorems are about `Spec`, hence about `FairSpec` too.

**DispatcherRunProofs** (`RunsTypeOK`, `RunsDispatchedOnce`, `RunsAccounted`,
`RunsOnlyTheOwner`, `RunsStaleFirst`). Assumption: `RunsAssumption`. That stale runs
come first is decided long before the claim: when a run commits its
reconciliation. `IInv` therefore speaks about the stack of `continueRun` calls of
every worker (`StackShape`): of each run in the inventory that a call has read,
either it has ended, or the call holds it as bad, or it is still to be resolved,
or the next call on the stack is resolving it. At the commit nothing is left to
be resolved and there is no next call, so what was found stale has ended or is
held as bad (`RunShape`); a claim then finds no pending member in the first case
(`TerminalRunIsAccounted`) and is blocked in the second. `StackStays`,
`StackGrows`, `GotoStacks` and `PopStacks` show it for changes of a stack, of any
depth, and `RunsGrow` is all they ask of a step. A step leaves every run where
it is (`Quiet`: it may lose a stale run whose late heartbeat was accepted, or find
one that was taken over) except at most one, for which the lemma of the action
shows both the invariant (`Moved`) and the two action properties (`Legal`);
`StepDone` does the rest once.

**WorkspaceOperations**, in `TaskDomainProofs` (`WorkspaceKeepsTypes`,
`WorkspaceStatusIsTrue`, `WorkspaceCleanupIsQuiet`). Assumption:
`WorkspaceAssumption`. That the status of the generation is true of the disk
rests on who may still change the disk, so `WorkspaceInv` says for every call
under way what its place implies about its intent and about the disk
(`FitsIntent`): an answer "complete" that is not recorded yet is still true,
because only a removal takes a worktree away. An effect has one invoker, and a
cleanup one call altogether (`OneInvoker`); a create worker left behind has an
intent that is still executing or ambiguous, from the moment it is spawned
(`WorkerHasIntent`), which keeps any cleanup from acting; a cleanup past its act is the only open intent
(`IntentFits`). The least obvious part is `ReserveIsEarly`: while a reserve is
open, or ambiguous and recoverable at the present revision, neither a create nor a
cleanup was ever prepared, so a recovery that concludes "allocated" finds an empty
disk, whatever path of retries led to it. A recovery cannot conclude "cleaned",
because a chain that ends in a cleanup needs a completed Task, and the recovery
of a completed Task's workspace is refused. The steps fall into classes with one
lemma each: only a call moves (`CallStep`), a prepare transaction (`InsertStep`),
an intent moves on with the generation (`MoveStep`, under the conditions `Moves`
and `Leaves`), the disk changes (`DiskStep`). `RowsAreValid`, the commit rule of
the code, is part of the invariant: the recovery's root and the agreement of
finalizations with the generation come from there. The action property follows
because only `Remove` takes a worktree away (`OnlyRemoveTakesAway`) and a remover
is alone (`RemoverIsAlone`).

**CodexProduct**, in `ExecutionClaimsProofs` (`CodexTypeOK`, `CodexSdkRunsOnce`,
`CodexResultIsTrue`, `CodexContinuesKnownTurn`). Assumption: `CodexAssumption`.
`CodexInv` is the type invariant with three parts. `CallsOwn`: a call under way is
about an operation that exists. `BackendIsHonest`: one call at a time drives the
SDK for an operation, the one that journalled its turn, and a turn that has ended
has no driver left, is what the SDK did, and so stays as it is (`TurnIsHonest`);
what a call has in hand when it observes or fails agrees with it
(`CallIsHonest`). `RowsAreHonest`: what the intent observed and what the operation
stored follow the journal (`RowIsHonest`), and the source of a continuation is
known to have ended (`SourceIsKnown`). The rows are written by any number of calls with stale stages and no
compare-and-set; what keeps the stage of an operation whose act was authorized
is the validation of the whole state at the commit (`Valid`), and that is the
step of the proof on which `SdkRunsOnce` rests.

Only model-checked: the liveness property of the loop (`IntentsFinalize`), since the
prover has no rule for fairness or ENABLED. No module uses recursive operators.

## 5. Not modelled

Authorization as such (its verdict is nondeterministic wherever the code asks for
it), the Project registry, application requests with their previews and
confirmations, SQLite set-up and migrations, and the command line: parsing,
wiring and I/O. Of modelled components, `scheduler.inspect`, `execution.cancel` and
`execution.inspect` of a finished Codex turn are left out because they only add
evidence that no modelled step reads, or reads only as a refusal; the path, ACL
and Git plumbing checks of the adapters are one failure each; a second workspace
generation of one owner is not reachable (its predecessor would have to be
cleaned, which needs a completed Task, for which nothing is reserved). Row
decoding and digests are left out on purpose: they are parsing without control.
`PROJECT.json` gives the reason for each.

## 6. Plan

The order is by how much of the program's promise rests on a part.

1. Done: `TaskDomain` with its proofs, `ExecutionClaims`, `ReliableLoop`,
   `DispatcherRun`, `WorkspaceOperations`, `Integration`, `CompletionGates`,
   `SchedulerRegistration` with `Operation`, `BackupRestore`, `CodexProduct`.
2. Done: proofs of all ten components, with the refinement of `Operation` by
   `SchedulerRegistration` and the action properties.
3. Further abstractions worth stating: a `Lease` specification (one holder at a
   time, increasing fences) that `ExecutionClaims` and `Integration` refine, and
   `Operation` as the abstraction of the workspace operations, of apply and push,
   and of the product operations.
