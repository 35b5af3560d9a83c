---------------------------- MODULE DispatcherRun ----------------------------
(***************************************************************************)
(* Dispatcher runs (src/src/dispatcher-application.ts and                  *)
(* src/src/dispatcher.ts): a run reconciles what earlier workers left      *)
(* behind, seals the set of eligible Tasks, resolves every member of the   *)
(* sealed set, and ends with a summary.  A run is owned by one worker      *)
(* under a lease; when the worker dies another takes the run over, or a    *)
(* later run finds it stale and recovers it before its own sweep.          *)
(*                                                                         *)
(* Abstractions.                                                           *)
(*  - Runs are numbered in the order of their creation.                    *)
(*  - Time is one bit per run: its lease has expired.  The trusted time of *)
(*    a transaction is read before it, so a worker acts on the bit of its  *)
(*    previous step (sawExpired); its clock is strictly monotonic, so its  *)
(*    own heartbeats are always forward.                                   *)
(*  - The two checkpoints between one resource or member and the next are  *)
(*    one, and the first inspect of a call happens with the call: reading  *)
(*    later is calling later.                                              *)
(*  - A call that compares owner and run revision with a view of the run   *)
(*    is refused once somebody else has advanced the run.                  *)
(*  - A dead worker's identity is never used again: its runs are owned by  *)
(*    Nobody, and its place is taken by a new worker.                      *)
(*  - A refusal (stale view, denied authorization, thrown error) ends the  *)
(*    current run's continuation: Fail.                                    *)
(*  - Reconciling an execution intent or lease is the reliable loop's      *)
(*    business (ReliableLoop); here it is one resource per claimed Task    *)
(*    and succeeds or not.  The five dispositions are good (reconciled,    *)
(*    no_effect) or bad; the outcomes ineligible_at_cas,                   *)
(*    authorization_denied, deferred and reconciliation_required are       *)
(*    skipped.  Members are visited in any order.                          *)
(*  - The Project is one; a changed or disabled Project is a verdict a     *)
(*    member may meet at any time.                                         *)
(***************************************************************************)
EXTENDS Naturals, Sequences, FiniteSets

CONSTANTS
    Workers, Tasks,
    Keys,           \* idempotency keys of explicit triggers
    Slots,          \* scheduled tuples: schedule, revision and instant
    Nobody,
    MaxRuns,        \* bound of the number of runs
    MaxExpiries     \* bound of the lease expiries

ASSUME RunsAssumption ==
    /\ MaxRuns \in Nat /\ MaxExpiries \in Nat
    /\ Nobody \notin Workers \cup Tasks \cup Keys \cup Slots

VARIABLES
    run,        \* run[r]: the run, its reconciliation summary and its sealed members
    expired,    \* the runs whose lease has expired
    denied,     \* the idempotency keys whose trigger was denied
    task,       \* task[t]: [state, start, by]
    worker,     \* worker[w]: the stack of continueRun calls of worker w
    expiries    \* the number of lease expiries so far

vars == <<run, expired, denied, task, worker, expiries>>

Runs == 1..MaxRuns
ActiveStatuses == {"starting", "reconciling", "sweeping"}
TerminalStatuses == {"completed", "partial", "failed"}
Outcomes == {"claimed", "already_claimed", "skipped"}

NoRun ==
    [status |-> "absent", key |-> Nobody, owner |-> Nobody, work |-> {}, stale |-> {}, recovered |-> {},
     reconciled |-> FALSE, badRuns |-> {}, badWork |-> FALSE,
     member |-> [t \in Tasks |-> "none"], changed |-> {}]

(* One call of continueRun: the run, where the call is, whether the time   *)
(* it read is past the lease, the inventory it read and what is left of    *)
(* it, the members it has still to visit and those it read as pending.     *)
Frame(r) ==
    [run |-> r, pc |-> "refused", sawExpired |-> FALSE,
     inventory |-> {}, work |-> {}, runs |-> {}, badRuns |-> {}, badWork |-> FALSE,
     sweep |-> {}, unresolved |-> {}, at |-> Nobody]

Init ==
    /\ run = [r \in Runs |-> NoRun]
    /\ expired = {}
    /\ denied = {}
    /\ task \in [Tasks -> [state : {"planned", "ready"}, start : {"none"}, by : {0}]]
    /\ worker = [w \in Workers |-> <<>>]
    /\ expiries = 0

-----------------------------------------------------------------------------
Exists(r) == run[r].status # "absent"
Active(r) == run[r].status \in ActiveStatuses
RunsOf(k) == {r \in Runs : Exists(r) /\ run[r].key = k}
Idle(w) == worker[w] = <<>>
Top(w) == worker[w][Len(worker[w])]
At(w, pc) == ~Idle(w) /\ Top(w).pc = pc

(* evaluateTaskEligibility, as far as the dispatcher sees it. *)
Eligible(t) == task[t].state = "ready"
Claimed(t) == task[t].state = "running"

Sealed(r) == run[r].status \notin {"absent", "starting", "reconciling"}

(* reconciliationInventory: the resources are fixed by what was open when  *)
(* the run was created, except for runs whose late heartbeat was accepted  *)
(* and runs taken over since.                                              *)
Inventory(r) == run[r].stale \cup run[r].recovered

(* The worker does not compare the run's owner with itself. *)
MutantOwns(w, r) ==
    /\ Active(r)
    /\ ~Top(w).sawExpired

(* runFailure: owner, revisions, status and lease. *)
Owns(w, r) ==
    /\ run[r].owner = w
    /\ Active(r)
    /\ ~Top(w).sawExpired

(* The calls that pass a view of the run and a trusted time to the         *)
(* application service.                                                    *)
Fenced == {"takeover", "begin", "commit", "seal", "claim", "finalize"}
Checkpoints == {"reconcile", "sweep", "claimed"}
Timed == Fenced \cup Checkpoints

(* The worker's top call goes on at f; advanced: the run's revision moved, *)
(* so a call of somebody else that holds a view of it will be refused.     *)
Goto(w, f, advanced) ==
    worker' = [v \in Workers |->
      [i \in 1..Len(worker[v]) |->
         LET g == IF v = w /\ i = Len(worker[w]) THEN f ELSE worker[v][i]
         IN IF v # w
            THEN IF advanced /\ g.run = f.run /\ g.pc \in Fenced THEN Frame(g.run) ELSE g
            ELSE [g EXCEPT !.sawExpired = g.pc \in Timed /\ g.run \in expired']]]

(* Where a call goes on after its first inspect: a run of another worker   *)
(* has to be taken over, otherwise the status says.                        *)
NextPhase(r) ==
    CASE run[r].status = "starting" -> "begin"
      [] run[r].status = "sweeping" -> "members"
      [] run[r].status = "reconciling" -> IF run[r].reconciled THEN "seal" ELSE "inventory"

(* A call of continueRun for r, with its inspect.  The call of a run that  *)
(* has just been created finds it as its owner.                            *)
Entered(w, r) ==
    [Frame(r) EXCEPT !.sawExpired = r \in expired,
                     !.pc = IF ~Exists(r) THEN "begin"
                            ELSE IF run[r].owner = w THEN NextPhase(r) ELSE "takeover"]

Push(w, r) == worker' = [worker EXCEPT ![w] = Append(@, Entered(w, r))]

(* A call returns to the run that was recovering it, or ends. *)
Pop(w, recovered) ==
    LET outer == SubSeq(worker[w], 1, Len(worker[w]) - 1)
        caller == outer[Len(outer)]
        s == Top(w).run
    IN worker' = [worker EXCEPT ![w] =
         IF outer = <<>> THEN <<>>
         ELSE [outer EXCEPT ![Len(outer)] =
                 [caller EXCEPT !.pc = "reconcile", !.badRuns = IF recovered THEN @ ELSE @ \cup {s}]]]

-----------------------------------------------------------------------------
(* Creating a run.                                                         *)

(* insertDispatcherRun: what is open at this moment is its inventory; a    *)
(* claimed Task whose start is settled is in it when its execution's lease *)
(* has expired.                                                            *)
CreateRun(w, k, r) ==
    /\ r = Cardinality({s \in Runs : Exists(s)}) + 1
    /\ \E leases \in SUBSET {t \in Tasks : Claimed(t)} :
         run' = [run EXCEPT ![r] =
           [NoRun EXCEPT !.status = "starting", !.key = k, !.owner = w,
              !.work = leases \cup {t \in Tasks : task[t].start = "pending"},
              !.stale = {s \in expired : Active(s)}]]
    /\ UNCHANGED <<expired, denied, task>>

(* run: start, which replays the run of a known key, and then continueRun  *)
(* unless the run is over or somebody else's under a live lease.           *)
Trigger(w, k) ==
    /\ Idle(w)
    /\ \/ /\ RunsOf(k) = {} /\ k \notin denied
          /\ \E r \in Runs : CreateRun(w, k, r) /\ Push(w, r)
       \/ /\ RunsOf(k) = {} /\ k \notin denied
          /\ denied' = denied \cup {k}
          /\ UNCHANGED <<run, expired, task, worker>>
       \/ \E r \in RunsOf(k) :
             /\ Active(r)
             /\ run[r].owner = w \/ r \in expired
             /\ UNCHANGED <<run, expired, denied, task>>
             /\ Push(w, r)

(* deliverScheduled: the first delivery of a scheduled tuple creates its   *)
(* run, every later one is attached to it; a malformed or denied delivery  *)
(* and one of a configuration that is not current are only observed.       *)
DeliverScheduled(w, k) ==
    /\ Idle(w)
    /\ RunsOf(k) = {}
    /\ \E r \in Runs : CreateRun(w, k, r)
    /\ UNCHANGED worker

(* resume: on somebody else's run under a live lease it comes to nothing,  *)
(* or to what a resume after the expiry comes to.                          *)
Resume(w, r) ==
    /\ Idle(w)
    /\ Active(r)
    /\ run[r].owner = w \/ r \in expired
    /\ UNCHANGED <<run, expired, denied, task>>
    /\ Push(w, r)

-----------------------------------------------------------------------------
(* continueRun.                                                            *)

(* takeOverDispatcherRun, and the audit entry that puts the run into the   *)
(* inventory of every later run (read until that run has reconciled).      *)
Takeover(w) ==
    LET f == Top(w)
        r == f.run
    IN /\ At(w, "takeover")
       /\ Active(r) /\ r \in expired
       /\ run[r].owner # w
       /\ run' = [s \in Runs |->
            IF s = r THEN [run[r] EXCEPT !.owner = w]
            ELSE IF s > r /\ Exists(s) /\ ~run[s].reconciled THEN [run[s] EXCEPT !.recovered = @ \cup {r}]
            ELSE run[s]]
       /\ expired' = expired \ {r}
       /\ Goto(w, [f EXCEPT !.pc = NextPhase(r)], TRUE)
       /\ UNCHANGED <<denied, task>>

(* advanceDispatcherRun: a new lease.  When the time was read before the   *)
(* old lease expired, the new one may or may not reach past the present.   *)
Advance(r, record) ==
    \/ /\ expired' = expired \ {r}
       /\ run' = [s \in Runs |->
            IF s = r THEN record
            ELSE [run[s] EXCEPT !.stale = IF r \in expired THEN @ \ {r} ELSE @]]
    \/ /\ r \in expired
       /\ run' = [run EXCEPT ![r] = record]
       /\ UNCHANGED expired

BeginReconciliation(w) ==
    LET f == Top(w)
        r == f.run
    IN /\ At(w, "begin")
       /\ Owns(w, r)
       /\ run[r].status = "starting"
       /\ Advance(r, [run[r] EXCEPT !.status = "reconciling"])
       /\ Goto(w, [f EXCEPT !.pc = "inventory"], TRUE)
       /\ UNCHANGED <<denied, task>>

ReadInventory(w) ==
    LET f == Top(w)
        r == f.run
    IN /\ At(w, "inventory")
       /\ run[r].status = "reconciling"
       /\ UNCHANGED <<run, expired, denied, task>>
       /\ Goto(w, [f EXCEPT !.pc = "reconcile", !.inventory = Inventory(r),
                            !.work = run[r].work, !.runs = Inventory(r)], FALSE)

AfterCheckpoint(f) ==
    CASE f.pc = "reconcile" -> IF f.work # {} \/ f.runs # {} THEN "resource" ELSE "commit"
      [] f.pc = "sweep" -> IF f.sweep # {} THEN "claim" ELSE "finalize"
      [] f.pc = "claimed" -> "start"

(* heartbeatCheckpoint: the owner's heartbeat.  A worker whose run was     *)
(* ended or taken over and whose clock is not past the new owner's         *)
(* heartbeat gets the new view and goes on.                                *)
Checkpoint(w) ==
    LET f == Top(w)
        r == f.run
        g == [f EXCEPT !.pc = AfterCheckpoint(f)]
    IN /\ ~Idle(w)
       /\ f.pc \in Checkpoints
       /\ \/ /\ Active(r) /\ run[r].owner = w /\ ~f.sawExpired
             /\ Advance(r, run[r])
             /\ Goto(w, g, TRUE)
          \/ /\ ~Active(r) \/ run[r].owner # w
             /\ UNCHANGED <<run, expired>>
             /\ Goto(w, g, FALSE)
       /\ UNCHANGED <<denied, task>>

(* processIntent and resolveExecutionLease for the work of a Task: the     *)
(* start is settled, or the disposition is bad.                            *)
ResolveWork(w, t) ==
    LET f == Top(w) IN
    /\ At(w, "resource")
    /\ t \in f.work
    /\ UNCHANGED <<run, expired, denied>>
    /\ \/ /\ task' = [task EXCEPT ![t].start = IF @ = "pending" THEN "finalized" ELSE @]
          /\ Goto(w, [f EXCEPT !.pc = "reconcile", !.work = @ \ {t}], FALSE)
       \/ /\ Goto(w, [f EXCEPT !.pc = "reconcile", !.work = @ \ {t}, !.badWork = TRUE], FALSE)
          /\ UNCHANGED task

(* A stale run is continued to its end, unless it has ended already. *)
ResolveRun(w, s) ==
    LET f == Top(w)
        g == [f EXCEPT !.pc = "reconcile", !.runs = @ \ {s}]
    IN /\ At(w, "resource")
       /\ f.work = {} /\ s \in f.runs
       /\ UNCHANGED <<run, expired, denied, task>>
       /\ IF Active(s)
          THEN worker' = [worker EXCEPT ![w] =
                 Append([@ EXCEPT ![Len(worker[w])] = g], Entered(w, s))]
          ELSE Goto(w, g, FALSE)

CommitReconciliation(w) ==
    LET f == Top(w)
        r == f.run
    IN /\ At(w, "commit")
       /\ Owns(w, r)
       /\ run[r].status = "reconciling"
       /\ f.inventory = Inventory(r)
       /\ Advance(r, [run[r] EXCEPT !.reconciled = TRUE, !.badRuns = f.badRuns,
                                    !.badWork = f.badWork])
       /\ Goto(w, [Frame(r) EXCEPT !.pc = "seal"], TRUE)
       /\ UNCHANGED <<denied, task>>

(* The seal holds the Tasks that are eligible in its own transaction. *)
SealCandidates(w) ==
    LET f == Top(w)
        r == f.run
    IN /\ At(w, "seal")
       /\ Owns(w, r)
       /\ run[r].status = "reconciling" /\ run[r].reconciled
       /\ Advance(r, [run[r] EXCEPT !.status = "sweeping",
                         !.member = [t \in Tasks |-> IF Eligible(t) THEN "pending" ELSE "none"]])
       /\ Goto(w, [f EXCEPT !.pc = "members"], TRUE)
       /\ UNCHANGED <<denied, task>>

Pending(r, t) == run[r].member[t] = "pending"

ReadMembers(w) ==
    LET f == Top(w) IN
    /\ At(w, "members")
    /\ UNCHANGED <<run, expired, denied, task>>
    /\ Goto(w, [f EXCEPT !.pc = "sweep",
                         !.sweep = {t \in Tasks : run[f.run].member[t] # "none"},
                         !.unresolved = {t \in Tasks : Pending(f.run, t)}], FALSE)

(* A bad disposition of a stale run does not hold back its members. *)
MutantBlocked(r, t) == FALSE

(* A stale run that could not be recovered holds back its own members. *)
Blocked(r, t) == \E s \in run[r].badRuns : run[s].member[t] # "none"

(* The member is claimed as it was sealed. *)
MutantVerdicts(r, t) == {"skipped", "claimed"}

(* What claimAndPrepareMember may decide.  The authorization may be denied *)
(* and the Project be disabled or changed at any time (skipped); the rest  *)
(* follows from the Task as it is now.                                     *)
Verdicts(r, t) ==
    {"skipped",
     IF Claimed(t) THEN "already_claimed"
     ELSE IF t \in run[r].changed \/ ~Eligible(t) \/ Blocked(r, t) THEN "skipped"
     ELSE "claimed"}

(* claimAndPrepareMember for a member that was read as pending: the        *)
(* outcome and, if it is claimed, the execution and its start intent in    *)
(* one transaction.  A member that is resolved by now is returned.         *)
ClaimMember(w, t) ==
    LET f == Top(w)
        r == f.run
    IN /\ At(w, "claim")
       /\ t \in f.sweep
       /\ t \in f.unresolved => Owns(w, r) /\ run[r].status = "sweeping"
       /\ IF t \in f.unresolved /\ Pending(r, t)
          THEN \E v \in Verdicts(r, t) :
                 /\ run' = [run EXCEPT ![r].member[t] = v, ![r].changed = @ \ {t}]
                 /\ task' = IF v = "claimed"
                            THEN [task EXCEPT ![t] = [state |-> "running",
                                                      start |-> "pending", by |-> r]]
                            ELSE task
          ELSE UNCHANGED <<run, task>>
       /\ UNCHANGED <<expired, denied>>
       /\ Goto(w, [f EXCEPT !.pc = "claimed", !.at = t, !.sweep = @ \ {t},
                            !.unresolved = @ \ {t}], FALSE)

(* The start of a claimed member by the reliable loop, or the recovery of  *)
(* its execution; anything but a settled start ends the continuation.      *)
StartMember(w) ==
    LET f == Top(w) IN
    /\ At(w, "start")
    /\ task' = [task EXCEPT ![f.at].start =
                   IF run[f.run].member[f.at] = "claimed" THEN "finalized" ELSE @]
    /\ UNCHANGED <<run, expired, denied>>
    /\ Goto(w, [f EXCEPT !.pc = "sweep", !.at = Nobody], FALSE)

(* Every sealed member is terminal and every claimed start is finalized. *)
MembersSettled(r) ==
    \A t \in Tasks :
       /\ run[r].member[t] # "pending"
       /\ run[r].member[t] = "claimed" => task[t].start = "finalized"

(* The summary takes over the outcome its members have in common. *)
MutantCommonOutcome(r) ==
    IF \A t \in Tasks : run[r].member[t] = "skipped" THEN "skipped" ELSE "partial"

(* The summary looks at the members only. *)
MutantMembersOnly(r) ==
    IF \E t \in Tasks : run[r].member[t] = "skipped" THEN "partial" ELSE "completed"

(* The outcome failed (a member without its Task) does not arise. *)
TerminalStatus(r) ==
    LET members == {t \in Tasks : run[r].member[t] # "none"}
        bad == run[r].badWork \/ run[r].badRuns # {}
    IN IF members = {} /\ bad THEN "failed"
       ELSE IF bad \/ \E t \in members : run[r].member[t] \notin {"claimed", "already_claimed"}
       THEN "partial" ELSE "completed"

(* finalize; the owner of a run that has ended is never read again. *)
Finalize(w) ==
    LET r == Top(w).run IN
    /\ At(w, "finalize")
    /\ Owns(w, r)
    /\ run[r].status = "sweeping"
    /\ MembersSettled(r)
    /\ Advance(r, [run[r] EXCEPT !.status = TerminalStatus(r), !.owner = Nobody])
    /\ Pop(w, TRUE)
    /\ UNCHANGED <<denied, task>>

(* The call is refused and returns an error; a read that fails is a        *)
(* refusal of the step after it.                                           *)
Fail(w) ==
    /\ ~Idle(w)
    /\ Top(w).pc \notin {"inventory", "members"}
    /\ Pop(w, FALSE)
    /\ UNCHANGED <<run, expired, denied, task>>

-----------------------------------------------------------------------------
(* What happens around the dispatcher.                                     *)

(* The process dies, at the latest in the next call it would make; whoever *)
(* comes next has another identity.                                        *)
Die(w) ==
    /\ ~Idle(w)
    /\ run' = [r \in Runs |->
         [run[r] EXCEPT !.owner = IF @ = w THEN Nobody ELSE @]]
    /\ worker' = [worker EXCEPT ![w] = <<>>]
    /\ UNCHANGED <<expired, denied, task, expiries>>

Expire(r) ==
    /\ Active(r)
    /\ r \notin expired
    /\ expired' = expired \cup {r}
    /\ expiries < MaxExpiries /\ expiries' = expiries + 1
    /\ UNCHANGED <<run, denied, task, worker>>

MarkReady(t) ==
    /\ task[t].state = "planned"
    /\ task' = [task EXCEPT ![t].state = "ready"]
    /\ UNCHANGED <<run, expired, denied, worker>>

(* task.update: the sealed revision of the member is no longer current. *)
EditTask(t) ==
    /\ task[t].state = "ready"
    /\ \E r \in Runs : Pending(r, t) /\ t \notin run[r].changed
    /\ run' = [r \in Runs |->
         [run[r] EXCEPT !.changed = IF Pending(r, t) THEN @ \cup {t} ELSE @]]
    /\ UNCHANGED <<expired, denied, task, worker>>

(* execution.claim by a client (see ExecutionClaims). *)
ClientClaim(t) ==
    /\ Eligible(t)
    /\ task' = [task EXCEPT ![t] = [state |-> "running", start |-> "none", by |-> 0]]
    /\ UNCHANGED <<run, expired, denied, worker>>

(* The reliable loop settles a start, whoever calls it (see ReliableLoop). *)
LoopFinalize(t) ==
    /\ task[t].start = "pending"
    /\ task' = [task EXCEPT ![t].start = "finalized"]
    /\ UNCHANGED <<run, expired, denied, worker>>

-----------------------------------------------------------------------------
Step(w) ==
    \/ Takeover(w) \/ BeginReconciliation(w) \/ ReadInventory(w)
    \/ Checkpoint(w) \/ CommitReconciliation(w) \/ SealCandidates(w)
    \/ ReadMembers(w) \/ StartMember(w) \/ Finalize(w)
    \/ \E t \in Tasks : ResolveWork(w, t) \/ ClaimMember(w, t)
    \/ \E s \in Runs : ResolveRun(w, s)

Next ==
    \/ /\ \/ \E w \in Workers :
                \/ \E k \in Keys : Trigger(w, k)
                \/ \E k \in Slots : DeliverScheduled(w, k)
                \/ \E r \in Runs : Resume(w, r)
                \/ Step(w) \/ Fail(w)
          \/ \E t \in Tasks : MarkReady(t) \/ EditTask(t) \/ ClientClaim(t) \/ LoopFinalize(t)
       /\ UNCHANGED expiries
    \/ \E w \in Workers : Die(w)
    \/ \E r \in Runs : Expire(r)

Spec == Init /\ [][Next]_vars

-----------------------------------------------------------------------------
(* Properties.                                                             *)

(* The shape of runs, Tasks and calls. *)
TypeOK ==
    /\ run \in [Runs ->
         [status : {"absent"} \cup ActiveStatuses \cup TerminalStatuses,
          key : Keys \cup Slots \cup {Nobody}, owner : Workers \cup {Nobody},
          work : SUBSET Tasks, stale : SUBSET Runs, recovered : SUBSET Runs,
          reconciled : BOOLEAN, badRuns : SUBSET Runs, badWork : BOOLEAN,
          member : [Tasks -> {"none", "pending"} \cup Outcomes], changed : SUBSET Tasks]]
    /\ expired \subseteq Runs
    /\ denied \subseteq Keys
    /\ expiries \in 0..MaxExpiries
    /\ task \in [Tasks -> [state : {"planned", "ready", "running"},
                           start : {"none", "pending", "finalized"}, by : {0} \cup Runs]]

(* Nothing is dispatched twice.  A trigger or a scheduled tuple has one    *)
(* run, however often and by whichever workers it is delivered; and a Task *)
(* is claimed by the one member that says so: two runs that sealed the     *)
(* same Task, or a run and a client, never both claim it, and no claim of  *)
(* a run is without its member outcome.                                    *)
DispatchedOnce ==
    /\ \A r, s \in Runs : (Exists(r) /\ Exists(s) /\ run[r].key = run[s].key) => r = s
    /\ \A t \in Tasks, r \in Runs : run[r].member[t] = "claimed" <=> task[t].by = r

(* A run that has ended accounts for everything: it reconciled first, no   *)
(* member is pending, every claimed start is settled, and it is completed  *)
(* only if no disposition was bad and every member is claimed.             *)
TerminalRunIsAccounted ==
    \A r \in Runs : run[r].status \in TerminalStatuses =>
       /\ run[r].reconciled
       /\ \A t \in Tasks : /\ run[r].member[t] # "pending"
                           /\ run[r].member[t] = "claimed" => task[t].start = "finalized"
       /\ run[r].status = "completed" =>
             /\ run[r].badRuns = {} /\ ~run[r].badWork
             /\ \A t \in Tasks : run[r].member[t] \in {"none", "claimed", "already_claimed"}

(* Only the current owner advances a run or resolves its members: a worker *)
(* whose run was taken over, even one whose checkpoint returned the new    *)
(* owner's revisions, changes nothing of it.  The sealed set is final: no  *)
(* member is added, dropped or resolved twice, by whichever worker         *)
(* finishes the run, and a run that has ended stays as it is.              *)
OnlyTheOwnerAdvances ==
    [][\A r \in Runs :
          /\ (/\ Exists(r)
              /\ <<run[r].status, run[r].member, run[r].reconciled>>
                    # <<run'[r].status, run'[r].member, run'[r].reconciled>>)
             => \E w \in Workers :
                   /\ run[r].owner = w
                   /\ ~Idle(w) /\ Top(w).run = r /\ worker'[w] # worker[w]
          /\ Sealed(r) => \A t \in Tasks :
                IF run[r].member[t] = "pending"
                THEN run'[r].member[t] # "none"
                ELSE run'[r].member[t] = run[r].member[t]
          /\ run[r].status \in TerminalStatuses => run'[r].status = run[r].status]_vars

(* Stale work comes first: a run claims no Task that is a member, still to *)
(* be resolved, of an older run it found stale.                            *)
StaleRunsFirst ==
    [][\A r \in Runs, t \in Tasks :
          (run[r].member[t] # "claimed" /\ run'[r].member[t] = "claimed")
             => \A s \in run[r].stale : run[s].member[t] # "pending"]_vars
=============================================================================
