------------------------- MODULE WorkspaceOperations -------------------------
(***************************************************************************)
(* The durable workspace operations of one execution attempt:              *)
(* src/src/workspace-application.ts (reserve, create, inspect, recover),   *)
(* the cleanup of src/src/completion-application.ts, the Windows Git       *)
(* adapter (src/src/workspace-git-adapter.ts) with its worker process, and *)
(* the rules under which a transaction may commit.                         *)
(*                                                                         *)
(* Every write transaction re-reads and validates the whole state before   *)
(* it commits (withApplicationTransaction), and triggers refuse illegal    *)
(* status changes.  A transaction is therefore an action guarded by Commit;*)
(* one that may not commit is rolled back and its caller gets an error,    *)
(* which is the action Stop.  Stop is also the death of a caller and every *)
(* early return that writes nothing but request, decision and event rows.  *)
(*                                                                         *)
(* Abstractions.                                                           *)
(*  - One owner tuple (Project, Task, run, member, execution), hence one   *)
(*    generation: a successor needs a cleaned predecessor, and cleanup     *)
(*    needs the completed Task, for which nothing can be reserved.         *)
(*  - An intent is named by its idempotency key.  A command names the      *)
(*    revisions of the owner tuple it was built from; when one of them     *)
(*    advances, the calls under way become stale.                          *)
(*  - A failure of the backend is plain or ambiguous; the adapter sends no *)
(*    refused receipts.  Authorization and runtime checks may fail at any  *)
(*    phase.                                                               *)
(*  - The processes of one create are one worker, which begins and ends    *)
(*    whenever it likes once it is spawned.  The worker of a cleanup       *)
(*    spawns nothing and is killed when its caller gives up on it; what it *)
(*    does after its caller died is left out: the intent stays executing   *)
(*    and no call can go on with it.                                       *)
(***************************************************************************)
EXTENDS Naturals, FiniteSets

CONSTANTS
    Callers,        \* processes that call the services
    Keys,           \* idempotency keys
    Nobody,
    MaxInspects     \* bound of the number of inspect intents

ASSUME WorkspaceAssumption == Nobody \notin Keys /\ MaxInspects \in Nat

VARIABLES
    gen,            \* [status, rev]: the generation
    intent,         \* intent[k]: the operation intent with key k
    owner,          \* the owning Task: "running", "waiting" or "completed"
    disk,           \* the worktree: "absent", "partial", "complete" or "dirty"
    worker,         \* worker[k]: the create worker of key k: "none", "spawned" or "building"
    caller          \* caller[p]: where the call of process p is

rows == <<gen, intent>>
workspaceVars == <<gen, intent, owner, disk, worker, caller>>

Statuses == {"none", "allocated", "reserved", "creating", "ready", "cleaning", "recovery_required", "cleaned"}
Effects == {"reserve", "create", "cleanup"}
Operations == Effects \cup {"inspect", "recover"}
States == {"none", "pending", "executing", "observed", "verified", "finalized", "ambiguous", "failed"}
Observed == {"absent", "reserved", "partial", "complete", "removed"}

NoIntent ==
    [op |-> "none", state |-> "none", cause |-> Nobody, prepRev |-> 0, actRev |-> 0,
     expRev |-> 0, expStatus |-> "none", ext |-> "none", failure |-> "none", closed |-> FALSE]
Idle == [pc |-> "idle", key |-> Nobody, stale |-> FALSE, res |-> "none"]

(* Nothing has been reserved yet; or reserve and create have been          *)
(* finalized, of which the intent of create is the one that is still read. *)
WorkspaceInit ==
    /\ \/ /\ gen = [status |-> "none", rev |-> 0]
          /\ intent = [k \in Keys |-> NoIntent]
          /\ disk = "absent"
       \/ /\ gen = [status |-> "ready", rev |-> 5]
          /\ \E k \in Keys :
               intent = [j \in Keys |-> IF j # k THEN NoIntent ELSE
                   [op |-> "create", state |-> "finalized", cause |-> Nobody, prepRev |-> 3, actRev |-> 4,
                    expRev |-> 5, expStatus |-> "ready", ext |-> "complete", failure |-> "none", closed |-> TRUE]]
          /\ disk = "complete"
    /\ owner = "running"
    /\ worker = [k \in Keys |-> "none"]
    /\ caller = [p \in Callers |-> Idle]

-----------------------------------------------------------------------------
Exists(k) == intent[k].state # "none"
Terminal == {"finalized", "ambiguous", "failed"}
Unfinished(k) == Exists(k) /\ intent[k].state \notin Terminal

(* workspaceRecoveryCausationProof: from the named cause back to the       *)
(* original operation every node is ambiguous and left the generation in   *)
(* recovery_required at exactly this revision.                             *)
IsCausalNode(c, rev) ==
    intent[c].state = "ambiguous" /\ intent[c].expRev = rev /\ intent[c].expStatus = "recovery_required"

(* The nodes the walk visits: the least set that contains the named cause  *)
(* and, with each node that is a recovery, what that one names.            *)
Visited(rev, cause) ==
    LET IsWalked(S) ==
            /\ cause \in S
            /\ \A c \in S : IsCausalNode(c, rev) /\ intent[c].op = "recover" =>
                             intent[c].cause \in S \cup {Nobody}
    IN {c \in Keys : \A S \in SUBSET Keys : IsWalked(S) => c \in S}

(* The operation at the end of the walk, "none" when there is no proof.    *)
RecoveryRoot(rev, cause) ==
    LET ends == {c \in Keys : /\ IsCausalNode(c, rev) /\ intent[c].op \in Effects
                              /\ c \in Visited(rev, cause)}
    IN IF cause = Nobody \/ ends = {} THEN "none"
       ELSE CHOOSE op \in {intent[c].op : c \in ends} : TRUE

(* Mutant: a recovered create is taken for done whatever was found. *)
MutantStatusAfterReceipt(k, ext, current) ==
    CASE intent[k].op = "reserve" -> "reserved"
      [] intent[k].op = "create" -> "ready"
      [] intent[k].op = "cleanup" -> "cleaned"
      [] intent[k].op = "inspect" -> current
      [] intent[k].op = "recover" ->
           IF RecoveryRoot(intent[k].prepRev, intent[k].cause) = "create" THEN "ready" ELSE "allocated"

(* workspaceGenerationStatusAfterReceipt without its ambiguous outcomes. *)
StatusAfterReceipt(k, ext, current) ==
    CASE intent[k].op = "reserve" -> "reserved"
      [] intent[k].op = "create" -> "ready"
      [] intent[k].op = "cleanup" -> "cleaned"
      [] intent[k].op = "inspect" -> current
      [] intent[k].op = "recover" ->
           IF ext = "complete" THEN "ready"
           ELSE CASE RecoveryRoot(intent[k].prepRev, intent[k].cause) = "cleanup" -> "cleaned"
                  [] RecoveryRoot(intent[k].prepRev, intent[k].cause) = "create" -> "reserved"
                  [] OTHER -> "allocated"

(* workspaceAmbiguousGenerationStatus *)
AmbiguousStatus(op, current) == IF op = "inspect" THEN current ELSE "recovery_required"

(* workspaceGenerationStatusAfterFailure *)
StatusAfterFailure(op, failure, current) ==
    IF failure = "ambiguous" THEN AmbiguousStatus(op, current)
    ELSE CASE op = "reserve" -> "allocated"
           [] op = "create" -> "reserved"
           [] op = "cleanup" -> "ready"
           [] op = "recover" -> "recovery_required"
           [] op = "inspect" -> current

(* The lifecycle of the update guard on workspace_generations. *)
LegalChange ==
    {<<"none", "allocated">>} \cup
    ({"allocated"} \X {"allocated", "reserved", "recovery_required"}) \cup
    {<<"reserved", "creating">>, <<"ready", "cleaning">>} \cup
    ({"creating"} \X {"ready", "reserved", "recovery_required"}) \cup
    ({"cleaning"} \X {"cleaned", "ready", "recovery_required"}) \cup
    ({"recovery_required"} \X {"allocated", "reserved", "ready", "cleaned"})

(* validateWorkspaceState on an intent: the decisions name revisions the   *)
(* generation has reached, a recovery acts at the revision it was prepared *)
(* for and descends from an unresolved operation of that revision, and     *)
(* only a finalized intent has the closing event.                          *)
LineageIsValid(k) ==
    LET i == intent[k]
    IN /\ i.prepRev <= gen.rev /\ i.actRev <= gen.rev /\ i.expRev <= gen.rev
       /\ i.op = "recover" =>
            /\ RecoveryRoot(i.prepRev, i.cause) # "none"
            /\ i.actRev \in {0, i.prepRev}
       /\ i.closed => i.state = "finalized"

(* validateWorkspaceState on a finalization: it names the status its       *)
(* evidence implies, and the generation still has it unless it moved on.   *)
FinalizationIsConsistent(k) ==
    LET i == intent[k]
    IN i.state \in Terminal =>
       /\ i.expRev = gen.rev => i.expStatus = gen.status
       /\ i.expStatus =
            CASE i.state = "finalized" -> StatusAfterReceipt(k, i.ext, i.expStatus)
              [] i.failure # "none" -> StatusAfterFailure(i.op, i.failure, i.expStatus)
              [] OTHER -> AmbiguousStatus(i.op, i.expStatus)

RowsAreValid == \A k \in Keys : Exists(k) => LineageIsValid(k) /\ FinalizationIsConsistent(k)

(* withApplicationTransaction: the triggers and the validation of the      *)
(* state the transaction leaves behind.                                    *)
Commit(newGen, k, newIntent) ==
    /\ gen' = newGen
    /\ newGen = gen \/ <<gen.status, newGen.status>> \in LegalChange
    /\ intent' = [intent EXCEPT ![k] = newIntent]
    /\ RowsAreValid'

(* transitionWorkspaceGeneration, when the status is to change. *)
Moved(status) == [status |-> status, rev |-> gen.rev + 1]
MovedTo(status) == IF status = gen.status THEN gen ELSE Moved(status)

(* Mutant: the failure lands in the column of the observed state. *)
MutantEnded(i, state, failure, g) ==
    [i EXCEPT !.state = state, !.ext = IF failure = "none" THEN @ ELSE failure,
              !.expRev = g.rev, !.expStatus = g.status]

(* terminateWorkspaceIntent with finalizationRecord. *)
Ended(i, state, failure, g) ==
    [i EXCEPT !.state = state, !.failure = failure, !.expRev = g.rev, !.expStatus = g.status]
-----------------------------------------------------------------------------
(* bindingFailure: the command names the current owner tuple of a running  *)
(* Task; a waiting Task may only be inspected.                             *)
OwnerAllows(op) == owner = "running" \/ (owner = "waiting" /\ op = "inspect")
Op(p) == IF caller[p].key = Nobody THEN "none" ELSE intent[caller[p].key].op
BindingIsCurrent(p) == ~caller[p].stale /\ OwnerAllows(Op(p))

(* latestWorkspaceReceipt: the verified complete receipt that made the     *)
(* generation ready at revision rev.                                       *)
ReadyEvidence(rev) ==
    \E k \in Keys : /\ intent[k].state = "finalized"
                    /\ intent[k].ext = "complete"
                    /\ intent[k].expStatus = "ready"
                    /\ intent[k].expRev = rev

(* Mutant: cleanup does not look at the other intents. *)
MutantQuiescent(k) == Exists(k)

(* cleanupQuiescence, on the workspace: the cleanup is the only intent     *)
(* that is neither finalized nor failed.  An ambiguous one counts, also    *)
(* when a recovery has resolved it.                                        *)
Quiescent(k) == {j \in Keys : Exists(j) /\ intent[j].state \notin {"finalized", "failed"}} = {k}

(* requiredStatus *)
RequiredStatus(op) ==
    CASE op = "create" -> {"reserved"}
      [] op = "cleanup" -> {"ready"}
      [] op = "recover" -> {"recovery_required"}
      [] op = "inspect" -> Statuses \ {"none"}
      [] op = "reserve" -> {"allocated"}

(* reserveGeneration on the generation that already owns the tuple: a      *)
(* proof at its current revision that the last reserve had no effect, and  *)
(* nothing unfinished.                                                     *)
MayReserveAgain ==
    /\ gen.status = "allocated"
    /\ ~\E k \in Keys : Unfinished(k)
    /\ \E k \in Keys :
         /\ intent[k].expRev = gen.rev /\ intent[k].expStatus = "allocated"
         /\ \/ /\ intent[k].op = "recover" /\ intent[k].state = "finalized" /\ intent[k].ext = "absent"
               /\ RecoveryRoot(intent[k].prepRev, intent[k].cause) = "reserve"
            \/ /\ intent[k].op = "reserve" /\ intent[k].state = "failed"
               /\ intent[k].ext = "none" /\ intent[k].failure = "plain"

Goto(p, pc) == caller' = [caller EXCEPT ![p].pc = pc]
Answer(p, res) == caller' = [caller EXCEPT ![p].pc = "answered", ![p].res = res]
Done(p) == caller' = [caller EXCEPT ![p] = Idle]

(* execute with a known key goes on where the intent is: an effect under   *)
(* way is never invoked again, a reading operation is.                     *)
Replay(p, k) ==
    LET i == intent[k]
    IN /\ caller[p].pc = "idle"
       /\ Unfinished(k) /\ i.op # "cleanup"
       /\ OwnerAllows(i.op)
       /\ caller' = [caller EXCEPT ![p] =
            [pc |-> CASE i.state = "pending" -> "act"
                      [] i.state = "executing" -> IF i.op \in Effects THEN "answered" ELSE "invoke"
                      [] i.state = "observed" -> "verify"
                      [] i.state = "verified" -> "finalize",
             key |-> k, stale |-> FALSE,
             res |-> IF i.state = "executing" /\ i.op \in Effects THEN "ambiguous" ELSE "none"]]
       /\ UNCHANGED <<gen, intent, owner, disk, worker>>

(* The intent a prepare transaction inserts on generation g. *)
InsertIntent(p, k, op, cause, g) ==
    /\ Commit(g, k, [NoIntent EXCEPT !.op = op, !.state = "pending", !.cause = cause,
                       !.prepRev = g.rev, !.expRev = g.rev, !.expStatus = g.status])
    /\ caller' = [caller EXCEPT ![p] =
         [pc |-> "act", key |-> k, stale |-> FALSE, res |-> "none"]]
    /\ UNCHANGED <<owner, disk, worker>>

(* Only a recovery names a cause. *)
Causes(op) == IF op = "recover" THEN Keys ELSE {Nobody}

(* execute with a new key up to the prepare transaction, which checks      *)
(* again all that was read before it.                                      *)
Prepare(p, k, op, cause) ==
    /\ caller[p].pc = "idle" /\ ~Exists(k)
    /\ OwnerAllows(op)
    /\ IF op = "reserve" THEN gen.status = "none" \/ MayReserveAgain
                         ELSE gen.status \in RequiredStatus(op)
    /\ op = "inspect" => Cardinality({j \in Keys : intent[j].op = "inspect"}) < MaxInspects
    /\ op = "recover" => RecoveryRoot(gen.rev, cause) # "none"
    /\ InsertIntent(p, k, op, cause, IF gen.status = "none" THEN Moved("allocated") ELSE gen)

(* cleanupWorkspace up to its prepare transaction. *)
PrepareCleanup(p, k) ==
    /\ caller[p].pc = "idle" /\ ~Exists(k)
    /\ owner = "completed"
    /\ gen.status \in RequiredStatus("cleanup")
    /\ ReadyEvidence(gen.rev)
    /\ InsertIntent(p, k, "cleanup", Nobody, gen)

(* The act transaction refuses: the binding is stale, the runtime identity *)
(* changed, or the authorization (of a cleanup: the eligibility too) is    *)
(* denied.  Only a denial leaves an act decision; the one of a cleanup     *)
(* names the revision the generation would have had.                       *)
RefuseToAct(p) ==
    LET c == caller[p]
        i == intent[c.key]
    IN /\ c.pc = "act"
       /\ i.state = "pending"
       /\ \E actRev \in {0, IF Op(p) = "cleanup" THEN gen.rev + 1 ELSE gen.rev} :
            /\ actRev = 0 => Op(p) # "cleanup"
            /\ Commit(gen, c.key, [Ended(i, "failed", "plain", gen) EXCEPT !.actRev = actRev])
       /\ Done(p)
       /\ UNCHANGED <<owner, disk, worker>>

(* startWorkspaceIntent, with the generation moved to g. *)
StartIntent(p, g) ==
    LET k == caller[p].key
    IN /\ intent[k].state = "pending"
       /\ Commit(g, k, [intent[k] EXCEPT !.state = "executing", !.actRev = g.rev,
                          !.expRev = g.rev, !.expStatus = g.status])
       /\ Goto(p, "invoke")
       /\ UNCHANGED <<owner, disk, worker>>

(* The act transaction of execute starts the effect. *)
Act(p) ==
    /\ caller[p].pc = "act"
    /\ Op(p) \in Operations \ {"cleanup"}
    /\ BindingIsCurrent(p)
    /\ StartIntent(p, CASE Op(p) = "reserve" -> Moved(gen.status)
                         [] Op(p) = "create" -> Moved("creating")
                         [] OTHER -> gen)

(* The act transaction of cleanupWorkspace issues the attestation. *)
ActCleanup(p) ==
    /\ caller[p].pc = "act"
    /\ Op(p) = "cleanup"
    /\ owner = "completed" /\ gen.status = "ready" /\ gen.rev = intent[caller[p].key].expRev
    /\ ReadyEvidence(gen.rev) /\ Quiescent(caller[p].key)
    /\ StartIntent(p, Moved("cleaning"))
-----------------------------------------------------------------------------
(* inspectPhysical: anything but an exact clean worktree or nothing at all *)
(* is partial.                                                             *)
Physical == IF disk = "dirty" THEN "partial" ELSE disk

(* The revalidation right before the adapter is called for a cleanup. *)
PointOfUse(p) ==
    Op(p) = "cleanup" =>
        /\ owner = "completed"
        /\ intent[caller[p].key].state = "executing"
        /\ gen.status = "cleaning" /\ gen.rev = intent[caller[p].key].expRev
        /\ ReadyEvidence(gen.rev - 1) /\ Quiescent(caller[p].key)

(* The backend refuses or fails before it does anything, with any          *)
(* category; an exception or a malformed answer is ambiguous.              *)
BackendFails(p) ==
    /\ caller[p].pc = "invoke"
    /\ PointOfUse(p)
    /\ \E failure \in {"plain", "ambiguous"} : Answer(p, failure)
    /\ UNCHANGED <<rows, owner, disk, worker>>

(* executeReadOperation, executeReserve, and executeCreate and             *)
(* executeCleanup as far as they only look.                                *)
BackendLooks(p) ==
    /\ caller[p].pc = "invoke"
    /\ PointOfUse(p)
    /\ \/ Op(p) \in {"inspect", "recover"} /\ Answer(p, Physical)
       \/ /\ Op(p) = "reserve"
          /\ Answer(p, CASE Physical = "absent" -> "reserved"
                         [] Physical = "partial" -> "ambiguous"
                         [] Physical = "complete" -> "plain")
       \/ /\ Op(p) = "create"
          /\ IF Physical = "absent" THEN Goto(p, "build")
             ELSE Answer(p, IF Physical = "partial" THEN "ambiguous" ELSE "complete")
       \/ /\ Op(p) = "cleanup"
          /\ IF Physical = "complete" THEN Goto(p, "remove") ELSE Answer(p, Physical)
    /\ UNCHANGED <<rows, owner, disk, worker>>

(* createWorker: the process is spawned, or there is none and the caller   *)
(* hears so.                                                               *)
BuildBegins(p) ==
    /\ caller[p].pc = "build"
    /\ \/ /\ worker' = [worker EXCEPT ![caller[p].key] = "spawned"]
          /\ Goto(p, "building")
       \/ /\ \E failure \in {"plain", "ambiguous"} : Answer(p, failure)
          /\ UNCHANGED worker
    /\ UNCHANGED <<rows, owner, disk>>

(* The worker acquires its directories exclusively, or ends without having *)
(* done anything; the process that spawned it may be gone.                 *)
WorkerAcquires(k) ==
    /\ worker[k] = "spawned"
    /\ \/ disk = "absent" /\ disk' = "partial" /\ worker' = [worker EXCEPT ![k] = "building"]
       \/ worker' = [worker EXCEPT ![k] = "none"] /\ UNCHANGED disk
    /\ UNCHANGED <<rows, owner, caller>>

(* The worker ends, with or without the process that spawned it. *)
BuildEnds(k) ==
    /\ worker[k] = "building"
    /\ worker' = [worker EXCEPT ![k] = "none"]
    /\ disk' \in {"partial", "complete"}
    /\ UNCHANGED <<rows, owner, caller>>

(* executeCreate hears from its worker, or gives up on it, and looks again.*)
BuildAnswered(p) ==
    /\ caller[p].pc = "building"
    /\ \/ /\ worker[caller[p].key] = "none"
          /\ \/ Physical = "complete" /\ Answer(p, "complete")
             \/ Answer(p, "plain")
       \/ Answer(p, "ambiguous")
    /\ UNCHANGED <<rows, owner, disk, worker>>

(* executeCleanup with its worker: both directories are moved into         *)
(* quarantine and removed there, or some of it.                            *)
Remove(p) ==
    /\ caller[p].pc = "remove"
    /\ \/ disk' = disk /\ Answer(p, "plain")
       \/ disk = "complete" /\ disk' = "partial" /\ Answer(p, "ambiguous")
       \/ disk = "complete" /\ disk' = "absent" /\ \E res \in {"removed", "ambiguous"} : Answer(p, res)
    /\ UNCHANGED <<rows, owner, worker>>
-----------------------------------------------------------------------------
(* terminalAfterBackendFailure, and the failure branch of cleanupWorkspace,*)
(* which closes the intent with the event of a finalized one.              *)
RecordFailure(p) ==
    LET c == caller[p]
        i == intent[c.key]
        g == MovedTo(StatusAfterFailure(Op(p), c.res, gen.status))
    IN /\ c.pc = "answered" /\ c.res \in {"plain", "ambiguous"}
       /\ i.state = "executing"
       /\ Op(p) = "cleanup" => gen.status = "cleaning"
       /\ Commit(g, c.key, [Ended(i, IF c.res = "plain" THEN "failed" ELSE "ambiguous", c.res, g)
                              EXCEPT !.closed = (Op(p) = "cleanup")])
       /\ Done(p)
       /\ UNCHANGED <<owner, disk, worker>>

(* The observation transaction: a receipt of partial state ends the        *)
(* operation as ambiguous.                                                 *)
RecordReceipt(p) ==
    LET c == caller[p]
        i == [intent[c.key] EXCEPT !.ext = c.res]
        g == MovedTo(AmbiguousStatus(Op(p), gen.status))
    IN /\ c.res \in Observed
       /\ i.state = "executing"
       /\ IF c.res = "partial"
          THEN Commit(g, c.key, Ended(i, "ambiguous", "none", g)) /\ Done(p)
          ELSE Commit(gen, c.key, Ended(i, "observed", "none", gen)) /\ Goto(p, "verify")
       /\ UNCHANGED <<owner, disk, worker>>

Observe(p) == caller[p].pc = "answered" /\ Op(p) # "cleanup" /\ RecordReceipt(p)
ObserveCleanup(p) ==
    caller[p].pc = "answered" /\ Op(p) = "cleanup" /\ gen.status = "cleaning" /\ RecordReceipt(p)

(* The verification transaction. *)
MarkVerified(p) ==
    LET c == caller[p]
    IN /\ intent[c.key].state = "observed"
       /\ Commit(gen, c.key, [intent[c.key] EXCEPT !.state = "verified"])
       /\ Goto(p, "finalize")
       /\ UNCHANGED <<owner, disk, worker>>

Verify(p) == caller[p].pc = "verify" /\ Op(p) # "cleanup" /\ MarkVerified(p)
VerifyCleanup(p) ==
    caller[p].pc = "verify" /\ Op(p) = "cleanup" /\ gen.status = "cleaning" /\ MarkVerified(p)

(* The finalization transaction: the receipt decides the status. *)
MarkFinalized(p) ==
    LET c == caller[p]
        i == intent[c.key]
        g == MovedTo(StatusAfterReceipt(c.key, i.ext, gen.status))
    IN /\ i.state = "verified"
       /\ Commit(g, c.key, [Ended(i, "finalized", "none", g) EXCEPT !.closed = TRUE])
       /\ Done(p)
       /\ UNCHANGED <<owner, disk, worker>>

Finalize(p) == caller[p].pc = "finalize" /\ Op(p) # "cleanup" /\ BindingIsCurrent(p) /\ MarkFinalized(p)
FinalizeCleanup(p) ==
    caller[p].pc = "finalize" /\ Op(p) = "cleanup" /\ gen.status = "cleaning" /\ MarkFinalized(p)

(* The finalization transaction after the binding or the runtime identity  *)
(* changed, or with authorization denied.                                  *)
FinalizeAmbiguous(p) ==
    LET c == caller[p]
        g == MovedTo(AmbiguousStatus(Op(p), gen.status))
    IN /\ c.pc = "finalize"
       /\ intent[c.key].state = "verified"
       /\ Op(p) = "cleanup" => gen.status = "cleaning"
       /\ Commit(g, c.key, [Ended(intent[c.key], "ambiguous", "ambiguous", g) EXCEPT !.closed = (Op(p) = "cleanup")])
       /\ Done(p)
       /\ UNCHANGED <<owner, disk, worker>>

(* The caller dies, or its call returns without a write. *)
Stop(p) ==
    /\ caller[p].pc # "idle"
    /\ Done(p)
    /\ UNCHANGED <<rows, owner, disk, worker>>
-----------------------------------------------------------------------------
(* Another component advances a revision of the owner tuple. *)
Rebind ==
    /\ owner = "running"
    /\ caller' = [p \in Callers |-> [caller[p] EXCEPT !.stale = caller[p].pc # "idle"]]
    /\ UNCHANGED <<rows, owner, disk, worker>>

(* The owner's turn works in the ready worktree, and commits. *)
Work ==
    /\ owner = "running" /\ gen.status = "ready"
    /\ \/ disk = "complete" /\ disk' = "dirty"
       \/ disk = "dirty" /\ disk' = "complete"
    /\ UNCHANGED <<rows, owner, worker, caller>>

(* The Task begins to wait, or is completed, which takes a ready workspace.*)
LeaveRunning ==
    /\ owner = "running"
    /\ \/ owner' = "waiting"
       \/ owner' = "completed" /\ gen.status = "ready" /\ ReadyEvidence(gen.rev)
    /\ UNCHANGED <<rows, disk, worker, caller>>

Step(p) ==
    \/ \E k \in Keys : Replay(p, k)
    \/ \E k \in Keys, op \in Operations \ {"cleanup"} : \E cause \in Causes(op) : Prepare(p, k, op, cause)
    \/ \E k \in Keys : PrepareCleanup(p, k)
    \/ RefuseToAct(p) \/ Act(p) \/ ActCleanup(p)
    \/ BackendFails(p) \/ BackendLooks(p) \/ BuildBegins(p) \/ BuildAnswered(p) \/ Remove(p)
    \/ RecordFailure(p) \/ Observe(p) \/ ObserveCleanup(p) \/ Verify(p) \/ VerifyCleanup(p)
    \/ Finalize(p) \/ FinalizeCleanup(p) \/ FinalizeAmbiguous(p)
    \/ Stop(p)

WorkspaceNext ==
    \/ \E p \in Callers : Step(p)
    \/ \E k \in Keys : WorkerAcquires(k) \/ BuildEnds(k)
    \/ Rebind \/ Work \/ LeaveRunning

WorkspaceSpec == WorkspaceInit /\ [][WorkspaceNext]_workspaceVars
-----------------------------------------------------------------------------
(* Every row has the shape that the readers decode, and a call under way   *)
(* has its key: no transition leaves a status or state they would refuse.  *)
WorkspaceTypeOK ==
    /\ gen \in [status : Statuses, rev : Nat]
    /\ intent \in [Keys -> [op : Operations \cup {"none"}, state : States, cause : Keys \cup {Nobody},
                            prepRev : Nat, actRev : Nat, expRev : Nat, expStatus : Statuses,
                            ext : Observed \cup {"none"}, failure : {"none", "plain", "ambiguous"},
                            closed : BOOLEAN]]
    /\ owner \in {"running", "waiting", "completed"}
    /\ disk \in {"absent", "partial", "complete", "dirty"} /\ worker \in [Keys -> {"none", "spawned", "building"}]
    /\ \A p \in Callers : caller[p].pc # "idle" => caller[p].key \in Keys

(* What the generation says is on the disk is there, whatever order calls, *)
(* retries, recoveries and workers left behind took: ready has a whole     *)
(* worktree, cleaned and allocated have none.                              *)
StatusMatchesDisk ==
    /\ gen.status = "ready" => disk \in {"complete", "dirty"}
    /\ gen.status \in {"none", "allocated", "cleaned"} => disk = "absent"

(* A worktree is only taken away when the Task is completed and nobody can *)
(* still be at work on it: no create worker, no other unresolved intent,   *)
(* no other caller in the backend.                                         *)
CleanupIsQuiet ==
    [][(disk \in {"complete", "dirty"} /\ disk' \in {"partial", "absent"}) =>
         /\ owner = "completed" /\ gen.status = "cleaning" /\ \A k \in Keys : worker[k] = "none"
         /\ \E k \in Keys : /\ intent[k].op = "cleanup" /\ intent[k].state = "executing"
                            /\ \A j \in Keys \ {k} : intent[j].state \in {"none", "finalized", "failed"}
         /\ Cardinality({p \in Callers : caller[p].pc \in {"build", "building", "remove"}}) = 1]_workspaceVars
=============================================================================
