---------------------------- MODULE CodexProduct ----------------------------
(***************************************************************************)
(* One Task driven by the Codex SDK: codex.dispatch-run, execution.resume  *)
(* and execution.retry of src/src/codex-product-application.ts, with the   *)
(* targeted half of src/src/dispatcher-application.ts, the Codex half of   *)
(* src/src/execution-loop.ts, the backend of                               *)
(* src/src/codex-execution-backend.ts and its journal                      *)
(* src/src/persistence/codex-backend-repository.ts.                        *)
(*                                                                         *)
(* A product operation i owns one run, one member, one execution attempt,  *)
(* one workspace, one intent and at most one journalled turn, so all of    *)
(* them are indexed by i.  A call executes it from the stage stored in its *)
(* row; several calls with one idempotency key may execute it at the same  *)
(* time.  Every transaction is an action, and so is every step of the SDK; *)
(* between two of them another call may run, a lease may lapse, or the     *)
(* process may die (Stop, which is also every refused transaction and      *)
(* early return after which a call does not go on).                        *)
(*                                                                         *)
(* Abstractions.                                                           *)
(*  - A HEAD is a number: 0 is the base of the first operation, i the      *)
(*    commit that the turn of operation i may leave.                       *)
(*  - Authorization, the credential, the disk checks and the Project       *)
(*    binding are choices of the actions that depend on them.              *)
(*  - The reserve and the create of a workspace (WorkspaceOperations) are  *)
(*    one action; when they do not succeed the call stops.                 *)
(*  - A lapsed run lease stops a call and changes nothing: it is a Stop.   *)
(*  - execution.inspect of an unfinished execution is the reconciliation   *)
(*    of a repeated call; of a finished one it only adds evidence, and so  *)
(*    does execution.cancel: both are left out.                            *)
(*  - No error of the Codex backend is retryable, so an intent never waits *)
(*    for a retry.                                                         *)
(***************************************************************************)
EXTENDS Naturals

CONSTANTS
    Callers,    \* calls that can be under way at the same time
    MaxOps,     \* bound of the product operations of the Task
    MaxActs,    \* MaxActs[i]: bound of the Act authorizations of operation i
    MaxProfile, \* bound of the revisions of the profile
    Committing, \* operations whose turn may leave a commit
    Untidy,     \* operations whose turn may leave what the final inspection cannot settle
    NoHead, Unclear

Ops == 1..MaxOps

ASSUME CodexAssumption ==
    /\ MaxOps \in Nat \ {0} /\ MaxActs \in [Ops -> Nat \ {0}] /\ MaxProfile \in Nat \ {0}
    /\ Committing \subseteq Ops /\ Untidy \subseteq Ops
    /\ NoHead # Unclear /\ {NoHead, Unclear} \cap Nat = {}

VARIABLES
    task,    \* the Task: state and revision
    profile, \* the Codex profile of the Project: status and revision
    op,      \* op[i]: row of product operation i
    run,     \* run[i]: its dispatcher run: outcome of the only member, and whether it is closed
    exec,    \* exec[i]: its execution attempt: status, and whether the lease has lapsed
    space,   \* space[i]: its workspace: real HEAD, receipts of the create and of the final inspect
    intent,  \* intent[i]: its execution intent
    turn,    \* turn[i]: the journalled turn of its execution
    sdk,     \* sdk[i]: what the SDK really did for it
    runs,    \* history: how often the SDK was run for it
    caller   \* caller[c]: where call c is

rows == <<task, profile, op, run, exec, space, intent, turn>>
productVars == <<rows, sdk, runs, caller>>

Heads == 0..MaxOps
StageIndex ==
    [prepared |-> 1, member_bound |-> 2, workspace_ready |-> 3, intent_prepared |-> 4,
     effect_possible |-> 5, effect_terminal |-> 6, workspace_refreshed |-> 7]
Unfinished == {"active", "recovery_required"}
Results == {"none", "refused", "preparation_failed", "turn_succeeded", "failed", "finalized"}
Terminal == {"turn_succeeded", "failed"}
SdkStates == {"none", "running", "streaming", "cut"} \cup Terminal

ProductOperations ==
    [kind : {"none", "start", "resume", "retry"}, stage : DOMAIN StageIndex,
     lifecycle : Unfinished \cup {"refused", "finalized"}, source : 0..MaxOps,
     taskRevision : Nat, profileRevision : 0..MaxProfile, head : Heads \cup {NoHead}, result : Results]
Runs == [member : {"none", "pending", "claimed", "refused"}, closed : BOOLEAN]
ExecutionRows == [status : {"none", "active", "superseded"}, lapsed : BOOLEAN]
Workspaces ==
    [head : Heads \cup {NoHead}, created : Heads \cup {NoHead},
     inspected : Heads \cup {NoHead, Unclear}, found : Heads \cup {NoHead}]
Intents ==
    [state : {"none", "pending", "executing", "observed", "verified", "ambiguous", "failed", "finalized"},
     acts : Nat, observed : Terminal \cup {"none"},
     outcome : {"none", "accepted", "waiting"}, error : {"none", "preparation", "other"}]
Turns == [lifecycle : {"none", "unknown", "active"} \cup Terminal, thread : BOOLEAN, act : Nat]
Calls ==
    [pc : {"idle", "run", "claim", "refuse_run", "refuse", "workspace", "mark_ready", "prepare",
           "mark_prepared", "act", "reread", "journal", "driver", "sdk", "record", "inspect",
           "observe", "verify", "finalize", "fail", "fail_final", "reconcile", "terminal",
           "refresh", "mark_refreshed", "close", "finish"},
     op : 0..MaxOps, act : Nat, answer : {"none", "ok", "plain", "preparation", "ambiguous"},
     expired : BOOLEAN]

NoOp ==
    [kind |-> "none", stage |-> "prepared", lifecycle |-> "active", source |-> 0,
     taskRevision |-> 0, profileRevision |-> 0, head |-> NoHead, result |-> "none"]
Idle == [pc |-> "idle", op |-> 0, act |-> 0, answer |-> "none", expired |-> FALSE]

(* Every row, turn and call has the shape that the readers decode.         *)
ProductTypeOK ==
    /\ task \in [state : {"ready", "running", "waiting"}, revision : Nat]
    /\ profile \in [status : {"none", "active", "deactivated"}, revision : 0..MaxProfile]
    /\ op \in [Ops -> ProductOperations]
    /\ run \in [Ops -> Runs]
    /\ exec \in [Ops -> ExecutionRows]
    /\ space \in [Ops -> Workspaces]
    /\ intent \in [Ops -> Intents]
    /\ turn \in [Ops -> Turns]
    /\ sdk \in [Ops -> SdkStates]
    /\ runs \in [Ops -> Nat]
    /\ caller \in [Callers -> Calls]

ProductInit ==
    /\ task = [state |-> "ready", revision |-> 1]
    /\ profile = [status |-> "none", revision |-> 0]
    /\ op = [i \in Ops |-> NoOp]
    /\ run = [i \in Ops |-> [member |-> "none", closed |-> FALSE]]
    /\ exec = [i \in Ops |-> [status |-> "none", lapsed |-> FALSE]]
    /\ space = [i \in Ops |-> [head |-> NoHead, created |-> NoHead, inspected |-> NoHead, found |-> NoHead]]
    /\ intent = [i \in Ops |->
           [state |-> "none", acts |-> 0, observed |-> "none", outcome |-> "none", error |-> "none"]]
    /\ turn = [i \in Ops |-> [lifecycle |-> "none", thread |-> FALSE, act |-> 0]]
    /\ sdk = [i \in Ops |-> "none"]
    /\ runs = [i \in Ops |-> 0]
    /\ caller = [c \in Callers |-> Idle]

-----------------------------------------------------------------------------
(* The rules a row of a product operation must satisfy for any transaction *)
(* to commit.  They are what holds back a write that carries a stale stage.*)

LineageIsValid(i) ==
    LET k == StageIndex[op[i].stage] IN
    /\ k >= 2 => run[i].member = "claimed" /\ exec[i].status # "none"
    /\ k >= 3 => space[i].created # NoHead
    /\ k >= 4 => intent[i].state # "none"
    /\ k < 5 => intent[i].acts = 0
    /\ k >= 5 => intent[i].acts > 0 /\ intent[i].state # "pending"
    /\ k >= 6 => intent[i].state = "finalized"
    /\ op[i].lifecycle = "finalized" => k = 7 /\ run[i].closed
    /\ op[i].lifecycle = "refused" =>
           k = 1 /\ exec[i].status = "none" /\ run[i].member \in {"none", "refused"}
    /\ op[i].lifecycle = "recovery_required" => ~run[i].closed

Valid == \A i \in Ops : op[i].kind # "none" => LineageIsValid(i)

\* A call goes on; what it remembers of earlier steps is not used again.
Goto(c, pc) == caller' = [caller EXCEPT ![c] = [Idle EXCEPT !.pc = pc, !.op = caller[c].op]]
Step(c, pc) == caller' = [caller EXCEPT ![c].pc = pc]
Return(c) == caller' = [caller EXCEPT ![c] = Idle]

\* updateProductOperation: it compares the revision it has just read, so it overwrites
\* whatever stage the row has by then; a finalized or refused row is frozen.
Update(i, row) ==
    /\ op[i].lifecycle \in Unfinished
    /\ op' = [op EXCEPT ![i] = row]

IsLive(i) == exec[i].status = "active" /\ ~exec[i].lapsed
\* The lease check of a loop step: a reconciliation allows an expired lease.
MayProceed(c, i) == exec[i].status = "active" /\ (exec[i].lapsed => caller[c].expired)

-----------------------------------------------------------------------------
(* The profile.                                                            *)

ActivateProfile ==
    /\ profile.status # "active" /\ profile.revision < MaxProfile
    /\ profile' = [status |-> "active", revision |-> profile.revision + 1]
    /\ UNCHANGED <<task, op, run, exec, space, intent, turn, sdk, runs, caller>>

DeactivateProfile ==
    /\ profile.status = "active" /\ profile.revision < MaxProfile
    /\ profile' = [status |-> "deactivated", revision |-> profile.revision + 1]
    /\ UNCHANGED <<task, op, run, exec, space, intent, turn, sdk, runs, caller>>

-----------------------------------------------------------------------------
(* The entry of a call.                                                    *)

\* How much is known of the turn that a continuation goes on from.
MutantTurnIsKnown(s) == turn[s].thread

TurnIsKnown(s) ==
    /\ turn[s].thread
    /\ turn[s].lifecycle \in Terminal
    /\ intent[s].state = "finalized" /\ intent[s].observed = turn[s].lifecycle

CanContinue(s, kind) ==
    /\ task.state = "waiting"
    /\ exec[s].status = "active"
    /\ op[s].lifecycle = "finalized"
    /\ profile.status = "active"
    /\ TurnIsKnown(s)
    /\ kind = "retry" => turn[s].lifecycle = "failed"

Created(c, i, kind, s) ==
    /\ caller[c] = Idle
    /\ op[i].kind = "none" /\ \A j \in 1..(i - 1) : op[j].kind # "none"
    /\ op' = [op EXCEPT ![i] = [NoOp EXCEPT !.kind = kind, !.source = s,
           !.taskRevision = task.revision, !.profileRevision = profile.revision]]
    /\ caller' = [caller EXCEPT ![c] = [Idle EXCEPT !.pc = "run", !.op = i]]
    /\ UNCHANGED <<task, profile, run, exec, space, intent, turn, sdk, runs>>

CreateStart(c, i) ==
    /\ task.state = "ready" /\ profile.status = "active"
    /\ Created(c, i, "start", 0)

CreateContinuation(c, i, s, kind) ==
    /\ CanContinue(s, kind)
    /\ Created(c, i, kind, s)

\* The step a call begins with, from the stage it reads.
EntryPoint(i) ==
    CASE op[i].stage = "prepared" -> "run"
      [] op[i].stage = "member_bound" -> "workspace"
      [] op[i].stage = "workspace_ready" -> "prepare"
      [] op[i].stage = "intent_prepared" -> "act"
      [] op[i].stage = "effect_possible" ->
             (CASE intent[i].state = "executing" /\ turn[i].lifecycle = "none" -> "act"
                [] intent[i].state = "finalized" -> "terminal"
                [] intent[i].state # "finalized" /\ turn[i].thread -> "reconcile"
                [] OTHER -> "idle")
      [] op[i].stage = "effect_terminal" -> "refresh"
      [] OTHER -> IF op[i].lifecycle = "active" THEN "close" ELSE "idle"

Enter(c, i) ==
    caller' = [caller EXCEPT ![c] =
        IF EntryPoint(i) = "idle" THEN Idle ELSE [Idle EXCEPT !.pc = EntryPoint(i), !.op = i]]

Replay(c, i) ==
    /\ caller[c] = Idle
    /\ op[i].kind # "none" /\ op[i].lifecycle \in Unfinished
    /\ EntryPoint(i) # "idle"
    /\ Enter(c, i)
    /\ UNCHANGED <<rows, sdk, runs>>

-----------------------------------------------------------------------------
(* The targeted run and its only member.                                   *)

CreateRun(c) ==
    LET i == caller[c].op IN
    /\ caller[c].pc = "run"
    /\ run[i].member = "none" => op[i].lifecycle = "active"
    /\ run' = [run EXCEPT ![i].member = IF @ = "none" THEN "pending" ELSE @]
    /\ Goto(c, "claim")
    /\ UNCHANGED <<task, profile, op, exec, space, intent, turn, sdk, runs>>
    /\ Valid'

\* No credential, or a denied run: the operation is refused before it has one.
RefuseRun(c) ==
    LET i == caller[c].op IN
    /\ caller[c].pc = "run"
    /\ run[i].member = "none"
    /\ Update(i, [op[i] EXCEPT !.lifecycle = "refused", !.result = "refused"])
    /\ Return(c)
    /\ UNCHANGED <<task, profile, run, exec, space, intent, turn, sdk, runs>>
    /\ Valid'

TupleIsCurrent(i) ==
    /\ profile = [status |-> "active", revision |-> op[i].profileRevision]
    /\ task.revision = op[i].taskRevision

MayClaimStart(i) == TupleIsCurrent(i) /\ task.state = "ready"

\* A resume waits for the lease of its source to lapse, a retry for a failed turn.
MayClaimContinuation(i, s) ==
    /\ TupleIsCurrent(i) /\ task.state = "waiting"
    /\ exec[s].status = "active" /\ intent[s].state = "finalized"
    /\ op[i].kind = "resume" => exec[s].lapsed
    /\ op[i].kind = "retry" => turn[s].lifecycle = "failed"

\* The member, the Task, the attempt and the stage change in one transaction.
Claimed(c, i, superseded) ==
    /\ caller[c].pc = "claim"
    /\ op[i].stage = "prepared" /\ op[i].lifecycle = "active"
    /\ run[i].member = "pending"
    /\ run' = [run EXCEPT ![i].member = "claimed"]
    /\ task' = [state |-> "running", revision |-> task.revision + 1]
    /\ exec' = [j \in Ops |->
           IF j = i THEN [status |-> "active", lapsed |-> FALSE]
           ELSE IF j \in superseded THEN [status |-> "superseded", lapsed |-> FALSE] ELSE exec[j]]
    /\ op' = [op EXCEPT ![i].stage = "member_bound"]
    /\ Goto(c, "workspace")
    /\ UNCHANGED <<profile, space, intent, turn, sdk, runs>>
    /\ Valid'

ClaimStart(c) ==
    LET i == caller[c].op IN
    caller[c].pc = "claim" /\ op[i].source = 0 /\ MayClaimStart(i) /\ Claimed(c, i, {})

ClaimContinuation(c) ==
    LET i == caller[c].op
        s == op[i].source
    IN
    caller[c].pc = "claim" /\ s # 0 /\ MayClaimContinuation(i, s) /\ Claimed(c, i, {s})

\* The member is resolved without a claim: the tuple is stale, or a grant is missing.
ResolveMember(c) ==
    LET i == caller[c].op IN
    /\ caller[c].pc = "claim"
    /\ op[i].stage = "prepared" /\ op[i].lifecycle = "active"
    /\ run[i].member = "pending"
    /\ run' = [run EXCEPT ![i].member = "refused"]
    /\ Goto(c, "refuse_run")
    /\ UNCHANGED <<task, profile, op, exec, space, intent, turn, sdk, runs>>

ReplayMember(c) ==
    LET i == caller[c].op IN
    /\ caller[c].pc = "claim"
    /\ run[i].member \in {"claimed", "refused"}
    /\ IF run[i].member = "refused" THEN Goto(c, "refuse_run") ELSE Enter(c, i)
    /\ UNCHANGED <<rows, sdk, runs>>

FinalizeRun(c) ==
    LET i == caller[c].op IN
    /\ caller[c].pc \in {"refuse_run", "close"}
    /\ run' = [run EXCEPT ![i].closed = TRUE]
    /\ Goto(c, IF caller[c].pc = "close" THEN "finish" ELSE "refuse")
    /\ UNCHANGED <<task, profile, op, exec, space, intent, turn, sdk, runs>>
    /\ Valid'

Refuse(c) ==
    LET i == caller[c].op IN
    /\ caller[c].pc = "refuse"
    /\ Update(i, [op[i] EXCEPT !.lifecycle = "refused", !.result = "refused"])
    /\ Return(c)
    /\ UNCHANGED <<task, profile, run, exec, space, intent, turn, sdk, runs>>
    /\ Valid'

-----------------------------------------------------------------------------
(* The workspace and the intent.                                           *)

BaseReference(i) == IF op[i].source = 0 THEN 0 ELSE space[op[i].source].found

CreateWorkspace(c) ==
    LET i == caller[c].op IN
    /\ caller[c].pc = "workspace"
    /\ space[i].created = NoHead => IsLive(i)
    /\ space' = IF space[i].created # NoHead THEN space ELSE
           [space EXCEPT ![i] = [@ EXCEPT !.head = BaseReference(i),
               !.created = BaseReference(i), !.found = BaseReference(i)]]
    /\ Goto(c, "mark_ready")
    /\ UNCHANGED <<task, profile, op, run, exec, intent, turn, sdk, runs>>

MarkReady(c) ==
    LET i == caller[c].op IN
    /\ caller[c].pc = "mark_ready"
    /\ Update(i, [op[i] EXCEPT !.stage = "workspace_ready", !.head = space[i].found])
    /\ Goto(c, "prepare")
    /\ UNCHANGED <<task, profile, run, exec, space, intent, turn, sdk, runs>>
    /\ Valid'

\* A prepared intent is found again under its key.
PreparedIntent(c, i) ==
    /\ caller[c].pc = "prepare"
    /\ intent[i].state = "none" => IsLive(i)
    /\ intent' = [intent EXCEPT ![i].state = IF @ = "none" THEN "pending" ELSE @]
    /\ Goto(c, "mark_prepared")
    /\ UNCHANGED <<task, profile, op, run, exec, space, turn, sdk, runs>>

PrepareStartIntent(c) ==
    LET i == caller[c].op IN
    caller[c].pc = "prepare" /\ op[i].source = 0 /\ PreparedIntent(c, i)

\* A continuation is prepared only on a source that this attempt superseded.
PrepareContinuationIntent(c) ==
    LET i == caller[c].op
        s == op[i].source
    IN
    /\ caller[c].pc = "prepare" /\ s # 0
    /\ intent[i].state = "none" => exec[s].status = "superseded"
    /\ PreparedIntent(c, i)

MarkPrepared(c) ==
    LET i == caller[c].op IN
    /\ caller[c].pc = "mark_prepared"
    /\ Update(i, [op[i] EXCEPT !.stage = "intent_prepared"])
    /\ Goto(c, "act")
    /\ UNCHANGED <<task, profile, run, exec, space, intent, turn, sdk, runs>>
    /\ Valid'

-----------------------------------------------------------------------------
(* The Act authorization.                                                  *)

FreshAct(i) == op[i].stage = "intent_prepared" /\ intent[i].state = "pending"
\* An Act whose turn was never journalled may be authorized again.
RecoveredAct(i) ==
    op[i].stage = "effect_possible" /\ intent[i].state = "executing" /\ turn[i].lifecycle = "none"

\* The guard of the Act; the source of a continuation has to be superseded.
ActIsCurrent(i) ==
    /\ IsLive(i) /\ profile.status = "active"
    /\ op[i].source # 0 => exec[op[i].source].status = "superseded"

Act(c) ==
    LET i == caller[c].op IN
    /\ caller[c].pc = "act"
    /\ FreshAct(i) \/ RecoveredAct(i)
    /\ ActIsCurrent(i)
    /\ intent[i].acts < MaxActs[i]
    /\ intent' = [intent EXCEPT ![i].state = "executing", ![i].acts = @ + 1]
    /\ op' = [op EXCEPT ![i].stage = "effect_possible", ![i].lifecycle = "active"]
    /\ caller' = [caller EXCEPT ![c].pc = "reread",
           ![c].act = IF FreshAct(i) THEN 0 ELSE intent[i].acts + 1]
    /\ UNCHANGED <<task, profile, run, exec, space, turn, sdk, runs>>
    /\ Valid'

DenyAct(c) ==
    LET i == caller[c].op IN
    /\ caller[c].pc = "act"
    /\ FreshAct(i) \/ RecoveredAct(i)
    /\ op[i].lifecycle \in Unfinished
    /\ op' = [op EXCEPT ![i].lifecycle = "recovery_required"]
    /\ Return(c)
    /\ UNCHANGED <<task, profile, run, exec, space, intent, turn, sdk, runs>>
    /\ Valid'

\* The state is read again before the backend is called: a first Act goes on with whatever
\* Act is current, a repeated one only with its own.
Reread(c) ==
    LET i == caller[c].op IN
    /\ caller[c].pc = "reread"
    /\ IsLive(i)
    /\ caller[c].act \in {0, intent[i].acts}
    /\ caller' = [caller EXCEPT ![c].pc = "journal", ![c].act = intent[i].acts]
    /\ UNCHANGED <<rows, sdk, runs>>

-----------------------------------------------------------------------------
(* The backend: journal, driver, SDK stream.                               *)

BackendAnswer(c, answer) ==
    caller' = [caller EXCEPT ![c].pc = "inspect", ![c].act = 0, ![c].answer = answer]

IsAuthorized(i, act) == intent[i].state = "executing" /\ intent[i].acts = act

MutantTurnIsReplayed(i) == FALSE
TurnIsReplayed(i) == turn[i].lifecycle # "none"

\* A prepared turn is unknown until the SDK reports; only a resumed one has a thread.
PreparedTurn(c, i, thread) ==
    /\ caller[c].pc = "journal"
    /\ ~TurnIsReplayed(i)
    /\ IsAuthorized(i, caller[c].act) /\ exec[i].status = "active"
    /\ turn' = [turn EXCEPT ![i] = [lifecycle |-> "unknown", thread |-> thread, act |-> caller[c].act]]
    /\ Goto(c, "driver")
    /\ UNCHANGED <<task, profile, op, run, exec, space, intent, sdk, runs>>

PrepareStart(c) ==
    LET i == caller[c].op IN
    caller[c].pc = "journal" /\ op[i].source = 0 /\ PreparedTurn(c, i, FALSE)

PrepareResume(c) ==
    LET i == caller[c].op IN
    caller[c].pc = "journal" /\ op[i].source # 0 /\ PreparedTurn(c, i, TRUE)

\* The turn was journalled before: its receipt is returned, or nothing is known of it.
ReplayTurn(c) ==
    LET i == caller[c].op IN
    /\ caller[c].pc = "journal"
    /\ TurnIsReplayed(i)
    /\ BackendAnswer(c, IF turn[i].lifecycle \in Terminal THEN "ok" ELSE "ambiguous")
    /\ UNCHANGED <<rows, sdk, runs>>

\* The workspace, the Act authorization or the tuple is not current, before the turn is
\* journalled or before the SDK is run.
BackendRefuses(c) ==
    /\ caller[c].pc \in {"journal", "driver"}
    /\ BackendAnswer(c, "plain")
    /\ UNCHANGED <<rows, sdk, runs>>

\* A resumed thread is active before the SDK is run.
Resumed(i) ==
    IF op[i].source # 0 /\ turn[i].lifecycle = "unknown"
    THEN [turn EXCEPT ![i].lifecycle = "active"] ELSE turn

MayResume(i) == op[i].source = 0 \/ IsAuthorized(i, turn[i].act)

DriverFails(c) ==
    LET i == caller[c].op IN
    /\ caller[c].pc = "driver"
    /\ MayResume(i)
    /\ turn' = Resumed(i)
    /\ BackendAnswer(c, "preparation")
    /\ UNCHANGED <<task, profile, op, run, exec, space, intent, sdk, runs>>

RunSdk(c) ==
    LET i == caller[c].op IN
    /\ caller[c].pc = "driver"
    /\ MayResume(i) /\ profile.status = "active"
    /\ turn' = Resumed(i)
    /\ sdk' = [sdk EXCEPT ![i] = "running"]
    /\ runs' = [runs EXCEPT ![i] = @ + 1]
    /\ Goto(c, "sdk")
    /\ UNCHANGED <<task, profile, op, run, exec, space, intent>>

\* The SDK reports its thread: the turn becomes active, or the report is refused and the
\* SDK is abandoned.
ThreadStarted(c) ==
    LET i == caller[c].op IN
    /\ caller[c].pc = "sdk" /\ sdk[i] = "running"
    /\ \/ /\ IsAuthorized(i, turn[i].act) /\ turn[i].lifecycle \in {"unknown", "active"}
          /\ turn' = [turn EXCEPT ![i].lifecycle = "active", ![i].thread = TRUE]
          /\ sdk' = [sdk EXCEPT ![i] = "streaming"]
          /\ UNCHANGED caller
       \/ /\ UNCHANGED turn
          /\ sdk' = [sdk EXCEPT ![i] = "cut"]
          /\ BackendAnswer(c, "plain")
    /\ UNCHANGED <<task, profile, op, run, exec, space, intent, runs>>

Worked(i) ==
    \E h \in {space[i].head} \cup ({i} \cap Committing) : space' = [space EXCEPT ![i].head = h]

SdkEnds(c) ==
    LET i == caller[c].op IN
    /\ caller[c].pc = "sdk" /\ sdk[i] = "streaming"
    /\ \E outcome \in Terminal : sdk' = [sdk EXCEPT ![i] = outcome]
    /\ Worked(i)
    /\ Goto(c, "record")
    /\ UNCHANGED <<task, profile, op, run, exec, intent, turn, runs>>

SdkFails(c) ==
    LET i == caller[c].op IN
    /\ caller[c].pc = "sdk"
    /\ sdk' = [sdk EXCEPT ![i] = "cut"]
    /\ Worked(i)
    /\ BackendAnswer(c, "ambiguous")
    /\ UNCHANGED <<task, profile, op, run, exec, intent, turn, runs>>

\* recordTerminal: only of a turn that is still active under the Act it was journalled with.
RecordTerminal(c) ==
    LET i == caller[c].op IN
    /\ caller[c].pc = "record"
    /\ \/ /\ turn[i].lifecycle = "active" /\ IsAuthorized(i, turn[i].act)
          /\ turn' = [turn EXCEPT ![i].lifecycle = sdk[i]]
          /\ BackendAnswer(c, "ok")
       \/ /\ UNCHANGED turn
          /\ BackendAnswer(c, "plain")
    /\ UNCHANGED <<task, profile, op, run, exec, space, intent, sdk, runs>>

-----------------------------------------------------------------------------
(* The intent is brought to its end by what an inspection of the journal   *)
(* proves.                                                                 *)

\* The backend verifies before it inspects a turn that the worktree still has the HEAD of
\* the intent, the one of the create: a turn that left a commit is never proven.
HeadStands(i) == space[i].head = space[i].created

\* Only a terminal turn with its backend operation is proof.
Proven(i) == HeadStands(i) /\ turn[i].lifecycle \in Terminal /\ turn[i].act = intent[i].acts

\* An inspection by a call that does not run the SDK itself leaves an active turn unknown.
Demoted(i) ==
    IF turn[i].lifecycle = "active" THEN [turn EXCEPT ![i].lifecycle = "unknown"] ELSE turn

InspectProven(c) ==
    LET i == caller[c].op IN
    /\ caller[c].pc = "inspect"
    /\ IsLive(i) /\ Proven(i)
    /\ Goto(c, "observe")
    /\ UNCHANGED <<rows, sdk, runs>>

\* Not proven, denied or failed: the error is that of the inspection if it has one, else
\* that of the effect, else none, which is ambiguous.
InspectUnproven(c) ==
    LET i == caller[c].op IN
    /\ caller[c].pc = "inspect"
    /\ IsLive(i)
    /\ turn' \in {turn} \cup {t \in {Demoted(i)} : turn[i].thread /\ HeadStands(i)}
    /\ \E answer \in {IF caller[c].answer = "ok" THEN "ambiguous" ELSE caller[c].answer} \cup
           (IF turn[i].thread /\ caller[c].answer # "ambiguous" THEN {"plain", "ambiguous"} ELSE {}) :
           caller' = [caller EXCEPT ![c].pc = "fail", ![c].answer = answer]
    /\ UNCHANGED <<task, profile, op, run, exec, space, intent, sdk, runs>>

\* invokePrepared and reconcile go on from the state in which they find the intent.
Rejoin(c) ==
    LET i == caller[c].op
        state == intent[i].state
    IN
    /\ caller[c].pc \in {"act", "reconcile"}
    /\ state \in {"observed", "verified", "ambiguous", "failed", "finalized"}
    /\ caller' = [caller EXCEPT ![c].expired = caller[c].pc = "reconcile",
           ![c].pc = CASE state = "observed" -> "verify" [] state = "verified" -> "finalize"
                       [] state = "finalized" -> "terminal" [] OTHER -> "fail_final"]
    /\ UNCHANGED <<rows, sdk, runs>>

\* ... and inspect the turn of an executing one.  When nothing is proven an expired lease
\* makes the intent ambiguous; under a live lease nothing more is done.
Look(c) ==
    LET i == caller[c].op IN
    /\ caller[c].pc \in {"act", "reconcile"}
    /\ intent[i].state = "executing" /\ turn[i].thread
    /\ exec[i].status = "active" /\ (exec[i].lapsed => caller[c].pc = "reconcile")
    /\ \/ /\ Proven(i)
          /\ caller' = [caller EXCEPT ![c].pc = "observe", ![c].expired = caller[c].pc = "reconcile"]
          /\ UNCHANGED turn
       \/ /\ turn' \in {turn} \cup {t \in {Demoted(i)} : HeadStands(i)}
          /\ IF exec[i].lapsed
             THEN caller' = [caller EXCEPT ![c].pc = "fail", ![c].expired = TRUE,
                      ![c].answer = "ambiguous"]
             ELSE Return(c)
    /\ UNCHANGED <<task, profile, op, run, exec, space, intent, sdk, runs>>

PersistObservation(c) ==
    LET i == caller[c].op IN
    /\ caller[c].pc = "observe"
    /\ intent[i].state = "executing" /\ MayProceed(c, i)
    /\ intent' = [intent EXCEPT ![i].state = "observed", ![i].observed = turn[i].lifecycle]
    /\ Step(c, "verify")
    /\ UNCHANGED <<task, profile, op, run, exec, space, turn, sdk, runs>>

VerifyObservation(c) ==
    LET i == caller[c].op IN
    /\ caller[c].pc = "verify"
    /\ intent[i].state = "observed"
    /\ intent' = [intent EXCEPT ![i].state = "verified"]
    /\ Step(c, "finalize")
    /\ UNCHANGED <<task, profile, op, run, exec, space, turn, sdk, runs>>

MutantOutcome(observed) == "accepted"
Outcome(observed) == IF observed = "failed" THEN "waiting" ELSE "accepted"

Finalized(i, outcome) ==
    /\ intent' = [intent EXCEPT ![i].state = "finalized", ![i].outcome = outcome]
    /\ task' = IF outcome = "waiting" /\ task.state = "running"
               THEN [state |-> "waiting", revision |-> task.revision + 1] ELSE task

FinalizeVerified(c) ==
    LET i == caller[c].op IN
    /\ caller[c].pc = "finalize"
    /\ intent[i].state = "verified" /\ MayProceed(c, i)
    /\ Finalized(i, Outcome(intent[i].observed))
    /\ Goto(c, "terminal")
    /\ UNCHANGED <<profile, op, run, exec, space, turn, sdk, runs>>

MarkAdapterFailure(c) ==
    LET i == caller[c].op IN
    /\ caller[c].pc = "fail"
    /\ intent[i].state \in {"executing", "ambiguous", "failed"}
    /\ intent' = IF intent[i].state # "executing" THEN intent ELSE
           [intent EXCEPT ![i] = [@ EXCEPT
               !.state = IF caller[c].answer = "ambiguous" THEN "ambiguous" ELSE "failed",
               !.error = IF caller[c].answer = "preparation" THEN "preparation" ELSE "other"]]
    /\ caller' = [caller EXCEPT ![c].pc = "fail_final", ![c].answer = "none"]
    /\ UNCHANGED <<task, profile, op, run, exec, space, turn, sdk, runs>>

FinalizeAdapterFailure(c) ==
    LET i == caller[c].op IN
    /\ caller[c].pc = "fail_final"
    /\ intent[i].state \in {"ambiguous", "failed"} /\ MayProceed(c, i)
    /\ Finalized(i, "waiting")
    /\ Goto(c, "terminal")
    /\ UNCHANGED <<profile, op, run, exec, space, turn, sdk, runs>>

\* Another call finalized the intent first.
AlreadyFinalized(c) ==
    /\ caller[c].pc \in {"finalize", "fail_final"}
    /\ intent[caller[c].op].state = "finalized"
    /\ Goto(c, "terminal")
    /\ UNCHANGED <<rows, sdk, runs>>

-----------------------------------------------------------------------------
(* The end of the operation.                                               *)

MarkTerminal(c) ==
    LET i == caller[c].op IN
    /\ caller[c].pc = "terminal"
    /\ Update(i, [op[i] EXCEPT !.stage = "effect_terminal", !.lifecycle = "active"])
    /\ Goto(c, "refresh")
    /\ UNCHANGED <<task, profile, run, exec, space, intent, turn, sdk, runs>>
    /\ Valid'

\* workspace.inspect under a key of its own.  Its receipt has the revision of the receipt of
\* the create, and which of the two a search finds first depends on their identifiers.  An
\* inspection that ends ambiguous or failed leaves no receipt and is answered all the same.
InspectWorkspace(c) ==
    LET i == caller[c].op IN
    /\ caller[c].pc = "refresh"
    /\ IsLive(i)
    /\ IF space[i].inspected # NoHead THEN UNCHANGED space
       ELSE \/ \E h \in {space[i].created, space[i].head} :
                 space' = [space EXCEPT ![i].inspected = space[i].head, ![i].found = h]
            \/ i \in Untidy /\ space' = [space EXCEPT ![i].inspected = Unclear]
    /\ Goto(c, "mark_refreshed")
    /\ UNCHANGED <<task, profile, op, run, exec, intent, turn, sdk, runs>>

MarkRefreshed(c) ==
    LET i == caller[c].op IN
    /\ caller[c].pc = "mark_refreshed"
    /\ Update(i, [op[i] EXCEPT !.stage = "workspace_refreshed", !.lifecycle = "active",
           !.head = space[i].found])
    /\ Goto(c, "close")
    /\ UNCHANGED <<task, profile, run, exec, space, intent, turn, sdk, runs>>
    /\ Valid'

\* The result stored for every later call with this key.
MutantResultCode(i) ==
    IF intent[i].error = "preparation" THEN "preparation_failed" ELSE turn[i].lifecycle
ResultCode(i) ==
    IF intent[i].error = "preparation" THEN "preparation_failed"
    ELSE IF intent[i].observed # "none" THEN intent[i].observed ELSE "finalized"

Finish(c) ==
    LET i == caller[c].op IN
    /\ caller[c].pc = "finish"
    /\ Update(i, [op[i] EXCEPT !.lifecycle = "finalized", !.result = ResultCode(i)])
    /\ Return(c)
    /\ UNCHANGED <<task, profile, run, exec, space, intent, turn, sdk, runs>>
    /\ Valid'

-----------------------------------------------------------------------------
(* Time and failure.                                                       *)

LeaseLapses(i) ==
    /\ IsLive(i)
    /\ exec' = [exec EXCEPT ![i].lapsed = TRUE]
    /\ UNCHANGED <<task, profile, op, run, space, intent, turn, sdk, runs, caller>>

Stop(c) ==
    /\ caller[c] # Idle
    /\ sdk' = IF caller[c].pc = "sdk" THEN [sdk EXCEPT ![caller[c].op] = "cut"] ELSE sdk
    /\ Return(c)
    /\ UNCHANGED <<rows, runs>>

ProductNext ==
    \/ ActivateProfile \/ DeactivateProfile
    \/ \E i \in Ops : LeaseLapses(i)
    \/ \E c \in Callers :
          \/ \E i \in Ops : CreateStart(c, i) \/ Replay(c, i)
          \/ \E i, s \in Ops, kind \in {"resume", "retry"} : CreateContinuation(c, i, s, kind)
          \/ CreateRun(c) \/ RefuseRun(c) \/ ClaimStart(c) \/ ClaimContinuation(c)
          \/ ResolveMember(c) \/ ReplayMember(c) \/ FinalizeRun(c) \/ Refuse(c)
          \/ CreateWorkspace(c) \/ MarkReady(c) \/ PrepareStartIntent(c)
          \/ PrepareContinuationIntent(c) \/ MarkPrepared(c)
          \/ Act(c) \/ DenyAct(c) \/ Reread(c)
          \/ PrepareStart(c) \/ PrepareResume(c) \/ ReplayTurn(c) \/ BackendRefuses(c)
          \/ DriverFails(c) \/ RunSdk(c)
          \/ ThreadStarted(c) \/ SdkEnds(c) \/ SdkFails(c) \/ RecordTerminal(c)
          \/ InspectProven(c) \/ InspectUnproven(c) \/ Rejoin(c) \/ Look(c)
          \/ PersistObservation(c) \/ VerifyObservation(c) \/ FinalizeVerified(c)
          \/ MarkAdapterFailure(c) \/ FinalizeAdapterFailure(c) \/ AlreadyFinalized(c)
          \/ MarkTerminal(c) \/ InspectWorkspace(c) \/ MarkRefreshed(c) \/ Finish(c)
          \/ Stop(c)

ProductSpec == ProductInit /\ [][ProductNext]_productVars

-----------------------------------------------------------------------------
(* Properties.                                                             *)

\* However many calls execute an operation, and wherever they die, the SDK is run for it at
\* most once: the journal admits one turn per execution and a journalled turn is never run
\* again (CodexExecutionBackend.#run, exactReplay).  Once it has been run, the row of the
\* operation says so for ever: no stale stage that a slower call writes takes it back to
\* where it could act again (updateProductOperation, validateCodexProductState).
SdkRunsOnce ==
    \A i \in Ops :
        /\ runs[i] <= 1
        /\ runs[i] = 1 => StageIndex[op[i].stage] >= StageIndex["effect_possible"]

\* What is recorded is what the SDK did: the turn in the journal, the outcome of the intent
\* and the result every later call is given (recordTerminal, finalizeVerified, progressStart).
\* A preparation failure is only answered when the SDK was never run.
ResultIsTrue ==
    \A i \in Ops :
        /\ turn[i].lifecycle \in Terminal => sdk[i] = turn[i].lifecycle
        /\ intent[i].outcome = "accepted" => sdk[i] = "turn_succeeded"
        /\ op[i].result \in Terminal => sdk[i] = op[i].result
        /\ op[i].result = "preparation_failed" => runs[i] = 0

\* A continuation takes over only from a turn that has really ended and whose end is
\* recorded, and a retry only from one that failed: it never runs beside a turn that may
\* still be running (continuationSource, claimContinuationMember).
ContinuesKnownTurn ==
    \A i \in Ops :
        LET s == op[i].source IN
        s # 0 /\ exec[i].status # "none" =>
            /\ sdk[s] \in Terminal /\ turn[s].lifecycle = sdk[s]
            /\ op[i].kind = "retry" => sdk[s] = "failed"

\* An operation whose final inspection of the workspace succeeded reports the HEAD which
\* that inspection observed ("the workspace owner always performs a final authoritative
\* inspect/HEAD refresh", docs/reference/reliability-protocol.md).
FinalHeadIsInspected ==
    \A i \in Ops :
        op[i].lifecycle = "finalized" /\ space[i].inspected \in Heads
            => op[i].head = space[i].inspected
=============================================================================
