---------------------------- MODULE ReliableLoop ----------------------------
(***************************************************************************)
(* The reliable execution loop over the Manual backend                     *)
(* (src/src/execution-loop.ts, src/src/manual-execution-backend.ts and     *)
(* src/src/persistence/manual-backend-repository.ts), for one Task.        *)
(*                                                                         *)
(* An operation is prepared as a durable intent and then carried through   *)
(* executing, observed, verified and finalized by whichever process picks  *)
(* it up: the one that prepared it, a retry under the same idempotency     *)
(* key, or a reconciler.  Every step of processIntent is one SQLite        *)
(* transaction or one backend call; processes run concurrently on the same *)
(* database, and each may die between any two steps.                       *)
(*                                                                         *)
(* Abstractions.                                                           *)
(*  - An execution is named by its attempt number, which equals its        *)
(*    fencing token; `last` is the sequence row.                           *)
(*  - Time is one bit per execution: its lease has expired.  A process     *)
(*    works with the bit it read at its last refresh (sees).               *)
(*  - Authorization bindings are compared only for being the latest one:   *)
(*    act names the process whose Act decision is current, and an          *)
(*    operation is bound while the decision it was made under is current.  *)
(*  - A step that is refused (stale tuple, denied authorization, thrown    *)
(*    error) leaves the state as it was and ends the process, exactly as a *)
(*    crash does: Stop is the one action for both.                         *)
(*  - The reads of one independent inspection are one step; a difference   *)
(*    between them makes the inspection fail, as a denial may at any time. *)
(*  - There is one actor and one unchanging Project.                       *)
(***************************************************************************)
EXTENDS Naturals, FiniteSets

CONSTANTS
    Workers,        \* concurrent processes
    Owners,         \* execution owner identities
    TransientErrors,    \* whether the adapter may refuse a call as retryable, as
                        \* the port allows and the Manual backend never does
    Reports,        \* the Manual outcome operations in use
    None,
    MaxAttempts, MaxIntents,
    MaxTaskRevision,        \* bound on Task edits
    MaxExecutionRevision    \* bound on lease renewals

ASSUME LoopAssumption ==
    /\ {MaxAttempts, MaxIntents, MaxTaskRevision, MaxExecutionRevision} \subseteq Nat
    /\ MaxAttempts >= 1
    /\ TransientErrors \in BOOLEAN
    /\ Reports \subseteq {"activate", "wait", "succeed", "fail", "confirm_cancelled"}
    /\ None \notin Workers \cup Owners

VARIABLES
    task,       \* [state, revision, required]: required is the waiting fact's action
    last,       \* the last attempt number and fencing token of the Task
    exec,       \* exec[e]: the execution attempt
    expired,    \* the executions whose lease has expired
    intent,     \* intent[i]: the i-th intent
    turn,       \* turn[e]: the Manual turn of execution e
    op,         \* op[i]: the Manual journal's operation of intent i
    terminal,   \* terminal[e]: "none", "completed" or "cancelled"
    worker      \* worker[w]: where process w is in processIntent

store == <<task, last, exec, expired, intent, turn, op, terminal>>
vars == <<task, last, exec, expired, intent, turn, op, terminal, worker>>

Attempts == 1..MaxAttempts
Intents == 1..MaxIntents

TerminalLifecycles == {"turn_succeeded", "failed", "cancelled"}
OpenLifecycles == {"queued", "active", "waiting"}

NoAttempt == [status |-> "absent", owner |-> None, revision |-> 0, postTaskRevision |-> 0]
NoTurn == [lifecycle |-> "absent", revision |-> 0, executionRevision |-> 0, cancelAt |-> 0]
NoOperation == [pre |-> 0, post |-> 0, result |-> "absent", bound |-> FALSE]
NoReceipt == [lifecycle |-> "absent", revision |-> 0]
NoIntent ==
    [kind |-> "absent", state |-> "absent", execution |-> 0, source |-> 0,
     taskRevision |-> 0, executionRevision |-> 0, report |-> "none", expects |-> 0,
     act |-> None, error |-> "none", observation |-> NoReceipt, outcome |-> "none",
     afterExpiry |-> FALSE]
Idle ==
    [pc |-> "idle", intent |-> 0, owner |-> None, lenient |-> FALSE, sees |-> FALSE,
     recon |-> FALSE, note |-> "none", receipt |-> NoReceipt]

(* The Task was claimed by some owner: execution 1, nothing started yet. *)
Init ==
    /\ task = [state |-> "running", revision |-> 2, required |-> "none"]
    /\ last = 1
    /\ \E o \in Owners :
         exec = [e \in Attempts |->
                   IF e = 1 THEN [status |-> "active", owner |-> o, revision |-> 1,
                                  postTaskRevision |-> 2]
                   ELSE NoAttempt]
    /\ expired = {}
    /\ intent = [i \in Intents |-> NoIntent]
    /\ turn = [e \in Attempts |-> NoTurn]
    /\ op = [i \in Intents |-> NoOperation]
    /\ terminal = [e \in Attempts |-> "none"]
    /\ worker = [w \in Workers |-> Idle]

-----------------------------------------------------------------------------
(* Reading the state.                                                      *)

Exists(i) == intent[i].state # "absent"
Unfinished(i) == Exists(i) /\ intent[i].state # "finalized"
HasTurn(e) == turn[e].lifecycle # "absent"
Performed(i) == op[i].result # "absent"

UnfinishedOf(e) == {i \in Intents : Unfinished(i) /\ intent[i].execution = e}

(* bindExecution with the current revisions in the command. *)
BindExecution(e, o, lenient) ==
    /\ exec[e].status = "active"
    /\ last = e
    /\ terminal[e] = "none"
    /\ lenient \/ (exec[e].owner = o /\ e \notin expired)

(* semanticForIntent: the tuple of the intent is still the current one. *)
SemanticForIntent(i, o, sees, lenient) ==
    LET e == intent[i].execution IN
    /\ exec[e].status = "active"
    /\ last = e
    /\ lenient \/ (exec[e].owner = o /\ ~sees)
    /\ task.revision = intent[i].taskRevision
    /\ exec[e].revision = intent[i].executionRevision

Semantic(w) ==
    SemanticForIntent(worker[w].intent, worker[w].owner, worker[w].sees, worker[w].lenient)

(* backendEffectAbsent *)
BackendEffectAbsent(i) == ~HasTurn(intent[i].execution) /\ ~Performed(i)

StartAbsent(i) == intent[i].kind = "start" /\ BackendEffectAbsent(i)

(* requireTurn: the turn and the tuple the request was made for. *)
RequireTurn(i) ==
    LET e == intent[i].execution IN
    /\ HasTurn(e)
    /\ turn[e].executionRevision <= intent[i].executionRevision
    /\ exec[e].status = "active"
    /\ exec[e].revision = intent[i].executionRevision
    /\ task.revision = intent[i].taskRevision

(* Any state of the turn passes for the outcome of the operation. *)
MutantInspectionMatches(i) ==
    /\ RequireTurn(i)
    /\ turn[intent[i].execution].executionRevision = intent[i].executionRevision

(* authoritativeManualObservationMatches, after an authorized inspection:  *)
(* the turn is the intent's, the intent's own operation is the last one    *)
(* and was made under the current binding, and a cancelled turn has its    *)
(* request and confirmation.                                               *)
InspectionMatches(i) ==
    LET t == turn[intent[i].execution] IN
    /\ RequireTurn(i)
    /\ t.executionRevision = intent[i].executionRevision
    /\ intent[i].kind # "inspect" =>
          /\ Performed(i) /\ op[i].bound
          /\ op[i].post = t.revision /\ op[i].result = t.lifecycle
    /\ t.lifecycle = "cancelled" =>
          \E c, r \in Intents :
             /\ intent[c].kind = "cancel" /\ Performed(c) /\ op[c].post = t.cancelAt
             /\ intent[c].execution = intent[i].execution
             /\ intent[r].report = "confirm_cancelled" /\ Performed(r)
             /\ op[r].post = t.revision /\ op[r].pre >= t.cancelAt
             /\ intent[r].execution = intent[i].execution

Receipt(i) ==
    [lifecycle |-> turn[intent[i].execution].lifecycle,
     revision |-> turn[intent[i].execution].revision]

-----------------------------------------------------------------------------
(* Preparing an operation (prepareOperation, prepareSuccessorOperation).   *)

Insert(k, e, source, taskRevision, executionRevision, report) ==
    LET i == Cardinality({j \in Intents : Exists(j)}) + 1 IN
    /\ i \in Intents
    /\ intent' = [intent EXCEPT ![i] =
         [NoIntent EXCEPT !.kind = k, !.state = "pending", !.execution = e,
            !.source = source, !.taskRevision = taskRevision,
            !.executionRevision = executionRevision, !.report = report,
            !.expects = IF k = "report" THEN turn[e].revision ELSE 0]]

Prepare(k, e, report) ==
    /\ UnfinishedOf(e) = {}
    /\ Insert(k, e, 0, task.revision, exec[e].revision, report)
    /\ UNCHANGED <<task, last, exec, expired, turn, op, terminal, worker>>

PrepareStart(o) ==
    /\ BindExecution(last, o, FALSE)
    /\ task.state = "running"
    /\ ~HasTurn(last)
    /\ Prepare("start", last, "none")

(* manualTurnMatches holds of a command built from the current turn. *)
PrepareReport(o, r) ==
    /\ BindExecution(last, o, FALSE)
    /\ HasTurn(last)
    /\ task.state \in {"running", "waiting"}
    /\ Prepare("report", last, r)

PrepareCancel(o) ==
    /\ BindExecution(last, o, FALSE)
    /\ HasTurn(last)
    /\ task.state \in {"running", "waiting"}
    /\ Prepare("cancel", last, "none")

(* inspect by the owner, or reconcile of an execution with no unfinished   *)
(* intent, by anyone and under an expired lease.                           *)
PrepareInspect(o, lenient) ==
    /\ BindExecution(last, o, lenient)
    /\ HasTurn(last)
    /\ task.state \in {"running", "waiting"}
    /\ Prepare("inspect", last, "none")

(* The waiting fact survives the continuation. *)
MutantContinueTask(k) ==
    /\ task.state = "waiting"
    /\ k = "retry" => task.required \in {"resume", "retry"}
    /\ task' = [task EXCEPT !.state = "running", !.revision = @ + 1]

(* transitionContinuation: the Task runs again at the next revision; retry *)
(* needs a retryable waiting fact.                                         *)
ContinueTask(k) ==
    /\ task.state = "waiting"
    /\ k = "retry" => task.required \in {"resume", "retry"}
    /\ task' = [state |-> "running", revision |-> task.revision + 1, required |-> "none"]

(* A resume by the live owner continues the same attempt. *)
PrepareResume(o) ==
    /\ BindExecution(last, o, FALSE)
    /\ HasTurn(last)
    /\ UnfinishedOf(last) = {}
    /\ ContinueTask("resume")
    /\ Insert("resume", last, 0, task.revision + 1, exec[last].revision, "none")
    /\ UNCHANGED <<last, exec, expired, turn, op, terminal, worker>>

(* hasExactSuccessorProof: a finalized intent of the source observed the   *)
(* turn as it is; for a resume it is an inspection finalized after expiry. *)
SuccessorProof(k, e) ==
    \E i \in Intents :
       /\ intent[i].state = "finalized"
       /\ intent[i].execution = e
       /\ intent[i].observation = [lifecycle |-> turn[e].lifecycle, revision |-> turn[e].revision]
       /\ IF k = "retry"
          THEN turn[e].lifecycle = "failed"
          ELSE /\ intent[i].kind = "inspect" /\ intent[i].afterExpiry
               /\ turn[e].lifecycle \in OpenLifecycles

(* A retry, or a resume under an expired lease, supersedes the attempt and *)
(* prepares its intent on the successor, in one transaction.               *)
PrepareSuccessor(o, k) ==
    LET e == last
        s == last + 1
    IN /\ BindExecution(e, o, TRUE)
       /\ e \in expired \/ exec[e].owner = o
       /\ k = "resume" => e \in expired
       /\ k = "retry" => turn[e].lifecycle = "failed"
       /\ HasTurn(e)
       /\ UnfinishedOf(e) = {}
       /\ SuccessorProof(k, e)
       /\ ContinueTask(k)
       /\ s \in Attempts
       /\ last' = s
       /\ exec' = [exec EXCEPT
            ![e] = [exec[e] EXCEPT !.status = "superseded", !.revision = exec[e].revision + 1],
            ![s] = [status |-> "active", owner |-> o, revision |-> 1,
                    postTaskRevision |-> task.revision + 1]]
       /\ Insert(k, s, e, task.revision + 1, 1, "none")
       /\ UNCHANGED <<expired, turn, op, terminal, worker>>

-----------------------------------------------------------------------------
(* processIntent.                                                          *)

(* An intent found ambiguous or failed is inspected again. *)
MutantEntryPoint(i, recon) ==
    CASE intent[i].state = "pending" ->
           IF ~recon THEN "mark" ELSE IF StartAbsent(i) THEN "noeffect" ELSE "reconmark"
      [] intent[i].state = "retry_wait" -> "mark"
      [] intent[i].state = "observed" -> "verify"
      [] intent[i].state = "verified" -> "finalize"
      [] OTHER -> "recover"

(* The place processIntent starts from, by the durable state. *)
EntryPoint(i, recon) ==
    CASE intent[i].state = "pending" ->
           IF ~recon THEN "mark" ELSE IF StartAbsent(i) THEN "noeffect" ELSE "reconmark"
      [] intent[i].state = "retry_wait" -> "mark"
      [] intent[i].state = "executing" -> "recover"
      [] intent[i].state = "observed" -> "verify"
      [] intent[i].state = "verified" -> "finalize"
      [] OTHER -> "finalfail"

Begin(w, i, o, lenient, pc) ==
    LET e == intent[i].execution
        recon == lenient /\ (e \in expired \/ exec[e].owner # o)
    IN worker' = [worker EXCEPT ![w] =
         [Idle EXCEPT !.pc = pc, !.intent = i, !.owner = o, !.lenient = lenient,
            !.sees = e \in expired, !.recon = recon]]

(* The process that prepared the intent goes on, or the same command is    *)
(* submitted again under its idempotency key.                              *)
Enter(w, i, o) ==
    /\ worker[w].pc = "idle"
    /\ Unfinished(i)
    /\ Begin(w, i, o, FALSE, EntryPoint(i, FALSE))
    /\ UNCHANGED store

(* reconcile of the unfinished intent of the current execution. *)
Reconcile(w, i, o) ==
    LET e == intent[i].execution IN
    /\ worker[w].pc = "idle"
    /\ Unfinished(i)
    /\ BindExecution(e, o, TRUE)
    /\ intent[i].taskRevision = task.revision
    /\ intent[i].executionRevision = exec[e].revision
    /\ Begin(w, i, o, TRUE, EntryPoint(i, e \in expired \/ exec[e].owner # o))
    /\ UNCHANGED store

(* reconcileExpiredStartNoEffect, up to its transaction. *)
ReconcileExpiredStart(w, i, o) ==
    LET e == intent[i].execution IN
    /\ worker[w].pc = "idle"
    /\ Unfinished(i)
    /\ exec[e].owner # o \/ e \in expired
    /\ StartAbsent(i)
    /\ Begin(w, i, o, TRUE, "noeffect")
    /\ UNCHANGED store

(* The process died, or its step was refused and it returned an error. *)
Stop(w) ==
    /\ worker[w].pc # "idle"
    /\ worker' = [worker EXCEPT ![w] = Idle]
    /\ UNCHANGED store

(* The next step of w, after reading the clock again. *)
Proceed(w, pc) ==
    worker' = [worker EXCEPT ![w] =
      [@ EXCEPT !.pc = pc, !.sees = intent[worker[w].intent].execution \in expired]]

(* A new Act binding for the intent: an operation made under an earlier    *)
(* one is no longer bound to the current decision.                         *)
BindAct(i, holder) ==
    /\ intent' = [intent EXCEPT ![i].state = "executing", ![i].act = holder]
    /\ op' = [op EXCEPT ![i].bound = FALSE]

(* markExecuting of a pending or retry_wait intent; the tuple is checked   *)
(* without the reconciler's leniency.                                      *)
MarkExecuting(w) ==
    LET i == worker[w].intent IN
    /\ worker[w].pc = "mark"
    /\ intent[i].state \in {"pending", "retry_wait", "executing"}
    /\ SemanticForIntent(i, worker[w].owner, worker[w].sees, FALSE)
    /\ BindAct(i, w)
    /\ Proceed(w, "rebind")
    /\ UNCHANGED <<task, last, exec, expired, turn, terminal>>

(* markReconciliationExecuting: no process may act under this binding. *)
MarkReconciliationExecuting(w) ==
    LET i == worker[w].intent IN
    /\ worker[w].pc = "reconmark"
    /\ intent[i].state = "pending"
    /\ Semantic(w)
    /\ BindAct(i, None)
    /\ worker' = [worker EXCEPT ![w].pc = "recover"]
    /\ UNCHANGED <<task, last, exec, expired, turn, terminal>>

(* The inspection that precedes any call for an intent found executing.    *)
(* A reconciler never calls: it observes, proves a start absent, or gives  *)
(* up as ambiguous.                                                        *)
RecoveryInspect(w) ==
    LET i == worker[w].intent IN
    /\ worker[w].pc = "recover"
    /\ intent[i].state = "executing"
    /\ Semantic(w)
    /\ \/ /\ InspectionMatches(i)
          /\ worker' = [worker EXCEPT ![w] =
               [@ EXCEPT !.pc = "observe", !.receipt = Receipt(i)]]
       \/ /\ worker[w].recon
          /\ worker' = [worker EXCEPT ![w] =
               IF StartAbsent(i) THEN [@ EXCEPT !.pc = "noeffect"]
               ELSE [@ EXCEPT !.pc = "markfail", !.note = "ambiguous"]]
       \/ /\ ~worker[w].recon
          /\ Proceed(w, "rebind")
    /\ UNCHANGED store

(* The second markExecuting, immediately before the call; what follows is  *)
(* checked without leniency.                                               *)
Rebind(w) ==
    LET i == worker[w].intent IN
    /\ worker[w].pc = "rebind"
    /\ intent[i].state \in {"pending", "retry_wait", "executing"}
    /\ SemanticForIntent(i, worker[w].owner, worker[w].sees, FALSE)
    /\ BindAct(i, w)
    /\ worker' = [worker EXCEPT ![w] =
         [@ EXCEPT !.lenient = FALSE,
                   !.pc = IF intent[i].kind = "inspect" THEN "inspect" ELSE "invoke",
                   !.note = IF intent[i].kind = "inspect" THEN "ok" ELSE "none"]]
    /\ UNCHANGED <<task, last, exec, expired, turn, terminal>>

-----------------------------------------------------------------------------
(* The Manual journal.                                                     *)

(* A call is authorized by having been allowed once. *)
MutantActAuthorized(w) == worker[w].pc = "invoke"

(* requireCurrentActAuthorization *)
ActAuthorized(w) ==
    intent[worker[w].intent].state = "executing" /\ intent[worker[w].intent].act = w

(* reportTransitionAllowed, and a confirmation needs a request. *)
ReportAllowed(t, r) ==
    /\ t.lifecycle \in OpenLifecycles
    /\ r = "activate" => t.lifecycle \in {"queued", "waiting"}
    /\ r = "confirm_cancelled" => t.cancelAt # 0

ReportTarget(r) ==
    CASE r = "activate" -> "active" [] r = "wait" -> "waiting"
      [] r = "succeed" -> "turn_succeeded" [] r = "fail" -> "failed"
      [] r = "confirm_cancelled" -> "cancelled"

(* The turn after the operation of intent i: start, resume, requestCancel  *)
(* and recordOutcome of the journal.                                       *)
AfterOperation(i) ==
    LET t == turn[intent[i].execution] IN
    CASE intent[i].kind = "start" ->
           [lifecycle |-> "queued", revision |-> 1, cancelAt |-> 0,
            executionRevision |-> intent[i].executionRevision]
      [] intent[i].kind \in {"resume", "retry"} /\ intent[i].source # 0 ->
           [lifecycle |-> "active", revision |-> 1, cancelAt |-> 0,
            executionRevision |-> intent[i].executionRevision]
      [] intent[i].kind = "resume" /\ intent[i].source = 0 ->
           [t EXCEPT !.lifecycle = "active", !.revision = @ + 1]
      [] intent[i].kind = "cancel" ->
           IF t.lifecycle \in TerminalLifecycles THEN t
           ELSE [t EXCEPT !.cancelAt = t.revision + 1, !.revision = @ + 1]
      [] intent[i].kind = "report" ->
           [t EXCEPT !.lifecycle = ReportTarget(intent[i].report), !.revision = @ + 1]

JournalAccepts(i) ==
    LET e == intent[i].execution
        s == intent[i].source
    IN CASE intent[i].kind = "start" -> ~HasTurn(e)
         [] intent[i].kind \in {"resume", "retry"} /\ s # 0 ->
              /\ turn[s].executionRevision + 1 = exec[s].revision
              /\ exec[s].status = "superseded"
              /\ exec[e].status = "active"
              /\ exec[e].revision = intent[i].executionRevision
              /\ task.revision = intent[i].taskRevision
              /\ turn[s].lifecycle \in
                   IF intent[i].kind = "retry" THEN {"failed"} ELSE OpenLifecycles
              /\ ~HasTurn(e)
         [] intent[i].kind = "resume" /\ s = 0 ->
              RequireTurn(i) /\ turn[e].lifecycle = "waiting"
         [] intent[i].kind = "cancel" -> RequireTurn(i)
         [] intent[i].kind = "report" ->
              /\ RequireTurn(i)
              /\ turn[e].revision = intent[i].expects
              /\ ReportAllowed(turn[e], intent[i].report)

Perform(i) ==
    LET e == intent[i].execution IN
    /\ turn' = [turn EXCEPT ![e] = AfterOperation(i)]
    /\ op' = [op EXCEPT ![i] =
         [pre |-> turn[e].revision, post |-> AfterOperation(i).revision,
          result |-> AfterOperation(i).lifecycle, bound |-> TRUE]]

(* invokeEffect: the journal replays the operation of this intent, performs *)
(* it, or refuses it (another binding is current, the grant was revoked,    *)
(* the lifecycle conflicts).  A persistence error, before the operation or  *)
(* after it, loses the answer.                                              *)
InvokeEffect(w) ==
    LET i == worker[w].intent IN
    /\ worker[w].pc = "invoke"
    /\ \E answer \in {"ok", "lost", "definite", "retryable"} :
       /\ worker' = [worker EXCEPT ![w] =
            [@ EXCEPT !.pc = "inspect", !.note = answer,
                      !.sees = intent[i].execution \in expired]]
       /\ \/ /\ answer \in {"ok", "lost"}
             /\ ~Performed(i)
             /\ ActAuthorized(w)
             /\ JournalAccepts(i)
             /\ Perform(i)
          \/ /\ \/ answer = "lost"
                \/ answer = "ok" /\ Performed(i)
                \/ answer = "definite" /\ ~Performed(i)
                \/ answer = "retryable" /\ TransientErrors
             /\ UNCHANGED <<turn, op>>
    /\ UNCHANGED <<task, last, exec, expired, intent, terminal>>

-----------------------------------------------------------------------------
(* After the call.                                                         *)

(* How a failed inspection and the answer of the call are classified.  A   *)
(* successor without a turn makes the inspection itself a definite error   *)
(* (the predecessor's turn has another fence), unless it was denied.       *)
FailureClasses(i, answer) ==
    IF answer = "lost" THEN {"ambiguous"}
    ELSE (CASE answer = "ok" -> {"ambiguous"}
            [] answer = "definite" -> {"failed"}
            [] answer = "retryable" -> {"retry_wait"})
         \cup (IF intent[i].source # 0 /\ ~HasTurn(intent[i].execution)
               THEN {"failed"} ELSE {})

InspectAfterEffect(w) ==
    LET i == worker[w].intent IN
    /\ worker[w].pc = "inspect"
    /\ Semantic(w)
    /\ \/ /\ InspectionMatches(i)
          /\ worker' = [worker EXCEPT ![w] =
               [@ EXCEPT !.pc = "observe", !.receipt = Receipt(i), !.note = "none"]]
       \/ \E class \in FailureClasses(i, worker[w].note) :
             worker' = [worker EXCEPT ![w] = [@ EXCEPT !.pc = "markfail", !.note = class]]
    /\ UNCHANGED store

(* persistObservation *)
PersistObservation(w) ==
    LET i == worker[w].intent IN
    /\ worker[w].pc = "observe"
    /\ intent[i].state = "executing"
    /\ Semantic(w)
    /\ intent' = [intent EXCEPT ![i].state = "observed",
                                ![i].observation = worker[w].receipt]
    /\ worker' = [worker EXCEPT ![w] = [@ EXCEPT !.pc = "verify", !.receipt = NoReceipt]]
    /\ UNCHANGED <<task, last, exec, expired, turn, op, terminal>>

(* verifyObservation *)
VerifyObservation(w) ==
    LET i == worker[w].intent IN
    /\ worker[w].pc = "verify"
    /\ intent[i].state \in {"observed", "verified"}
    /\ intent' = [intent EXCEPT ![i].state = "verified"]
    /\ Proceed(w, "finalize")
    /\ UNCHANGED <<task, last, exec, expired, turn, op, terminal>>

(* A failed turn that does not move its Task. *)
MutantWaits(w, seen) ==
    \/ seen = "waiting"
    \/ worker[w].lenient /\ worker[w].sees /\ seen \in {"queued", "active"}

(* What was observed makes the Task wait; under an expired lease an open   *)
(* turn does too.                                                          *)
TaskWaits(w, seen) ==
    \/ seen \in {"waiting", "failed"}
    \/ worker[w].lenient /\ worker[w].sees /\ seen \in {"queued", "active"}

(* finalizeVerified: the Task waits, is cancelled or stays as it is, by    *)
(* what was observed.                                                      *)
FinalizeVerified(w) ==
    LET i == worker[w].intent
        e == intent[i].execution
        seen == intent[i].observation.lifecycle
        waits == TaskWaits(w, seen)
    IN /\ worker[w].pc = "finalize"
       /\ intent[i].state = "verified"
       /\ Semantic(w)
       /\ seen = "cancelled" => task.state \in {"running", "waiting"}
       /\ task' =
            IF seen = "cancelled"
            THEN [state |-> "cancelled", revision |-> task.revision + 1, required |-> "none"]
            ELSE IF waits /\ task.state = "running"
            THEN [state |-> "waiting", revision |-> task.revision + 1,
                  required |-> IF seen = "failed" THEN "retry" ELSE "resume"]
            ELSE task
       /\ terminal' = [terminal EXCEPT ![e] = IF seen = "cancelled" THEN "cancelled" ELSE @]
       /\ intent' = [intent EXCEPT ![i] =
            [@ EXCEPT !.state = "finalized", !.act = None,
                      !.afterExpiry = (intent[i].kind = "inspect" /\ worker[w].sees),
                      !.outcome = IF seen = "cancelled" THEN "interrupted"
                                  ELSE IF waits THEN "waiting" ELSE "accepted"]]
       /\ worker' = [worker EXCEPT ![w] = Idle]
       /\ UNCHANGED <<last, exec, expired, turn, op>>

(* markAdapterFailure: the first recorded failure stands. *)
MarkAdapterFailure(w) ==
    LET i == worker[w].intent
        failure == IF intent[i].state = "executing" THEN worker[w].note ELSE intent[i].state
    IN /\ worker[w].pc = "markfail"
       /\ intent[i].state \in {"executing", "ambiguous", "retry_wait", "failed"}
       /\ intent' = [intent EXCEPT ![i].state = failure, ![i].error = failure]
       /\ IF failure = "retry_wait"
          THEN worker' = [worker EXCEPT ![w] = Idle]
          ELSE worker' = [worker EXCEPT ![w] =
                 [@ EXCEPT !.pc = "finalfail", !.note = "none",
                           !.sees = intent[i].execution \in expired]]
       /\ UNCHANGED <<task, last, exec, expired, turn, op, terminal>>

(* finalizeAdapterFailure: a running Task waits for an inspection or for a *)
(* cancellation.                                                           *)
FinalizeAdapterFailure(w) ==
    LET i == worker[w].intent IN
    /\ worker[w].pc = "finalfail"
    /\ intent[i].state \in {"ambiguous", "failed"}
    /\ Semantic(w)
    /\ task' = IF task.state = "running"
               THEN [state |-> "waiting", revision |-> task.revision + 1,
                     required |-> IF intent[i].state = "ambiguous"
                                  THEN "inspect" ELSE "cancel"]
               ELSE task
    /\ intent' = [intent EXCEPT ![i] =
         [@ EXCEPT !.state = "finalized", !.act = None, !.outcome = "waiting"]]
    /\ worker' = [worker EXCEPT ![w] = Idle]
    /\ UNCHANGED <<last, exec, expired, turn, op, terminal>>

(* finalizeProvenNoEffect: absence is read again in the transaction. *)
FinalizeProvenNoEffect(w) ==
    LET i == worker[w].intent IN
    /\ worker[w].pc = "noeffect"
    /\ intent[i].state \in {"pending", "executing"}
    /\ Semantic(w)
    /\ StartAbsent(i)
    /\ intent' = [intent EXCEPT ![i] =
         [@ EXCEPT !.state = "finalized", !.act = None, !.outcome = "rejected"]]
    /\ worker' = [worker EXCEPT ![w] = Idle]
    /\ UNCHANGED <<task, last, exec, expired, turn, op, terminal>>

-----------------------------------------------------------------------------
(* Completion, and what happens around the loop.                           *)

(* A verified turn_succeeded receipt of this execution revision. *)
SucceededReceipt(e) ==
    /\ turn[e].lifecycle = "turn_succeeded"
    /\ \E i \in Intents :
          /\ intent[i].state = "finalized" /\ intent[i].outcome = "accepted"
          /\ intent[i].execution = e
          /\ intent[i].executionRevision = exec[e].revision
          /\ intent[i].observation.lifecycle = "turn_succeeded"

(* acceptCompletion.  The readback decodes the whole state and rejects a terminal  *)
(* execution with an unfinished intent, which rolls the transaction back.  *)
AcceptCompletion(o) ==
    LET e == last IN
    /\ BindExecution(e, o, TRUE)
    /\ task.state = "running"
    /\ SucceededReceipt(e)
    /\ UnfinishedOf(e) = {}
    /\ task' = [state |-> "completed", revision |-> task.revision + 1, required |-> "none"]
    /\ terminal' = [terminal EXCEPT ![e] = "completed"]
    /\ UNCHANGED <<last, exec, expired, intent, turn, op, worker>>

Expire(e) ==
    /\ exec[e].status = "active"
    /\ e \notin expired
    /\ expired' = expired \cup {e}
    /\ UNCHANGED <<task, last, exec, intent, turn, op, terminal, worker>>

(* renewExecutionLease, by the owner (see ExecutionClaims). *)
Renew(o) ==
    LET e == last IN
    /\ exec[e].status = "active" /\ exec[e].owner = o
    /\ e \notin expired
    /\ exec[e].postTaskRevision = task.revision
    /\ exec[e].revision < MaxExecutionRevision
    /\ exec' = [exec EXCEPT ![e].revision = @ + 1]
    /\ UNCHANGED <<task, last, expired, intent, turn, op, terminal, worker>>

(* A takeover that looks only for a turn. *)
MutantNoTurn(e) == ~HasTurn(e)

(* requiresReliabilityReconciliation does not hold. *)
EffectFree(e) == UnfinishedOf(e) = {} /\ ~HasTurn(e)

(* The direct takeover of an effect-free execution (see ExecutionClaims). *)
Takeover(o) ==
    LET e == last
        s == last + 1
    IN /\ exec[e].status = "active" /\ e \in expired
       /\ task.state = "running"
       /\ exec[e].postTaskRevision = task.revision
       /\ EffectFree(e)
       /\ s \in Attempts
       /\ last' = s
       /\ exec' = [exec EXCEPT
            ![e] = [exec[e] EXCEPT !.status = "superseded", !.revision = exec[e].revision + 1],
            ![s] = [status |-> "active", owner |-> o, revision |-> 1,
                    postTaskRevision |-> task.revision]]
       /\ UNCHANGED <<task, expired, intent, turn, op, terminal, worker>>

(* task.update of the body. *)
UpdateTaskBody ==
    /\ task.state \in {"running", "waiting"}
    /\ task.revision < MaxTaskRevision
    /\ task' = [task EXCEPT !.revision = @ + 1]
    /\ UNCHANGED <<last, exec, expired, intent, turn, op, terminal, worker>>

-----------------------------------------------------------------------------
Step(w) ==
    \/ MarkExecuting(w) \/ MarkReconciliationExecuting(w) \/ RecoveryInspect(w)
    \/ Rebind(w) \/ InvokeEffect(w) \/ InspectAfterEffect(w)
    \/ PersistObservation(w) \/ VerifyObservation(w) \/ FinalizeVerified(w)
    \/ MarkAdapterFailure(w) \/ FinalizeAdapterFailure(w) \/ FinalizeProvenNoEffect(w)

(* processIntent of the Manual dispatcher (src/src/dispatcher.ts): how a    *)
(* dispatcher run by owner o continues an unfinished intent.               *)
DispatcherContinue(w, i, o) ==
    LET e == intent[i].execution
        fenced == exec[e].owner # o \/ e \in expired
    IN \/ /\ intent[i].kind = "start" /\ fenced /\ StartAbsent(i)
          /\ ReconcileExpiredStart(w, i, o)
       \/ /\ \/ intent[i].kind = "start" /\ fenced /\ ~StartAbsent(i)
             \/ intent[i].kind = "inspect"
          /\ Reconcile(w, i, o)
       \/ /\ \/ intent[i].kind = "start" /\ ~fenced
             \/ intent[i].kind \notin {"start", "inspect"}
          /\ Enter(w, i, o)

Next ==
    \/ \E o \in Owners :
          \/ PrepareStart(o) \/ PrepareCancel(o) \/ PrepareResume(o)
          \/ AcceptCompletion(o) \/ Renew(o) \/ Takeover(o)
    \/ \E o \in Owners, r \in Reports : PrepareReport(o, r)
    \/ \E o \in Owners, l \in BOOLEAN : PrepareInspect(o, l)
    \/ \E o \in Owners, k \in {"resume", "retry"} : PrepareSuccessor(o, k)
    \/ \E w \in Workers, i \in Intents, o \in Owners :
          \/ Enter(w, i, o) \/ Reconcile(w, i, o) \/ ReconcileExpiredStart(w, i, o)
          \/ DispatcherContinue(w, i, o)
    \/ \E w \in Workers : Step(w) \/ Stop(w)
    \/ \E e \in Attempts : Expire(e)
    \/ UpdateTaskBody

Spec == Init /\ [][Next]_vars

(* Processes keep working: one that can take its next step takes it or is  *)
(* stopped, and from some time on they are stopped only by a refusal.      *)
ProcessesRun ==
    /\ <>[][\A w \in Workers : Stop(w) => ~ENABLED Step(w)]_vars
    /\ \A w \in Workers : WF_vars(Stop(w) \/ Step(w))

(* A caller of the loop keeps calling reconcile while it has an intent to  *)
(* take up.                                                                *)
FairSpec ==
    /\ Spec
    /\ ProcessesRun
    /\ SF_vars(\E w \in Workers, i \in Intents, o \in Owners : Reconcile(w, i, o))

-----------------------------------------------------------------------------
(* Properties.                                                             *)

Receipts == [lifecycle : {"absent"} \cup OpenLifecycles \cup TerminalLifecycles, revision : Nat]

(* The shape of every row and of every process. *)
TypeOK ==
    /\ task \in [state : {"running", "waiting", "completed", "cancelled"}, revision : Nat,
                 required : {"none", "resume", "retry", "inspect", "cancel"}]
    /\ (task.required # "none") <=> (task.state = "waiting")
    /\ last \in Attempts
    /\ exec \in [Attempts -> [status : {"absent", "active", "superseded"},
                              owner : Owners \cup {None}, revision : Nat,
                              postTaskRevision : Nat]]
    /\ expired \subseteq Attempts
    /\ intent \in [Intents ->
         [kind : {"absent", "start", "report", "cancel", "inspect", "resume", "retry"},
          state : {"absent", "pending", "executing", "observed", "verified",
                   "finalized", "retry_wait", "ambiguous", "failed"},
          execution : {0} \cup Attempts, source : {0} \cup Attempts,
          taskRevision : Nat, executionRevision : Nat, report : Reports \cup {"none"},
          expects : Nat, act : Workers \cup {None},
          error : {"none", "ambiguous", "retry_wait", "failed"}, observation : Receipts,
          outcome : {"none", "accepted", "waiting", "interrupted", "rejected"},
          afterExpiry : BOOLEAN]]
    /\ turn \in [Attempts -> [lifecycle : {"absent"} \cup OpenLifecycles \cup TerminalLifecycles,
                              revision : Nat, executionRevision : Nat, cancelAt : Nat]]
    /\ op \in [Intents -> [pre : Nat, post : Nat, bound : BOOLEAN,
                           result : {"absent"} \cup OpenLifecycles \cup TerminalLifecycles]]
    /\ terminal \in [Attempts -> {"none", "completed", "cancelled"}]
    /\ \A w \in Workers : worker[w].intent \in {0} \cup Intents

(* An execution has at most one unfinished intent, and only the current,   *)
(* not yet terminal execution has one: takeover, succession and completion *)
(* all wait until every intent is finalized.                               *)
OneUnfinishedIntent ==
    \A i, j \in Intents :
       Unfinished(i) =>
          /\ intent[i].execution = last /\ terminal[last] = "none"
          /\ Unfinished(j) => i = j

(* However often an intent is retried, by however many processes, and      *)
(* whatever answers are lost, its effect is in the journal at most once:   *)
(* the revision of a turn counts the intents that changed it, each at a    *)
(* revision of its own.  A start finalized as proven without effect never  *)
(* has one, although the process that was about to perform it may still be *)
(* running.                                                                *)
EffectAtMostOnce ==
    /\ \A e \in Attempts :
          LET changes == {i \in Intents : /\ Performed(i) /\ intent[i].execution = e
                                          /\ op[i].post > op[i].pre}
          IN /\ turn[e].revision = Cardinality(changes)
             /\ \A i, j \in changes : i # j => op[i].post # op[j].post
    /\ \A i \in Intents : intent[i].outcome = "rejected" => ~Performed(i)

(* What an intent observed is what its own operation left in the journal,  *)
(* and a turn that is still at that revision still has that lifecycle.     *)
ObservationIsTrue ==
    \A i \in Intents :
       LET seen == intent[i].observation
           t == turn[intent[i].execution]
       IN seen # NoReceipt =>
             /\ seen.revision <= t.revision
             /\ seen.revision = t.revision => seen.lifecycle = t.lifecycle
             /\ intent[i].kind # "inspect" =>
                   Performed(i) /\ op[i].post = seen.revision /\ op[i].result = seen.lifecycle

(* A Task is completed only on a succeeded turn and cancelled only on a    *)
(* cancelled one whose cancellation was requested first; the execution's   *)
(* terminal state says the same.  Between operations a running Task has no *)
(* turn, an open turn that does not wait, or a succeeded one: a turn that  *)
(* waits, failed or was cancelled has taken its Task out of running, also  *)
(* when the process that reported it died and another finished the intent. *)
TaskMatchesTurn ==
    /\ task.state \in {"completed", "cancelled"} =>
          /\ terminal[last] = task.state
          /\ turn[last].lifecycle = IF task.state = "completed" THEN "turn_succeeded" ELSE "cancelled"
          /\ task.state = "cancelled" => turn[last].cancelAt \in 1..(turn[last].revision - 1)
          /\ UnfinishedOf(last) = {}
    /\ (task.state = "running" /\ UnfinishedOf(last) = {}) =>
          turn[last].lifecycle \in {"absent", "queued", "active", "turn_succeeded"}

(* A superseded execution is history: no process that still works for it   *)
(* changes its turn, its intents or its journal operations.                *)
SupersededIsFrozen ==
    [][\A e \in Attempts :
          exec[e].status = "superseded" =>
             /\ exec'[e] = exec[e] /\ turn'[e] = turn[e]
             /\ \A i \in Intents : intent[i].execution = e =>
                   intent'[i] = intent[i] /\ op'[i] = op[i]]_vars

(* The intent was prepared under the present revisions of its Task and     *)
(* execution; no transaction finalizes it without.                         *)
TupleIsCurrent(i) ==
    /\ task.revision = intent[i].taskRevision
    /\ exec[intent[i].execution].revision = intent[i].executionRevision

(* The loop settles what it began: there is always a later moment at which *)
(* no unfinished intent has a current tuple left, whoever prepared it and  *)
(* whichever process died over it.  And the loop never strands an intent   *)
(* by itself: while one is unfinished, no transaction of the loop moves    *)
(* the revisions it was prepared under.  A lease renewal and an edit of    *)
(* the Task do, and then the intent is never finalized                     *)
(* (execution-loop.ts:1706), where reliability-protocol.md:696 has such a  *)
(* conflict go to reconciliation; reconcile demands the same tuple.        *)
IntentsFinalize ==
    /\ []<>(\A i \in Intents : Unfinished(i) => ~TupleIsCurrent(i))
    /\ [][\A i \in Intents :
             (/\ Unfinished(i) /\ TupleIsCurrent(i)
              /\ Unfinished(i)' /\ ~TupleIsCurrent(i)')
                => UpdateTaskBody \/ \E o \in Owners : Renew(o)]_vars
=============================================================================
