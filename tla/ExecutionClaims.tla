--------------------------- MODULE ExecutionClaims ---------------------------
(***************************************************************************)
(* Claim, lease renewal and takeover of executions                         *)
(* (src/src/execution-application.ts over the execution tables of          *)
(* src/src/persistence/application-repository-transaction.ts).             *)
(*                                                                         *)
(* A client builds a command from what it read, submits it, and the        *)
(* service runs it in two steps: a preflight that reads the trusted time   *)
(* and the whole state, and, later, one SQLite transaction that checks     *)
(* everything again against the state of that moment but with the time of  *)
(* the preflight.  Other clients, the execution loop and Task edits run in *)
(* between.  A client whose process died or whose answer was lost submits  *)
(* the same command again, under the same idempotency key.                 *)
(*                                                                         *)
(* Abstractions.                                                           *)
(*  - attempt_number, fencing_token and the sequence's revision are set to *)
(*    1 together and advanced together in one UPDATE: one number, the      *)
(*    fence, stands for the three.                                         *)
(*  - The Project's config and resource revisions are one number.          *)
(*  - Each client is one owner and one actor.                              *)
(*  - A decision of the authorization envelope is a nondeterministic       *)
(*    allow or deny at the moment of the transaction.                      *)
(*  - The domain core is its Task state and revision; claim_accepted may   *)
(*    also be refused for a dependency (see TaskDomain), a nondeterministic *)
(*    verdict here.                                                        *)
(*  - The execution loop is reduced to what these operations read of it:   *)
(*    unfinished intents, backend journals and the Task transitions it     *)
(*    makes.                                                               *)
(***************************************************************************)
EXTENDS Naturals, FiniteSets

CONSTANTS
    Tasks, Clients, Executions, Keys,
    Backends,       \* the backends that keep a journal: "manual", "codex"
    Durations,      \* requested lease durations
    None,
    MaxTime,        \* bound of the clock
    MaxTaskRevision,    \* bound of Task changes other than claims
    MaxProjectRevision  \* bound of Project edits

ASSUME ClaimsAssumption ==
    /\ {MaxTime, MaxTaskRevision, MaxProjectRevision} \subseteq Nat
    /\ Durations \subseteq Nat \ {0}
    /\ Backends \subseteq {"manual", "codex"}
    /\ None \notin Tasks \cup Clients \cup Executions \cup Keys

VARIABLES
    clock,          \* trusted time
    project,        \* [enabled, revision] of the one Project
    taskState, taskRevision,
    sequence,       \* sequence[t]: the last fence of Task t, 0 when absent
    attempt,        \* attempt[e]: the execution attempt, or None
    unfinished,     \* executions with an intent that is not finalized
    journal,        \* journal[e]: the backends that keep a turn of e
    phase,          \* phase[c]: "idle", "submitted", "transaction", "answered"
    command,        \* command[c]: the last command of client c, or None
    trusted,        \* trusted[c]: the time its preflight read, 0 outside a transaction
    answer          \* answer[c]: what the service returned, or None

envVars == <<project, taskState, taskRevision, unfinished, journal>>
clientVars == <<phase, command, trusted, answer>>
vars == <<clock, project, taskState, taskRevision, sequence, attempt,
          unfinished, journal, phase, command, trusted, answer>>

Init ==
    /\ clock = 0
    /\ project = [enabled |-> TRUE, revision |-> 1]
    /\ taskState = [t \in Tasks |-> "ready"]
    /\ taskRevision = [t \in Tasks |-> 1]
    /\ sequence = [t \in Tasks |-> 0]
    /\ attempt = [e \in Executions |-> None]
    /\ unfinished = {}
    /\ journal = [e \in Executions |-> {}]
    /\ phase = [c \in Clients |-> "idle"]
    /\ command = [c \in Clients |-> None]
    /\ trusted = [c \in Clients |-> 0]
    /\ answer = [c \in Clients |-> None]

-----------------------------------------------------------------------------
Exists(e) == attempt[e] # None

Active(e) == Exists(e) /\ attempt[e].status = "active"

(* The commands a client can build from the state it reads. *)
ClaimCommand(t, k, d) ==
    [op |-> "claim", key |-> k, task |-> t, execution |-> None,
     projectRevision |-> project.revision, taskRevision |-> taskRevision[t],
     executionRevision |-> 0, leaseRevision |-> 0, fence |-> 0, duration |-> d]

AttemptCommand(op, e, k, d) ==
    [op |-> op, key |-> k, task |-> attempt[e].task, execution |-> e,
     projectRevision |-> project.revision,
     taskRevision |-> taskRevision[attempt[e].task],
     executionRevision |-> attempt[e].revision,
     leaseRevision |-> attempt[e].leaseRevision,
     fence |-> attempt[e].fence, duration |-> d]

(* claimTupleMatches and takeoverTupleMatches, with the actor check: the   *)
(* attempt stored under the key is the one this command would have made.   *)
TupleMatches(e, m, c) ==
    LET a == attempt[e] IN
    /\ a.op = m.op
    /\ a.task = m.task
    /\ a.expectedTaskRevision = m.taskRevision
    /\ a.projectRevision = m.projectRevision
    /\ a.owner = c
    /\ a.duration = m.duration
    /\ a.supersedes = m.execution
    /\ a.predecessor = <<m.executionRevision, m.leaseRevision, m.fence>>

(* Mutant: the key is unique per operation only. *)
MutantKeyPerOperation(m) ==
    {e \in Executions : Exists(e) /\ attempt[e].key = m.key /\ attempt[e].op = m.op}

(* The executions already stored under the command's idempotency key. *)
UnderKey(m) == {e \in Executions : Exists(e) /\ attempt[e].key = m.key}

(* Mutant: a conflict answers with the execution the key belongs to. *)
MutantConflictNamesExecution(c, e) ==
    [result |-> IF TupleMatches(e, command[c], c) THEN "ok" ELSE "conflict",
     execution |-> e]

(* replay, or IDEMPOTENCY_CONFLICT. *)
Replayed(c, e) ==
    IF TupleMatches(e, command[c], c)
    THEN [result |-> "ok", execution |-> e]
    ELSE [result |-> "conflict", execution |-> None]

Refused == [result |-> "refused", execution |-> None]

Denied == [result |-> "denied", execution |-> None]

(* requiresReliabilityReconciliation: an unfinished intent or a Manual     *)
(* turn; a Codex turn is not looked for.  (A terminal execution's Task is  *)
(* not running, which takeover checks as well.)                            *)
RequiresReconciliation(e) == e \in unfinished \/ "manual" \in journal[e]

(* What preflight and transaction both require of a claim... *)
ClaimAdmissible(m) ==
    /\ project.revision = m.projectRevision
    /\ taskRevision[m.task] = m.taskRevision
    /\ project.enabled
    /\ taskState[m.task] = "ready"
    /\ sequence[m.task] = 0

(* ...of a renewal by client c at trusted time now... *)
RenewAdmissible(m, c, now) ==
    LET a == attempt[m.execution] IN
    /\ project.revision = m.projectRevision
    /\ a.revision = m.executionRevision
    /\ a.leaseRevision = m.leaseRevision
    /\ a.fence = m.fence
    /\ taskRevision[m.task] = m.taskRevision
    /\ a.status = "active"
    /\ a.owner = c
    /\ a.expires > now
    /\ a.updatedAt < now
    /\ now + m.duration > a.expires

(* Mutant: the old expiry is compared with the expiry of the new lease. *)
MutantTakeoverExpiry(m, now) ==
    LET a == attempt[m.execution] IN
    /\ project.revision = m.projectRevision
    /\ a.revision = m.executionRevision
    /\ a.leaseRevision = m.leaseRevision
    /\ a.fence = m.fence
    /\ taskRevision[m.task] = m.taskRevision
    /\ sequence[m.task] = a.fence
    /\ a.status = "active"
    /\ a.expires <= now + m.duration
    /\ ~RequiresReconciliation(m.execution)
    /\ taskState[m.task] = "running"

(* ...and of a takeover. *)
TakeoverAdmissible(m, now) ==
    LET a == attempt[m.execution] IN
    /\ project.revision = m.projectRevision
    /\ a.revision = m.executionRevision
    /\ a.leaseRevision = m.leaseRevision
    /\ a.fence = m.fence
    /\ taskRevision[m.task] = m.taskRevision
    /\ sequence[m.task] = a.fence
    /\ a.status = "active"
    /\ a.expires <= now
    /\ ~RequiresReconciliation(m.execution)
    /\ taskState[m.task] = "running"

Admissible(m, c, now) ==
    CASE m.op = "claim" -> ClaimAdmissible(m)
      [] m.op = "renew" -> RenewAdmissible(m, c, now)
      [] m.op = "takeover" -> TakeoverAdmissible(m, now)

-----------------------------------------------------------------------------
(* The client.                                                             *)

Submit(c, m) ==
    /\ phase[c] \in {"idle", "answered"}
    /\ phase' = [phase EXCEPT ![c] = "submitted"]
    /\ command' = [command EXCEPT ![c] = m]
    /\ answer' = [answer EXCEPT ![c] = None]
    /\ UNCHANGED <<clock, project, taskState, taskRevision, sequence, attempt,
                   unfinished, journal, trusted>>

(* The process died, or the answer was lost: the same command again. *)
Resubmit(c) ==
    /\ phase[c] \in {"transaction", "answered"}
    /\ phase' = [phase EXCEPT ![c] = "submitted"]
    /\ answer' = [answer EXCEPT ![c] = None]
    /\ trusted' = [trusted EXCEPT ![c] = 0]
    /\ UNCHANGED <<clock, project, taskState, taskRevision, sequence, attempt,
                   unfinished, journal, command>>

-----------------------------------------------------------------------------
(* The service.                                                            *)

Answer(c, r) ==
    /\ phase' = [phase EXCEPT ![c] = "answered"]
    /\ answer' = [answer EXCEPT ![c] = r]
    /\ trusted' = [trusted EXCEPT ![c] = 0]
    /\ UNCHANGED command

(* The part of claim, renew and takeover before the transaction: replay by *)
(* key, then every check, at the time read here.                           *)
Preflight(c) ==
    /\ phase[c] = "submitted"
    /\ LET m == command[c] IN
       \/ \E e \in UnderKey(m) : m.op # "renew" /\ Answer(c, Replayed(c, e))
       \/ /\ m.op = "renew" \/ UnderKey(m) = {}
          /\ ~Admissible(m, c, clock)
          /\ Answer(c, Refused)
       \/ /\ m.op = "renew" \/ UnderKey(m) = {}
          /\ Admissible(m, c, clock)
          /\ phase' = [phase EXCEPT ![c] = "transaction"]
          /\ trusted' = [trusted EXCEPT ![c] = clock]
          /\ UNCHANGED <<command, answer>>
    /\ UNCHANGED <<clock, sequence, attempt>> /\ UNCHANGED envVars

(* The ends of a transaction that write no execution row: a concurrent     *)
(* replay, a check that failed since the preflight, a denial (recorded in  *)
(* the audit only).                                                        *)
TransactionReturns(c) ==
    /\ phase[c] = "transaction"
    /\ LET m == command[c] IN
       \/ \E e \in UnderKey(m) : m.op # "renew" /\ Answer(c, Replayed(c, e))
       \/ /\ m.op = "renew" \/ UnderKey(m) = {}
          /\ ~Admissible(m, c, trusted[c])
          /\ Answer(c, Refused)
       \/ /\ m.op = "renew" \/ UnderKey(m) = {}
          /\ Admissible(m, c, trusted[c])
          /\ Answer(c, Denied)
    /\ UNCHANGED <<clock, sequence, attempt>> /\ UNCHANGED envVars

(* transitionTask refuses claim_accepted inside the transaction. *)
ClaimNotEligible(c) ==
    /\ phase[c] = "transaction"
    /\ command[c].op = "claim"
    /\ UnderKey(command[c]) = {}
    /\ ClaimAdmissible(command[c])
    /\ Answer(c, Refused)
    /\ UNCHANGED <<clock, sequence, attempt>> /\ UNCHANGED envVars

NewAttempt(m, c, fence, post) ==
    [op |-> m.op, task |-> m.task, status |-> "active", key |-> m.key,
     owner |-> c, duration |-> m.duration, fence |-> fence,
     expires |-> trusted[c] + m.duration, revision |-> 1, leaseRevision |-> 1,
     expectedTaskRevision |-> m.taskRevision, postTaskRevision |-> post,
     projectRevision |-> m.projectRevision, updatedAt |-> trusted[c],
     predecessor |-> <<m.executionRevision, m.leaseRevision, m.fence>>,
     supersedes |-> m.execution, supersededBy |-> None]

(* Mutant: the transaction trusts the checks of its preflight. *)
MutantClaimUnchecked(c, e) ==
    /\ phase[c] = "transaction"
    /\ command[c].op = "claim"
    /\ UnderKey(command[c]) = {}
    /\ ~Exists(e)
    /\ LET m == command[c] IN
       /\ sequence' = [sequence EXCEPT ![m.task] = 1]
       /\ attempt' = [attempt EXCEPT ![e] = NewAttempt(m, c, 1, m.taskRevision + 1)]
       /\ taskState' = [taskState EXCEPT ![m.task] = "running"]
       /\ taskRevision' = [taskRevision EXCEPT ![m.task] = @ + 1]
    /\ Answer(c, [result |-> "ok", execution |-> e])
    /\ UNCHANGED <<clock, project, unfinished, journal>>

(* The accepted claim: sequence, attempt and Task transition together. *)
Claim(c, e) ==
    /\ phase[c] = "transaction"
    /\ command[c].op = "claim"
    /\ UnderKey(command[c]) = {}
    /\ ClaimAdmissible(command[c])
    /\ ~Exists(e)
    /\ LET m == command[c] IN
       /\ sequence' = [sequence EXCEPT ![m.task] = 1]
       /\ attempt' = [attempt EXCEPT ![e] = NewAttempt(m, c, 1, m.taskRevision + 1)]
       /\ taskState' = [taskState EXCEPT ![m.task] = "running"]
       /\ taskRevision' = [taskRevision EXCEPT ![m.task] = @ + 1]
    /\ Answer(c, [result |-> "ok", execution |-> e])
    /\ UNCHANGED <<clock, project, unfinished, journal>>

(* renewExecutionLease also compares the Task revision of the command with *)
(* the revision the attempt was created at; when its UPDATE changes no row *)
(* the transaction is rolled back and answered as stale.                   *)
Renew(c) ==
    /\ phase[c] = "transaction"
    /\ command[c].op = "renew"
    /\ RenewAdmissible(command[c], c, trusted[c])
    /\ LET m == command[c]
           e == m.execution
       IN IF attempt[e].postTaskRevision = m.taskRevision
          THEN /\ attempt' = [attempt EXCEPT ![e] =
                    [attempt[e] EXCEPT !.leaseRevision = @ + 1, !.revision = @ + 1,
                                       !.expires = trusted[c] + m.duration,
                                       !.updatedAt = trusted[c]]]
               /\ Answer(c, [result |-> "ok", execution |-> e])
          ELSE /\ Answer(c, Refused)
               /\ UNCHANGED attempt
    /\ UNCHANGED <<clock, sequence>> /\ UNCHANGED envVars

(* advanceExecutionSequence, supersedeExecutionAttempt (which makes the    *)
(* same comparison of Task revisions as renewal) and the new attempt.      *)
Takeover(c, e) ==
    /\ phase[c] = "transaction"
    /\ command[c].op = "takeover"
    /\ UnderKey(command[c]) = {}
    /\ TakeoverAdmissible(command[c], trusted[c])
    /\ ~Exists(e)
    /\ LET m == command[c]
           p == m.execution
       IN IF attempt[p].postTaskRevision = m.taskRevision
          THEN /\ sequence' = [sequence EXCEPT ![m.task] = @ + 1]
               /\ attempt' = [attempt EXCEPT
                    ![p] = [attempt[p] EXCEPT !.status = "superseded", !.supersededBy = e,
                                              !.revision = @ + 1, !.updatedAt = trusted[c]],
                    ![e] = NewAttempt(m, c, sequence[m.task] + 1, m.taskRevision)]
               /\ Answer(c, [result |-> "ok", execution |-> e])
          ELSE /\ Answer(c, Refused)
               /\ UNCHANGED <<sequence, attempt>>
    /\ UNCHANGED clock /\ UNCHANGED envVars

-----------------------------------------------------------------------------
(* What happens around the service.                                        *)

Tick ==
    /\ clock < MaxTime
    /\ clock' = clock + 1
    /\ UNCHANGED <<project, taskState, taskRevision, sequence, attempt,
                   unfinished, journal>> /\ UNCHANGED clientVars

(* project.update and project.disable: the enablement and the revision. *)
ChangeProject ==
    /\ project.revision < MaxProjectRevision
    /\ project' = [enabled |-> ~project.enabled, revision |-> project.revision + 1]
    /\ UNCHANGED <<clock, taskState, taskRevision, sequence, attempt,
                   unfinished, journal>> /\ UNCHANGED clientVars

(* task.update: the body of any unfinished Task may change. *)
UpdateTaskBody(t) ==
    /\ taskState[t] \in {"ready", "running", "waiting"}
    /\ taskRevision[t] < MaxTaskRevision
    /\ taskRevision' = [taskRevision EXCEPT ![t] = @ + 1]
    /\ UNCHANGED <<clock, project, taskState, sequence, attempt, unfinished,
                   journal>> /\ UNCHANGED clientVars

(* bindExecution: the owner may act for a running Task under a live lease. *)
Bound(e) ==
    /\ Active(e)
    /\ attempt[e].expires > clock
    /\ sequence[attempt[e].task] = attempt[e].fence

(* The loop persists the intent of a start. *)
LoopPrepare(e) ==
    /\ Bound(e)
    /\ taskState[attempt[e].task] = "running"
    /\ e \notin unfinished
    /\ journal[e] = {}
    /\ unfinished' = unfinished \cup {e}
    /\ UNCHANGED <<clock, project, taskState, taskRevision, sequence, attempt,
                   journal>> /\ UNCHANGED clientVars

(* The loop finalizes it with a turn of backend b in the journal; the turn *)
(* waits or leaves the Task running.                                       *)
LoopFinalize(e, b, waits) ==
    LET t == attempt[e].task IN
    /\ e \in unfinished
    /\ Active(e)
    /\ taskState[t] = "running"
    /\ waits => taskRevision[t] < MaxTaskRevision
    /\ unfinished' = unfinished \ {e}
    /\ journal' = [journal EXCEPT ![e] = @ \cup {b}]
    /\ taskState' = [taskState EXCEPT ![t] = IF waits THEN "waiting" ELSE "running"]
    /\ taskRevision' = [taskRevision EXCEPT ![t] = IF waits THEN @ + 1 ELSE @]
    /\ UNCHANGED <<clock, project, sequence, attempt>> /\ UNCHANGED clientVars

(* acceptCompletion. *)
LoopComplete(e) ==
    LET t == attempt[e].task IN
    /\ Bound(e)
    /\ taskState[t] = "running"
    /\ e \notin unfinished
    /\ journal[e] # {}
    /\ taskRevision[t] < MaxTaskRevision
    /\ taskState' = [taskState EXCEPT ![t] = "completed"]
    /\ taskRevision' = [taskRevision EXCEPT ![t] = @ + 1]
    /\ UNCHANGED <<clock, project, sequence, attempt, unfinished, journal>>
    /\ UNCHANGED clientVars

SubmitClaim(c) ==
    \E t \in Tasks, k \in Keys, d \in Durations : Submit(c, ClaimCommand(t, k, d))

SubmitRenew(c) ==
    \E e \in Executions, d \in Durations :
        Exists(e) /\ Submit(c, AttemptCommand("renew", e, None, d))

SubmitTakeover(c) ==
    \E e \in Executions, k \in Keys, d \in Durations :
        Exists(e) /\ Submit(c, AttemptCommand("takeover", e, k, d))

Next ==
    \/ \E c \in Clients :
          \/ SubmitClaim(c) \/ SubmitRenew(c) \/ SubmitTakeover(c) \/ Resubmit(c)
          \/ Preflight(c) \/ TransactionReturns(c) \/ ClaimNotEligible(c)
          \/ Renew(c)
          \/ \E e \in Executions : Claim(c, e) \/ Takeover(c, e)
    \/ Tick \/ ChangeProject
    \/ \E t \in Tasks : UpdateTaskBody(t)
    \/ \E e \in Executions : LoopPrepare(e) \/ LoopComplete(e)
    \/ \E e \in Executions, b \in Backends, w \in BOOLEAN : LoopFinalize(e, b, w)

Spec == Init /\ [][Next]_vars

-----------------------------------------------------------------------------
Commands ==
    [op : {"claim", "renew", "takeover"}, key : Keys \cup {None}, task : Tasks,
     execution : Executions \cup {None}, projectRevision : Nat,
     taskRevision : Nat, executionRevision : Nat, leaseRevision : Nat,
     fence : Nat, duration : Durations]

Attempts ==
    [op : {"claim", "takeover"}, task : Tasks, status : {"active", "superseded"},
     key : Keys, owner : Clients, duration : Durations, fence : Nat,
     expires : Nat, revision : Nat, leaseRevision : Nat,
     expectedTaskRevision : Nat, postTaskRevision : Nat, projectRevision : Nat,
     updatedAt : Nat, predecessor : Nat \X Nat \X Nat,
     supersedes : Executions \cup {None}, supersededBy : Executions \cup {None}]

ASSUME AbsentAssumption == None \notin Attempts /\ None \notin Commands

(* The shape of every row and of every answer: only an "ok" answer names   *)
(* an execution.                                                           *)
TypeOK ==
    /\ clock \in Nat
    /\ project \in [enabled : BOOLEAN, revision : Nat]
    /\ taskState \in [Tasks -> {"ready", "running", "waiting", "completed"}]
    /\ taskRevision \in [Tasks -> Nat]
    /\ sequence \in [Tasks -> Nat]
    /\ attempt \in [Executions -> Attempts \cup {None}]
    /\ unfinished \subseteq Executions
    /\ journal \in [Executions -> SUBSET Backends]
    /\ phase \in [Clients -> {"idle", "submitted", "transaction", "answered"}]
    /\ command \in [Clients -> Commands \cup {None}]
    /\ trusted \in [Clients -> Nat]
    /\ answer \in [Clients ->
         [result : {"ok"}, execution : Executions] \cup {None} \cup
         [result : {"conflict", "refused", "denied"}, execution : {None}]]

(* A Task has exactly one active attempt once it has been claimed, that    *)
(* attempt carries the Task's last fence, and no two attempts of a Task    *)
(* share a fence: the fences of the history are all below the current one. *)
(* Racing claims and takeovers of one predecessor have one winner.         *)
OneCurrentAttempt ==
    /\ \A e, f \in Executions :
          (Exists(e) /\ Exists(f) /\ e # f /\ attempt[e].task = attempt[f].task)
             => attempt[e].fence # attempt[f].fence
    /\ \A e \in Executions :
          Exists(e) => /\ attempt[e].fence \in 1..sequence[attempt[e].task]
                       /\ (attempt[e].status = "active")
                             <=> (attempt[e].fence = sequence[attempt[e].task])
    /\ \A t \in Tasks : taskState[t] # "ready" =>
          \E e \in Executions : Active(e) /\ attempt[e].task = t

(* An idempotency key names one execution, and a client told "ok" for a    *)
(* claim or takeover owns the execution it was told of: a retry after a    *)
(* lost answer returns the first execution, never a second one, and a key  *)
(* reused for another command is a conflict.                               *)
KeyNamesOneExecution ==
    /\ \A e, f \in Executions :
          (Exists(e) /\ Exists(f) /\ e # f) => attempt[e].key # attempt[f].key
    /\ \A c \in Clients :
          (answer[c] # None /\ answer[c].result = "ok") =>
             LET a == attempt[answer[c].execution] IN
             /\ a.owner = c
             /\ a.task = command[c].task
             /\ command[c].op # "renew" => a.key = command[c].key

(* A direct takeover is safe: it supersedes no lease that is still live,   *)
(* although it checks expiry against the time of its preflight and the     *)
(* owner may have renewed since, and no execution with an unfinished       *)
(* intent, of whichever backend, or with a Manual turn, although the loop  *)
(* may have prepared the one and started the other after the preflight.    *)
(* What it superseded is history: no late renewal, by whichever owner and  *)
(* however delayed, changes it.  An expired execution whose Codex turn is  *)
(* settled is superseded like one that never had an effect                 *)
(* (execution-application.ts:538), although reliability-protocol.md:226    *)
(* names the Codex journal beside the Manual one.                          *)
TakeoverIsSafe ==
    [][\A e \in Executions :
          /\ (Active(e) /\ attempt'[e].status = "superseded") =>
                /\ attempt[e].expires <= clock
                /\ e \notin unfinished /\ "manual" \notin journal[e]
          /\ (Exists(e) /\ attempt[e].status = "superseded") => attempt'[e] = attempt[e]]_vars
=============================================================================
