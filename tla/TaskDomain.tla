----------------------------- MODULE TaskDomain -----------------------------
(***************************************************************************)
(* The pure Task/Project domain core (src/src/domain.ts): Projects that    *)
(* can be enabled and disabled, Tasks with a closed transition relation, a *)
(* same-Project parent forest, a cross-Project dependency DAG, waiting and *)
(* terminal facts, and a revision that every accepted mutation advances.   *)
(*                                                                         *)
(* Each action is one exported command of the module, taken only when the  *)
(* command succeeds: a rejected command returns an error and no snapshot.  *)
(*                                                                         *)
(* Abstractions.                                                           *)
(*  - Every command of the code re-parses the whole resulting snapshot     *)
(*    (parseSnapshot, parseTask) and fails when it is invalid.  The actions *)
(*    leave this second check out; the invariant SnapshotValid states that *)
(*    it never rejects what the command itself accepted, so that the two   *)
(*    systems have the same steps.                                         *)
(*  - A waiting fact keeps the fields a decision reads: whether the reason *)
(*    is dependency_cancelled, retryable, retryAfter and the identity of   *)
(*    the execution.  The workspace revision and backend thread are        *)
(*    compared like the execution identity and are left out.               *)
(*  - Number.MAX_SAFE_INTEGER is the constant MaxRevision.                 *)
(***************************************************************************)
EXTENDS Naturals

CONSTANTS
    Tasks,          \* the Task identities that commands may name
    Projects,       \* the Project identities
    Executions,     \* the execution identities that facts may name
    Bodies,         \* the Task bodies
    Times,          \* trusted times and retry-after times
    None,           \* the code's null
    MaxRevision     \* Number.MAX_SAFE_INTEGER

ASSUME DomainAssumption ==
    /\ MaxRevision \in Nat \ {0}
    /\ Times \subseteq Nat
    /\ None \notin Tasks \cup Projects \cup Executions \cup Bodies
    /\ Bodies # {}

VARIABLES
    project,        \* project[p]: "absent", "enabled" or "disabled"
    task            \* task[t]: the Task record; state "absent" = unregistered

vars == <<project, task>>

TerminalStates == {"completed", "cancelled"}

GraphMutableStates == {"idea", "ready", "waiting"}

TaskStates == {"idea", "ready", "running", "waiting"} \cup TerminalStates

(* WaitingMetadataInput without the fields no decision reads. *)
WaitingInputs ==
    [dependencyCancelled : BOOLEAN, retryable : BOOLEAN,
     retryAfter : Times \cup {None}, executionId : Executions \cup {None}]

(* WaitingMetadata: the input and the revision it was accepted at. *)
WaitingFacts == [input : WaitingInputs, waitingTaskRevision : 1..MaxRevision]

ASSUME NullAssumption == None \notin WaitingFacts

(* A terminal fact keeps the revision at which it was accepted. *)
TaskRecords ==
    [state : TaskStates \cup {"absent"}, revision : 0..MaxRevision,
     projectId : Projects \cup {None}, body : Bodies \cup {None},
     parentId : Tasks \cup {None}, dependencyIds : SUBSET Tasks,
     waiting : WaitingFacts \cup {None},
     acceptedRevision : 0..MaxRevision,
     supersedesTaskId : Tasks \cup {None}]

Unregistered ==
    [state |-> "absent", revision |-> 0, projectId |-> None, body |-> None,
     parentId |-> None, dependencyIds |-> {}, waiting |-> None,
     acceptedRevision |-> 0, supersedesTaskId |-> None]

Init ==
    /\ project = [p \in Projects |-> "absent"]
    /\ task = [t \in Tasks |-> Unregistered]

-----------------------------------------------------------------------------
(* Reading the snapshot.                                                   *)

Registered(t) == task[t].state # "absent"

(* requireMutableTask *)
Mutable(t) == Registered(t) /\ task[t].state \notin TerminalStates

(* Mutant: no check of MAX_SAFE_INTEGER. *)
MutantNoRevisionLimit(t) == TRUE

(* The revision can still advance: nextTask refuses at MAX_SAFE_INTEGER. *)
CanAdvance(t) == task[t].revision < MaxRevision

(* waitingFromInput: the fact that nextTask will bind to the new revision. *)
Waiting(w, r) == [input |-> w, waitingTaskRevision |-> r]

(* Mutant: the waiting fact keeps the revision it was accepted at. *)
MutantNoRebinding(r) == [r EXCEPT !.revision = @ + 1]

(* nextTask: the patched record at the next revision; a Task that is still *)
(* waiting has its waiting fact rebound to that revision.                  *)
NextTask(r) ==
    [r EXCEPT !.revision = @ + 1,
              !.waiting = IF r.state = "waiting"
                          THEN [@ EXCEPT !.waitingTaskRevision = r.revision + 1]
                          ELSE @]

(* A mutation of one Task. *)
Replace(t, r) ==
    /\ CanAdvance(t)
    /\ task' = [task EXCEPT ![t] = NextTask(r)]
    /\ UNCHANGED project

(* dependencyReaches: b is reached from a along dependency edges, that is, *)
(* b is in every set that contains a and is closed under the edges.        *)
DependencyReaches(a, b) ==
    \A S \in SUBSET Tasks :
        (a \in S /\ \A u \in S : task[u].dependencyIds \subseteq S) => b \in S

(* The walk of setTaskParent: b is a or one of a's ancestors. *)
AncestorOrSelf(a, b) ==
    \A S \in SUBSET Tasks :
        (a \in S /\ \A u \in S : task[u].parentId \in S \cup {None}) => b \in S

DependenciesCompleted(t) ==
    \A d \in task[t].dependencyIds : task[d].state = "completed"

DependencyCancelled(t) ==
    \E d \in task[t].dependencyIds : task[d].state = "cancelled"

(* eligibilityReasons is empty. *)
Eligible(t) ==
    /\ task[t].state = "ready"
    /\ project[task[t].projectId] = "enabled"
    /\ DependenciesCompleted(t)

(* The commands that continue a waiting Task.  receiptRevision is the      *)
(* revision the required-action receipt was issued for.                    *)
Continuations ==
    [kind : {"resume", "retry"}, expectedTaskRevision : 1..MaxRevision,
     receiptRevision : 1..MaxRevision,
     targetExecutionId : Executions \cup {None}, trustedTime : Times]

(* Mutant: a continuation does not look at the dependencies again. *)
MutantContinuation(t, c) ==
    /\ task[t].state = "waiting"
    /\ task[t].revision = c.expectedTaskRevision
    /\ project[task[t].projectId] = "enabled"
    /\ c.kind = "retry" => task[t].waiting.input.retryable
    /\ c.kind = "resume" => task[t].waiting.input.executionId # None

(* continuationReasons is empty. *)
ContinuationEligible(t, c) ==
    LET w == task[t].waiting.input IN
    /\ task[t].state = "waiting"
    /\ task[t].revision = c.expectedTaskRevision
    /\ task[t].waiting.waitingTaskRevision = c.expectedTaskRevision
    /\ project[task[t].projectId] = "enabled"
    /\ DependenciesCompleted(t)
    /\ c.receiptRevision = c.expectedTaskRevision
    /\ w.executionId \in {None, c.targetExecutionId}
    /\ c.kind = "resume" => w.executionId # None
    /\ c.kind = "retry" => /\ w.retryable
                           /\ w.retryAfter # None => w.retryAfter <= c.trustedTime

-----------------------------------------------------------------------------
(* Projects.                                                               *)

RegisterProject(p) ==
    /\ project[p] = "absent"
    /\ project' = [project EXCEPT ![p] = "enabled"]
    /\ UNCHANGED task

SetProjectEnabled(p, enabled) ==
    /\ project[p] = IF enabled THEN "disabled" ELSE "enabled"
    /\ project' = [project EXCEPT ![p] = IF enabled THEN "enabled" ELSE "disabled"]
    /\ UNCHANGED task

-----------------------------------------------------------------------------
(* Task content and graph.                                                 *)

CreateTask(t, p, b, s) ==
    /\ ~Registered(t)
    /\ project[p] # "absent"
    /\ s # None => s # t /\ Registered(s)
    /\ task' = [task EXCEPT ![t] =
                  [state |-> "idea", revision |-> 1, projectId |-> p, body |-> b,
                   parentId |-> None, dependencyIds |-> {}, waiting |-> None,
                   acceptedRevision |-> 0, supersedesTaskId |-> s]]
    /\ UNCHANGED project

UpdateTaskBody(t, b) ==
    /\ Mutable(t)
    /\ task[t].body # b
    /\ Replace(t, [task[t] EXCEPT !.body = b])

UpdateTaskWaiting(t, w) ==
    /\ Mutable(t)
    /\ task[t].state = "waiting"
    /\ task[t].waiting.input # w
    /\ Replace(t, [task[t] EXCEPT !.waiting = Waiting(w, task[t].revision)])

SetTaskParent(t, p) ==
    /\ Mutable(t)
    /\ task[t].state \in GraphMutableStates
    /\ task[t].parentId # p
    /\ p # t
    /\ p # None => /\ Registered(p)
                   /\ task[p].projectId = task[t].projectId
                   /\ ~AncestorOrSelf(p, t)
    /\ Replace(t, [task[t] EXCEPT !.parentId = p])

AddTaskDependency(t, d) ==
    /\ Mutable(t)
    /\ task[t].state \in GraphMutableStates
    /\ t # d
    /\ Registered(d)
    /\ d \notin task[t].dependencyIds
    /\ ~DependencyReaches(d, t)
    /\ Replace(t, [task[t] EXCEPT !.dependencyIds = @ \cup {d}])

RemoveTaskDependency(t, d) ==
    /\ Mutable(t)
    /\ task[t].state \in GraphMutableStates
    /\ d \in task[t].dependencyIds
    /\ Replace(t, [task[t] EXCEPT !.dependencyIds = @ \ {d}])

SetTaskSupersession(t, s) ==
    /\ Mutable(t)
    /\ task[t].supersedesTaskId # s
    /\ s # t
    /\ s # None => Registered(s)
    /\ Replace(t, [task[t] EXCEPT !.supersedesTaskId = s])

-----------------------------------------------------------------------------
(* The transition relation (TASK_TRANSITIONS and transitionTask).          *)

MarkReady(t) ==
    /\ task[t].state = "idea"
    /\ project[task[t].projectId] = "enabled"
    /\ ~DependencyCancelled(t)
    /\ Replace(t, [task[t] EXCEPT !.state = "ready"])

(* acceptedFor is the Task revision the external acceptance was issued for. *)
ClaimAccepted(t, acceptedFor) ==
    /\ Eligible(t)
    /\ acceptedFor = task[t].revision
    /\ Replace(t, [task[t] EXCEPT !.state = "running"])

DependencyCancelledEvent(t, w) ==
    /\ task[t].state = "ready"
    /\ DependencyCancelled(t)
    /\ w.dependencyCancelled
    /\ Replace(t, [task[t] EXCEPT !.state = "waiting",
                                  !.waiting = Waiting(w, task[t].revision + 1)])

ExecutionWait(t, w) ==
    /\ task[t].state = "running"
    /\ Replace(t, [task[t] EXCEPT !.state = "waiting",
                                  !.waiting = Waiting(w, task[t].revision + 1)])

CompletionAccepted(t, decidedFor) ==
    /\ task[t].state = "running"
    /\ decidedFor = task[t].revision
    /\ Replace(t, [task[t] EXCEPT !.state = "completed",
                                  !.acceptedRevision = task[t].revision])

(* resume_accepted and retry_accepted, by the kind of the continuation. *)
ContinuationAccepted(t, c, acceptedFor) ==
    /\ ContinuationEligible(t, c)
    /\ acceptedFor = task[t].revision
    /\ Replace(t, [task[t] EXCEPT !.state = "running", !.waiting = None])

(* The ready Tasks that name t as a direct dependency. *)
ReadyDependents(t) ==
    {u \in Tasks : task[u].state = "ready" /\ t \in task[u].dependencyIds}

(* The waiting fact of a dependent, built by the callers with a null       *)
(* execution and no retry; the domain core requires only the reason.       *)
DependentWaiting ==
    {w \in WaitingInputs : w.dependencyCancelled}

(* cancelWithDirectDependents: t and every ready direct dependent change   *)
(* in one mutation, or none does.                                          *)
CancelWithDirectDependents(t, w) ==
    /\ \A u \in ReadyDependents(t) \cup {t} : CanAdvance(u)
    /\ task' =
         [u \in Tasks |->
            IF u = t
            THEN NextTask([task[u] EXCEPT !.state = "cancelled", !.waiting = None,
                                          !.acceptedRevision = task[u].revision])
            ELSE IF u \in ReadyDependents(t)
            THEN NextTask([task[u] EXCEPT !.state = "waiting",
                                          !.waiting = Waiting(w, task[u].revision + 1)])
            ELSE task[u]]
    /\ UNCHANGED project

(* disposition: the execution the verified disposition receipt names and   *)
(* the revision it was issued for, or None when the caller passes none.    *)
Dispositions ==
    [executionId : Executions \cup {None}, taskRevision : 1..MaxRevision,
     status : {"absent", "stopped"}]

Cancel(t, disposition, w) ==
    /\ task[t].state \in {"idea", "ready", "waiting"}
    /\ IF task[t].state = "waiting" /\ task[t].waiting.input.executionId # None
       THEN /\ disposition # None
            /\ disposition.taskRevision = task[t].revision
            /\ disposition.executionId = task[t].waiting.input.executionId
       ELSE disposition = None
    /\ CancelWithDirectDependents(t, w)

(* Mutant: an interruption cancels the Task and forgets its dependents. *)
MutantInterruption(t, disposition, w) ==
    /\ task[t].state = "running"
    /\ disposition.taskRevision = task[t].revision
    /\ Replace(t, [task[t] EXCEPT !.state = "cancelled",
                                  !.acceptedRevision = task[t].revision])

InterruptionVerified(t, disposition, w) ==
    /\ task[t].state = "running"
    /\ disposition.taskRevision = task[t].revision
    /\ disposition.status = "stopped"
    /\ disposition.executionId # None
    /\ CancelWithDirectDependents(t, w)

-----------------------------------------------------------------------------
Next ==
    \/ \E p \in Projects : RegisterProject(p)
    \/ \E p \in Projects, e \in BOOLEAN : SetProjectEnabled(p, e)
    \/ \E t \in Tasks, p \in Projects, b \in Bodies, s \in Tasks \cup {None} :
          CreateTask(t, p, b, s)
    \/ \E t \in Tasks, b \in Bodies : UpdateTaskBody(t, b)
    \/ \E t \in Tasks, w \in WaitingInputs : UpdateTaskWaiting(t, w)
    \/ \E t \in Tasks, p \in Tasks \cup {None} : SetTaskParent(t, p)
    \/ \E t, d \in Tasks : AddTaskDependency(t, d)
    \/ \E t, d \in Tasks : RemoveTaskDependency(t, d)
    \/ \E t \in Tasks, s \in Tasks \cup {None} : SetTaskSupersession(t, s)
    \/ \E t \in Tasks : MarkReady(t)
    \/ \E t \in Tasks, r \in 1..MaxRevision : ClaimAccepted(t, r)
    \/ \E t \in Tasks, w \in WaitingInputs : DependencyCancelledEvent(t, w)
    \/ \E t \in Tasks, w \in WaitingInputs : ExecutionWait(t, w)
    \/ \E t \in Tasks, r \in 1..MaxRevision : CompletionAccepted(t, r)
    \/ \E t \in Tasks, c \in Continuations, r \in 1..MaxRevision :
          ContinuationAccepted(t, c, r)
    \/ \E t \in Tasks, d \in Dispositions \cup {None}, w \in DependentWaiting :
          Cancel(t, d, w)
    \/ \E t \in Tasks, d \in Dispositions, w \in DependentWaiting :
          InterruptionVerified(t, d, w)

Spec == Init /\ [][Next]_vars

-----------------------------------------------------------------------------
(* What a snapshot must satisfy (parseTask, parseSnapshot).                *)

(* parseTask: the waiting and terminal facts belong to the state. *)
FactsMatchState(t) ==
    LET r == task[t] IN
    /\ (r.waiting # None) <=> (r.state = "waiting")
    /\ r.state = "waiting" => r.waiting.waitingTaskRevision = r.revision
    /\ IF r.state \in TerminalStates
       THEN r.acceptedRevision = r.revision - 1
       ELSE r.acceptedRevision = 0

(* dependencyCycle finds none: every nonempty set of Tasks has a member    *)
(* with no dependency in the set.                                          *)
DependencyAcyclic ==
    \A S \in SUBSET Tasks :
        S # {} => \E u \in S : task[u].dependencyIds \cap S = {}

(* parentCycle finds none. *)
ParentAcyclic ==
    \A S \in SUBSET Tasks : S # {} => \E u \in S : task[u].parentId \notin S

(* The references of a registered Task are registered, and its parent is a *)
(* Task of the same Project.                                               *)
ReferencesResolve(t) ==
    LET r == task[t] IN
    Registered(t) =>
       /\ r.revision >= 1
       /\ r.projectId \in Projects /\ project[r.projectId] # "absent"
       /\ \A d \in r.dependencyIds : Registered(d)
       /\ r.supersedesTaskId # None =>
             r.supersedesTaskId # t /\ Registered(r.supersedesTaskId)
       /\ r.parentId # None =>
             /\ Registered(r.parentId)
             /\ task[r.parentId].projectId = r.projectId

-----------------------------------------------------------------------------
(* Properties.                                                             *)

(* Every Task and Project has the shape of its exported type. *)
TypeOK ==
    /\ project \in [Projects -> {"absent", "enabled", "disabled"}]
    /\ task \in [Tasks -> TaskRecords]

(* The snapshot a command returns always passes parseSnapshot: a sequence  *)
(* of accepted commands never makes a snapshot the next command would      *)
(* refuse to read.  Waiting facts stay bound to the current revision over  *)
(* body, parent and dependency edits; the dependency graph and the parent  *)
(* forest stay acyclic over edge removals and re-additions.                *)
SnapshotValid ==
    /\ \A t \in Tasks : FactsMatchState(t) /\ ReferencesResolve(t)
    /\ DependencyAcyclic
    /\ ParentAcyclic

(* A Task runs, and completes, only on completed dependencies: edges added *)
(* while it was ready or waiting are checked again by claim and by         *)
(* continuation, and none can be added in between.                         *)
RunsOnCompletedDependencies ==
    \A t \in Tasks :
        task[t].state \in {"running", "completed"} => DependenciesCompleted(t)

(* Cancelling a Task leaves no ready Task that depends on it: the direct   *)
(* dependents move to waiting in the same mutation                         *)
(* (cancelWithDirectDependents), under cancel and interruption alike.      *)
CancellationReachesReadyDependents ==
    [][\A t, u \in Tasks :
          /\ task[t].state # "cancelled"
          /\ task'[t].state = "cancelled"
          /\ t \in task[u].dependencyIds
          => task'[u].state # "ready"]_vars
=============================================================================
