-------------------------- MODULE TaskDomainProofs --------------------------
(***************************************************************************)
(* Proofs about TaskDomain for every set of Tasks, Projects, executions,   *)
(* bodies and times and every revision bound.                              *)
(*                                                                         *)
(* The three invariants are inductive only together: a claim keeps the     *)
(* facts coherent because the facts were coherent, and a running Task      *)
(* keeps its completed dependencies because terminal Tasks do not change.  *)
(* Most commands replace one Task (the operator Replace); ReplacePreserves *)
(* is the common argument for them.                                        *)
(*                                                                         *)
(* The second part proves WorkspaceOperations, whose owner is such a Task. *)
(***************************************************************************)
EXTENDS TaskDomain, WorkspaceOperations, FiniteSetTheorems, TLAPS

Inv == TypeOK /\ SnapshotValid /\ RunsOnCompletedDependencies

(* What is demanded of the record that replaces Task t. *)
Sound(t, r) ==
    /\ r \in TaskRecords
    /\ r.state # "absent"
    /\ r.revision = task[t].revision
    /\ r.projectId = task[t].projectId
    /\ (r.waiting # None) <=> (r.state = "waiting")
    /\ r.acceptedRevision = IF r.state \in TerminalStates THEN r.revision ELSE 0
    /\ \A d \in r.dependencyIds : Registered(d)
    /\ r.supersedesTaskId # None =>
          r.supersedesTaskId # t /\ Registered(r.supersedesTaskId)
    /\ r.parentId # None => /\ Registered(r.parentId)
                            /\ task[r.parentId].projectId = r.projectId
    /\ r.state \in {"running", "completed"} =>
          \A d \in r.dependencyIds : task[d].state = "completed"

(* nextTask changes the revision and rebinds a waiting fact to it. *)
LEMMA NextTaskFields ==
    ASSUME NEW r \in TaskRecords, r.revision < MaxRevision,
           (r.waiting # None) <=> (r.state = "waiting")
    PROVE  /\ NextTask(r) \in TaskRecords
           /\ NextTask(r).state = r.state
           /\ NextTask(r).revision = r.revision + 1
           /\ NextTask(r).projectId = r.projectId
           /\ NextTask(r).parentId = r.parentId
           /\ NextTask(r).dependencyIds = r.dependencyIds
           /\ NextTask(r).acceptedRevision = r.acceptedRevision
           /\ NextTask(r).supersedesTaskId = r.supersedesTaskId
           /\ r.state = "waiting" =>
                 /\ NextTask(r).waiting # None
                 /\ NextTask(r).waiting.waitingTaskRevision = r.revision + 1
           /\ r.state # "waiting" => NextTask(r).waiting = None
<1> DEFINE w == IF r.state = "waiting"
                THEN [r.waiting EXCEPT !.waitingTaskRevision = r.revision + 1]
                ELSE r.waiting
<1>1. MaxRevision \in Nat
  BY DomainAssumption
<1>2. w \in WaitingFacts \cup {None}
  BY <1>1, SMT DEF TaskRecords, WaitingFacts
<1>3. r.state = "waiting" => w \in WaitingFacts /\ w.waitingTaskRevision = r.revision + 1
  BY <1>1, SMT DEF TaskRecords, WaitingFacts
<1>4. r.state # "waiting" => w = None
  OBVIOUS
<1>5. NextTask(r) = [r EXCEPT !.revision = r.revision + 1, !.waiting = w]
  BY DEF NextTask, TaskRecords
<1> HIDE DEF w
<1>6. r.revision + 1 \in 0..MaxRevision
  BY <1>1, SMT DEF TaskRecords
<1>7. NextTask(r) \in TaskRecords
  <2>1. [r EXCEPT !.revision = r.revision + 1, !.waiting = w] \in TaskRecords
    BY <1>2, <1>6, Zenon DEF TaskRecords
  <2> QED
    BY <2>1, <1>5
<1>8. /\ NextTask(r).state = r.state
      /\ NextTask(r).revision = r.revision + 1
      /\ NextTask(r).projectId = r.projectId
      /\ NextTask(r).parentId = r.parentId
      /\ NextTask(r).dependencyIds = r.dependencyIds
      /\ NextTask(r).acceptedRevision = r.acceptedRevision
      /\ NextTask(r).supersedesTaskId = r.supersedesTaskId
      /\ NextTask(r).waiting = w
  BY <1>5, SMT DEF TaskRecords
<1> QED
  BY <1>3, <1>4, <1>7, <1>8, NullAssumption

(* What a step that replaces Task t leaves behind. *)
LEMMA ReplaceFields ==
    ASSUME TypeOK, NEW t \in Tasks, NEW r, Sound(t, r), Replace(t, r)
    PROVE  /\ project' = project
           /\ task' \in [Tasks -> TaskRecords]
           /\ \A u \in Tasks \ {t} : task'[u] = task[u]
           /\ task'[t] = NextTask(r)
           /\ task'[t].state = r.state
           /\ task'[t].revision = r.revision + 1
           /\ task'[t].projectId = r.projectId
           /\ task'[t].parentId = r.parentId
           /\ task'[t].dependencyIds = r.dependencyIds
           /\ task'[t].acceptedRevision = r.acceptedRevision
           /\ task'[t].supersedesTaskId = r.supersedesTaskId
           /\ r.state = "waiting" =>
                 /\ task'[t].waiting # None
                 /\ task'[t].waiting.waitingTaskRevision = r.revision + 1
           /\ r.state # "waiting" => task'[t].waiting = None
<1>1. /\ r \in TaskRecords /\ r.revision < MaxRevision
      /\ (r.waiting # None) <=> (r.state = "waiting")
  BY DEF Sound, Replace, CanAdvance
<1>2. NextTask(r) \in TaskRecords
  BY <1>1, NextTaskFields
<1>3. /\ task' = [task EXCEPT ![t] = NextTask(r)]
      /\ project' = project
      /\ task \in [Tasks -> TaskRecords]
  BY DEF Replace, TypeOK
<1>4. /\ task' \in [Tasks -> TaskRecords]
      /\ task'[t] = NextTask(r)
      /\ \A u \in Tasks \ {t} : task'[u] = task[u]
  BY <1>2, <1>3
<1> QED
  BY <1>1, <1>3, <1>4, NextTaskFields

(* A step that replaces one unfinished Task by a sound record preserves    *)
(* the invariant, given that both graphs stay acyclic.                     *)
LEMMA ReplacePreserves ==
    ASSUME Inv, NEW t \in Tasks, Mutable(t), NEW r, Sound(t, r), Replace(t, r),
           DependencyAcyclic', ParentAcyclic'
    PROVE  Inv'
<1>1. /\ project' = project
      /\ task' \in [Tasks -> TaskRecords]
      /\ \A u \in Tasks \ {t} : task'[u] = task[u]
      /\ task'[t].state = r.state
      /\ task'[t].revision = r.revision + 1
      /\ task'[t].projectId = r.projectId
      /\ task'[t].parentId = r.parentId
      /\ task'[t].dependencyIds = r.dependencyIds
      /\ task'[t].acceptedRevision = r.acceptedRevision
      /\ task'[t].supersedesTaskId = r.supersedesTaskId
      /\ r.state = "waiting" =>
            /\ task'[t].waiting # None
            /\ task'[t].waiting.waitingTaskRevision = r.revision + 1
      /\ r.state # "waiting" => task'[t].waiting = None
  BY ReplaceFields DEF Inv
<1>2. TypeOK'
  BY <1>1 DEF TypeOK, Inv
<1>3. r.revision \in Nat /\ r \in TaskRecords
  BY DomainAssumption DEF Sound, TaskRecords
<1>4. ASSUME NEW u \in Tasks PROVE Registered(u)' <=> Registered(u)
  <2>1. CASE u = t
    BY <2>1, <1>1 DEF Registered, Mutable, Sound
  <2>2. CASE u # t
    BY <2>2, <1>1 DEF Registered
  <2> QED BY <2>1, <2>2
<1>5. ASSUME NEW u \in Tasks PROVE FactsMatchState(u)'
  <2>1. CASE u = t
    BY <2>1, <1>1, <1>3 DEF FactsMatchState, Sound
  <2>2. CASE u # t
    <3>1. task'[u] = task[u] /\ FactsMatchState(u)
      BY <2>2, <1>1 DEF Inv, SnapshotValid
    <3> QED BY <3>1 DEF FactsMatchState
  <2> QED BY <2>1, <2>2
<1>6. ASSUME NEW u \in Tasks PROVE task'[u].projectId = task[u].projectId
  BY <1>1 DEF Sound
<1>7. ASSUME NEW u \in Tasks PROVE ReferencesResolve(u)'
  <2>1. CASE u = t
    <3>1. /\ r.dependencyIds \subseteq Tasks
          /\ r.supersedesTaskId \in Tasks \cup {None}
          /\ r.parentId \in Tasks \cup {None}
      BY <1>3 DEF TaskRecords
    <3>2. /\ r.projectId \in Projects /\ project[r.projectId] # "absent"
      BY DEF Inv, SnapshotValid, ReferencesResolve, Sound, Mutable
    <3>3. /\ \A d \in r.dependencyIds : Registered(d)'
          /\ r.supersedesTaskId # None =>
                r.supersedesTaskId # t /\ Registered(r.supersedesTaskId)'
          /\ r.parentId # None => Registered(r.parentId)'
      BY <3>1, <1>4 DEF Sound
    <3>4. r.parentId # None => task'[r.parentId].projectId = r.projectId
      BY <3>1, <1>6 DEF Sound
    <3> QED BY <2>1, <3>2, <3>3, <3>4, <1>1, <1>3 DEF ReferencesResolve
  <2>2. CASE u # t
    <3>1. task'[u] = task[u] /\ ReferencesResolve(u)
      BY <2>2, <1>1 DEF Inv, SnapshotValid
    <3>2. /\ task[u].dependencyIds \subseteq Tasks
          /\ task[u].supersedesTaskId \in Tasks \cup {None}
          /\ task[u].parentId \in Tasks \cup {None}
      BY DEF Inv, TypeOK, TaskRecords
    <3> QED BY <3>1, <3>2, <1>1, <1>4, <1>6 DEF ReferencesResolve
  <2> QED BY <2>1, <2>2
<1>8. RunsOnCompletedDependencies'
  <2> SUFFICES ASSUME NEW u \in Tasks, task'[u].state \in {"running", "completed"},
                      NEW d \in task'[u].dependencyIds
               PROVE  task'[d].state = "completed"
    BY DEF RunsOnCompletedDependencies, DependenciesCompleted
  <2>1. task[d].state = "completed"
    BY <1>1 DEF Sound, Inv, RunsOnCompletedDependencies, DependenciesCompleted
  <2>2. d \in Tasks
    BY <1>1 DEF TaskRecords
  <2>3. d # t
    BY <2>1 DEF Mutable, TerminalStates
  <2> QED BY <2>1, <2>2, <2>3, <1>1
<1> QED
  BY <1>2, <1>5, <1>7, <1>8 DEF Inv, SnapshotValid

(* A step that keeps the edges keeps both graphs acyclic. *)
LEMMA SameGraph ==
    ASSUME Inv, NEW t \in Tasks, NEW r, Sound(t, r), Replace(t, r),
           r.dependencyIds = task[t].dependencyIds, r.parentId = task[t].parentId
    PROVE  DependencyAcyclic' /\ ParentAcyclic'
<1>1. \A u \in Tasks : /\ task'[u].dependencyIds = task[u].dependencyIds
                       /\ task'[u].parentId = task[u].parentId
  BY ReplaceFields DEF Inv
<1> QED
  BY <1>1 DEF Inv, SnapshotValid, DependencyAcyclic, ParentAcyclic

(* The acyclicity test of addTaskDependency is enough: a set closed under  *)
(* the old edges separates the new dependency from the dependent.          *)
LEMMA AddKeepsAcyclic ==
    ASSUME Inv, NEW t \in Tasks, NEW d \in Tasks, ~DependencyReaches(d, t),
           \A u \in Tasks \ {t} : task'[u].dependencyIds = task[u].dependencyIds,
           task'[t].dependencyIds = task[t].dependencyIds \cup {d}
    PROVE  DependencyAcyclic'
<1>1. PICK Z \in SUBSET Tasks :
        /\ d \in Z /\ t \notin Z
        /\ \A u \in Z : task[u].dependencyIds \subseteq Z
  BY DEF DependencyReaches
<1> SUFFICES ASSUME NEW S \in SUBSET Tasks, S # {}
             PROVE  \E u \in S : task'[u].dependencyIds \cap S = {}
  BY DEF DependencyAcyclic
<1>2. \A X \in SUBSET Tasks :
        X # {} => \E u \in X : task[u].dependencyIds \cap X = {}
  BY DEF Inv, SnapshotValid, DependencyAcyclic
<1>3. CASE S \cap Z = {}
  <2>1. PICK u \in S : task[u].dependencyIds \cap S = {}
    BY <1>2
  <2>2. d \notin S
    BY <1>1, <1>3
  <2> QED BY <2>1, <2>2
<1>4. CASE S \cap Z # {}
  <2>1. PICK u \in S \cap Z : task[u].dependencyIds \cap (S \cap Z) = {}
    <3>1. S \cap Z \in SUBSET Tasks
      OBVIOUS
    <3> QED BY <3>1, <1>4, <1>2
  <2>2. u \in Tasks \ {t} /\ task[u].dependencyIds \subseteq Z
    BY <2>1, <1>1
  <2> QED BY <2>1, <2>2
<1> QED BY <1>3, <1>4

(* The walk of setTaskParent is enough for the parent forest. *)
LEMMA ParentKeepsAcyclic ==
    ASSUME Inv, NEW t \in Tasks, NEW p \in Tasks \cup {None},
           p # None => ~AncestorOrSelf(p, t),
           \A u \in Tasks \ {t} : task'[u].parentId = task[u].parentId,
           task'[t].parentId = p
    PROVE  ParentAcyclic'
<1> SUFFICES ASSUME NEW S \in SUBSET Tasks, S # {}
             PROVE  \E u \in S : task'[u].parentId \notin S
  BY DEF ParentAcyclic
<1>1. None \notin Tasks
  BY DomainAssumption
<1>2. \A X \in SUBSET Tasks : X # {} => \E u \in X : task[u].parentId \notin X
  BY DEF Inv, SnapshotValid, ParentAcyclic
<1>3. CASE p = None
  BY <1>1, <1>2, <1>3
<1>4. CASE p # None
  <2>1. PICK Z \in SUBSET Tasks :
          /\ p \in Z /\ t \notin Z
          /\ \A u \in Z : task[u].parentId \in Z \cup {None}
    BY <1>4 DEF AncestorOrSelf
  <2>2. CASE S \cap Z = {}
    <3>1. PICK u \in S : task[u].parentId \notin S
      BY <1>2
    <3> QED BY <3>1, <2>1, <2>2
  <2>3. CASE S \cap Z # {}
    <3>1. S \cap Z \in SUBSET Tasks
      OBVIOUS
    <3>2. PICK u \in S \cap Z : task[u].parentId \notin S \cap Z
      BY <3>1, <2>3, <1>2
    <3> QED BY <3>2, <2>1, <1>1
  <2> QED BY <2>2, <2>3
<1> QED BY <1>3, <1>4

(* The record of an unfinished Task is itself sound. *)
LEMMA CurrentSound ==
    ASSUME Inv, NEW t \in Tasks, Mutable(t)
    PROVE  Sound(t, task[t])
<1>1. task[t] \in TaskRecords
  BY DEF Inv, TypeOK
<1>2. FactsMatchState(t) /\ ReferencesResolve(t)
  BY DEF Inv, SnapshotValid
<1>3. task[t].state \in {"running", "completed"} =>
         \A d \in task[t].dependencyIds : task[d].state = "completed"
  BY DEF Inv, RunsOnCompletedDependencies, DependenciesCompleted
<1> QED
  BY <1>1, <1>2, <1>3 DEF Sound, FactsMatchState, ReferencesResolve, Mutable, Registered

(* The commands on a Task's content and on the graph. *)
LEMMA ContentStep ==
    ASSUME Inv, NEW t \in Tasks, Mutable(t)
    PROVE  /\ \A b \in Bodies : UpdateTaskBody(t, b) => Inv'
           /\ \A w \in WaitingInputs : UpdateTaskWaiting(t, w) => Inv'
           /\ \A s \in Tasks \cup {None} : SetTaskSupersession(t, s) => Inv'
           /\ \A q \in Tasks \cup {None} : SetTaskParent(t, q) => Inv'
           /\ \A d \in Tasks : AddTaskDependency(t, d) => Inv'
           /\ \A d \in Tasks : RemoveTaskDependency(t, d) => Inv'
<1>0. Sound(t, task[t]) /\ task[t] \in TaskRecords
  BY CurrentSound DEF Inv, TypeOK
<1>1. ASSUME NEW b \in Bodies, UpdateTaskBody(t, b) PROVE Inv'
  <2> DEFINE r == [task[t] EXCEPT !.body = b]
  <2>1. r \in TaskRecords
    BY <1>0, Zenon DEF TaskRecords
  <2>2. /\ Sound(t, r)
        /\ r.dependencyIds = task[t].dependencyIds /\ r.parentId = task[t].parentId
    BY <1>0, <2>1 DEF Sound, TaskRecords
  <2>3. Replace(t, r)
    BY <1>1 DEF UpdateTaskBody
  <2> HIDE DEF r
  <2> QED BY <2>2, <2>3, SameGraph, ReplacePreserves
<1>2. ASSUME NEW w \in WaitingInputs, UpdateTaskWaiting(t, w) PROVE Inv'
  <2> DEFINE v == Waiting(w, task[t].revision)
             r == [task[t] EXCEPT !.waiting = v]
  <2>1. v \in WaitingFacts
    <3>1. task[t].revision >= 1
      BY DEF Inv, SnapshotValid, ReferencesResolve, Mutable
    <3>2. task[t].revision \in 1..MaxRevision
      BY <1>0, <3>1, DomainAssumption, SMT DEF TaskRecords
    <3> QED BY <3>2 DEF Waiting, WaitingFacts
  <2>2. task[t].state = "waiting"
    BY <1>2 DEF UpdateTaskWaiting
  <2>3. Replace(t, r)
    BY <1>2 DEF UpdateTaskWaiting
  <2> HIDE DEF v
  <2>4. r \in TaskRecords
    BY <1>0, <2>1, Zenon DEF TaskRecords
  <2>5. /\ Sound(t, r)
        /\ r.dependencyIds = task[t].dependencyIds /\ r.parentId = task[t].parentId
    BY <1>0, <2>1, <2>2, <2>4, NullAssumption DEF Sound, TaskRecords
  <2> HIDE DEF r
  <2> QED BY <2>3, <2>5, SameGraph, ReplacePreserves
<1>3. ASSUME NEW s \in Tasks \cup {None}, SetTaskSupersession(t, s) PROVE Inv'
  <2> DEFINE r == [task[t] EXCEPT !.supersedesTaskId = s]
  <2>1. r \in TaskRecords
    BY <1>0, Zenon DEF TaskRecords
  <2>2. /\ Sound(t, r)
        /\ r.dependencyIds = task[t].dependencyIds /\ r.parentId = task[t].parentId
    BY <1>0, <1>3, <2>1 DEF Sound, TaskRecords, SetTaskSupersession
  <2>3. Replace(t, r)
    BY <1>3 DEF SetTaskSupersession
  <2> HIDE DEF r
  <2> QED BY <2>2, <2>3, SameGraph, ReplacePreserves
<1>4. ASSUME NEW q \in Tasks \cup {None}, SetTaskParent(t, q) PROVE Inv'
  <2> DEFINE r == [task[t] EXCEPT !.parentId = q]
  <2>1. r \in TaskRecords
    BY <1>0, Zenon DEF TaskRecords
  <2>2. /\ Sound(t, r)
        /\ r.dependencyIds = task[t].dependencyIds /\ r.parentId = q
    BY <1>0, <1>4, <2>1 DEF Sound, TaskRecords, SetTaskParent
  <2>3. Replace(t, r) /\ (q # None => ~AncestorOrSelf(q, t))
    BY <1>4 DEF SetTaskParent
  <2> HIDE DEF r
  <2>4. /\ \A u \in Tasks \ {t} : task'[u] = task[u]
        /\ task'[t].dependencyIds = task[t].dependencyIds /\ task'[t].parentId = q
    BY <2>2, <2>3, ReplaceFields DEF Inv
  <2>5. ParentAcyclic'
    BY <2>3, <2>4, ParentKeepsAcyclic
  <2>6. DependencyAcyclic'
    BY <2>4 DEF Inv, SnapshotValid, DependencyAcyclic
  <2> QED BY <2>2, <2>3, <2>5, <2>6, ReplacePreserves
<1>5. ASSUME NEW d \in Tasks, AddTaskDependency(t, d) PROVE Inv'
  <2> DEFINE r == [task[t] EXCEPT !.dependencyIds = @ \cup {d}]
  <2>1. r \in TaskRecords
    <3>1. task[t].dependencyIds \cup {d} \in SUBSET Tasks
      BY <1>0 DEF TaskRecords
    <3> QED BY <1>0, <3>1, Zenon DEF TaskRecords
  <2>2. /\ Sound(t, r)
        /\ r.dependencyIds = task[t].dependencyIds \cup {d} /\ r.parentId = task[t].parentId
    BY <1>0, <1>5, <2>1 DEF Sound, TaskRecords, AddTaskDependency, GraphMutableStates
  <2>3. Replace(t, r) /\ ~DependencyReaches(d, t)
    BY <1>5 DEF AddTaskDependency
  <2> HIDE DEF r
  <2>4. /\ \A u \in Tasks \ {t} : task'[u] = task[u]
        /\ task'[t].dependencyIds = task[t].dependencyIds \cup {d}
        /\ task'[t].parentId = task[t].parentId
    BY <2>2, <2>3, ReplaceFields DEF Inv
  <2>5. DependencyAcyclic'
    BY <2>3, <2>4, AddKeepsAcyclic
  <2>6. ParentAcyclic'
    BY <2>4 DEF Inv, SnapshotValid, ParentAcyclic
  <2> QED BY <2>2, <2>3, <2>5, <2>6, ReplacePreserves
<1>6. ASSUME NEW d \in Tasks, RemoveTaskDependency(t, d) PROVE Inv'
  <2> DEFINE r == [task[t] EXCEPT !.dependencyIds = @ \ {d}]
  <2>1. r \in TaskRecords
    <3>1. task[t].dependencyIds \ {d} \in SUBSET Tasks
      BY <1>0 DEF TaskRecords
    <3> QED BY <1>0, <3>1, Zenon DEF TaskRecords
  <2>2. /\ Sound(t, r)
        /\ r.dependencyIds = task[t].dependencyIds \ {d} /\ r.parentId = task[t].parentId
    BY <1>0, <1>6, <2>1 DEF Sound, TaskRecords
  <2>3. Replace(t, r)
    BY <1>6 DEF RemoveTaskDependency
  <2> HIDE DEF r
  <2>4. /\ \A u \in Tasks \ {t} : task'[u] = task[u]
        /\ task'[t].dependencyIds = task[t].dependencyIds \ {d}
        /\ task'[t].parentId = task[t].parentId
    BY <2>2, <2>3, ReplaceFields DEF Inv
  <2>5. \A u \in Tasks : task'[u].dependencyIds \subseteq task[u].dependencyIds
    BY <2>4
  <2>6. DependencyAcyclic' /\ ParentAcyclic'
    BY <2>4, <2>5 DEF Inv, SnapshotValid, DependencyAcyclic, ParentAcyclic
  <2> QED BY <2>2, <2>3, <2>6, ReplacePreserves
<1> QED BY <1>1, <1>2, <1>3, <1>4, <1>5, <1>6

(* The transitions of a single Task. *)
LEMMA TransitionStep ==
    ASSUME Inv, NEW t \in Tasks, Mutable(t)
    PROVE  /\ MarkReady(t) => Inv'
           /\ \A k \in 1..MaxRevision : ClaimAccepted(t, k) => Inv'
           /\ \A k \in 1..MaxRevision : CompletionAccepted(t, k) => Inv'
           /\ \A c \in Continuations, k \in 1..MaxRevision :
                 ContinuationAccepted(t, c, k) => Inv'
           /\ \A w \in WaitingInputs : DependencyCancelledEvent(t, w) => Inv'
           /\ \A w \in WaitingInputs : ExecutionWait(t, w) => Inv'
<1>0. Sound(t, task[t]) /\ task[t] \in TaskRecords /\ DependenciesCompleted(t) \in BOOLEAN
  BY CurrentSound DEF Inv, TypeOK, DependenciesCompleted
<1>1. ASSUME MarkReady(t) PROVE Inv'
  <2> DEFINE r == [task[t] EXCEPT !.state = "ready"]
  <2>1. r \in TaskRecords
    BY <1>0, <1>1, Zenon DEF TaskRecords, TaskStates, TerminalStates
  <2>2. /\ Sound(t, r)
        /\ r.dependencyIds = task[t].dependencyIds /\ r.parentId = task[t].parentId
    BY <1>0, <1>1, <2>1 DEF Sound, TaskRecords, TerminalStates, MarkReady
  <2>3. Replace(t, r)
    BY <1>1 DEF MarkReady
  <2> HIDE DEF r
  <2> QED BY <2>2, <2>3, SameGraph, ReplacePreserves
<1>2. ASSUME NEW k \in 1..MaxRevision, ClaimAccepted(t, k) PROVE Inv'
  <2> DEFINE r == [task[t] EXCEPT !.state = "running"]
  <2>1. r \in TaskRecords
    BY <1>0, <1>2, Zenon DEF TaskRecords, TaskStates, TerminalStates
  <2>2. /\ Sound(t, r)
        /\ r.dependencyIds = task[t].dependencyIds /\ r.parentId = task[t].parentId
    BY <1>0, <1>2, <2>1 DEF Sound, TaskRecords, TerminalStates, ClaimAccepted, Eligible, DependenciesCompleted
  <2>3. Replace(t, r)
    BY <1>2 DEF ClaimAccepted
  <2> HIDE DEF r
  <2> QED BY <2>2, <2>3, SameGraph, ReplacePreserves
<1>3. ASSUME NEW k \in 1..MaxRevision, CompletionAccepted(t, k) PROVE Inv'
  <2> DEFINE r == [task[t] EXCEPT !.state = "completed",
                                  !.acceptedRevision = task[t].revision]
  <2>1. r \in TaskRecords
    BY <1>0, <1>3, Zenon DEF TaskRecords, TaskStates, TerminalStates
  <2>2. /\ Sound(t, r)
        /\ r.dependencyIds = task[t].dependencyIds /\ r.parentId = task[t].parentId
    BY <1>0, <1>3, <2>1 DEF Sound, TaskRecords, TerminalStates, CompletionAccepted
  <2>3. Replace(t, r)
    BY <1>3 DEF CompletionAccepted
  <2> HIDE DEF r
  <2> QED BY <2>2, <2>3, SameGraph, ReplacePreserves
<1>4. ASSUME NEW c \in Continuations, NEW k \in 1..MaxRevision,
             ContinuationAccepted(t, c, k) PROVE Inv'
  <2> DEFINE r == [task[t] EXCEPT !.state = "running", !.waiting = None]
  <2>1. r \in TaskRecords
    BY <1>0, <1>4, Zenon DEF TaskRecords, TaskStates, TerminalStates
  <2>2. /\ Sound(t, r)
        /\ r.dependencyIds = task[t].dependencyIds /\ r.parentId = task[t].parentId
    BY <1>0, <1>4, <2>1 DEF Sound, TaskRecords, TerminalStates, ContinuationAccepted, ContinuationEligible,
            DependenciesCompleted
  <2>3. Replace(t, r)
    BY <1>4 DEF ContinuationAccepted
  <2> HIDE DEF r
  <2> QED BY <2>2, <2>3, SameGraph, ReplacePreserves
<1>5. ASSUME NEW w \in WaitingInputs, DependencyCancelledEvent(t, w) PROVE Inv'
  <2> DEFINE v == Waiting(w, task[t].revision + 1)
             r == [task[t] EXCEPT !.state = "waiting", !.waiting = v]
  <2>1. v \in WaitingFacts
    <3>1. task[t].revision + 1 \in 1..MaxRevision
      BY <1>0, <1>5, DomainAssumption, SMT DEF TaskRecords, DependencyCancelledEvent, Replace, CanAdvance
    <3> QED BY <3>1 DEF Waiting, WaitingFacts
  <2>2. task[t].state = "ready" /\ Replace(t, r)
    BY <1>5 DEF DependencyCancelledEvent
  <2> HIDE DEF v
  <2>3. r \in TaskRecords
    BY <1>0, <2>1, Zenon DEF TaskRecords, TaskStates
  <2>4. /\ Sound(t, r)
        /\ r.dependencyIds = task[t].dependencyIds /\ r.parentId = task[t].parentId
    BY <1>0, <2>1, <2>2, <2>3, NullAssumption DEF Sound, TaskRecords, TerminalStates
  <2> HIDE DEF r
  <2> QED BY <2>2, <2>4, SameGraph, ReplacePreserves
<1>6. ASSUME NEW w \in WaitingInputs, ExecutionWait(t, w) PROVE Inv'
  <2> DEFINE v == Waiting(w, task[t].revision + 1)
             r == [task[t] EXCEPT !.state = "waiting", !.waiting = v]
  <2>1. v \in WaitingFacts
    <3>1. task[t].revision + 1 \in 1..MaxRevision
      BY <1>0, <1>6, DomainAssumption, SMT DEF TaskRecords, ExecutionWait, Replace, CanAdvance
    <3> QED BY <3>1 DEF Waiting, WaitingFacts
  <2>2. task[t].state = "running" /\ Replace(t, r)
    BY <1>6 DEF ExecutionWait
  <2> HIDE DEF v
  <2>3. r \in TaskRecords
    BY <1>0, <2>1, Zenon DEF TaskRecords, TaskStates
  <2>4. /\ Sound(t, r)
        /\ r.dependencyIds = task[t].dependencyIds /\ r.parentId = task[t].parentId
    BY <1>0, <2>1, <2>2, <2>3, NullAssumption DEF Sound, TaskRecords, TerminalStates
  <2> HIDE DEF r
  <2> QED BY <2>2, <2>4, SameGraph, ReplacePreserves
<1> QED BY <1>1, <1>2, <1>3, <1>4, <1>5, <1>6

(* registerProject, setProjectEnabled and createTask. *)
LEMMA RegistrationStep ==
    ASSUME Inv
    PROVE  /\ \A p \in Projects : RegisterProject(p) => Inv'
           /\ \A p \in Projects, e \in BOOLEAN : SetProjectEnabled(p, e) => Inv'
           /\ \A t \in Tasks, p \in Projects, b \in Bodies, s \in Tasks \cup {None} :
                 CreateTask(t, p, b, s) => Inv'
<1>0. TypeOK /\ SnapshotValid /\ RunsOnCompletedDependencies
  BY DEF Inv
<1>1. ASSUME task' = task, project' \in [Projects -> {"absent", "enabled", "disabled"}],
             \A p \in Projects : project[p] # "absent" => project'[p] # "absent"
      PROVE  Inv'
  <2>1. TypeOK' /\ RunsOnCompletedDependencies'
    BY <1>0, <1>1 DEF TypeOK, RunsOnCompletedDependencies, DependenciesCompleted
  <2>2. DependencyAcyclic' /\ ParentAcyclic'
    BY <1>0, <1>1 DEF SnapshotValid, DependencyAcyclic, ParentAcyclic
  <2>3. ASSUME NEW t \in Tasks PROVE FactsMatchState(t)' /\ ReferencesResolve(t)'
    BY <1>0, <1>1 DEF SnapshotValid, FactsMatchState, ReferencesResolve, Registered
  <2> QED BY <2>1, <2>2, <2>3 DEF Inv, SnapshotValid
<1>2. ASSUME NEW p \in Projects, RegisterProject(p) PROVE Inv'
  BY <1>0, <1>1, <1>2 DEF RegisterProject, TypeOK
<1>3. ASSUME NEW p \in Projects, NEW e \in BOOLEAN, SetProjectEnabled(p, e) PROVE Inv'
  BY <1>0, <1>1, <1>3 DEF SetProjectEnabled, TypeOK
<1>4. ASSUME NEW t \in Tasks, NEW p \in Projects, NEW b \in Bodies,
             NEW s \in Tasks \cup {None}, CreateTask(t, p, b, s)
      PROVE  Inv'
  <2> DEFINE n == [state |-> "idea", revision |-> 1, projectId |-> p, body |-> b,
                   parentId |-> None, dependencyIds |-> {}, waiting |-> None,
                   acceptedRevision |-> 0, supersedesTaskId |-> s]
  <2>2. n \in TaskRecords
    <3>1. 1 \in 0..MaxRevision /\ 0 \in 0..MaxRevision
      BY DomainAssumption, SMT
    <3> QED BY <3>1, Zenon DEF TaskRecords, TaskStates
  <2>3. /\ n.state = "idea" /\ n.revision = 1 /\ n.projectId = p /\ n.parentId = None
        /\ n.dependencyIds = {} /\ n.waiting = None /\ n.acceptedRevision = 0
        /\ n.supersedesTaskId = s
    OBVIOUS
  <2>4. task' = [task EXCEPT ![t] = n] /\ project' = project
    BY <1>4 DEF CreateTask
  <2> HIDE DEF n
  <2>5. /\ task' \in [Tasks -> TaskRecords] /\ task'[t] = n
        /\ \A u \in Tasks \ {t} : task'[u] = task[u]
    BY <1>0, <2>2, <2>4 DEF TypeOK
  <2>6. TypeOK'
    BY <1>0, <2>4, <2>5 DEF TypeOK
  <2>7. ~Registered(t)
    BY <1>4 DEF CreateTask
  <2>8. ASSUME NEW u \in Tasks, Registered(u)
        PROVE  u # t /\ Registered(u)' /\ task'[u] = task[u]
    BY <2>5, <2>7, <2>8 DEF Registered
  <2>9. ASSUME NEW u \in Tasks PROVE FactsMatchState(u)' /\ ReferencesResolve(u)'
    <3>1. CASE u = t
      <4>1. FactsMatchState(t)'
        BY <2>3, <2>5 DEF FactsMatchState, TerminalStates
      <4>2. s # None => s # t /\ Registered(s)'
        BY <1>4, <2>8 DEF CreateTask
      <4>3. project[p] # "absent"
        BY <1>4 DEF CreateTask
      <4>4. ReferencesResolve(t)'
        BY <2>3, <2>4, <2>5, <4>2, <4>3 DEF ReferencesResolve
      <4> QED BY <3>1, <4>1, <4>4
    <3>2. CASE u # t
      <4>1. task'[u] = task[u] /\ FactsMatchState(u) /\ ReferencesResolve(u)
        BY <1>0, <2>5, <3>2 DEF SnapshotValid
      <4>2. /\ task[u].dependencyIds \subseteq Tasks
            /\ task[u].supersedesTaskId \in Tasks \cup {None}
            /\ task[u].parentId \in Tasks \cup {None}
        BY <1>0 DEF TypeOK, TaskRecords
      <4>3. FactsMatchState(u)'
        BY <4>1 DEF FactsMatchState
      <4>4. Registered(u)' => Registered(u)
        BY <4>1 DEF Registered
      <4>5. ReferencesResolve(u)'
        BY <4>1, <4>2, <4>4, <2>4, <2>8 DEF ReferencesResolve
      <4> QED BY <4>3, <4>5
    <3> QED BY <3>1, <3>2
  <2>10. DependencyAcyclic'
    <3> SUFFICES ASSUME NEW S \in SUBSET Tasks, S # {}
                 PROVE  \E u \in S : task'[u].dependencyIds \cap S = {}
      BY DEF DependencyAcyclic
    <3>1. CASE t \in S
      BY <3>1, <2>3, <2>5
    <3>2. CASE t \notin S
      BY <3>2, <1>0, <2>5 DEF SnapshotValid, DependencyAcyclic
    <3> QED BY <3>1, <3>2
  <2>11. ParentAcyclic'
    <3> SUFFICES ASSUME NEW S \in SUBSET Tasks, S # {}
                 PROVE  \E u \in S : task'[u].parentId \notin S
      BY DEF ParentAcyclic
    <3>1. CASE t \in S
      BY <3>1, <2>3, <2>5, DomainAssumption
    <3>2. CASE t \notin S
      BY <3>2, <1>0, <2>5 DEF SnapshotValid, ParentAcyclic
    <3> QED BY <3>1, <3>2
  <2>12. RunsOnCompletedDependencies'
    <3> SUFFICES ASSUME NEW u \in Tasks, task'[u].state \in {"running", "completed"},
                        NEW d \in task'[u].dependencyIds
                 PROVE  task'[d].state = "completed"
      BY DEF RunsOnCompletedDependencies, DependenciesCompleted
    <3>1. u # t /\ task'[u] = task[u]
      BY <2>3, <2>5
    <3>2. d \in Tasks /\ task[d].state = "completed"
      BY <3>1, <1>0 DEF RunsOnCompletedDependencies, DependenciesCompleted, TypeOK, TaskRecords
    <3>3. Registered(d)
      BY <3>2 DEF Registered
    <3> QED BY <3>2, <3>3, <2>8
  <2> QED BY <2>6, <2>9, <2>10, <2>11, <2>12 DEF Inv, SnapshotValid
<1> QED BY <1>2, <1>3, <1>4

(* cancel and interruption_verified: t becomes cancelled and its ready     *)
(* direct dependents wait, in one step.                                    *)
LEMMA CancelStep ==
    ASSUME Inv, NEW t \in Tasks, Mutable(t), NEW w \in WaitingInputs,
           CancelWithDirectDependents(t, w)
    PROVE  Inv'
<1>0. TypeOK /\ SnapshotValid /\ RunsOnCompletedDependencies /\ task \in [Tasks -> TaskRecords]
  BY DEF Inv, TypeOK
<1> DEFINE c == [task[t] EXCEPT !.state = "cancelled", !.waiting = None,
                                !.acceptedRevision = task[t].revision]
           v(u) == Waiting(w, task[u].revision + 1)
           q(u) == [task[u] EXCEPT !.state = "waiting", !.waiting = v(u)]
<1>1. /\ \A u \in Tasks : task'[u] = IF u = t THEN NextTask(c)
                                    ELSE IF u \in ReadyDependents(t)
                                    THEN NextTask(q(u)) ELSE task[u]
      /\ project' = project
      /\ DOMAIN task' = Tasks
      /\ task' = [u \in Tasks |-> task'[u]]
      /\ \A u \in ReadyDependents(t) \cup {t} : task[u].revision < MaxRevision
  BY DEF CancelWithDirectDependents, CanAdvance
<1>2. /\ c \in TaskRecords /\ c.revision = task[t].revision /\ c.state = "cancelled"
      /\ c.waiting = None /\ c.acceptedRevision = task[t].revision
      /\ c.projectId = task[t].projectId /\ c.parentId = task[t].parentId
      /\ c.dependencyIds = task[t].dependencyIds
      /\ c.supersedesTaskId = task[t].supersedesTaskId
  <2>1. task[t] \in TaskRecords /\ task[t].revision \in 0..MaxRevision
    BY <1>0 DEF TaskRecords
  <2>2. c \in TaskRecords
    BY <2>1, Zenon DEF TaskRecords, TaskStates, TerminalStates
  <2> QED BY <2>1, <2>2 DEF TaskRecords
<1>3. ASSUME NEW u \in Tasks, u \in ReadyDependents(t)
      PROVE  /\ q(u) \in TaskRecords /\ q(u).revision = task[u].revision
             /\ q(u).state = "waiting" /\ q(u).waiting # None
             /\ q(u).acceptedRevision = task[u].acceptedRevision
             /\ q(u).projectId = task[u].projectId /\ q(u).parentId = task[u].parentId
             /\ q(u).dependencyIds = task[u].dependencyIds
             /\ q(u).supersedesTaskId = task[u].supersedesTaskId
  <2>1. task[u] \in TaskRecords
    BY <1>0
  <2>2. v(u) \in WaitingFacts
    <3>1. task[u].revision + 1 \in 1..MaxRevision
      <4>1. task[u].revision < MaxRevision
        BY <1>1, <1>3
      <4> QED BY <4>1, <2>1, DomainAssumption, SMT DEF TaskRecords
    <3> QED BY <3>1 DEF Waiting, WaitingFacts
  <2> HIDE DEF v
  <2>3. q(u) \in TaskRecords
    BY <2>1, <2>2, Zenon DEF TaskRecords, TaskStates
  <2> QED BY <2>1, <2>2, <2>3, NullAssumption DEF TaskRecords
<1> HIDE DEF c, q
<1>4. /\ task'[t] \in TaskRecords /\ task'[t].state = "cancelled"
      /\ task'[t].waiting = None /\ task'[t].revision = task[t].revision + 1
      /\ task'[t].acceptedRevision = task[t].revision
      /\ task'[t].projectId = task[t].projectId /\ task'[t].parentId = task[t].parentId
      /\ task'[t].dependencyIds = task[t].dependencyIds
      /\ task'[t].supersedesTaskId = task[t].supersedesTaskId
  BY <1>1, <1>2, NextTaskFields
<1>5. ASSUME NEW u \in Tasks, u # t, u \in ReadyDependents(t)
      PROVE  /\ task'[u] \in TaskRecords /\ task'[u].state = "waiting"
             /\ task'[u].waiting # None /\ task'[u].revision = task[u].revision + 1
             /\ task'[u].waiting.waitingTaskRevision = task[u].revision + 1
             /\ task'[u].acceptedRevision = task[u].acceptedRevision
             /\ task'[u].projectId = task[u].projectId /\ task'[u].parentId = task[u].parentId
             /\ task'[u].dependencyIds = task[u].dependencyIds
             /\ task'[u].supersedesTaskId = task[u].supersedesTaskId
  BY <1>1, <1>3, <1>5, NextTaskFields
<1>6. ASSUME NEW u \in Tasks, u # t, u \notin ReadyDependents(t)
      PROVE  task'[u] = task[u]
  BY <1>1, <1>6
<1>7. \A u \in Tasks : /\ task'[u] \in TaskRecords
                       /\ task'[u].projectId = task[u].projectId
                       /\ task'[u].parentId = task[u].parentId
                       /\ task'[u].dependencyIds = task[u].dependencyIds
                       /\ task'[u].supersedesTaskId = task[u].supersedesTaskId
                       /\ Registered(u) <=> Registered(u)'
  <2> SUFFICES ASSUME NEW u \in Tasks
               PROVE  /\ task'[u] \in TaskRecords
                      /\ task'[u].projectId = task[u].projectId
                      /\ task'[u].parentId = task[u].parentId
                      /\ task'[u].dependencyIds = task[u].dependencyIds
                      /\ task'[u].supersedesTaskId = task[u].supersedesTaskId
                      /\ Registered(u) <=> Registered(u)'
    OBVIOUS
  <2>1. CASE u = t
    BY <2>1, <1>4 DEF Registered, Mutable
  <2>2. CASE u # t /\ u \in ReadyDependents(t)
    BY <2>2, <1>5 DEF Registered, ReadyDependents
  <2>3. CASE u # t /\ u \notin ReadyDependents(t)
    BY <2>3, <1>0, <1>6 DEF Registered
  <2> QED BY <2>1, <2>2, <2>3
<1>8. TypeOK'
  BY <1>0, <1>1, <1>7 DEF TypeOK
<1>9. ASSUME NEW u \in Tasks PROVE FactsMatchState(u)'
  <2>1. FactsMatchState(u) /\ FactsMatchState(t)
    BY <1>0 DEF SnapshotValid
  <2>2. task[u].revision \in Nat /\ task[t].revision \in Nat
    BY <1>0, DomainAssumption DEF TaskRecords
  <2>3. CASE u = t
    BY <2>2, <2>3, <1>4 DEF FactsMatchState, TerminalStates
  <2>4. CASE u # t /\ u \in ReadyDependents(t)
    BY <2>1, <2>4, <1>5 DEF FactsMatchState, TerminalStates, ReadyDependents
  <2>5. CASE u # t /\ u \notin ReadyDependents(t)
    BY <2>1, <2>5, <1>6 DEF FactsMatchState
  <2> QED BY <2>3, <2>4, <2>5
<1>10. ASSUME NEW u \in Tasks PROVE ReferencesResolve(u)'
  <2>1. ReferencesResolve(u) /\ task[u].revision \in Nat /\ task[t].revision \in Nat
    BY <1>0, DomainAssumption DEF SnapshotValid, TaskRecords
  <2>2. /\ task[u].dependencyIds \subseteq Tasks
        /\ task[u].supersedesTaskId \in Tasks \cup {None}
        /\ task[u].parentId \in Tasks \cup {None}
    BY <1>0 DEF TaskRecords
  <2>3. Registered(u)' => task'[u].revision >= 1
    BY <2>1, <1>4, <1>5, <1>6, <1>7 DEF ReferencesResolve
  <2> QED BY <2>1, <2>2, <2>3, <1>1, <1>7 DEF ReferencesResolve
<1>11. DependencyAcyclic' /\ ParentAcyclic'
  BY <1>0, <1>7 DEF SnapshotValid, DependencyAcyclic, ParentAcyclic
<1>12. RunsOnCompletedDependencies'
  <2> SUFFICES ASSUME NEW u \in Tasks, task'[u].state \in {"running", "completed"},
                      NEW d \in task'[u].dependencyIds
               PROVE  task'[d].state = "completed"
    BY DEF RunsOnCompletedDependencies, DependenciesCompleted
  <2>1. u # t /\ u \notin ReadyDependents(t) /\ task'[u] = task[u]
    BY <1>4, <1>5, <1>6
  <2>2. d \in Tasks /\ task[d].state = "completed"
    BY <2>1, <1>0 DEF RunsOnCompletedDependencies, DependenciesCompleted, TaskRecords
  <2>3. d # t /\ d \notin ReadyDependents(t)
    BY <2>2 DEF Mutable, TerminalStates, ReadyDependents
  <2> QED BY <2>2, <2>3, <1>6
<1> QED
  BY <1>8, <1>9, <1>10, <1>11, <1>12 DEF Inv, SnapshotValid

(* Every command preserves the invariant. *)
LEMMA NextPreserves ==
    Inv /\ [Next]_vars => Inv'
<1> SUFFICES ASSUME Inv, [Next]_vars PROVE Inv'
  OBVIOUS
<1>1. CASE UNCHANGED vars
  BY <1>1 DEF vars, Inv, TypeOK, SnapshotValid, RunsOnCompletedDependencies,
         FactsMatchState, ReferencesResolve, DependencyAcyclic, ParentAcyclic,
         DependenciesCompleted, Registered
<1>2. ASSUME NEW t \in Tasks, task[t].state \in {"idea", "ready", "running", "waiting"}
      PROVE  Mutable(t)
  BY <1>2 DEF Mutable, Registered, TerminalStates
<1>3. ASSUME NEW p \in Projects, RegisterProject(p) PROVE Inv'
  BY <1>3, RegistrationStep
<1>4. ASSUME NEW p \in Projects, NEW e \in BOOLEAN, SetProjectEnabled(p, e) PROVE Inv'
  BY <1>4, RegistrationStep
<1>5. ASSUME NEW t \in Tasks, NEW p \in Projects, NEW b \in Bodies,
             NEW s \in Tasks \cup {None}, CreateTask(t, p, b, s) PROVE Inv'
  BY <1>5, RegistrationStep
<1>6. ASSUME NEW t \in Tasks, NEW b \in Bodies, UpdateTaskBody(t, b) PROVE Inv'
  BY <1>6, ContentStep DEF UpdateTaskBody
<1>7. ASSUME NEW t \in Tasks, NEW w \in WaitingInputs, UpdateTaskWaiting(t, w) PROVE Inv'
  BY <1>7, ContentStep DEF UpdateTaskWaiting
<1>8. ASSUME NEW t \in Tasks, NEW p \in Tasks \cup {None}, SetTaskParent(t, p) PROVE Inv'
  BY <1>8, ContentStep DEF SetTaskParent
<1>9. ASSUME NEW t \in Tasks, NEW d \in Tasks, AddTaskDependency(t, d) PROVE Inv'
  BY <1>9, ContentStep DEF AddTaskDependency
<1>10. ASSUME NEW t \in Tasks, NEW d \in Tasks, RemoveTaskDependency(t, d) PROVE Inv'
  BY <1>10, ContentStep DEF RemoveTaskDependency
<1>11. ASSUME NEW t \in Tasks, NEW s \in Tasks \cup {None}, SetTaskSupersession(t, s) PROVE Inv'
  BY <1>11, ContentStep DEF SetTaskSupersession
<1>12. ASSUME NEW t \in Tasks, MarkReady(t) PROVE Inv'
  BY <1>12, <1>2, TransitionStep DEF MarkReady
<1>13. ASSUME NEW t \in Tasks, NEW k \in 1..MaxRevision, ClaimAccepted(t, k) PROVE Inv'
  BY <1>13, <1>2, TransitionStep DEF ClaimAccepted, Eligible
<1>14. ASSUME NEW t \in Tasks, NEW w \in WaitingInputs, DependencyCancelledEvent(t, w) PROVE Inv'
  BY <1>14, <1>2, TransitionStep DEF DependencyCancelledEvent
<1>15. ASSUME NEW t \in Tasks, NEW w \in WaitingInputs, ExecutionWait(t, w) PROVE Inv'
  BY <1>15, <1>2, TransitionStep DEF ExecutionWait
<1>16. ASSUME NEW t \in Tasks, NEW k \in 1..MaxRevision, CompletionAccepted(t, k) PROVE Inv'
  BY <1>16, <1>2, TransitionStep DEF CompletionAccepted
<1>17. ASSUME NEW t \in Tasks, NEW c \in Continuations, NEW k \in 1..MaxRevision,
              ContinuationAccepted(t, c, k) PROVE Inv'
  BY <1>17, <1>2, TransitionStep DEF ContinuationAccepted, ContinuationEligible
<1>18. ASSUME NEW t \in Tasks, NEW d \in Dispositions \cup {None}, NEW w \in DependentWaiting,
              Cancel(t, d, w) PROVE Inv'
  BY <1>18, <1>2, CancelStep DEF Cancel, DependentWaiting
<1>19. ASSUME NEW t \in Tasks, NEW d \in Dispositions, NEW w \in DependentWaiting,
              InterruptionVerified(t, d, w) PROVE Inv'
  BY <1>19, <1>2, CancelStep DEF InterruptionVerified, DependentWaiting
<1> QED
  BY <1>1, <1>3, <1>4, <1>5, <1>6, <1>7, <1>8, <1>9, <1>10, <1>11, <1>12, <1>13,
     <1>14, <1>15, <1>16, <1>17, <1>18, <1>19 DEF Next

(* The empty snapshot satisfies the inductive invariant. *)
LEMMA InitEstablishes == Init => Inv
<1> SUFFICES ASSUME Init PROVE Inv
  OBVIOUS
<1>1. Unregistered \in TaskRecords
  <2>1. 0 \in 0..MaxRevision
    BY DomainAssumption, SMT
  <2> QED BY <2>1, Zenon DEF Unregistered, TaskRecords
<1>2. /\ Unregistered.state = "absent" /\ Unregistered.dependencyIds = {}
      /\ Unregistered.parentId = None /\ Unregistered.waiting = None
      /\ Unregistered.acceptedRevision = 0
  BY DEF Unregistered
<1>3. TypeOK
  BY <1>1 DEF Init, TypeOK
<1>4. \A t \in Tasks : task[t] = Unregistered
  BY DEF Init
<1>5. \A t \in Tasks : FactsMatchState(t) /\ ReferencesResolve(t)
  BY <1>2, <1>4 DEF FactsMatchState, ReferencesResolve, Registered, TerminalStates
<1>6. DependencyAcyclic /\ ParentAcyclic
  BY <1>2, <1>4, DomainAssumption DEF DependencyAcyclic, ParentAcyclic
<1>7. RunsOnCompletedDependencies
  BY <1>2, <1>4 DEF RunsOnCompletedDependencies
<1> QED BY <1>3, <1>5, <1>6, <1>7 DEF Inv, SnapshotValid

(* Every Task and Project always has its exported shape. *)
THEOREM DomainTypeOK == Spec => []TypeOK
<1>1. Inv => TypeOK
  BY DEF Inv
<1> QED BY <1>1, InitEstablishes, NextPreserves, PTL DEF Spec

(* No sequence of accepted commands leaves a snapshot that parseSnapshot   *)
(* refuses: facts match states, references resolve, and the dependency     *)
(* graph and the parent forest are acyclic.                                *)
THEOREM DomainSnapshotValid == Spec => []SnapshotValid
<1>1. Inv => SnapshotValid
  BY DEF Inv
<1> QED BY <1>1, InitEstablishes, NextPreserves, PTL DEF Spec

(* A Task runs, and completes, only on completed dependencies. *)
THEOREM DomainRunsOnCompleted == Spec => []RunsOnCompletedDependencies
<1>1. Inv => RunsOnCompletedDependencies
  BY DEF Inv
<1> QED BY <1>1, InitEstablishes, NextPreserves, PTL DEF Spec
-----------------------------------------------------------------------------
(* nextTask keeps the state. *)
LEMMA NextState ==
    ASSUME NEW r, "state" \in DOMAIN r
    PROVE  NextTask(r).state = r.state
<1>1. PICK k : k = r.revision + 1
  OBVIOUS
<1>2. PICK w : w = IF r.state = "waiting" THEN [r.waiting EXCEPT !.waitingTaskRevision = k] ELSE r.waiting
  OBVIOUS
<1>3. NextTask(r) = [r EXCEPT !.revision = k, !.waiting = w]
  BY <1>1, <1>2 DEF NextTask
<1> QED
  BY <1>3

(* The state of a Task that one command replaces. *)
LEMMA ReplacedState ==
    ASSUME TypeOK, NEW t \in Tasks, NEW r, "state" \in DOMAIN r, Replace(t, r)
    PROVE  task'[t].state = r.state /\ \A u \in Tasks \ {t} : task'[u] = task[u]
<1>1. PICK n : n = NextTask(r)
  OBVIOUS
<1>2. task' = [task EXCEPT ![t] = n] /\ task \in [Tasks -> TaskRecords]
  BY <1>1 DEF Replace, TypeOK
<1> QED
  BY <1>1, <1>2, NextState

(* No Task is cancelled. *)
NoneCancelled == \A t \in Tasks : task[t].state # "cancelled" => task'[t].state # "cancelled"

(* Only cancel and interruption cancel a Task. *)
LEMMA OthersCancelNone ==
    ASSUME TypeOK, Next,
           ~\E t \in Tasks, d \in Dispositions \cup {None}, w \in DependentWaiting : Cancel(t, d, w),
           ~\E t \in Tasks, d \in Dispositions, w \in DependentWaiting : InterruptionVerified(t, d, w)
    PROVE  NoneCancelled
<1>0. task \in [Tasks -> TaskRecords] /\ \A t \in Tasks : "state" \in DOMAIN task[t]
  BY DEF TypeOK, TaskRecords
<1>1. ASSUME NEW t \in Tasks, NEW r, "state" \in DOMAIN r, Replace(t, r),
             r.state = task[t].state \/ r.state # "cancelled"
      PROVE  NoneCancelled
  BY <1>1, ReplacedState DEF NoneCancelled
<1>2. ASSUME UNCHANGED task
      PROVE  NoneCancelled
  BY <1>2 DEF NoneCancelled
<1>3. ASSUME NEW t \in Tasks, NEW p \in Projects, NEW b \in Bodies, NEW s \in Tasks \cup {None},
             CreateTask(t, p, b, s)
      PROVE  NoneCancelled
  BY <1>0, <1>3 DEF NoneCancelled, CreateTask
<1>4. ASSUME NEW t \in Tasks, NEW b \in Bodies, UpdateTaskBody(t, b)
      PROVE  NoneCancelled
  BY <1>0, <1>1, <1>4 DEF UpdateTaskBody
<1>5. ASSUME NEW t \in Tasks, NEW w \in WaitingInputs, UpdateTaskWaiting(t, w)
      PROVE  NoneCancelled
  BY <1>0, <1>1, <1>5 DEF UpdateTaskWaiting
<1>6. ASSUME NEW t \in Tasks, NEW p \in Tasks \cup {None}, SetTaskParent(t, p)
      PROVE  NoneCancelled
  BY <1>0, <1>1, <1>6 DEF SetTaskParent
<1>7. ASSUME NEW t \in Tasks, NEW d \in Tasks, AddTaskDependency(t, d)
      PROVE  NoneCancelled
  BY <1>0, <1>1, <1>7 DEF AddTaskDependency
<1>8. ASSUME NEW t \in Tasks, NEW d \in Tasks, RemoveTaskDependency(t, d)
      PROVE  NoneCancelled
  BY <1>0, <1>1, <1>8 DEF RemoveTaskDependency
<1>9. ASSUME NEW t \in Tasks, NEW s \in Tasks \cup {None}, SetTaskSupersession(t, s)
      PROVE  NoneCancelled
  BY <1>0, <1>1, <1>9 DEF SetTaskSupersession
<1>10. ASSUME NEW t \in Tasks, MarkReady(t)
       PROVE  NoneCancelled
  BY <1>0, <1>1, <1>10 DEF MarkReady
<1>11. ASSUME NEW t \in Tasks, NEW k \in 1..MaxRevision, ClaimAccepted(t, k)
       PROVE  NoneCancelled
  BY <1>0, <1>1, <1>11 DEF ClaimAccepted
<1>12. ASSUME NEW t \in Tasks, NEW w \in WaitingInputs, DependencyCancelledEvent(t, w)
       PROVE  NoneCancelled
  BY <1>0, <1>1, <1>12 DEF DependencyCancelledEvent
<1>13. ASSUME NEW t \in Tasks, NEW w \in WaitingInputs, ExecutionWait(t, w)
       PROVE  NoneCancelled
  BY <1>0, <1>1, <1>13 DEF ExecutionWait
<1>14. ASSUME NEW t \in Tasks, NEW k \in 1..MaxRevision, CompletionAccepted(t, k)
       PROVE  NoneCancelled
  BY <1>0, <1>1, <1>14 DEF CompletionAccepted
<1>15. ASSUME NEW t \in Tasks, NEW c \in Continuations, NEW k \in 1..MaxRevision,
              ContinuationAccepted(t, c, k)
       PROVE  NoneCancelled
  BY <1>0, <1>1, <1>15 DEF ContinuationAccepted
<1> QED
  BY <1>2, <1>3, <1>4, <1>5, <1>6, <1>7, <1>8, <1>9, <1>10, <1>11, <1>12, <1>13, <1>14, <1>15
     DEF Next, RegisterProject, SetProjectEnabled

(* A cancellation changes its Task and the ready direct dependents. *)
LEMMA CancelReaches ==
    ASSUME TypeOK, NEW t \in Tasks, NEW w, CancelWithDirectDependents(t, w),
           NEW v \in Tasks, NEW u \in Tasks,
           task[v].state # "cancelled", task'[v].state = "cancelled", v \in task[u].dependencyIds
    PROVE  task'[u].state # "ready"
<1>0. task \in [Tasks -> TaskRecords]
  BY DEF TypeOK
<1>1. task'[t].state = "cancelled"
  <2>1. PICK c : c = [task[t] EXCEPT !.state = "cancelled", !.waiting = None,
                                     !.acceptedRevision = task[t].revision]
    OBVIOUS
  <2>2. task'[t] = NextTask(c)
    BY <2>1 DEF CancelWithDirectDependents
  <2>3. "state" \in DOMAIN c /\ c.state = "cancelled"
    BY <1>0, <2>1 DEF TaskRecords
  <2> QED
    BY <2>2, <2>3, NextState
<1>2. ASSUME NEW x \in ReadyDependents(t), x # t
      PROVE  task'[x].state = "waiting"
  <2>1. PICK c : c = [task[x] EXCEPT !.state = "waiting",
                                     !.waiting = Waiting(w, task[x].revision + 1)]
    OBVIOUS
  <2>2. x \in Tasks /\ task'[x] = NextTask(c)
    BY <1>2, <2>1 DEF CancelWithDirectDependents, ReadyDependents
  <2>3. "state" \in DOMAIN c /\ c.state = "waiting"
    BY <1>0, <2>1, <2>2 DEF TaskRecords
  <2> QED
    BY <2>2, <2>3, NextState
<1>3. \A x \in Tasks : (x # t /\ x \notin ReadyDependents(t)) => task'[x] = task[x]
  BY DEF CancelWithDirectDependents
<1>4. v = t
  BY <1>2, <1>3
<1> QED
  BY <1>1, <1>2, <1>3, <1>4 DEF ReadyDependents

(* A cancelled Task leaves no ready Task that depends on it: the direct    *)
(* dependents wait from the same mutation on.                              *)
THEOREM DomainCancellationReaches == Spec => CancellationReachesReadyDependents
<1>1. TypeOK /\ [Next]_vars =>
        [\A t, u \in Tasks :
          /\ task[t].state # "cancelled"
          /\ task'[t].state = "cancelled"
          /\ t \in task[u].dependencyIds
          => task'[u].state # "ready"]_vars
  <2> SUFFICES ASSUME TypeOK, Next, NEW t \in Tasks, NEW u \in Tasks,
                      task[t].state # "cancelled", task'[t].state = "cancelled",
                      t \in task[u].dependencyIds
               PROVE  task'[u].state # "ready"
    OBVIOUS
  <2>1. ~NoneCancelled
    BY DEF NoneCancelled
  <2>2. \E v \in Tasks : \E w : CancelWithDirectDependents(v, w)
    BY <2>1, OthersCancelNone DEF Cancel, InterruptionVerified
  <2> QED
    BY <2>2, CancelReaches
<1> QED
  BY <1>1, DomainTypeOK, PTL DEF Spec, CancellationReachesReadyDependents

-----------------------------------------------------------------------------
(***************************************************************************)
(* WorkspaceOperations, for any number of processes, idempotency keys and  *)
(* inspections: the inductive invariant WorkspaceInv.                      *)
(*                                                                         *)
(* That the status of the generation is true of the disk rests on who may  *)
(* still change the disk.  An effect has one invoker (OneInvoker); a       *)
(* create worker left behind, building or still to begin, has an intent    *)
(* that is executing or ambiguous (WorkerHasIntent), which keeps every     *)
(* cleanup from acting; a cleanup past its Act is the only open intent     *)
(* (IntentFits); and while a reserve is open or can be recovered nothing   *)
(* was ever created (ReserveIsEarly), so a recovery that concludes         *)
(* "allocated" finds an empty disk.  A receipt of a complete worktree      *)
(* stays true until it is recorded, because only a removal takes a         *)
(* worktree away.                                                          *)
(*                                                                         *)
(* The actions fall into five classes with one lemma each: CallStep (only  *)
(* a call moves), InsertStep (a prepare transaction), MoveStep (an intent  *)
(* moves on, with the generation), DiskStep and RowsFrame.                 *)
(***************************************************************************)

Generations == [status : Statuses, rev : Nat]
IntentRows ==
    [op : Operations \cup {"none"}, state : States, cause : Keys \cup {Nobody},
     prepRev : Nat, actRev : Nat, expRev : Nat, expStatus : Statuses,
     ext : Observed \cup {"none"}, failure : {"none", "plain", "ambiguous"}, closed : BOOLEAN]
Workers == [Keys -> {"none", "spawned", "building"}]
InBackend == {"invoke", "build", "building", "remove"}
WorkspaceCalls ==
    [pc : InBackend \cup {"idle", "act", "answered", "verify", "finalize"}, key : Keys \cup {Nobody},
     stale : BOOLEAN, res : Observed \cup {"none", "plain", "ambiguous"}]

WorkspaceTypes ==
    /\ gen \in Generations /\ intent \in [Keys -> IntentRows]
    /\ owner \in {"running", "waiting", "completed"}
    /\ disk \in {"absent", "partial", "complete", "dirty"} /\ worker \in Workers
    /\ caller \in [Callers -> WorkspaceCalls]

(* A whole worktree: only a removal takes it away. *)
Whole == {"complete", "dirty"}
Settled == {"none", "finalized", "failed"}
OthersSettled(k) == \A j \in Keys \ {k} : intent[j].state \in Settled

(* Neither a create nor a cleanup was ever prepared. *)
Early == \A k \in Keys : intent[k].op \notin {"create", "cleanup"}

(* Call c is in the backend, or brings back more than that it does not know. *)
Invokes(c) == c.pc \in InBackend \/ (c.pc = "answered" /\ c.res # "ambiguous")

(* What the place of call c says about intent i, its own, and about the disk. *)
FitsIntent(c, i) ==
    /\ c.pc # "act" => i.state # "pending"
    /\ c.pc \in {"build", "building"} => i.op = "create"
    /\ c.pc = "remove" => i.op = "cleanup"
    /\ c.pc \in InBackend /\ i.op \in Effects => i.state \in {"executing", "ambiguous"}
    /\ c.pc = "answered" /\ i.op = "create" /\ c.res \in Observed => c.res = "complete"
    /\ c.pc = "answered" /\ i.op # "cleanup" /\ i.state = "executing" /\ c.res = "complete" =>
           disk \in Whole
    /\ i.op = "cleanup" =>
          /\ c.pc \in InBackend \cup {"answered"} => i.state = "executing"
          /\ c.pc \in InBackend => disk \in Whole
          /\ c.pc = "answered" =>
                /\ c.res \in {"plain", "ambiguous", "removed", "partial", "absent"}
                /\ c.res = "plain" => disk \in Whole
                /\ c.res \in {"removed", "absent"} => disk = "absent"

CallFits(c) == c.pc # "idle" => c.key \in Keys /\ Exists(c.key) /\ FitsIntent(c, intent[c.key])

(* An effect is invoked by one call, and a cleanup has one call altogether: *)
(* nobody can go on with the cleanup of another process.                    *)
OneInvoker ==
    \A p, q \in Callers :
        /\ caller[p].key = caller[q].key /\ caller[p].pc # "idle" /\ caller[q].pc # "idle"
        /\ \/ /\ Invokes(caller[p]) /\ Invokes(caller[q])
              /\ intent[caller[p].key].op \in Effects
           \/ intent[caller[p].key].op = "cleanup"
        => p = q

IntentFits(k) ==
    LET i == intent[k]
    IN /\ i.op = "none" <=> i.state = "none"
       /\ i.op # "cleanup" /\ i.state \in {"observed", "verified"} =>
             /\ i.op = "create" => i.ext = "complete"
             /\ i.ext = "complete" => disk \in Whole
       /\ i.op = "cleanup" =>
             /\ owner = "completed"
             /\ i.state \in {"executing", "observed", "verified"} =>
                    gen.status = "cleaning" /\ OthersSettled(k)
             /\ i.state \in {"observed", "verified"} => disk = "absent"

(* A worker that may still act belongs to a create of which nobody knows the outcome. *)
Builds(k) ==
    /\ intent[k].op = "create" /\ intent[k].state \in {"executing", "ambiguous"}
    /\ \A p \in Callers :
          caller[p].pc # "idle" /\ caller[p].key = k /\ Invokes(caller[p]) => caller[p].pc = "building"
WorkerFits(k) ==
    /\ worker[k] # "none" => Builds(k)
    /\ worker[k] = "building" =>
          disk = "partial" /\ \A j \in Keys : worker[j] = "building" => j = k
WorkerHasIntent == \A k \in Keys : WorkerFits(k)

StatusFits ==
    /\ gen.status = "none" => \A k \in Keys : ~Exists(k)
    /\ gen.status \in {"none", "allocated"} => Early
    /\ Early => disk = "absent"
    /\ gen.status = "ready" => disk \in Whole
    /\ gen.status = "cleaned" =>
          owner = "completed" /\ disk = "absent" /\ \A k \in Keys : intent[k].state \in Settled

(* While a reserve is open, or can be recovered, nothing was created. *)
ReserveIsEarly(k) ==
    intent[k].op = "reserve" =>
        /\ Unfinished(k) =>
              /\ gen.status = "allocated"
              /\ \A j \in Keys : Unfinished(j) => j = k \/ intent[j].op = "inspect"
        /\ IsCausalNode(k, gen.rev) => Early
        /\ \A j \in Keys :
              Unfinished(j) /\ intent[j].op = "recover" /\ IsCausalNode(k, intent[j].prepRev) =>
                  Early /\ gen.status \in {"allocated", "recovery_required"}

WorkspaceInv ==
    /\ WorkspaceTypes /\ RowsAreValid
    /\ \A p \in Callers : CallFits(caller[p])
    /\ OneInvoker
    /\ \A k \in Keys : IntentFits(k) /\ ReserveIsEarly(k)
    /\ WorkerHasIntent /\ StatusFits
-----------------------------------------------------------------------------
(* What the validation of the state says of the rows.                      *)

LEMMA RowFacts ==
    ASSUME RowsAreValid, NEW k \in Keys, Exists(k)
    PROVE  /\ intent[k].prepRev <= gen.rev /\ intent[k].expRev <= gen.rev
           /\ intent[k].state \in Terminal /\ intent[k].expRev = gen.rev =>
                  intent[k].expStatus = gen.status
           /\ intent[k].op = "recover" => RecoveryRoot(intent[k].prepRev, intent[k].cause) # "none"
  BY DEF RowsAreValid, LineageIsValid, FinalizationIsConsistent

(* A recovery descends from an ambiguous effect. *)
LEMMA RootIsThere ==
    ASSUME NEW rev, NEW cause, RecoveryRoot(rev, cause) # "none"
    PROVE  \E c \in Keys : /\ IsCausalNode(c, rev) /\ intent[c].op \in Effects
                           /\ intent[c].op = RecoveryRoot(rev, cause)
  <1> DEFINE ends == {c \in Keys : /\ IsCausalNode(c, rev) /\ intent[c].op \in Effects
                                   /\ c \in Visited(rev, cause)}
             ops == {intent[c].op : c \in ends}
  <1>1. ends # {} /\ RecoveryRoot(rev, cause) = CHOOSE o \in ops : TRUE
    BY DEF RecoveryRoot
  <1>2. ops # {}
    BY <1>1
  <1> HIDE DEF ops
  <1>3. RecoveryRoot(rev, cause) \in ops
    BY <1>1, <1>2
  <1> QED
    BY <1>3 DEF ops

(* The validation depends on the rows only. *)
LEMMA RowsStay ==
    ASSUME RowsAreValid, UNCHANGED rows
    PROVE  RowsAreValid'
  <1>1. gen' = gen /\ intent' = intent
    BY DEF rows
  <1>2. ASSUME NEW rev, NEW cause
        PROVE  RecoveryRoot(rev, cause)' = RecoveryRoot(rev, cause)
    <2>1. \A c : IsCausalNode(c, rev)' <=> IsCausalNode(c, rev)
      BY <1>1 DEF IsCausalNode
    <2>2. Visited(rev, cause)' = Visited(rev, cause)
      BY <1>1, <2>1 DEF Visited
    <2>3. {c \in Keys : /\ IsCausalNode(c, rev) /\ intent[c].op \in Effects
                        /\ c \in Visited(rev, cause)}' =
          {c \in Keys : /\ IsCausalNode(c, rev) /\ intent[c].op \in Effects
                        /\ c \in Visited(rev, cause)}
      BY <1>1, <2>1, <2>2
    <2> QED
      BY <1>1, <2>3 DEF RecoveryRoot
  <1>3. ASSUME NEW k, NEW ext, NEW status
        PROVE  StatusAfterReceipt(k, ext, status)' = StatusAfterReceipt(k, ext, status)
    <2>1. PICK rev, cause : rev = intent[k].prepRev /\ cause = intent[k].cause
      OBVIOUS
    <2>2. RecoveryRoot(rev, cause)' = RecoveryRoot(rev, cause)
      BY <1>2
    <2> QED
      BY <1>1, <2>1, <2>2 DEF StatusAfterReceipt
  <1>4. ASSUME NEW k \in Keys, Exists(k)
        PROVE  LineageIsValid(k)' /\ FinalizationIsConsistent(k)'
    <2>1. LineageIsValid(k) /\ FinalizationIsConsistent(k)
      BY <1>4 DEF RowsAreValid
    <2>2. PICK rev, cause, ext, status :
              /\ rev = intent[k].prepRev /\ cause = intent[k].cause
              /\ ext = intent[k].ext /\ status = intent[k].expStatus
      OBVIOUS
    <2>3. RecoveryRoot(rev, cause)' = RecoveryRoot(rev, cause)
      BY <1>2
    <2>4. StatusAfterReceipt(k, ext, status)' = StatusAfterReceipt(k, ext, status)
      BY <1>3
    <2>5. LineageIsValid(k)'
      BY <1>1, <2>1, <2>2, <2>3 DEF LineageIsValid
    <2>6. FinalizationIsConsistent(k)'
      BY <1>1, <2>1, <2>2, <2>4 DEF FinalizationIsConsistent
    <2> QED
      BY <2>5, <2>6
  <1> QED
    BY <1>1, <1>4 DEF RowsAreValid, Exists

LEMMA OthersAreSettled ==
    ASSUME NEW k \in Keys
    PROVE  Quiescent(k) => OthersSettled(k)
  BY DEF Quiescent, OthersSettled, Settled, Exists

LEMMA KeyIsNotNobody ==
    Nobody \notin Keys
  BY WorkspaceAssumption

LEMMA WorkersStay ==
    ASSUME WorkerHasIntent, UNCHANGED <<disk, worker>>,
           \A j \in Keys : worker[j] # "none" => Builds(j)'
    PROVE  WorkerHasIntent'
  BY DEF WorkerHasIntent, WorkerFits

LEMMA WorkspaceTypesImply ==
    ASSUME WorkspaceInv
    PROVE  WorkspaceTypeOK
  <1>1. \A p \in Callers : caller[p].pc # "idle" => caller[p].key \in Keys
    BY DEF WorkspaceInv, CallFits
  <1> QED
    BY <1>1 DEF WorkspaceInv, WorkspaceTypes, WorkspaceTypeOK, Generations, IntentRows,
             Workers
-----------------------------------------------------------------------------
(* Steps of a call only.                                                   *)

(* Call p becomes c. *)
Becomes(p, c) == c \in WorkspaceCalls /\ caller' = [caller EXCEPT ![p] = c]

LEMMA CallsAfter ==
    ASSUME WorkspaceTypes, NEW p \in Callers, NEW c, Becomes(p, c)
    PROVE  /\ caller' \in [Callers -> WorkspaceCalls] /\ caller'[p] = c
           /\ \A q \in Callers \ {p} : caller'[q] = caller[q]
  BY DEF WorkspaceTypes, Becomes

LEMMA CallStep ==
    ASSUME WorkspaceInv, NEW p \in Callers, NEW c, Becomes(p, c),
           UNCHANGED <<rows, owner, disk, worker>>,
           CallFits(c),
           c.pc # "idle" /\ (Invokes(c) \/ intent[c.key].op = "cleanup") =>
               \/ intent[c.key].op \notin Effects
               \/ /\ caller[p].pc # "idle" /\ caller[p].key = c.key
                  /\ Invokes(c) => Invokes(caller[p])
                  /\ worker[c.key] # "none" /\ Invokes(c) /\ caller[p].pc = "building" => c.pc = "building"
    PROVE  WorkspaceInv'
  <1>1. /\ caller' \in [Callers -> WorkspaceCalls] /\ caller'[p] = c
        /\ \A q \in Callers \ {p} : caller'[q] = caller[q]
    BY CallsAfter DEF WorkspaceInv
  <1>2. /\ gen' = gen /\ intent' = intent /\ owner' = owner /\ disk' = disk /\ worker' = worker
    BY DEF rows
  <1>3. WorkspaceTypes' /\ RowsAreValid'
    <2>1. RowsAreValid'
      BY RowsStay DEF WorkspaceInv
    <2> QED
      BY <1>1, <1>2, <2>1 DEF WorkspaceInv, WorkspaceTypes
  <1>4. \A q \in Callers : CallFits(caller[q])'
    BY <1>1, <1>2 DEF WorkspaceInv, CallFits, FitsIntent, Exists
  <1>5. OneInvoker'
    BY <1>1, <1>2 DEF WorkspaceInv, OneInvoker, Effects
  <1>6. \A k \in Keys : IntentFits(k)' /\ ReserveIsEarly(k)'
    BY <1>2 DEF WorkspaceInv, IntentFits, ReserveIsEarly, Unfinished, Exists, IsCausalNode, Early,
                OthersSettled
  <1>7. WorkerHasIntent'
    <2>1. ASSUME NEW k \in Keys, worker[k] # "none"
          PROVE  Builds(k)'
      <3>1. Builds(k)
        BY <2>1 DEF WorkspaceInv, WorkerHasIntent, WorkerFits
      <3> QED
        BY <1>1, <1>2, <2>1, <3>1 DEF Builds, Effects
    <2> QED
      BY <1>2, <2>1, WorkersStay DEF WorkspaceInv
  <1>8. StatusFits'
    BY <1>2 DEF WorkspaceInv, StatusFits, Early, Exists
  <1> QED
    BY <1>3, <1>4, <1>5, <1>6, <1>7, <1>8 DEF WorkspaceInv
-----------------------------------------------------------------------------
(* Steps that move an intent on.                                           *)

LEMMA CommitFacts ==
    ASSUME WorkspaceTypes, NEW k \in Keys, NEW g \in Generations, NEW i \in IntentRows,
           Commit(g, k, i)
    PROVE  /\ gen' = g /\ RowsAreValid'
           /\ g = gen \/ <<gen.status, g.status>> \in LegalChange
           /\ intent' \in [Keys -> IntentRows] /\ intent'[k] = i
           /\ \A j \in Keys \ {k} : intent'[j] = intent[j]
  BY DEF Commit, WorkspaceTypes

(* Call p moves its intent k on to i. *)
Moves(p, k, i) ==
    /\ caller[p].pc # "idle" /\ caller[p].key = k
    /\ i \in IntentRows /\ i.op = intent[k].op /\ i.prepRev = intent[k].prepRev
    /\ \/ intent[k].state = "pending" /\ i.state \in {"executing", "failed"}
       \/ /\ intent[k].state = "executing" /\ i.state \in {"observed", "failed", "ambiguous"}
          /\ caller[p].pc = "answered"
          /\ caller[p].res = "ambiguous" => i.state = "ambiguous"
       \/ intent[k].state = "observed" /\ i.state = "verified"
       \/ intent[k].state = "verified" /\ i.state \in {"finalized", "ambiguous"}

(* The generation that this leaves behind, and the row itself. *)
Leaves(k, g, i) ==
    /\ g \in Generations
    /\ g = gen \/ g.rev = gen.rev + 1
    /\ i.op # "cleanup" /\ i.state \in {"observed", "verified"} =>
          /\ i.op = "create" => i.ext = "complete"
          /\ i.ext = "complete" => disk \in Whole
    /\ i.op = "cleanup" =>
          /\ i.state \in {"executing", "observed", "verified"} =>
                 g.status = "cleaning" /\ OthersSettled(k)
          /\ i.state \in {"observed", "verified"} => disk = "absent"
    /\ i.op = "inspect" => g = gen
    /\ i.op = "reserve" /\ i.state \notin Terminal => g.status = "allocated"
    /\ i.op = "recover" /\ Early /\ gen.status \in {"allocated", "recovery_required"} =>
           g.status \in {"allocated", "recovery_required"}
    /\ g.status = "allocated" => Early
    /\ g.status = "ready" => disk \in Whole
    /\ g.status = "cleaned" /\ g # gen =>
           disk = "absent" /\ owner = "completed" /\ OthersSettled(k) /\ i.state = "finalized"

LEMMA MoveStep ==
    ASSUME WorkspaceInv, NEW p \in Callers, NEW k \in Keys, NEW g, NEW i, NEW c,
           Moves(p, k, i), Leaves(k, g, i), Commit(g, k, i), Becomes(p, c),
           UNCHANGED <<owner, disk, worker>>,
           c.pc # "idle" => c.key = k /\ FitsIntent(c, i),
           c.pc # "idle" /\ Invokes(c) => intent[k].state = "pending"
    PROVE  WorkspaceInv'
  <1>1. /\ caller' \in [Callers -> WorkspaceCalls] /\ caller'[p] = c
        /\ \A q \in Callers \ {p} : caller'[q] = caller[q]
    BY CallsAfter DEF WorkspaceInv
  <1>2. owner' = owner /\ disk' = disk /\ worker' = worker
    OBVIOUS
  <1>3. /\ gen' = g /\ RowsAreValid'
        /\ g = gen \/ <<gen.status, g.status>> \in LegalChange
        /\ intent' \in [Keys -> IntentRows] /\ intent'[k] = i
        /\ \A j \in Keys \ {k} : intent'[j] = intent[j]
    BY CommitFacts DEF WorkspaceInv, Moves, Leaves
  <1>4. /\ CallFits(caller[p]) /\ caller[p].pc # "idle" /\ caller[p].key = k /\ Exists(k)
        /\ FitsIntent(caller[p], intent[k])
        /\ i.op = intent[k].op /\ i.state # "pending" /\ i.state # "none"
        /\ i.prepRev = intent[k].prepRev
        /\ Unfinished(k) /\ intent[k].state \notin Settled /\ intent[k].state # "ambiguous"
    BY DEF WorkspaceInv, CallFits, Moves, Unfinished, Exists, Terminal, Settled
  <1>5. gen.status # "none" /\ g.status # "none"
    <2>1. gen.status # "none"
      BY <1>4 DEF WorkspaceInv, StatusFits
    <2> QED
      BY <1>3, <2>1 DEF LegalChange
  <1>6. \A j \in Keys : /\ intent'[j].op = intent[j].op /\ intent'[j].prepRev = intent[j].prepRev
                        /\ Exists(j)' <=> Exists(j)
                        /\ Unfinished(j)' => Unfinished(j)
    BY <1>3, <1>4 DEF Exists, Unfinished
  <1>7. WorkspaceTypes'
    BY <1>1, <1>2, <1>3 DEF WorkspaceInv, WorkspaceTypes, Leaves
  <1>8. \A q \in Callers : CallFits(caller[q])'
    <2>1. ASSUME NEW q \in Callers \ {p}, caller[q].pc # "idle", caller[q].key = k
          PROVE  FitsIntent(caller[q], i)
      <3>1. FitsIntent(caller[q], intent[k])
        BY <2>1 DEF WorkspaceInv, CallFits
      <3>2. i.op # "cleanup"
        BY <1>4, <2>1 DEF WorkspaceInv, OneInvoker
      <3>3. caller[q].pc \in InBackend /\ i.op \in Effects => i.state \in {"executing", "ambiguous"}
        BY <1>4, <2>1, <3>1 DEF WorkspaceInv, OneInvoker, Invokes, FitsIntent, Moves
      <3>4. i.state = "executing" => caller[q].pc # "answered"
        BY <3>1 DEF FitsIntent, Moves
      <3> QED
        BY <1>4, <3>1, <3>2, <3>3, <3>4 DEF FitsIntent
    <2>2. ASSUME NEW q \in Callers \ {p}
          PROVE  CallFits(caller[q])'
      <3>1. CallFits(caller[q])
        BY DEF WorkspaceInv
      <3>2. CASE caller[q].key = k
        BY <1>1, <1>2, <1>3, <1>6, <2>1, <3>1, <3>2 DEF CallFits, FitsIntent
      <3>3. CASE caller[q].key # k
        BY <1>1, <1>2, <1>3, <1>6, <3>1, <3>3 DEF CallFits, FitsIntent
      <3> QED
        BY <3>2, <3>3
    <2>3. CallFits(caller[p])'
      BY <1>1, <1>2, <1>3, <1>4, <1>6 DEF CallFits, FitsIntent
    <2> QED
      BY <2>2, <2>3
  <1>9. OneInvoker'
    <2>1. ASSUME NEW q \in Callers \ {p}, caller[q].pc # "idle", caller[q].key = k,
                 c.pc # "idle", Invokes(c)
          PROVE  ~Invokes(caller[q])
      BY <2>1 DEF WorkspaceInv, CallFits, FitsIntent, Invokes, InBackend
    <2>2. ASSUME NEW q \in Callers \ {p}, caller[q].pc # "idle", caller[q].key = k
          PROVE  i.op # "cleanup"
      BY <1>4, <2>2 DEF WorkspaceInv, OneInvoker
    <2>3. ASSUME NEW q \in Callers, caller'[q].pc # "idle", caller'[q].key \in Keys
          PROVE  intent'[caller'[q].key].op = intent[caller'[q].key].op
      BY <1>6, <2>3
    <2>4. \A q \in Callers : caller'[q].pc # "idle" => caller'[q].key \in Keys
      BY <1>8 DEF CallFits
    <2>5. ASSUME NEW q \in Callers \ {p}, NEW r \in Callers \ {p},
                 caller'[q].key = caller'[r].key /\ caller'[q].pc # "idle" /\ caller'[r].pc # "idle",
                 \/ /\ Invokes(caller'[q]) /\ Invokes(caller'[r])
                    /\ intent'[caller'[q].key].op \in Effects
                 \/ intent'[caller'[q].key].op = "cleanup"
          PROVE  q = r
      BY <1>1, <2>3, <2>4, <2>5 DEF WorkspaceInv, OneInvoker
    <2>6. ASSUME NEW q \in Callers \ {p},
                 caller'[q].key = caller'[p].key /\ caller'[q].pc # "idle" /\ caller'[p].pc # "idle"
          PROVE  /\ ~(Invokes(caller'[q]) /\ Invokes(caller'[p]))
                 /\ intent'[caller'[q].key].op # "cleanup"
      BY <1>1, <1>3, <1>4, <2>1, <2>2, <2>6
    <2> QED
      BY <2>5, <2>6 DEF OneInvoker, Invokes
  <1>10. \A j \in Keys : IntentFits(j)'
    <2>1. ASSUME NEW j \in Keys \ {k}
          PROVE  IntentFits(j)'
      <3>1. IntentFits(j) /\ intent'[j] = intent[j]
        BY <1>3 DEF WorkspaceInv
      <3>2. ~(intent[j].op = "cleanup" /\ intent[j].state \in {"executing", "observed", "verified"})
        BY <1>4, <3>1 DEF IntentFits, OthersSettled
      <3> QED
        BY <1>2, <3>1, <3>2 DEF IntentFits
    <2>2. IntentFits(k)'
      <3>1. IntentFits(k)
        BY DEF WorkspaceInv
      <3>2. OthersSettled(k) => OthersSettled(k)'
        BY <1>3 DEF OthersSettled
      <3>3. intent[k].state # "none"
        BY <1>4 DEF Exists
      <3> QED
        BY <1>2, <1>3, <1>4, <3>1, <3>2, <3>3 DEF IntentFits, Leaves
    <2> QED
      BY <2>1, <2>2
  <1>11. Early' <=> Early
    BY <1>6 DEF Early
  <1>12. \A r \in Keys : ReserveIsEarly(r)'
    <2> SUFFICES ASSUME NEW r \in Keys, intent[r].op = "reserve"
                 PROVE  ReserveIsEarly(r)'
      BY <1>6 DEF ReserveIsEarly
    <2>1. ReserveIsEarly(r) /\ ReserveIsEarly(k)
      BY DEF WorkspaceInv
    <2>2. k # r /\ intent[k].op = "reserve" => ~Unfinished(r)
      BY <1>4, <2>1 DEF ReserveIsEarly
    <2>3. ASSUME Unfinished(r)'
          PROVE  /\ g.status = "allocated"
                 /\ \A j \in Keys : Unfinished(j)' => j = r \/ intent[j].op = "inspect"
      <3>1. /\ gen.status = "allocated"
            /\ \A j \in Keys : Unfinished(j) => j = r \/ intent[j].op = "inspect"
        BY <1>6, <2>1, <2>3 DEF ReserveIsEarly
      <3>2. r = k => g.status = "allocated"
        BY <1>3, <1>4, <2>3 DEF Leaves, Unfinished
      <3>3. r # k => g = gen
        BY <1>4, <3>1 DEF Leaves
      <3> QED
        BY <1>6, <3>1, <3>2, <3>3
    <2>4. ASSUME r = k, NEW j \in Keys, Unfinished(j), intent[j].op = "recover"
          PROVE  FALSE
      BY <1>4, <2>1, <2>4 DEF ReserveIsEarly
    <2>5. ASSUME IsCausalNode(r, gen.rev)'
          PROVE  Early
      <3>1. CASE r = k
        BY <1>4, <2>1, <3>1 DEF ReserveIsEarly, WorkspaceInv, StatusFits
      <3>2. CASE r # k
        <4>1. intent'[r] = intent[r]
          BY <1>3, <3>2
        <4>2. intent[r].expRev <= gen.rev
          BY <2>5, <4>1, RowFacts DEF WorkspaceInv, IsCausalNode, Exists
        <4>3. gen.rev \in Nat /\ intent[r].expRev \in Nat /\ g.rev = intent[r].expRev
          BY <1>3, <2>5, <4>1 DEF WorkspaceInv, WorkspaceTypes, Generations, IntentRows, IsCausalNode
        <4>4. g = gen
          BY <4>2, <4>3 DEF Leaves
        <4> QED
          BY <2>1, <2>5, <4>1, <4>3, <4>4 DEF ReserveIsEarly, IsCausalNode
      <3> QED
        BY <3>1, <3>2
    <2>6. ASSUME NEW j \in Keys, Unfinished(j)', intent[j].op = "recover",
                 IsCausalNode(r, intent[j].prepRev)'
          PROVE  Early /\ g.status \in {"allocated", "recovery_required"}
      <3>1. Unfinished(j) /\ intent'[j].prepRev = intent[j].prepRev
        BY <1>6, <2>6
      <3>2. r # k
        BY <2>4, <2>6, <3>1
      <3>3. IsCausalNode(r, intent[j].prepRev)
        BY <1>3, <2>6, <3>1, <3>2 DEF IsCausalNode
      <3>4. Early /\ gen.status \in {"allocated", "recovery_required"}
        BY <2>1, <2>6, <3>1, <3>3 DEF ReserveIsEarly
      <3>5. i.op \notin {"reserve", "create", "cleanup"}
        BY <1>4, <2>6, <3>1, <3>4 DEF Early, WorkspaceInv, ReserveIsEarly
      <3>6. i.op \in {"inspect", "recover"}
        BY <1>4, <3>5 DEF WorkspaceInv, IntentFits, Moves, IntentRows, Operations, Effects, Exists
      <3> QED
        BY <3>4, <3>6 DEF Leaves
    <2> QED
      BY <1>3, <1>6, <1>11, <2>3, <2>5, <2>6 DEF ReserveIsEarly
  <1>13. WorkerHasIntent'
    <2> SUFFICES ASSUME NEW j \in Keys, worker[j] # "none" PROVE Builds(j)'
      BY <1>2, WorkersStay DEF WorkspaceInv
    <2>1. Builds(j)
      BY DEF WorkspaceInv, WorkerHasIntent, WorkerFits
    <2>2. CASE j # k
      BY <1>1, <1>3, <2>1, <2>2 DEF Builds
    <2>3. CASE j = k
      <3>1. i.state = "ambiguous" /\ i.op = "create"
        BY <1>4, <2>1, <2>3 DEF Builds, Moves, Invokes, InBackend
      <3>2. ~(c.pc # "idle" /\ Invokes(c))
        BY <2>1, <2>3 DEF Builds
      <3> QED
        BY <1>1, <1>3, <2>1, <2>3, <3>1, <3>2 DEF Builds
    <2> QED
      BY <2>2, <2>3
  <1>14. StatusFits'
    <2>1. StatusFits
      BY DEF WorkspaceInv
    <2>2. g.status = "cleaned" => g # gen
      BY <1>4, <2>1 DEF StatusFits
    <2>3. OthersSettled(k) /\ i.state = "finalized" => \A j \in Keys : intent'[j].state \in Settled
      BY <1>3 DEF OthersSettled, Settled
    <2> QED
      BY <1>2, <1>3, <1>5, <1>11, <2>1, <2>2, <2>3 DEF StatusFits, Leaves
  <1> QED
    BY <1>3, <1>7, <1>8, <1>9, <1>10, <1>12, <1>13, <1>14 DEF WorkspaceInv
-----------------------------------------------------------------------------
(* A new intent.                                                           *)

(* Call p may insert intent i under key k on generation g. *)
Inserts(p, k, g, i) ==
    /\ caller[p].pc = "idle" /\ ~Exists(k)
    /\ i \in IntentRows /\ i.op \in Operations /\ i.state = "pending" /\ i.prepRev = g.rev
    /\ g \in Generations
    /\ g = gen \/ (gen.status = "none" /\ g.status = "allocated" /\ i.op = "reserve")
    /\ i.op = "cleanup" <=> owner = "completed"
    /\ i.op = "reserve" => \/ gen.status = "none" /\ g # gen
                           \/ gen.status = "allocated" /\ \A j \in Keys : ~Unfinished(j)
    /\ i.op = "create" => gen.status = "reserved"
    /\ i.op = "cleanup" => gen.status = "ready"
    /\ i.op = "recover" => gen.status = "recovery_required"
    /\ i.op = "inspect" => gen.status # "none"

LEMMA InsertStep ==
    ASSUME WorkspaceInv, NEW p \in Callers, NEW k \in Keys, NEW g, NEW i, NEW c,
           Inserts(p, k, g, i), Commit(g, k, i), Becomes(p, c), c.pc = "act", c.key = k,
           UNCHANGED <<owner, disk, worker>>
    PROVE  WorkspaceInv'
  <1>1. /\ caller' \in [Callers -> WorkspaceCalls] /\ caller'[p] = c
        /\ \A q \in Callers \ {p} : caller'[q] = caller[q]
    BY CallsAfter DEF WorkspaceInv
  <1>2. owner' = owner /\ disk' = disk /\ worker' = worker
    OBVIOUS
  <1>3. /\ gen' = g /\ RowsAreValid'
        /\ intent' \in [Keys -> IntentRows] /\ intent'[k] = i
        /\ \A j \in Keys \ {k} : intent'[j] = intent[j]
    BY CommitFacts DEF WorkspaceInv, Inserts
  <1>4. g.status # "none" /\ (g.status = "allocated" \/ g = gen)
        /\ (g # gen => \A j \in Keys : ~Exists(j))
    BY DEF WorkspaceInv, StatusFits, Inserts, Operations, Effects
  <1>5. \A q \in Callers : caller[q].pc # "idle" => caller[q].key \in Keys \ {k}
    BY DEF WorkspaceInv, CallFits, Inserts
  <1>6. ~Invokes(c) /\ FitsIntent(c, i)
    BY DEF Invokes, FitsIntent, InBackend, Inserts
  <1>7. i.op = "create" => ~Early' /\ gen.status = "reserved"
    BY <1>3 DEF Early, Inserts
  <1>8. (i.op \in {"reserve", "inspect", "recover"} /\ Early => Early') /\ (Early' => Early)
        /\ (i.op \in {"create", "cleanup"} => ~Early')
    <2>1. Early' => Early
      <3> SUFFICES ASSUME Early', NEW j \in Keys PROVE intent[j].op \notin {"create", "cleanup"}
        BY DEF Early
      <3>1. CASE j = k
        BY <3>1 DEF WorkspaceInv, IntentFits, Inserts, Exists
      <3>2. CASE j # k
        BY <1>3, <3>2 DEF Early
      <3> QED
        BY <3>1, <3>2
    <2> QED
      BY <1>3, <2>1 DEF Early
  <1>9. i.op \in {"reserve", "create", "cleanup", "inspect", "recover"}
    BY DEF Inserts, Operations, Effects
  <1>10. WorkspaceTypes'
    BY <1>1, <1>2, <1>3 DEF WorkspaceInv, WorkspaceTypes, Inserts
  <1>11. \A q \in Callers : CallFits(caller[q])'
    <2>1. ASSUME NEW q \in Callers \ {p} PROVE CallFits(caller[q])'
      BY <1>1, <1>2, <1>3, <1>5 DEF WorkspaceInv, CallFits, FitsIntent, Exists
    <2>2. CallFits(caller[p])'
      BY <1>1, <1>2, <1>3, <1>6 DEF CallFits, FitsIntent, Exists, Inserts
    <2> QED
      BY <2>1, <2>2
  <1>12. OneInvoker'
    <2>1. ASSUME NEW q \in Callers \ {p}, caller[q].pc # "idle" PROVE caller'[q].key # k
      BY <1>1, <1>5, <2>1
    <2>2. \A q \in Callers \ {p} :
             caller[q].pc # "idle" => intent'[caller[q].key] = intent[caller[q].key]
      BY <1>3, <1>5
    <2> QED
      BY <1>1, <2>1, <2>2 DEF WorkspaceInv, OneInvoker, Invokes
  <1>13. \A j \in Keys : IntentFits(j)'
    <2>1. ASSUME NEW j \in Keys \ {k} PROVE IntentFits(j)'
      <3>1. IntentFits(j) /\ intent'[j] = intent[j]
        BY <1>3 DEF WorkspaceInv
      <3>2. ~(intent[j].op = "cleanup" /\ intent[j].state \in {"executing", "observed", "verified"})
        BY <3>1 DEF IntentFits, Inserts
      <3> QED
        BY <1>2, <3>1, <3>2 DEF IntentFits
    <2>2. IntentFits(k)'
      BY <1>2, <1>3, <1>9 DEF IntentFits, Inserts
    <2> QED
      BY <2>1, <2>2
  <1>14. \A r \in Keys : ReserveIsEarly(r)'
    <2> SUFFICES ASSUME NEW r \in Keys, intent'[r].op = "reserve"
                 PROVE  ReserveIsEarly(r)'
      BY DEF ReserveIsEarly
    <2>1. \A j \in Keys \ {k} : (Unfinished(j)' <=> Unfinished(j)) /\ intent'[j].op = intent[j].op
      BY <1>3 DEF Unfinished, Exists
    <2>2. ReserveIsEarly(r)
      BY DEF WorkspaceInv
    <2>3. ASSUME Unfinished(r)'
          PROVE  /\ g.status = "allocated"
                 /\ \A j \in Keys : Unfinished(j)' => j = r \/ intent'[j].op = "inspect"
      <3>1. CASE r = k
        BY <1>3, <1>4, <2>1, <3>1 DEF Inserts, Unfinished
      <3>2. CASE r # k
        <4>1. /\ Unfinished(r) /\ gen.status = "allocated"
              /\ \A j \in Keys : Unfinished(j) => j = r \/ intent[j].op = "inspect"
          BY <1>3, <2>1, <2>2, <2>3, <3>2 DEF ReserveIsEarly
        <4>2. g = gen /\ i.op = "inspect"
          BY <1>9, <4>1 DEF Inserts
        <4> QED
          BY <1>3, <2>1, <4>1, <4>2
      <3> QED
        BY <3>1, <3>2
    <2>4. ASSUME NEW rev, IsCausalNode(r, rev)'
          PROVE  r # k /\ IsCausalNode(r, rev) /\ g = gen /\ intent[r].op = "reserve"
      BY <1>3, <1>4, <2>4 DEF IsCausalNode, Inserts, Exists
    <2>5. ASSUME IsCausalNode(r, gen.rev)'
          PROVE  Early'
      <3>1. PICK rev : rev = g.rev
        OBVIOUS
      <3>2. IsCausalNode(r, rev)'
        BY <1>3, <2>5, <3>1 DEF IsCausalNode
      <3>3. IsCausalNode(r, rev) /\ g = gen /\ intent[r].op = "reserve"
        BY <2>4, <3>2
      <3>4. Early
        BY <2>2, <3>1, <3>3 DEF ReserveIsEarly
      <3>5. gen.status = "recovery_required"
        BY <3>1, <3>3, RowFacts DEF WorkspaceInv, IsCausalNode, Exists, Terminal
      <3> QED
        BY <1>8, <1>9, <3>4, <3>5 DEF Inserts
    <2>6. ASSUME NEW j \in Keys, Unfinished(j)', intent'[j].op = "recover",
                 IsCausalNode(r, intent[j].prepRev)'
          PROVE  Early' /\ g.status \in {"allocated", "recovery_required"}
      <3>1. PICK rev : rev = intent'[j].prepRev
        OBVIOUS
      <3>2. IsCausalNode(r, rev)'
        BY <2>6, <3>1 DEF IsCausalNode
      <3>3. IsCausalNode(r, rev) /\ g = gen /\ intent[r].op = "reserve"
        BY <2>4, <3>2
      <3>4. CASE j = k
        <4>1. rev = gen.rev /\ gen.status = "recovery_required" /\ i.op = "recover"
          BY <1>3, <2>6, <3>1, <3>3, <3>4 DEF Inserts
        <4>2. Early
          BY <2>2, <3>3, <4>1 DEF ReserveIsEarly
        <4> QED
          BY <1>8, <3>3, <4>1, <4>2
      <3>5. CASE j # k
        <4>1. Unfinished(j) /\ intent[j].op = "recover" /\ rev = intent[j].prepRev
          BY <1>3, <2>1, <2>6, <3>1, <3>5
        <4>2. Early /\ gen.status \in {"allocated", "recovery_required"}
          BY <2>2, <3>3, <4>1 DEF ReserveIsEarly
        <4> QED
          BY <1>8, <1>9, <3>3, <4>2 DEF Inserts
      <3> QED
        BY <3>4, <3>5
    <2> QED
      BY <1>3, <2>3, <2>5, <2>6 DEF ReserveIsEarly
  <1>15. WorkerHasIntent'
    <2> SUFFICES ASSUME NEW j \in Keys, worker[j] # "none" PROVE Builds(j)'
      BY <1>2, WorkersStay DEF WorkspaceInv
    <2>1. Builds(j)
      BY DEF WorkspaceInv, WorkerHasIntent, WorkerFits
    <2>2. j # k
      BY <2>1 DEF Builds, Inserts, Exists
    <2>3. Builds(j)'
      BY <1>1, <1>3, <2>1, <2>2 DEF Builds
    <2> QED
      BY <2>3
  <1>16. StatusFits'
    BY <1>2, <1>3, <1>4, <1>8, <1>9 DEF WorkspaceInv, StatusFits, Inserts
  <1> QED
    BY <1>3, <1>10, <1>11, <1>12, <1>13, <1>14, <1>15, <1>16 DEF WorkspaceInv
-----------------------------------------------------------------------------
(* Steps outside the calls, and of the disk.                               *)

LEMMA RowsFrame ==
    ASSUME WorkspaceInv, UNCHANGED rows
    PROVE  /\ gen' = gen /\ intent' = intent /\ RowsAreValid'
           /\ Early' <=> Early
           /\ \A k \in Keys : ReserveIsEarly(k)'
  <1>1. gen' = gen /\ intent' = intent /\ RowsAreValid'
    BY RowsStay DEF WorkspaceInv, rows
  <1>2. Early' <=> Early
    BY <1>1 DEF Early
  <1>3. \A k \in Keys : ReserveIsEarly(k)'
    BY <1>1, <1>2 DEF WorkspaceInv, ReserveIsEarly, Unfinished, Exists, IsCausalNode
  <1> QED
    BY <1>1, <1>2, <1>3

LEMMA RebindStep ==
    ASSUME WorkspaceInv, Rebind
    PROVE  WorkspaceInv'
  <1>1. UNCHANGED <<rows, owner, disk, worker>>
    BY DEF Rebind
  <1>2. \A p \in Callers : /\ caller'[p] \in WorkspaceCalls /\ caller'[p].pc = caller[p].pc
                           /\ caller'[p].key = caller[p].key /\ caller'[p].res = caller[p].res
    <2> SUFFICES ASSUME NEW p \in Callers
                 PROVE  /\ caller'[p] \in WorkspaceCalls /\ caller'[p].pc = caller[p].pc
                        /\ caller'[p].key = caller[p].key /\ caller'[p].res = caller[p].res
      OBVIOUS
    <2>1. caller[p] \in WorkspaceCalls
      BY DEF WorkspaceInv, WorkspaceTypes
    <2>2. PICK s \in BOOLEAN : caller'[p] = [caller[p] EXCEPT !.stale = s]
      BY DEF Rebind
    <2> QED
      BY <2>1, <2>2 DEF WorkspaceCalls
  <1>3. caller' \in [Callers -> WorkspaceCalls]
    <2>1. caller' = [p \in Callers |-> caller'[p]]
      BY DEF Rebind
    <2> QED
      BY <1>2, <2>1
  <1>4. /\ gen' = gen /\ intent' = intent /\ RowsAreValid' /\ (Early' <=> Early)
        /\ \A k \in Keys : ReserveIsEarly(k)'
    BY <1>1, RowsFrame
  <1>5. WorkspaceTypes'
    BY <1>1, <1>3, <1>4 DEF WorkspaceInv, WorkspaceTypes
  <1>6. \A p \in Callers : CallFits(caller[p])' /\ (Invokes(caller'[p]) <=> Invokes(caller[p]))
    BY <1>1, <1>2, <1>4 DEF WorkspaceInv, CallFits, FitsIntent, Exists, Invokes
  <1>7. OneInvoker'
    BY <1>2, <1>4, <1>6 DEF WorkspaceInv, OneInvoker
  <1>8. \A k \in Keys : IntentFits(k)'
    BY <1>1, <1>4 DEF WorkspaceInv, IntentFits, OthersSettled
  <1>9. WorkerHasIntent'
    <2>1. \A k \in Keys : Builds(k) => Builds(k)'
      BY <1>2, <1>4, <1>6 DEF Builds
    <2> QED
      BY <1>1, <2>1 DEF WorkspaceInv, WorkerHasIntent, WorkerFits
  <1>10. StatusFits'
    BY <1>1, <1>4 DEF WorkspaceInv, StatusFits, Exists
  <1> QED
    BY <1>4, <1>5, <1>6, <1>7, <1>8, <1>9, <1>10 DEF WorkspaceInv

LEMMA LeaveStep ==
    ASSUME WorkspaceInv, LeaveRunning
    PROVE  WorkspaceInv'
  <1>1. /\ UNCHANGED <<rows, disk, worker, caller>>
        /\ owner = "running" /\ owner' \in {"waiting", "completed"}
    BY DEF LeaveRunning
  <1>2. /\ gen' = gen /\ intent' = intent /\ RowsAreValid' /\ (Early' <=> Early)
        /\ \A k \in Keys : ReserveIsEarly(k)'
    BY <1>1, RowsFrame
  <1>3. WorkspaceTypes'
    BY <1>1, <1>2 DEF WorkspaceInv, WorkspaceTypes
  <1>4. \A p \in Callers : CallFits(caller[p])'
    BY <1>1, <1>2 DEF WorkspaceInv, CallFits, FitsIntent, Exists
  <1>5. OneInvoker'
    BY <1>1, <1>2 DEF WorkspaceInv, OneInvoker
  <1>6. \A k \in Keys : IntentFits(k)'
    BY <1>1, <1>2 DEF WorkspaceInv, IntentFits, OthersSettled
  <1>7. WorkerHasIntent'
    BY <1>1, <1>2 DEF WorkspaceInv, WorkerHasIntent, WorkerFits, Builds
  <1>8. StatusFits'
    BY <1>1, <1>2 DEF WorkspaceInv, StatusFits, Exists
  <1> QED
    BY <1>2, <1>3, <1>4, <1>5, <1>6, <1>7, <1>8 DEF WorkspaceInv

(* The disk changes under call p, or none, and the claims about it still hold. *)
LEMMA DiskStep ==
    ASSUME WorkspaceInv, UNCHANGED <<rows, owner>>,
           disk' \in {"absent", "partial", "complete", "dirty"}, worker' \in Workers,
           caller' \in [Callers -> WorkspaceCalls],
           \A q \in Callers : CallFits(caller[q])', OneInvoker', WorkerHasIntent',
           \A k \in Keys :
              /\ intent[k].op # "cleanup" /\ intent[k].state \in {"observed", "verified"} =>
                     (disk \in Whole => disk' \in Whole)
              /\ intent[k].op = "cleanup" /\ intent[k].state \in {"observed", "verified"} =>
                     (disk = "absent" => disk' = "absent"),
           Early => disk' = disk,
           gen.status = "ready" => (disk \in Whole => disk' \in Whole),
           gen.status = "cleaned" => disk' = disk
    PROVE  WorkspaceInv'
  <1>1. owner' = owner
    OBVIOUS
  <1>2. /\ gen' = gen /\ intent' = intent /\ RowsAreValid' /\ (Early' <=> Early)
        /\ \A k \in Keys : ReserveIsEarly(k)'
    BY RowsFrame
  <1>3. WorkspaceTypes'
    BY <1>1, <1>2 DEF WorkspaceInv, WorkspaceTypes
  <1>4. \A k \in Keys : IntentFits(k)'
    BY <1>1, <1>2 DEF WorkspaceInv, IntentFits, OthersSettled
  <1>5. StatusFits'
    BY <1>1, <1>2 DEF WorkspaceInv, StatusFits, Exists
  <1> QED
    BY <1>2, <1>3, <1>4, <1>5 DEF WorkspaceInv

LEMMA WorkStep ==
    ASSUME WorkspaceInv, Work
    PROVE  WorkspaceInv'
  <1>1. /\ UNCHANGED <<rows, owner, worker, caller>> /\ disk \in Whole /\ disk' \in Whole
        /\ gen.status = "ready" /\ intent' = intent
    BY DEF Work, Whole, rows
  <1>2. \A q \in Callers : CallFits(caller[q])'
    BY <1>1 DEF WorkspaceInv, CallFits, FitsIntent, Exists, Whole
  <1>3. OneInvoker'
    BY <1>1 DEF WorkspaceInv, OneInvoker
  <1>4. \A k \in Keys : Builds(k)' <=> Builds(k)
    BY <1>1 DEF Builds, Invokes
  <1>5. WorkerHasIntent'
    BY <1>1, <1>4 DEF WorkspaceInv, WorkerHasIntent, WorkerFits, Whole
  <1>6. ~Early
    BY <1>1 DEF WorkspaceInv, StatusFits, Whole
  <1>7. worker' \in Workers /\ caller' \in [Callers -> WorkspaceCalls]
        /\ disk' \in {"absent", "partial", "complete", "dirty"}
    BY <1>1 DEF WorkspaceInv, WorkspaceTypes, Whole
  <1> QED
    BY <1>1, <1>2, <1>3, <1>5, <1>6, <1>7, DiskStep DEF Whole

(* While a create may still build, no cleanup has gone past its Act, and nothing is early. *)
LEMMA BuildExcludes ==
    ASSUME WorkspaceInv, NEW k \in Keys, intent[k].op = "create",
           intent[k].state \in {"executing", "ambiguous"}
    PROVE  /\ ~Early /\ gen.status # "cleaned"
           /\ \A j \in Keys : intent[j].op = "cleanup" =>
                                  intent[j].state \notin {"executing", "observed", "verified"}
  <1>1. \A j \in Keys : intent[j].op = "cleanup" =>
                            intent[j].state \notin {"executing", "observed", "verified"}
    <2> SUFFICES ASSUME NEW j \in Keys, intent[j].op = "cleanup",
                        intent[j].state \in {"executing", "observed", "verified"}
                 PROVE  FALSE
      OBVIOUS
    <2>1. OthersSettled(j) /\ j # k
      BY DEF WorkspaceInv, IntentFits
    <2> QED
      BY <2>1 DEF OthersSettled, Settled
  <1> QED
    BY <1>1 DEF Early, WorkspaceInv, StatusFits, Settled

(* A worker changes the disk, where there is no whole worktree. *)
LEMMA WorkerMoves ==
    ASSUME WorkspaceInv, NEW k \in Keys, worker[k] # "none", UNCHANGED <<rows, owner, caller>>,
           disk \notin Whole, disk' \in {"partial", "complete"},
           worker' \in Workers, WorkerHasIntent'
    PROVE  WorkspaceInv'
  <1>1. intent' = intent /\ caller' = caller
    BY DEF rows
  <1>2. /\ ~Early /\ gen.status # "cleaned"
        /\ \A j \in Keys : intent[j].op = "cleanup" =>
                               intent[j].state \notin {"executing", "observed", "verified"}
    <2>1. Builds(k)
      BY DEF WorkspaceInv, WorkerHasIntent, WorkerFits
    <2> QED
      BY <2>1, BuildExcludes DEF Builds
  <1>3. \A q \in Callers : CallFits(caller[q])'
    BY <1>1, <1>2 DEF WorkspaceInv, CallFits, FitsIntent, Exists, Whole
  <1>4. OneInvoker'
    BY <1>1 DEF WorkspaceInv, OneInvoker
  <1>5. caller' \in [Callers -> WorkspaceCalls] /\ disk' \in {"absent", "partial", "complete", "dirty"}
    BY <1>1 DEF WorkspaceInv, WorkspaceTypes
  <1> QED
    BY <1>1, <1>2, <1>3, <1>4, <1>5, DiskStep

(* A worker has ended, and the disk is what it was. *)
LEMMA WorkerLeaves ==
    ASSUME WorkspaceInv, NEW k \in Keys, worker' = [worker EXCEPT ![k] = "none"],
           UNCHANGED <<rows, owner, disk, caller>>
    PROVE  WorkspaceInv'
  <1>1. intent' = intent /\ caller' = caller /\ disk' = disk
    BY DEF rows
  <1>2. worker \in Workers /\ caller \in [Callers -> WorkspaceCalls]
        /\ disk \in {"absent", "partial", "complete", "dirty"}
    BY DEF WorkspaceInv, WorkspaceTypes
  <1>3. worker' \in Workers /\ \A j \in Keys : worker'[j] \in {worker[j], "none"}
    BY <1>2 DEF Workers
  <1>4. \A q \in Callers : CallFits(caller[q])'
    BY <1>1 DEF WorkspaceInv, CallFits, FitsIntent, Exists
  <1>5. OneInvoker'
    BY <1>1 DEF WorkspaceInv, OneInvoker
  <1>6. \A j \in Keys : Builds(j)' <=> Builds(j)
    BY <1>1 DEF Builds, Invokes
  <1>7. WorkerHasIntent'
    BY <1>1, <1>3, <1>6 DEF WorkspaceInv, WorkerHasIntent, WorkerFits
  <1> QED
    BY <1>1, <1>2, <1>3, <1>4, <1>5, <1>7, DiskStep

LEMMA WorkerAcquiresStep ==
    ASSUME WorkspaceInv, NEW k \in Keys, WorkerAcquires(k)
    PROVE  WorkspaceInv'
  <1>1. worker[k] = "spawned" /\ UNCHANGED <<rows, owner, caller>> /\ intent' = intent /\ caller' = caller
    BY DEF WorkerAcquires, rows
  <1>2. CASE disk = "absent" /\ disk' = "partial" /\ worker' = [worker EXCEPT ![k] = "building"]
    <2>1. worker \in Workers
      BY DEF WorkspaceInv, WorkspaceTypes
    <2>2. /\ worker' \in Workers /\ worker'[k] = "building"
          /\ \A j \in Keys \ {k} : worker'[j] = worker[j]
      BY <1>2, <2>1 DEF Workers
    <2>3. \A j \in Keys : worker[j] # "building"
      BY <1>2 DEF WorkspaceInv, WorkerHasIntent, WorkerFits
    <2>4. \A j \in Keys : Builds(j)' <=> Builds(j)
      BY <1>1 DEF Builds, Invokes
    <2>5. WorkerHasIntent'
      BY <1>1, <1>2, <2>2, <2>3, <2>4 DEF WorkspaceInv, WorkerHasIntent, WorkerFits
    <2> QED
      BY <1>1, <1>2, <2>2, <2>5, WorkerMoves DEF Whole
  <1>3. CASE worker' = [worker EXCEPT ![k] = "none"] /\ UNCHANGED disk
    BY <1>1, <1>3, WorkerLeaves
  <1> QED
    BY <1>2, <1>3 DEF WorkerAcquires

LEMMA BuildEndsStep ==
    ASSUME WorkspaceInv, NEW k \in Keys, BuildEnds(k)
    PROVE  WorkspaceInv'
  <1>1. /\ UNCHANGED <<rows, owner, caller>> /\ intent' = intent /\ caller' = caller
        /\ worker[k] = "building" /\ worker' = [worker EXCEPT ![k] = "none"]
        /\ disk' \in {"partial", "complete"}
    BY DEF BuildEnds, rows
  <1>2. disk = "partial" /\ \A j \in Keys \ {k} : worker[j] # "building"
    BY <1>1 DEF WorkspaceInv, WorkerHasIntent, WorkerFits
  <1>3. worker \in Workers
    BY DEF WorkspaceInv, WorkspaceTypes
  <1>4. /\ worker' \in Workers /\ worker'[k] = "none"
        /\ \A j \in Keys \ {k} : worker'[j] = worker[j]
    BY <1>1, <1>3 DEF Workers
  <1>5. \A j \in Keys : Builds(j)' <=> Builds(j)
    BY <1>1 DEF Builds, Invokes
  <1>6. WorkerHasIntent'
    BY <1>2, <1>4, <1>5 DEF WorkspaceInv, WorkerHasIntent, WorkerFits
  <1> QED
    BY <1>1, <1>2, <1>4, <1>6, WorkerMoves DEF Whole
-----------------------------------------------------------------------------
(* Where a call goes.                                                      *)

LEMMA GotoBecomes ==
    ASSUME WorkspaceTypes, NEW p \in Callers,
           NEW pc \in InBackend \cup {"idle", "act", "answered", "verify", "finalize"}, Goto(p, pc)
    PROVE  \E c : Becomes(p, c) /\ c.pc = pc /\ c.key = caller[p].key /\ c.res = caller[p].res
  <1>1. PICK c : c = [caller[p] EXCEPT !.pc = pc]
    OBVIOUS
  <1>2. caller[p] \in WorkspaceCalls
    BY DEF WorkspaceTypes
  <1>3. c \in WorkspaceCalls /\ c.pc = pc /\ c.key = caller[p].key /\ c.res = caller[p].res
    BY <1>1, <1>2 DEF WorkspaceCalls
  <1>4. caller' = [caller EXCEPT ![p] = c]
    BY <1>1 DEF Goto, WorkspaceTypes
  <1> QED
    BY <1>3, <1>4 DEF Becomes

LEMMA AnswerBecomes ==
    ASSUME WorkspaceTypes, NEW p \in Callers,
           NEW res \in Observed \cup {"none", "plain", "ambiguous"}, Answer(p, res)
    PROVE  \E c : Becomes(p, c) /\ c.pc = "answered" /\ c.key = caller[p].key /\ c.res = res
  <1>1. PICK c : c = [caller[p] EXCEPT !.pc = "answered", !.res = res]
    OBVIOUS
  <1>2. caller[p] \in WorkspaceCalls
    BY DEF WorkspaceTypes
  <1>3. c \in WorkspaceCalls /\ c.pc = "answered" /\ c.key = caller[p].key /\ c.res = res
    BY <1>1, <1>2 DEF WorkspaceCalls
  <1>4. caller' = [caller EXCEPT ![p] = c]
    BY <1>1 DEF Answer, WorkspaceTypes
  <1> QED
    BY <1>3, <1>4 DEF Becomes

LEMMA DoneBecomes ==
    ASSUME NEW p \in Callers, Done(p)
    PROVE  Becomes(p, Idle) /\ Idle.pc = "idle"
  BY DEF Done, Becomes, Idle, WorkspaceCalls

(* The call that is under way and its intent. *)
LEMMA CallFacts ==
    ASSUME WorkspaceInv, NEW p \in Callers, caller[p].pc # "idle"
    PROVE  /\ caller[p] \in WorkspaceCalls /\ caller[p].key \in Keys /\ Exists(caller[p].key)
           /\ FitsIntent(caller[p], intent[caller[p].key])
           /\ Op(p) = intent[caller[p].key].op
           /\ intent[caller[p].key] \in IntentRows /\ intent[caller[p].key].op \in Operations
           /\ gen \in Generations /\ disk \in {"absent", "partial", "complete", "dirty"}
  <1>1. /\ caller[p] \in WorkspaceCalls /\ caller[p].key \in Keys /\ Exists(caller[p].key)
        /\ FitsIntent(caller[p], intent[caller[p].key])
    BY DEF WorkspaceInv, WorkspaceTypes, CallFits
  <1>2. intent[caller[p].key] \in IntentRows /\ IntentFits(caller[p].key)
    BY <1>1 DEF WorkspaceInv, WorkspaceTypes
  <1>3. intent[caller[p].key].op \in Operations
    BY <1>1, <1>2 DEF IntentRows, IntentFits, Exists
  <1>4. Op(p) = intent[caller[p].key].op
    BY <1>1, KeyIsNotNobody DEF Op
  <1> QED
    BY <1>1, <1>2, <1>3, <1>4 DEF WorkspaceInv, WorkspaceTypes

LEMMA StopStep ==
    ASSUME WorkspaceInv, NEW p \in Callers, Stop(p)
    PROVE  WorkspaceInv'
  <1>1. Becomes(p, Idle) /\ Idle.pc = "idle" /\ CallFits(Idle)
        /\ UNCHANGED <<rows, owner, disk, worker>>
    BY DoneBecomes DEF Stop, CallFits, Idle
  <1> QED
    BY <1>1, CallStep

LEMMA ReplayStep ==
    ASSUME WorkspaceInv, NEW p \in Callers, NEW k \in Keys, Replay(p, k)
    PROVE  WorkspaceInv'
  <1>1. UNCHANGED <<rows, owner, disk, worker>>
    BY DEF Replay, rows
  <1>2. intent[k] \in IntentRows /\ Exists(k) /\ intent[k].op # "cleanup"
        /\ intent[k].state \in {"pending", "executing", "observed", "verified"}
    BY DEF Replay, WorkspaceInv, WorkspaceTypes, Unfinished, IntentRows, States, Terminal, Exists
  <1>3. PICK pc, res :
           /\ caller' = [caller EXCEPT ![p] = [pc |-> pc, key |-> k, stale |-> FALSE, res |-> res]]
           /\ \/ intent[k].state = "pending" /\ pc = "act" /\ res = "none"
              \/ intent[k].state = "executing" /\ intent[k].op \in Effects
                 /\ pc = "answered" /\ res = "ambiguous"
              \/ intent[k].state = "executing" /\ intent[k].op \notin Effects
                 /\ pc = "invoke" /\ res = "none"
              \/ intent[k].state = "observed" /\ pc = "verify" /\ res = "none"
              \/ intent[k].state = "verified" /\ pc = "finalize" /\ res = "none"
    <2>1. CASE intent[k].state = "pending"
      BY <2>1 DEF Replay
    <2>2. CASE intent[k].state = "executing"
      BY <2>2 DEF Replay
    <2>3. CASE intent[k].state = "observed"
      BY <2>3 DEF Replay
    <2>4. CASE intent[k].state = "verified"
      BY <2>4 DEF Replay
    <2> QED
      BY <1>2, <2>1, <2>2, <2>3, <2>4
  <1>4. PICK c : c = [pc |-> pc, key |-> k, stale |-> FALSE, res |-> res]
    OBVIOUS
  <1>5. Becomes(p, c) /\ c.pc = pc /\ c.key = k /\ c.res = res
    BY <1>3, <1>4 DEF Becomes, WorkspaceCalls, InBackend
  <1>6. CallFits(c) /\ (Invokes(c) => intent[k].op \notin Effects)
    BY <1>2, <1>3, <1>5 DEF CallFits, FitsIntent, Invokes, InBackend, Effects, Observed
  <1> QED
    BY <1>1, <1>2, <1>5, <1>6, CallStep

(* The backend answers call p, which brings back res or goes on to build or remove. *)
LEMMA BackendStep ==
    ASSUME WorkspaceInv, NEW p \in Callers, NEW c, caller[p].pc \in InBackend,
           UNCHANGED <<rows, owner, disk, worker>>,
           Becomes(p, c), c.key = caller[p].key, c.pc # "idle",
           FitsIntent(c, intent[c.key]),
           worker[caller[p].key] # "none" /\ caller[p].pc = "building" /\ Invokes(c) => c.pc = "building"
    PROVE  WorkspaceInv'
  <1>1. caller[p].pc # "idle" /\ Invokes(caller[p])
    BY DEF InBackend, Invokes
  <1>2. CallFits(c)
    BY <1>1, CallFacts DEF CallFits
  <1> QED
    BY <1>1, <1>2, CallStep

LEMMA BackendFailsStep ==
    ASSUME WorkspaceInv, NEW p \in Callers, BackendFails(p)
    PROVE  WorkspaceInv'
  <1>1. caller[p].pc = "invoke" /\ UNCHANGED <<rows, owner, disk, worker>>
    BY DEF BackendFails
  <1>2. PICK res \in {"plain", "ambiguous"} : Answer(p, res)
    BY DEF BackendFails
  <1>3. PICK c : Becomes(p, c) /\ c.pc = "answered" /\ c.key = caller[p].key /\ c.res = res
    BY <1>2, AnswerBecomes DEF WorkspaceInv
  <1>4. FitsIntent(caller[p], intent[caller[p].key])
    BY <1>1, CallFacts
  <1>5. FitsIntent(c, intent[c.key])
    BY <1>1, <1>2, <1>3, <1>4 DEF FitsIntent, InBackend, Observed
  <1> QED
    BY <1>1, <1>3, <1>5, BackendStep DEF InBackend

LEMMA BackendLooksStep ==
    ASSUME WorkspaceInv, NEW p \in Callers, BackendLooks(p)
    PROVE  WorkspaceInv'
  <1> DEFINE i == intent[caller[p].key]
  <1>1. caller[p].pc = "invoke" /\ UNCHANGED <<rows, owner, disk, worker>>
    BY DEF BackendLooks
  <1>2. /\ FitsIntent(caller[p], i) /\ Op(p) = i.op
        /\ disk \in {"absent", "partial", "complete", "dirty"} /\ i.op \in Operations
    BY <1>1, CallFacts
  <1>3. /\ Physical \in {"absent", "partial", "complete"}
        /\ Physical = "complete" => disk \in Whole
        /\ Physical = "absent" => disk = "absent"
    BY <1>2 DEF Physical, Whole
  <1>4. \/ /\ i.op = "create" /\ Goto(p, "build")
        \/ /\ i.op = "cleanup" /\ Goto(p, "remove")
        \/ \E res \in Observed \cup {"plain", "ambiguous"} :
              /\ Answer(p, res)
              /\ i.op = "create" /\ res \in Observed => res = "complete"
              /\ res = "complete" => disk \in Whole
              /\ i.op = "cleanup" => res \in {"partial", "absent"} /\ (res = "absent" => disk = "absent")
    <2>1. CASE i.op \in {"inspect", "recover"}
      BY <1>2, <1>3, <2>1 DEF BackendLooks, Observed
    <2>2. CASE i.op = "reserve"
      BY <1>2, <1>3, <2>2 DEF BackendLooks, Observed
    <2>3. CASE i.op = "create"
      BY <1>2, <1>3, <2>3 DEF BackendLooks, Observed
    <2>4. CASE i.op = "cleanup"
      BY <1>2, <1>3, <2>4 DEF BackendLooks, Observed
    <2> QED
      BY <1>2, <2>1, <2>2, <2>3, <2>4 DEF Operations, Effects
  <1>5. CASE \/ i.op = "create" /\ Goto(p, "build")
             \/ i.op = "cleanup" /\ Goto(p, "remove")
    <2>1. PICK pc \in {"build", "remove"} :
             /\ Goto(p, pc) /\ (pc = "build" => i.op = "create") /\ (pc = "remove" => i.op = "cleanup")
      BY <1>5
    <2>2. PICK c : Becomes(p, c) /\ c.pc = pc /\ c.key = caller[p].key
      BY <2>1, GotoBecomes DEF WorkspaceInv, InBackend
    <2>3. FitsIntent(c, i)
      BY <1>1, <1>2, <2>1, <2>2 DEF FitsIntent, InBackend
    <2> QED
      BY <1>1, <2>1, <2>2, <2>3, BackendStep DEF InBackend
  <1>6. ASSUME NEW res \in Observed \cup {"plain", "ambiguous"}, Answer(p, res),
               i.op = "create" /\ res \in Observed => res = "complete",
               res = "complete" => disk \in Whole,
               i.op = "cleanup" => res \in {"partial", "absent"} /\ (res = "absent" => disk = "absent")
        PROVE  WorkspaceInv'
    <2>1. PICK c : Becomes(p, c) /\ c.pc = "answered" /\ c.key = caller[p].key /\ c.res = res
      BY <1>6, AnswerBecomes DEF WorkspaceInv
    <2>2. FitsIntent(c, i)
      BY <1>1, <1>2, <1>6, <2>1 DEF FitsIntent, InBackend
    <2> QED
      BY <1>1, <2>1, <2>2, BackendStep DEF InBackend
  <1> QED
    BY <1>4, <1>5, <1>6

LEMMA BuildAnsweredStep ==
    ASSUME WorkspaceInv, NEW p \in Callers, BuildAnswered(p)
    PROVE  WorkspaceInv'
  <1> DEFINE i == intent[caller[p].key]
  <1>1. caller[p].pc = "building" /\ UNCHANGED <<rows, owner, disk, worker>>
    BY DEF BuildAnswered
  <1>2. FitsIntent(caller[p], i) /\ i.op = "create"
    BY <1>1, CallFacts DEF FitsIntent
  <1>3. PICK res \in {"complete", "plain", "ambiguous"} :
           /\ Answer(p, res) /\ (worker[caller[p].key] # "none" => res = "ambiguous")
           /\ res = "complete" => disk \in Whole
    BY DEF BuildAnswered, Physical, Whole
  <1>4. PICK c : Becomes(p, c) /\ c.pc = "answered" /\ c.key = caller[p].key /\ c.res = res
    BY <1>3, AnswerBecomes DEF WorkspaceInv, Observed
  <1>5. FitsIntent(c, i) /\ (worker[caller[p].key] # "none" => ~Invokes(c))
    BY <1>1, <1>2, <1>3, <1>4 DEF FitsIntent, InBackend, Observed, Invokes
  <1> QED
    BY <1>1, <1>4, <1>5, BackendStep DEF InBackend

LEMMA BuildBeginsStep ==
    ASSUME WorkspaceInv, NEW p \in Callers, BuildBegins(p)
    PROVE  WorkspaceInv'
  <1> DEFINE k == caller[p].key
  <1>1. caller[p].pc = "build" /\ UNCHANGED <<rows, owner, disk>> /\ intent' = intent
    BY DEF BuildBegins, rows
  <1>2. /\ FitsIntent(caller[p], intent[k]) /\ intent[k].op = "create" /\ k \in Keys
        /\ intent[k].state \in {"executing", "ambiguous"}
    BY <1>1, CallFacts DEF FitsIntent, InBackend, Effects
  <1>3. CASE worker' = [worker EXCEPT ![k] = "spawned"] /\ Goto(p, "building")
    <2>1. PICK c : Becomes(p, c) /\ c.pc = "building" /\ c.key = k
      BY <1>3, GotoBecomes DEF WorkspaceInv, InBackend
    <2>2. /\ caller' \in [Callers -> WorkspaceCalls] /\ caller'[p] = c
          /\ \A q \in Callers \ {p} : caller'[q] = caller[q]
      BY <2>1, CallsAfter DEF WorkspaceInv
    <2>3. worker \in Workers /\ disk \in {"absent", "partial", "complete", "dirty"}
      BY DEF WorkspaceInv, WorkspaceTypes
    <2>4. ASSUME NEW q \in Callers
          PROVE  CallFits(caller[q])'
      <3>1. CASE q = p
        BY <1>1, <1>2, <1>3, <2>1, <2>2, <3>1 DEF CallFits, FitsIntent, Exists, InBackend
      <3>2. CASE q # p
        <4>1. CallFits(caller[q]) /\ caller'[q] = caller[q]
          BY <2>2, <3>2 DEF WorkspaceInv
        <4> QED
          BY <1>1, <4>1 DEF CallFits, FitsIntent, Exists
      <3> QED
        BY <3>1, <3>2
    <2>5. Invokes(caller[p]) /\ Invokes(c) /\ c.pc # "idle" /\ caller[p].pc # "idle"
      BY <1>1, <2>1 DEF Invokes, InBackend
    <2>6. OneInvoker'
      BY <1>1, <2>1, <2>2, <2>5 DEF WorkspaceInv, OneInvoker
    <2>7. \A q \in Callers \ {p} : ~(caller[q].pc # "idle" /\ caller[q].key = k /\ Invokes(caller[q]))
      BY <1>2, <2>5 DEF WorkspaceInv, OneInvoker, Effects
    <2>8. /\ worker' \in Workers /\ worker'[k] = "spawned"
          /\ \A j \in Keys \ {k} : worker'[j] = worker[j]
      BY <1>2, <1>3, <2>3 DEF Workers
    <2>9. ASSUME NEW j \in Keys, worker'[j] # "none"
          PROVE  Builds(j)'
      <3>1. CASE j = k
        BY <1>1, <1>2, <2>1, <2>2, <2>7, <3>1 DEF Builds
      <3>2. CASE j # k
        <4>1. Builds(j)
          BY <2>8, <2>9, <3>2 DEF WorkspaceInv, WorkerHasIntent, WorkerFits
        <4> QED
          BY <1>1, <2>1, <2>2, <3>2, <4>1 DEF Builds
      <3> QED
        BY <3>1, <3>2
    <2>10. WorkerHasIntent'
      BY <1>1, <2>8, <2>9 DEF WorkspaceInv, WorkerHasIntent, WorkerFits
    <2> QED
      BY <1>1, <1>3, <2>2, <2>3, <2>4, <2>6, <2>8, <2>10, DiskStep
  <1>4. CASE UNCHANGED worker /\ \E failure \in {"plain", "ambiguous"} : Answer(p, failure)
    <2>1. PICK res \in {"plain", "ambiguous"} : Answer(p, res)
      BY <1>4
    <2>2. PICK c : Becomes(p, c) /\ c.pc = "answered" /\ c.key = k /\ c.res = res
      BY <2>1, AnswerBecomes DEF WorkspaceInv
    <2>3. FitsIntent(c, intent[k])
      BY <1>1, <1>2, <2>1, <2>2 DEF FitsIntent, InBackend, Observed
    <2> QED
      BY <1>1, <1>4, <2>2, <2>3, BackendStep DEF InBackend
  <1> QED
    BY <1>3, <1>4 DEF BuildBegins

(* A cleanup past its Act meets no worker. *)
LEMMA NoWorkerAtCleanup ==
    ASSUME WorkspaceInv, NEW k \in Keys, intent[k].op = "cleanup", OthersSettled(k)
    PROVE  \A j \in Keys : worker[j] = "none"
  BY DEF WorkspaceInv, WorkerHasIntent, WorkerFits, Builds, OthersSettled, Settled

LEMMA RemoveStep ==
    ASSUME WorkspaceInv, NEW p \in Callers, Remove(p)
    PROVE  WorkspaceInv'
  <1> DEFINE k == caller[p].key
  <1>1. caller[p].pc = "remove" /\ UNCHANGED <<rows, owner, worker>> /\ intent' = intent
    BY DEF Remove, rows
  <1>2. /\ FitsIntent(caller[p], intent[k]) /\ intent[k].op = "cleanup" /\ k \in Keys
        /\ intent[k].state = "executing"
    BY <1>1, CallFacts DEF FitsIntent, InBackend
  <1>3. CASE disk' = disk /\ Answer(p, "plain")
    <2>1. PICK c : Becomes(p, c) /\ c.pc = "answered" /\ c.key = k /\ c.res = "plain"
      BY <1>3, AnswerBecomes DEF WorkspaceInv
    <2>2. FitsIntent(c, intent[k])
      BY <1>1, <1>2, <2>1 DEF FitsIntent, InBackend, Observed
    <2> QED
      BY <1>1, <1>3, <2>1, <2>2, BackendStep DEF InBackend
  <1>4. ASSUME NEW res \in {"removed", "ambiguous"}, Answer(p, res), disk = "complete",
               disk' \in {"partial", "absent"}, res = "removed" => disk' = "absent"
        PROVE  WorkspaceInv'
    <2>1. PICK c : Becomes(p, c) /\ c.pc = "answered" /\ c.key = k /\ c.res = res
      BY <1>4, AnswerBecomes DEF WorkspaceInv, Observed
    <2>2. /\ caller' \in [Callers -> WorkspaceCalls] /\ caller'[p] = c
          /\ \A q \in Callers \ {p} : caller'[q] = caller[q]
      BY <2>1, CallsAfter DEF WorkspaceInv
    <2>3. gen.status = "cleaning" /\ OthersSettled(k) /\ worker' = worker
          /\ \A j \in Keys : worker[j] = "none"
      <3>1. gen.status = "cleaning" /\ OthersSettled(k) /\ worker' = worker
        BY <1>1, <1>2 DEF WorkspaceInv, IntentFits
      <3> QED
        BY <1>2, <3>1, NoWorkerAtCleanup
    <2>4. \A q \in Callers \ {p} : caller[q].pc # "idle" => caller[q].key # k
      BY <1>1, <1>2 DEF WorkspaceInv, OneInvoker
    <2>5. ASSUME NEW q \in Callers
          PROVE  CallFits(caller[q])'
      <3>1. CASE q = p
        BY <1>1, <1>2, <1>4, <2>1, <2>2, <3>1 DEF CallFits, FitsIntent, Exists, InBackend
      <3>2. CASE q # p
        <4>1. CallFits(caller[q]) /\ caller'[q] = caller[q]
          BY <2>2, <3>2 DEF WorkspaceInv
        <4>2. caller[q].pc # "idle" => caller[q].key \in Keys \ {k} /\ intent[caller[q].key].state \in Settled
          BY <2>3, <2>4, <3>2, <4>1 DEF CallFits, OthersSettled
        <4> QED
          BY <1>1, <4>1, <4>2 DEF CallFits, FitsIntent, Exists, InBackend, Settled
      <3> QED
        BY <3>1, <3>2
    <2>6. OneInvoker'
      BY <1>1, <2>1, <2>2, <2>4 DEF WorkspaceInv, OneInvoker
    <2>7. WorkerHasIntent'
      BY <2>3 DEF WorkerHasIntent, WorkerFits
    <2>8. ~Early /\ worker' \in Workers
      BY <1>2, <2>3 DEF Early, WorkspaceInv, WorkspaceTypes
    <2>9. \A j \in Keys : intent[j].state \notin {"observed", "verified"}
      BY <1>2, <2>3 DEF OthersSettled, Settled
    <2> QED
      BY <1>1, <1>4, <2>2, <2>3, <2>5, <2>6, <2>7, <2>8, <2>9, DiskStep
  <1> QED
    BY <1>3, <1>4 DEF Remove

(* The row that a prepare transaction inserts, and the call that goes on with it. *)
LEMMA InsertFacts ==
    ASSUME WorkspaceInv, NEW p \in Callers, NEW k \in Keys, NEW op \in Operations,
           NEW cause \in Keys \cup {Nobody}, NEW g \in Generations, InsertIntent(p, k, op, cause, g)
    PROVE  /\ UNCHANGED <<owner, disk, worker>>
           /\ \E i \in IntentRows :
                 /\ Commit(g, k, i) /\ i.op = op /\ i.state = "pending" /\ i.prepRev = g.rev
           /\ \E c : Becomes(p, c) /\ c.pc = "act" /\ c.key = k
  <1>1. PICK i : i = [NoIntent EXCEPT !.op = op, !.state = "pending", !.cause = cause,
                       !.prepRev = g.rev, !.expRev = g.rev, !.expStatus = g.status]
    OBVIOUS
  <1>2. g.rev \in Nat /\ g.status \in Statuses
    BY DEF Generations
  <1>3. i \in IntentRows /\ i.op = op /\ i.state = "pending" /\ i.prepRev = g.rev
    BY <1>1, <1>2 DEF NoIntent, IntentRows, States
  <1>4. Commit(g, k, i)
    BY <1>1 DEF InsertIntent
  <1>5. PICK c : c = [pc |-> "act", key |-> k, stale |-> FALSE, res |-> "none"]
    OBVIOUS
  <1>6. c \in WorkspaceCalls /\ c.pc = "act" /\ c.key = k
    BY <1>5 DEF WorkspaceCalls
  <1>7. Becomes(p, c)
    BY <1>5, <1>6 DEF Becomes, InsertIntent
  <1> QED
    BY <1>3, <1>4, <1>6, <1>7 DEF InsertIntent

LEMMA PrepareStep ==
    ASSUME WorkspaceInv, NEW p \in Callers, NEW k \in Keys, NEW op \in Operations \ {"cleanup"},
           NEW cause \in Keys \cup {Nobody}, Prepare(p, k, op, cause)
    PROVE  WorkspaceInv'
  <1>1. PICK g : g = IF gen.status = "none" THEN Moved("allocated") ELSE gen
    OBVIOUS
  <1>2. /\ caller[p].pc = "idle" /\ ~Exists(k) /\ owner # "completed"
        /\ InsertIntent(p, k, op, cause, g)
        /\ IF op = "reserve" THEN gen.status = "none" \/ MayReserveAgain
                             ELSE gen.status \in RequiredStatus(op)
    BY <1>1 DEF Prepare, OwnerAllows
  <1>3. gen \in Generations /\ gen.rev \in Nat
    BY DEF WorkspaceInv, WorkspaceTypes, Generations
  <1>4. op # "reserve" => gen.status # "none"
    BY <1>2 DEF RequiredStatus, Operations, Effects
  <1>5. g \in Generations /\ (g = gen \/ (gen.status = "none" /\ g.status = "allocated" /\ op = "reserve"))
    BY <1>1, <1>3, <1>4 DEF Moved, Generations, Statuses
  <1>6. op = "reserve" => \/ gen.status = "none" /\ g # gen
                          \/ gen.status = "allocated" /\ \A j \in Keys : ~Unfinished(j)
    BY <1>1, <1>2, <1>3 DEF MayReserveAgain, Moved
  <1>7. /\ op = "create" => gen.status = "reserved"
        /\ op = "recover" => gen.status = "recovery_required"
    BY <1>2 DEF RequiredStatus
  <1>8. PICK i \in IntentRows :
           Commit(g, k, i) /\ i.op = op /\ i.state = "pending" /\ i.prepRev = g.rev
    BY <1>2, <1>5, InsertFacts
  <1>9. PICK c : Becomes(p, c) /\ c.pc = "act" /\ c.key = k
    BY <1>2, <1>5, InsertFacts
  <1>10. Inserts(p, k, g, i)
    BY <1>2, <1>4, <1>5, <1>6, <1>7, <1>8 DEF Inserts
  <1>11. UNCHANGED <<owner, disk, worker>>
    BY <1>2 DEF InsertIntent
  <1> QED
    BY <1>8, <1>9, <1>10, <1>11, InsertStep

LEMMA PrepareCleanupStep ==
    ASSUME WorkspaceInv, NEW p \in Callers, NEW k \in Keys, PrepareCleanup(p, k)
    PROVE  WorkspaceInv'
  <1>1. /\ caller[p].pc = "idle" /\ ~Exists(k) /\ owner = "completed" /\ gen.status = "ready"
        /\ InsertIntent(p, k, "cleanup", Nobody, gen)
    BY DEF PrepareCleanup, RequiredStatus
  <1>2. gen \in Generations
    BY DEF WorkspaceInv, WorkspaceTypes
  <1>3. PICK i \in IntentRows :
           Commit(gen, k, i) /\ i.op = "cleanup" /\ i.state = "pending" /\ i.prepRev = gen.rev
    BY <1>1, <1>2, InsertFacts DEF Operations, Effects
  <1>4. PICK c : Becomes(p, c) /\ c.pc = "act" /\ c.key = k
    BY <1>1, <1>2, InsertFacts DEF Operations, Effects
  <1>5. Inserts(p, k, gen, i)
    BY <1>1, <1>2, <1>3 DEF Inserts, Operations, Effects
  <1>6. UNCHANGED <<owner, disk, worker>>
    BY <1>1 DEF InsertIntent
  <1> QED
    BY <1>3, <1>4, <1>5, <1>6, InsertStep
-----------------------------------------------------------------------------
(* The steps that move an intent on, one by one.                           *)

(* Row j is row i moved to state s. *)
SameOperation(i, j, s) ==
    j \in IntentRows /\ j.op = i.op /\ j.prepRev = i.prepRev /\ j.ext = i.ext /\ j.state = s

LEMMA EndedFacts ==
    ASSUME NEW i \in IntentRows, NEW s \in States, NEW f \in {"none", "plain", "ambiguous"},
           NEW g \in Generations, NEW n \in Nat, NEW b \in BOOLEAN
    PROVE  /\ SameOperation(i, Ended(i, s, f, g), s)
           /\ SameOperation(i, [Ended(i, s, f, g) EXCEPT !.closed = b], s)
           /\ SameOperation(i, [Ended(i, s, f, g) EXCEPT !.actRev = n], s)
  <1>1. PICK j : j = Ended(i, s, f, g)
    OBVIOUS
  <1>2. g.rev \in Nat /\ g.status \in Statuses
    BY DEF Generations
  <1>3. SameOperation(i, j, s)
    BY <1>1, <1>2 DEF Ended, SameOperation, IntentRows
  <1>4. PICK j1 : j1 = [j EXCEPT !.closed = b]
    OBVIOUS
  <1>5. SameOperation(j, j1, s)
    BY <1>3, <1>4 DEF SameOperation, IntentRows
  <1>6. PICK j2 : j2 = [j EXCEPT !.actRev = n]
    OBVIOUS
  <1>7. SameOperation(j, j2, s)
    BY <1>3, <1>6 DEF SameOperation, IntentRows
  <1> QED
    BY <1>1, <1>3, <1>4, <1>5, <1>6, <1>7 DEF SameOperation

LEMMA MovedToFacts ==
    ASSUME WorkspaceTypes, NEW status \in Statuses
    PROVE  /\ MovedTo(status) \in Generations /\ MovedTo(status).status = status
           /\ MovedTo(status) = gen \/ MovedTo(status).rev = gen.rev + 1
           /\ status = gen.status => MovedTo(status) = gen
           /\ Moved(status) \in Generations /\ Moved(status).status = status
           /\ Moved(status).rev = gen.rev + 1
  BY DEF WorkspaceTypes, Generations, MovedTo, Moved

(* The intent of a call under way. *)
LEMMA OwnIntentFacts ==
    ASSUME WorkspaceInv, NEW p \in Callers, NEW k, k = caller[p].key, caller[p].pc # "idle"
    PROVE  /\ k \in Keys /\ intent[k] \in IntentRows /\ Op(p) = intent[k].op
           /\ intent[k].op \in Operations
           /\ caller[p] \in WorkspaceCalls /\ FitsIntent(caller[p], intent[k])
           /\ IntentFits(k) /\ ReserveIsEarly(k)
           /\ intent[k].state \notin Terminal => Unfinished(k)
           /\ gen \in Generations /\ gen.rev \in Nat /\ gen.status \in Statuses
  <1>1. /\ k \in Keys /\ intent[k] \in IntentRows /\ Op(p) = intent[k].op /\ Exists(k)
        /\ caller[p] \in WorkspaceCalls /\ FitsIntent(caller[p], intent[k])
        /\ intent[k].op \in Operations /\ gen \in Generations
    BY CallFacts
  <1> QED
    BY <1>1 DEF WorkspaceInv, Unfinished, Generations

(* What holds of a step that leaves the generation alone. *)
LEMMA LeavesSame ==
    ASSUME WorkspaceInv, NEW k, NEW i,
           i.op # "cleanup" /\ i.state \in {"observed", "verified"} =>
               /\ i.op = "create" => i.ext = "complete"
               /\ i.ext = "complete" => disk \in Whole,
           i.op = "cleanup" =>
               /\ i.state \in {"executing", "observed", "verified"} =>
                      gen.status = "cleaning" /\ OthersSettled(k)
               /\ i.state \in {"observed", "verified"} => disk = "absent",
           i.op = "reserve" /\ i.state \notin Terminal => gen.status = "allocated"
    PROVE  Leaves(k, gen, i)
  BY DEF Leaves, WorkspaceInv, WorkspaceTypes, StatusFits

(* What holds of a step that ends an operation with no knowledge of its effect. *)
LEMMA LeavesAmbiguous ==
    ASSUME WorkspaceInv, NEW k, NEW i, NEW g, i.state = "ambiguous",
           g = MovedTo(AmbiguousStatus(i.op, gen.status))
    PROVE  Leaves(k, g, i)
  <1>1. CASE i.op = "inspect"
    <2>1. g = gen
      BY <1>1 DEF MovedTo, AmbiguousStatus
    <2> QED
      BY <2>1, <1>1, LeavesSame
  <1>2. CASE i.op # "inspect"
    <2>1. g = MovedTo("recovery_required")
      BY <1>2 DEF AmbiguousStatus
    <2>2. /\ g \in Generations /\ g.status = "recovery_required"
          /\ g = gen \/ g.rev = gen.rev + 1
      BY <2>1, MovedToFacts DEF WorkspaceInv, Statuses
    <2> QED
      BY <1>2, <2>2 DEF Leaves, Terminal
  <1> QED
    BY <1>1, <1>2

LEMMA RefuseToActStep ==
    ASSUME WorkspaceInv, NEW p \in Callers, RefuseToAct(p)
    PROVE  WorkspaceInv'
  <1>1. PICK k : k = caller[p].key
    OBVIOUS
  <1>2. PICK actRev \in {0, IF Op(p) = "cleanup" THEN gen.rev + 1 ELSE gen.rev} :
           Commit(gen, k, [Ended(intent[k], "failed", "plain", gen) EXCEPT !.actRev = actRev])
    BY <1>1 DEF RefuseToAct
  <1>3. /\ caller[p].pc = "act" /\ intent[k].state = "pending" /\ Done(p)
        /\ UNCHANGED <<owner, disk, worker>>
    BY <1>1 DEF RefuseToAct
  <1>4. PICK i : i = [Ended(intent[k], "failed", "plain", gen) EXCEPT !.actRev = actRev]
    OBVIOUS
  <1>5. k \in Keys /\ intent[k] \in IntentRows /\ gen \in Generations /\ gen.rev \in Nat
    BY <1>1, <1>3, OwnIntentFacts
  <1>6. actRev \in Nat
    BY <1>5
  <1>7. SameOperation(intent[k], i, "failed")
    BY <1>4, <1>5, <1>6, EndedFacts DEF States
  <1>8. Moves(p, k, i)
    BY <1>1, <1>3, <1>7 DEF Moves, SameOperation
  <1>9. Leaves(k, gen, i)
    BY <1>7, LeavesSame DEF SameOperation, Terminal
  <1>10. Becomes(p, Idle) /\ Idle.pc = "idle"
    BY <1>3, DoneBecomes
  <1> QED
    BY <1>2, <1>3, <1>4, <1>5, <1>8, <1>9, <1>10, MoveStep

(* An operation starts on generation g. *)
LEMMA StartStep ==
    ASSUME WorkspaceInv, NEW p \in Callers, NEW k, NEW g, k = caller[p].key,
           caller[p].pc = "act", StartIntent(p, g), g \in Generations,
           NEW status, g = gen \/ g = Moved(status),
           intent[k].op = "inspect" \/ intent[k].op = "recover" => g = gen,
           intent[k].op = "reserve" => g.status = gen.status,
           intent[k].op = "create" => g.status = "creating",
           intent[k].op = "cleanup" =>
               g.status = "cleaning" /\ OthersSettled(k) /\ disk \in Whole
    PROVE  WorkspaceInv'
  <1>1. PICK i : i = [intent[k] EXCEPT !.state = "executing", !.actRev = g.rev,
                                       !.expRev = g.rev, !.expStatus = g.status]
    OBVIOUS
  <1>2. /\ intent[k].state = "pending" /\ Commit(g, k, i) /\ Goto(p, "invoke")
        /\ UNCHANGED <<owner, disk, worker>>
    BY <1>1 DEF StartIntent
  <1>3. /\ k \in Keys /\ intent[k] \in IntentRows /\ intent[k].op \in Operations
        /\ ReserveIsEarly(k) /\ Unfinished(k)
        /\ gen \in Generations /\ gen.rev \in Nat
    BY <1>2, OwnIntentFacts DEF Terminal
  <1>4. SameOperation(intent[k], i, "executing")
    <2>1. g.rev \in Nat /\ g.status \in Statuses
      BY DEF Generations
    <2> QED
      BY <1>1, <1>3, <2>1 DEF SameOperation, IntentRows, States
  <1>5. Moves(p, k, i)
    BY <1>2, <1>4 DEF Moves, SameOperation
  <1>6. intent[k].op = "reserve" => gen.status = "allocated"
    BY <1>3 DEF ReserveIsEarly
  <1>7. g = gen \/ g.rev = gen.rev + 1
    BY DEF Moved
  <1>8. Leaves(k, g, i)
    <2>1. CASE g = gen
      BY <1>4, <1>6, <2>1, LeavesSame DEF SameOperation
    <2>2. CASE g # gen
      BY <1>3, <1>4, <1>6, <1>7, <2>2
         DEF Leaves, SameOperation, WorkspaceInv, StatusFits, Operations, Effects
    <2> QED
      BY <2>1, <2>2
  <1>9. PICK c : Becomes(p, c) /\ c.pc = "invoke" /\ c.key = k
    BY <1>2, GotoBecomes DEF WorkspaceInv, InBackend
  <1>10. FitsIntent(c, i)
    BY <1>4, <1>9 DEF FitsIntent, SameOperation, InBackend
  <1> QED
    BY <1>2, <1>3, <1>5, <1>8, <1>9, <1>10, MoveStep

LEMMA ActStep ==
    ASSUME WorkspaceInv, NEW p \in Callers, Act(p)
    PROVE  WorkspaceInv'
  <1>1. PICK k, g : /\ k = caller[p].key
                    /\ g = CASE Op(p) = "reserve" -> Moved(gen.status)
                             [] Op(p) = "create" -> Moved("creating")
                             [] OTHER -> gen
    OBVIOUS
  <1>2. caller[p].pc = "act" /\ StartIntent(p, g) /\ Op(p) # "cleanup"
    BY <1>1 DEF Act
  <1>3. Op(p) = intent[k].op /\ gen \in Generations /\ gen.status \in Statuses
    BY <1>1, <1>2, OwnIntentFacts
  <1>4. CASE Op(p) = "reserve"
    <2>1. g = Moved(gen.status) /\ g \in Generations /\ g.status = gen.status
      BY <1>1, <1>3, <1>4, MovedToFacts DEF WorkspaceInv
    <2> QED
      BY <1>1, <1>2, <1>3, <1>4, <2>1, StartStep
  <1>5. CASE Op(p) = "create"
    <2>1. g = Moved("creating") /\ g \in Generations /\ g.status = "creating"
      BY <1>1, <1>3, <1>5, MovedToFacts DEF WorkspaceInv, Statuses
    <2> QED
      BY <1>1, <1>2, <1>3, <1>5, <2>1, StartStep
  <1>6. CASE Op(p) \notin {"reserve", "create"}
    <2>1. g = gen
      BY <1>1, <1>6
    <2> QED
      BY <1>1, <1>2, <1>3, <1>6, <2>1, StartStep
  <1> QED
    BY <1>4, <1>5, <1>6

LEMMA ActCleanupStep ==
    ASSUME WorkspaceInv, NEW p \in Callers, ActCleanup(p)
    PROVE  WorkspaceInv'
  <1>1. PICK k, g : k = caller[p].key /\ g = Moved("cleaning")
    OBVIOUS
  <1>2. /\ caller[p].pc = "act" /\ StartIntent(p, g) /\ Op(p) = "cleanup"
        /\ gen.status = "ready" /\ Quiescent(k)
    BY <1>1 DEF ActCleanup
  <1>3. Op(p) = intent[k].op /\ k \in Keys
    BY <1>1, <1>2, OwnIntentFacts
  <1>4. g \in Generations /\ g.status = "cleaning"
    BY <1>1, MovedToFacts DEF WorkspaceInv, Statuses
  <1>5. OthersSettled(k) /\ disk \in Whole
    BY <1>2, <1>3, OthersAreSettled DEF WorkspaceInv, StatusFits
  <1> QED
    BY <1>1, <1>2, <1>3, <1>4, <1>5, StartStep

(* The last step of a call: its operation ends. *)
LEMMA EndStep ==
    ASSUME WorkspaceInv, NEW p \in Callers, NEW k, NEW i, NEW g, k = caller[p].key,
           Moves(p, k, i), Leaves(k, g, i), Commit(g, k, i), Done(p),
           UNCHANGED <<owner, disk, worker>>
    PROVE  WorkspaceInv'
  <1>1. Becomes(p, Idle) /\ Idle.pc = "idle"
    BY DoneBecomes
  <1>2. k \in Keys
    BY CallFacts DEF Moves
  <1> QED
    BY <1>1, <1>2, MoveStep

(* The status after a failure that is known to have had no effect. *)
LEMMA LeavesFailed ==
    ASSUME WorkspaceInv, NEW k \in Keys, NEW i, NEW g, i.state = "failed", i.op \in Operations,
           g = MovedTo(StatusAfterFailure(i.op, "plain", gen.status)),
           i.op = "reserve" => gen.status = "allocated",
           i.op = "cleanup" => disk \in Whole
    PROVE  Leaves(k, g, i)
  <1>1. gen.status \in Statuses
    BY DEF WorkspaceInv, WorkspaceTypes, Generations
  <1>2. CASE i.op \in {"reserve", "inspect"}
    <2>1. StatusAfterFailure(i.op, "plain", gen.status) = gen.status
      BY <1>2 DEF StatusAfterFailure
    <2>2. g = gen
      BY <2>1 DEF MovedTo
    <2> QED
      BY <1>2, <2>2, LeavesSame
  <1>3. CASE i.op \notin {"reserve", "inspect"}
    <2>1. PICK status \in Statuses :
             /\ status = StatusAfterFailure(i.op, "plain", gen.status)
             /\ \/ i.op = "create" /\ status = "reserved"
                \/ i.op = "cleanup" /\ status = "ready"
                \/ i.op = "recover" /\ status = "recovery_required"
      <3>1. CASE i.op = "create"
        BY <3>1 DEF StatusAfterFailure, Statuses
      <3>2. CASE i.op = "cleanup"
        BY <3>2 DEF StatusAfterFailure, Statuses
      <3>3. CASE i.op = "recover"
        BY <3>3 DEF StatusAfterFailure, Statuses
      <3> QED
        BY <1>3, <3>1, <3>2, <3>3 DEF Operations, Effects
    <2>2. /\ g \in Generations /\ g.status = status
          /\ g = gen \/ g.rev = gen.rev + 1
      BY <2>1, MovedToFacts DEF WorkspaceInv
    <2> QED
      BY <1>3, <2>1, <2>2 DEF Leaves
  <1> QED
    BY <1>2, <1>3

LEMMA RecordFailureStep ==
    ASSUME WorkspaceInv, NEW p \in Callers, RecordFailure(p)
    PROVE  WorkspaceInv'
  <1>1. PICK k, res, g, s :
           /\ k = caller[p].key /\ res = caller[p].res
           /\ g = MovedTo(StatusAfterFailure(Op(p), res, gen.status))
           /\ s = IF res = "plain" THEN "failed" ELSE "ambiguous"
    OBVIOUS
  <1>2. PICK i : i = [Ended(intent[k], s, res, g) EXCEPT !.closed = (Op(p) = "cleanup")]
    OBVIOUS
  <1>3. /\ caller[p].pc = "answered" /\ res \in {"plain", "ambiguous"}
        /\ intent[k].state = "executing" /\ Commit(g, k, i) /\ Done(p)
        /\ UNCHANGED <<owner, disk, worker>>
    BY <1>1, <1>2 DEF RecordFailure
  <1>4. /\ k \in Keys /\ intent[k] \in IntentRows /\ Op(p) = intent[k].op
        /\ intent[k].op \in Operations /\ FitsIntent(caller[p], intent[k])
        /\ ReserveIsEarly(k) /\ Unfinished(k) /\ gen.status \in Statuses
    BY <1>1, <1>3, OwnIntentFacts DEF Terminal
  <1>5. StatusAfterFailure(Op(p), res, gen.status) \in Statuses
    BY <1>3, <1>4 DEF StatusAfterFailure, AmbiguousStatus, Statuses, Operations, Effects
  <1>6. g \in Generations
    BY <1>1, <1>5, MovedToFacts DEF WorkspaceInv
  <1>7. SameOperation(intent[k], i, s)
    <2>1. (Op(p) = "cleanup") \in BOOLEAN /\ s \in States /\ res \in {"none", "plain", "ambiguous"}
      BY <1>1, <1>3 DEF States
    <2> QED
      BY <1>2, <1>4, <1>6, <2>1, EndedFacts
  <1>8. Moves(p, k, i)
    BY <1>1, <1>3, <1>7 DEF Moves, SameOperation
  <1>9. Leaves(k, g, i)
    <2>1. CASE res = "plain"
      <3>1. intent[k].op = "reserve" => gen.status = "allocated"
        BY <1>4 DEF ReserveIsEarly
      <3>2. intent[k].op = "cleanup" => disk \in Whole
        BY <1>1, <1>3, <1>4, <2>1 DEF FitsIntent
      <3> QED
        BY <1>1, <1>4, <1>7, <2>1, <3>1, <3>2, LeavesFailed DEF SameOperation
    <2>2. CASE res = "ambiguous"
      <3>1. g = MovedTo(AmbiguousStatus(i.op, gen.status)) /\ i.state = "ambiguous"
        BY <1>1, <1>4, <1>7, <2>2 DEF StatusAfterFailure, SameOperation
      <3> QED
        BY <3>1, LeavesAmbiguous
    <2> QED
      BY <1>3, <2>1, <2>2
  <1> QED
    BY <1>1, <1>3, <1>8, <1>9, EndStep

(* The intent of call p moves on, with the generation as it is. *)
LEMMA OnStep ==
    ASSUME WorkspaceInv, NEW p \in Callers, NEW k, NEW i, NEW s \in {"observed", "verified"},
           NEW pc \in {"verify", "finalize"}, k = caller[p].key,
           Moves(p, k, i), i.state = s, Leaves(k, gen, i), Commit(gen, k, i), Goto(p, pc),
           UNCHANGED <<owner, disk, worker>>
    PROVE  WorkspaceInv'
  <1>1. PICK c : Becomes(p, c) /\ c.pc = pc /\ c.key = k
    BY GotoBecomes DEF WorkspaceInv
  <1>2. k \in Keys
    BY CallFacts DEF Moves
  <1>3. FitsIntent(c, i) /\ ~Invokes(c)
    BY <1>1 DEF FitsIntent, Invokes, InBackend
  <1> QED
    BY <1>1, <1>2, <1>3, MoveStep

LEMMA RecordReceiptStep ==
    ASSUME WorkspaceInv, NEW p \in Callers, caller[p].pc = "answered", RecordReceipt(p)
    PROVE  WorkspaceInv'
  <1>1. PICK k, res, i0, g :
           /\ k = caller[p].key /\ res = caller[p].res /\ i0 = [intent[k] EXCEPT !.ext = res]
           /\ g = MovedTo(AmbiguousStatus(Op(p), gen.status))
    OBVIOUS
  <1>2. /\ res \in Observed /\ intent[k].state = "executing" /\ UNCHANGED <<owner, disk, worker>>
        /\ IF res = "partial"
           THEN Commit(g, k, Ended(i0, "ambiguous", "none", g)) /\ Done(p)
           ELSE Commit(gen, k, Ended(i0, "observed", "none", gen)) /\ Goto(p, "verify")
    <2>1. intent[k].state = "executing" => i0.state = "executing"
      BY <1>1 DEF RecordReceipt
    <2>2. intent[k] \in IntentRows
      BY <1>1, OwnIntentFacts
    <2>3. i0.state = intent[k].state
      BY <1>1, <2>2 DEF IntentRows
    <2> QED
      BY <1>1, <2>3 DEF RecordReceipt
  <1>3. /\ k \in Keys /\ intent[k] \in IntentRows /\ Op(p) = intent[k].op
        /\ intent[k].op \in Operations /\ FitsIntent(caller[p], intent[k]) /\ IntentFits(k)
        /\ ReserveIsEarly(k) /\ Unfinished(k) /\ gen.status \in Statuses /\ gen \in Generations
    BY <1>1, <1>2, OwnIntentFacts DEF Terminal
  <1>4. i0 \in IntentRows /\ i0.op = intent[k].op /\ i0.prepRev = intent[k].prepRev /\ i0.ext = res
    BY <1>1, <1>2, <1>3 DEF IntentRows
  <1>5. CASE res = "partial"
    <2>1. PICK i : i = Ended(i0, "ambiguous", "none", g)
      OBVIOUS
    <2>2. AmbiguousStatus(Op(p), gen.status) \in Statuses
      BY <1>3 DEF AmbiguousStatus, Statuses
    <2>3. g \in Generations
      BY <1>1, <2>2, MovedToFacts DEF WorkspaceInv
    <2>4. SameOperation(i0, i, "ambiguous")
      BY <1>4, <2>1, <2>3, EndedFacts DEF States
    <2>5. Moves(p, k, i)
      BY <1>1, <1>2, <1>4, <2>4 DEF Moves, SameOperation
    <2>6. g = MovedTo(AmbiguousStatus(i.op, gen.status)) /\ i.state = "ambiguous"
      BY <1>1, <1>3, <1>4, <2>4 DEF SameOperation
    <2>7. Leaves(k, g, i)
      BY <2>6, LeavesAmbiguous
    <2> QED
      BY <1>1, <1>2, <1>5, <2>1, <2>5, <2>7, EndStep
  <1>6. CASE res # "partial"
    <2>1. PICK i : i = Ended(i0, "observed", "none", gen)
      OBVIOUS
    <2>2. SameOperation(i0, i, "observed")
      BY <1>3, <1>4, <2>1, EndedFacts DEF States
    <2>3. Moves(p, k, i)
      BY <1>1, <1>2, <1>4, <1>6, <2>2 DEF Moves, SameOperation, Observed
    <2>4. /\ i.op # "cleanup" =>
                (i.op = "create" => res = "complete") /\ (res = "complete" => disk \in Whole)
          /\ i.op = "cleanup" => gen.status = "cleaning" /\ OthersSettled(k) /\ disk = "absent"
      BY <1>1, <1>2, <1>3, <1>4, <1>6, <2>2 DEF FitsIntent, IntentFits, SameOperation, Observed
    <2>5. i.op = "reserve" => gen.status = "allocated"
      BY <1>3, <1>4, <2>2 DEF ReserveIsEarly, SameOperation
    <2>6. Leaves(k, gen, i)
      BY <1>4, <2>2, <2>4, <2>5, LeavesSame DEF SameOperation
    <2> QED
      BY <1>1, <1>2, <1>6, <2>1, <2>2, <2>3, <2>6, OnStep DEF SameOperation
  <1> QED
    BY <1>5, <1>6

LEMMA MarkVerifiedStep ==
    ASSUME WorkspaceInv, NEW p \in Callers, caller[p].pc = "verify", MarkVerified(p)
    PROVE  WorkspaceInv'
  <1>1. PICK k, i : k = caller[p].key /\ i = [intent[k] EXCEPT !.state = "verified"]
    OBVIOUS
  <1>2. /\ intent[k].state = "observed" /\ Commit(gen, k, i) /\ Goto(p, "finalize")
        /\ UNCHANGED <<owner, disk, worker>>
    BY <1>1 DEF MarkVerified
  <1>3. /\ k \in Keys /\ intent[k] \in IntentRows /\ IntentFits(k)
        /\ ReserveIsEarly(k) /\ Unfinished(k)
    BY <1>1, <1>2, OwnIntentFacts DEF Terminal
  <1>4. SameOperation(intent[k], i, "verified")
    BY <1>1, <1>3 DEF SameOperation, IntentRows, States
  <1>5. Moves(p, k, i)
    BY <1>1, <1>2, <1>4 DEF Moves, SameOperation
  <1>6. Leaves(k, gen, i)
    BY <1>2, <1>3, <1>4, LeavesSame DEF SameOperation, IntentFits, ReserveIsEarly
  <1> QED
    BY <1>1, <1>2, <1>4, <1>5, <1>6, OnStep DEF SameOperation

(* What a recovery of intent k may conclude from its receipt. *)
LEMMA RecoveredStatus ==
    ASSUME WorkspaceInv, NEW k \in Keys, intent[k].op = "recover", intent[k].state = "verified",
           owner # "completed"
    PROVE  \/ /\ StatusAfterReceipt(k, intent[k].ext, gen.status) = "ready"
              /\ disk \in Whole /\ ~Early
           \/ StatusAfterReceipt(k, intent[k].ext, gen.status) = "reserved" /\ ~Early
           \/ StatusAfterReceipt(k, intent[k].ext, gen.status) = "allocated" /\ Early
  <1>1. PICK rev, cause : rev = intent[k].prepRev /\ cause = intent[k].cause
    OBVIOUS
  <1>2. Exists(k) /\ Unfinished(k) /\ IntentFits(k)
    BY DEF Exists, Unfinished, Terminal, WorkspaceInv
  <1>3. RecoveryRoot(rev, cause) # "none"
    BY <1>1, <1>2, RowFacts DEF WorkspaceInv
  <1>4. PICK c \in Keys : /\ IsCausalNode(c, rev) /\ intent[c].op \in Effects
                          /\ intent[c].op = RecoveryRoot(rev, cause)
    BY <1>3, RootIsThere
  <1>5. intent[c].op # "cleanup"
    BY DEF WorkspaceInv, IntentFits
  <1>6. CASE intent[k].ext = "complete"
    <2>1. StatusAfterReceipt(k, intent[k].ext, gen.status) = "ready"
      BY <1>6 DEF StatusAfterReceipt
    <2>2. disk \in Whole
      BY <1>2, <1>6 DEF IntentFits
    <2> QED
      BY <2>1, <2>2 DEF Whole, WorkspaceInv, StatusFits
  <1>7. CASE intent[k].ext # "complete" /\ intent[c].op = "create"
    <2>1. StatusAfterReceipt(k, intent[k].ext, gen.status) = "reserved"
      BY <1>1, <1>4, <1>7 DEF StatusAfterReceipt
    <2> QED
      BY <1>7, <2>1 DEF Early
  <1>8. CASE intent[k].ext # "complete" /\ intent[c].op = "reserve"
    <2>1. StatusAfterReceipt(k, intent[k].ext, gen.status) = "allocated"
      BY <1>1, <1>4, <1>8 DEF StatusAfterReceipt
    <2>2. Early
      BY <1>1, <1>2, <1>4, <1>8 DEF WorkspaceInv, ReserveIsEarly
    <2> QED
      BY <2>1, <2>2
  <1> QED
    BY <1>4, <1>5, <1>6, <1>7, <1>8 DEF Effects

LEMMA MarkFinalizedStep ==
    ASSUME WorkspaceInv, NEW p \in Callers, caller[p].pc = "finalize", MarkFinalized(p),
           Op(p) # "cleanup" => OwnerAllows(Op(p))
    PROVE  WorkspaceInv'
  <1>1. PICK k, ext, status, g :
           /\ k = caller[p].key /\ ext = intent[k].ext
           /\ status = StatusAfterReceipt(k, ext, gen.status) /\ g = MovedTo(status)
    OBVIOUS
  <1>2. PICK i : i = [Ended(intent[k], "finalized", "none", g) EXCEPT !.closed = TRUE]
    OBVIOUS
  <1>3. /\ intent[k].state = "verified" /\ Commit(g, k, i) /\ Done(p)
        /\ UNCHANGED <<owner, disk, worker>>
    BY <1>1, <1>2 DEF MarkFinalized
  <1>4. /\ k \in Keys /\ intent[k] \in IntentRows /\ Op(p) = intent[k].op
        /\ intent[k].op \in Operations /\ IntentFits(k) /\ gen.status \in Statuses
        /\ gen \in Generations
    BY <1>1, <1>3, OwnIntentFacts
  <1>5. \/ intent[k].op = "reserve" /\ status = "reserved"
        \/ intent[k].op = "create" /\ status = "ready" /\ disk \in Whole
        \/ /\ intent[k].op = "cleanup" /\ status = "cleaned" /\ disk = "absent"
           /\ owner = "completed" /\ OthersSettled(k)
        \/ intent[k].op = "inspect" /\ status = gen.status
        \/ /\ intent[k].op = "recover"
           /\ \/ status = "ready" /\ disk \in Whole /\ ~Early
              \/ status = "reserved" /\ ~Early
              \/ status = "allocated" /\ Early
    <2>1. CASE intent[k].op = "reserve"
      BY <1>1, <2>1 DEF StatusAfterReceipt
    <2>2. CASE intent[k].op = "create"
      BY <1>1, <1>3, <1>4, <2>2 DEF StatusAfterReceipt, IntentFits
    <2>3. CASE intent[k].op = "cleanup"
      BY <1>1, <1>3, <1>4, <2>3 DEF StatusAfterReceipt, IntentFits
    <2>4. CASE intent[k].op = "inspect"
      BY <1>1, <2>4 DEF StatusAfterReceipt
    <2>5. CASE intent[k].op = "recover"
      <3>1. owner # "completed"
        BY <1>4, <2>5 DEF OwnerAllows
      <3> QED
        BY <1>1, <1>3, <1>4, <2>5, <3>1, RecoveredStatus
    <2> QED
      BY <1>4, <2>1, <2>2, <2>3, <2>4, <2>5 DEF Operations, Effects
  <1>6. /\ g \in Generations /\ g.status = status
        /\ g = gen \/ g.rev = gen.rev + 1
        /\ status = gen.status => g = gen
    <2>1. status \in Statuses
      BY <1>4, <1>5 DEF Statuses
    <2> QED
      BY <1>1, <2>1, MovedToFacts DEF WorkspaceInv
  <1>7. SameOperation(intent[k], i, "finalized")
    BY <1>2, <1>4, <1>6, EndedFacts DEF States
  <1>8. Moves(p, k, i)
    BY <1>1, <1>3, <1>7 DEF Moves, SameOperation
  <1>9. Leaves(k, g, i)
    <2>1. CASE g = gen
      BY <1>7, <2>1, LeavesSame DEF SameOperation, Terminal
    <2>2. CASE g # gen
      BY <1>5, <1>6, <1>7, <2>2 DEF Leaves, SameOperation, Terminal
    <2> QED
      BY <2>1, <2>2
  <1> QED
    BY <1>1, <1>3, <1>8, <1>9, EndStep

LEMMA FinalizeAmbiguousStep ==
    ASSUME WorkspaceInv, NEW p \in Callers, FinalizeAmbiguous(p)
    PROVE  WorkspaceInv'
  <1>1. PICK k, g : k = caller[p].key /\ g = MovedTo(AmbiguousStatus(Op(p), gen.status))
    OBVIOUS
  <1>2. PICK i : i = [Ended(intent[k], "ambiguous", "ambiguous", g) EXCEPT !.closed = (Op(p) = "cleanup")]
    OBVIOUS
  <1>3. /\ caller[p].pc = "finalize" /\ intent[k].state = "verified" /\ Commit(g, k, i) /\ Done(p)
        /\ UNCHANGED <<owner, disk, worker>>
    BY <1>1, <1>2 DEF FinalizeAmbiguous
  <1>4. k \in Keys /\ intent[k] \in IntentRows /\ Op(p) = intent[k].op /\ gen.status \in Statuses
    BY <1>1, <1>3, OwnIntentFacts
  <1>5. AmbiguousStatus(Op(p), gen.status) \in Statuses
    BY <1>4 DEF AmbiguousStatus, Statuses
  <1>6. g \in Generations
    BY <1>1, <1>5, MovedToFacts DEF WorkspaceInv
  <1>7. SameOperation(intent[k], i, "ambiguous")
    <2>1. (Op(p) = "cleanup") \in BOOLEAN
      OBVIOUS
    <2> QED
      BY <1>2, <1>4, <1>6, <2>1, EndedFacts DEF States
  <1>8. Moves(p, k, i)
    BY <1>1, <1>3, <1>7 DEF Moves, SameOperation
  <1>9. g = MovedTo(AmbiguousStatus(i.op, gen.status)) /\ i.state = "ambiguous"
    BY <1>1, <1>4, <1>7 DEF SameOperation
  <1>10. Leaves(k, g, i)
    BY <1>9, LeavesAmbiguous
  <1> QED
    BY <1>1, <1>3, <1>8, <1>10, EndStep
-----------------------------------------------------------------------------
(* The invariant and the theorems.                                         *)

LEMMA WorkspaceInitEstablishes ==
    ASSUME WorkspaceInit
    PROVE  WorkspaceInv
  <1>1. /\ owner = "running" /\ worker = [k \in Keys |-> "none"]
        /\ caller \in [Callers -> WorkspaceCalls] /\ \A p \in Callers : caller[p].pc = "idle"
    BY DEF WorkspaceInit, Idle, WorkspaceCalls
  <1>2. (\A p \in Callers : CallFits(caller[p])) /\ OneInvoker /\ WorkerHasIntent /\ worker \in Workers
    BY <1>1 DEF CallFits, OneInvoker, WorkerHasIntent, WorkerFits, Workers
  <1>3. CASE /\ gen = [status |-> "none", rev |-> 0]
             /\ intent = [k \in Keys |-> NoIntent]
             /\ disk = "absent"
    <2>1. gen.status = "none" /\ gen \in Generations
      BY <1>3 DEF Generations, Statuses
    <2>2. intent \in [Keys -> IntentRows]
      BY <1>3 DEF NoIntent, IntentRows, States, Statuses
    <2>3. \A k \in Keys : intent[k].state = "none" /\ intent[k].op = "none"
      BY <1>3 DEF NoIntent
    <2>4. WorkspaceTypes
      BY <1>1, <1>2, <1>3, <2>1, <2>2 DEF WorkspaceTypes
    <2>5. RowsAreValid
      BY <2>3 DEF RowsAreValid, Exists
    <2>6. \A k \in Keys : IntentFits(k) /\ ReserveIsEarly(k)
      BY <2>3 DEF IntentFits, ReserveIsEarly
    <2>7. StatusFits
      BY <1>1, <1>3, <2>1, <2>3 DEF StatusFits, Exists, Early
    <2> QED
      BY <1>2, <2>4, <2>5, <2>6, <2>7 DEF WorkspaceInv
  <1>4. CASE /\ gen = [status |-> "ready", rev |-> 5]
             /\ \E k \in Keys :
                  intent = [j \in Keys |-> IF j # k THEN NoIntent ELSE
                      [op |-> "create", state |-> "finalized", cause |-> Nobody, prepRev |-> 3,
                       actRev |-> 4, expRev |-> 5, expStatus |-> "ready", ext |-> "complete",
                       failure |-> "none", closed |-> TRUE]]
             /\ disk = "complete"
    <2>1. gen.status = "ready" /\ gen.rev = 5 /\ gen \in Generations
      BY <1>4 DEF Generations, Statuses
    <2>2. PICK k \in Keys :
             intent = [j \in Keys |-> IF j # k THEN NoIntent ELSE
                      [op |-> "create", state |-> "finalized", cause |-> Nobody, prepRev |-> 3,
                       actRev |-> 4, expRev |-> 5, expStatus |-> "ready", ext |-> "complete",
                       failure |-> "none", closed |-> TRUE]]
      BY <1>4
    <2>3. intent \in [Keys -> IntentRows]
      BY <2>2 DEF NoIntent, IntentRows, States, Statuses, Operations, Effects, Observed
    <2>4. /\ intent[k].state = "finalized" /\ intent[k].op = "create" /\ intent[k].prepRev = 3
          /\ intent[k].actRev = 4 /\ intent[k].expRev = 5 /\ intent[k].expStatus = "ready"
          /\ intent[k].failure = "none"
          /\ \A j \in Keys \ {k} : intent[j].state = "none" /\ intent[j].op = "none"
      BY <2>2 DEF NoIntent
    <2>5. WorkspaceTypes
      BY <1>1, <1>2, <1>4, <2>1, <2>3 DEF WorkspaceTypes
    <2>6. RowsAreValid
      <3>1. LineageIsValid(k)
        BY <2>1, <2>4 DEF LineageIsValid
      <3>2. StatusAfterReceipt(k, intent[k].ext, intent[k].expStatus) = "ready"
        BY <2>4 DEF StatusAfterReceipt
      <3>3. FinalizationIsConsistent(k)
        BY <2>1, <2>4, <3>2 DEF FinalizationIsConsistent
      <3> QED
        BY <2>4, <3>1, <3>3 DEF RowsAreValid, Exists
    <2>7. \A j \in Keys : IntentFits(j) /\ ReserveIsEarly(j)
      BY <2>4 DEF IntentFits, ReserveIsEarly
    <2>8. StatusFits
      BY <1>4, <2>1, <2>4 DEF StatusFits, Whole, Early
    <2> QED
      BY <1>2, <2>5, <2>6, <2>7, <2>8 DEF WorkspaceInv
  <1> QED
    BY <1>3, <1>4 DEF WorkspaceInit

LEMMA WorkspaceCallPreserves ==
    ASSUME WorkspaceInv, NEW p \in Callers, Step(p)
    PROVE  WorkspaceInv'
  <1>1. CASE \E k \in Keys : Replay(p, k)
    BY <1>1, ReplayStep
  <1>2. CASE \E k \in Keys, op \in Operations \ {"cleanup"} : \E cause \in Causes(op) :
                Prepare(p, k, op, cause)
    BY <1>2, PrepareStep DEF Causes
  <1>3. CASE \E k \in Keys : PrepareCleanup(p, k)
    BY <1>3, PrepareCleanupStep
  <1>4. CASE RefuseToAct(p) \/ Act(p) \/ ActCleanup(p)
    BY <1>4, RefuseToActStep, ActStep, ActCleanupStep
  <1>5. CASE BackendFails(p) \/ BackendLooks(p) \/ BuildBegins(p) \/ BuildAnswered(p) \/ Remove(p)
    BY <1>5, BackendFailsStep, BackendLooksStep, BuildBeginsStep, BuildAnsweredStep, RemoveStep
  <1>6. CASE RecordFailure(p)
    BY <1>6, RecordFailureStep
  <1>7. CASE Observe(p) \/ ObserveCleanup(p)
    BY <1>7, RecordReceiptStep DEF Observe, ObserveCleanup
  <1>8. CASE Verify(p) \/ VerifyCleanup(p)
    BY <1>8, MarkVerifiedStep DEF Verify, VerifyCleanup
  <1>9. CASE Finalize(p) \/ FinalizeCleanup(p)
    BY <1>9, MarkFinalizedStep DEF Finalize, FinalizeCleanup, BindingIsCurrent
  <1>10. CASE FinalizeAmbiguous(p)
    BY <1>10, FinalizeAmbiguousStep
  <1>11. CASE Stop(p)
    BY <1>11, StopStep
  <1> QED
    BY <1>1, <1>2, <1>3, <1>4, <1>5, <1>6, <1>7, <1>8, <1>9, <1>10, <1>11 DEF Step

LEMMA WorkspaceNextPreserves ==
    ASSUME WorkspaceInv, [WorkspaceNext]_workspaceVars
    PROVE  WorkspaceInv'
  <1>1. CASE \E p \in Callers : Step(p)
    BY <1>1, WorkspaceCallPreserves
  <1>2. CASE \E k \in Keys : WorkerAcquires(k) \/ BuildEnds(k)
    BY <1>2, WorkerAcquiresStep, BuildEndsStep
  <1>3. CASE Rebind
    BY <1>3, RebindStep
  <1>4. CASE Work
    BY <1>4, WorkStep
  <1>5. CASE LeaveRunning
    BY <1>5, LeaveStep
  <1>6. CASE UNCHANGED workspaceVars
    <2>1. /\ UNCHANGED <<rows, owner>> /\ disk' = disk /\ worker' = worker /\ caller' = caller
          /\ intent' = intent
      BY <1>6 DEF workspaceVars, rows
    <2>2. \A p \in Callers : CallFits(caller[p])'
      BY <2>1 DEF WorkspaceInv, CallFits, FitsIntent, Exists
    <2>3. OneInvoker'
      BY <2>1 DEF WorkspaceInv, OneInvoker
    <2>4. WorkerHasIntent'
      BY <2>1 DEF WorkspaceInv, WorkerHasIntent, WorkerFits, Builds
    <2>5. /\ disk' \in {"absent", "partial", "complete", "dirty"} /\ worker' \in Workers
          /\ caller' \in [Callers -> WorkspaceCalls]
      BY <2>1 DEF WorkspaceInv, WorkspaceTypes
    <2> QED
      BY <2>1, <2>2, <2>3, <2>4, <2>5, DiskStep
  <1> QED
    BY <1>1, <1>2, <1>3, <1>4, <1>5, <1>6 DEF WorkspaceNext

(* The inductive invariant of the workspace operations holds in every      *)
(* reachable state, for any number of processes, keys and inspections.     *)
THEOREM WorkspaceInvariant ==
    WorkspaceSpec => []WorkspaceInv
  <1>1. WorkspaceInit => WorkspaceInv
    BY WorkspaceInitEstablishes
  <1>2. WorkspaceInv /\ [WorkspaceNext]_workspaceVars => WorkspaceInv'
    BY WorkspaceNextPreserves
  <1> QED
    BY <1>1, <1>2, PTL DEF WorkspaceSpec

(* No transition leaves a status, an operation state or a receipt that     *)
(* the readers of workspace_generations and workspace_intents would        *)
(* refuse, and every call under way of workspace-application.ts and        *)
(* completion-application.ts has the key of an intent.                     *)
THEOREM WorkspaceKeepsTypes ==
    WorkspaceSpec => []WorkspaceTypeOK
  <1>1. WorkspaceInv => WorkspaceTypeOK
    BY WorkspaceTypesImply
  <1> QED
    BY <1>1, WorkspaceInvariant, PTL

(* The status that workspaceGenerationStatusAfterReceipt and               *)
(* ...AfterFailure leave in the generation is never ahead of the disk: a   *)
(* ready generation has a whole worktree, an allocated or a cleaned one    *)
(* has none, whichever of the calls, replays, recoveries and create        *)
(* workers left behind wrote last.                                         *)
THEOREM WorkspaceStatusIsTrue ==
    WorkspaceSpec => []StatusMatchesDisk
  <1>1. WorkspaceInv => StatusMatchesDisk
    BY DEF WorkspaceInv, StatusFits, StatusMatchesDisk, Whole
  <1> QED
    BY <1>1, WorkspaceInvariant, PTL

(* A call that is about to remove is the only one in the backend's disk    *)
(* work: its intent is the only one that is open.                          *)
LEMMA RemoverIsAlone ==
    ASSUME WorkspaceInv, NEW p \in Callers, caller[p].pc = "remove", disk \in Whole
    PROVE  /\ owner = "completed" /\ gen.status = "cleaning" /\ \A k \in Keys : worker[k] = "none"
           /\ intent[caller[p].key].op = "cleanup" /\ intent[caller[p].key].state = "executing"
           /\ caller[p].key \in Keys /\ OthersSettled(caller[p].key)
           /\ {q \in Callers : caller[q].pc \in {"build", "building", "remove"}} = {p}
  <1> DEFINE k == caller[p].key
  <1>1. /\ intent[k].op = "cleanup" /\ intent[k].state = "executing" /\ k \in Keys /\ IntentFits(k)
    BY CallFacts DEF FitsIntent, InBackend, WorkspaceInv
  <1>2. owner = "completed" /\ gen.status = "cleaning" /\ OthersSettled(k)
    BY <1>1 DEF IntentFits
  <1>3. \A j \in Keys : worker[j] = "none"
    BY <1>1, <1>2, NoWorkerAtCleanup
  <1>4. ASSUME NEW q \in Callers, caller[q].pc \in {"build", "building", "remove"}
        PROVE  q = p
    <2>1. /\ caller[q].key \in Keys /\ FitsIntent(caller[q], intent[caller[q].key])
      BY <1>4, CallFacts
    <2>2. intent[caller[q].key].state \notin Settled
      BY <1>4, <2>1 DEF FitsIntent, InBackend, Effects, Settled
    <2>3. caller[q].key = k
      BY <1>2, <2>1, <2>2 DEF OthersSettled
    <2> QED
      BY <1>1, <1>4, <2>3 DEF WorkspaceInv, OneInvoker
  <1> QED
    BY <1>1, <1>2, <1>3, <1>4

LEMMA OnlyRemoveTakesAway ==
    ASSUME WorkspaceInv, [WorkspaceNext]_workspaceVars, disk \in {"complete", "dirty"},
           disk' \in {"partial", "absent"}
    PROVE  \E p \in Callers : caller[p].pc = "remove"
  <1> SUFFICES ASSUME \A p \in Callers : ~Remove(p)
               PROVE  FALSE
    BY DEF Remove
  <1>1. disk' # disk /\ disk \in Whole /\ \A k \in Keys : worker[k] # "building"
    BY DEF WorkspaceInv, WorkerHasIntent, WorkerFits, Whole
  <1>2. CASE \E p \in Callers : Step(p)
    <2>1. PICK p \in Callers : Step(p)
      BY <1>2
    <2>2. ASSUME NEW k \in Keys, Replay(p, k) \/ PrepareCleanup(p, k)
          PROVE  UNCHANGED disk
      BY <2>2 DEF Replay, PrepareCleanup, InsertIntent
    <2>3. ASSUME NEW k \in Keys, NEW op, NEW cause, Prepare(p, k, op, cause)
          PROVE  UNCHANGED disk
      BY <2>3 DEF Prepare, InsertIntent
    <2>4. RefuseToAct(p) \/ Act(p) \/ ActCleanup(p) => UNCHANGED disk
      BY DEF RefuseToAct, Act, ActCleanup, StartIntent
    <2>5. BackendFails(p) \/ BackendLooks(p) \/ BuildBegins(p) \/ BuildAnswered(p) => UNCHANGED disk
      BY DEF BackendFails, BackendLooks, BuildBegins, BuildAnswered
    <2>6. RecordFailure(p) \/ Observe(p) \/ ObserveCleanup(p) => UNCHANGED disk
      BY DEF RecordFailure, Observe, ObserveCleanup, RecordReceipt
    <2>7. Verify(p) \/ VerifyCleanup(p) \/ Finalize(p) \/ FinalizeCleanup(p) => UNCHANGED disk
      BY DEF Verify, VerifyCleanup, MarkVerified, Finalize, FinalizeCleanup, MarkFinalized
    <2>8. FinalizeAmbiguous(p) \/ Stop(p) => UNCHANGED disk
      BY DEF FinalizeAmbiguous, Stop
    <2> QED
      BY <1>1, <2>1, <2>2, <2>3, <2>4, <2>5, <2>6, <2>7, <2>8 DEF Step
  <1>3. CASE \E k \in Keys : WorkerAcquires(k) \/ BuildEnds(k)
    BY <1>1, <1>3 DEF WorkerAcquires, BuildEnds, Whole
  <1>4. CASE Rebind
    BY <1>1, <1>4 DEF Rebind
  <1>5. CASE Work
    BY <1>5 DEF Work
  <1>6. CASE LeaveRunning
    BY <1>1, <1>6 DEF LeaveRunning
  <1>7. CASE UNCHANGED workspaceVars
    BY <1>1, <1>7 DEF workspaceVars
  <1> QED
    BY <1>2, <1>3, <1>4, <1>5, <1>6, <1>7 DEF WorkspaceNext

(* executeCleanup takes a worktree away only from a completed Task, when   *)
(* cleanupQuiescence still holds at that moment: every other intent is     *)
(* finalized or failed, no create worker is left behind, and no other      *)
(* caller is at work on the disk, however long ago the attestation was     *)
(* issued.                                                                 *)
THEOREM WorkspaceCleanupIsQuiet ==
    WorkspaceSpec => CleanupIsQuiet
  <1> DEFINE Quiet ==
          /\ owner = "completed" /\ gen.status = "cleaning" /\ \A k \in Keys : worker[k] = "none"
          /\ \E k \in Keys : /\ intent[k].op = "cleanup" /\ intent[k].state = "executing"
                             /\ \A j \in Keys \ {k} : intent[j].state \in {"none", "finalized", "failed"}
          /\ Cardinality({p \in Callers : caller[p].pc \in {"build", "building", "remove"}}) = 1
  <1>1. ASSUME WorkspaceInv, [WorkspaceNext]_workspaceVars,
               disk \in {"complete", "dirty"}, disk' \in {"partial", "absent"}
        PROVE  Quiet
    <2>1. PICK p \in Callers : caller[p].pc = "remove"
      BY <1>1, OnlyRemoveTakesAway
    <2>2. /\ owner = "completed" /\ gen.status = "cleaning" /\ \A k \in Keys : worker[k] = "none"
          /\ intent[caller[p].key].op = "cleanup" /\ intent[caller[p].key].state = "executing"
          /\ caller[p].key \in Keys /\ OthersSettled(caller[p].key)
          /\ {q \in Callers : caller[q].pc \in {"build", "building", "remove"}} = {p}
      BY <1>1, <2>1, RemoverIsAlone DEF Whole
    <2>3. Cardinality({p}) = 1
      BY FS_Singleton
    <2>4. Cardinality({q \in Callers : caller[q].pc \in {"build", "building", "remove"}}) = 1
      BY <2>2, <2>3
    <2> QED
      BY <2>2, <2>4 DEF OthersSettled, Settled
  <1>2. WorkspaceInv /\ [WorkspaceNext]_workspaceVars =>
            [(disk \in {"complete", "dirty"} /\ disk' \in {"partial", "absent"}) => Quiet]_workspaceVars
    BY <1>1
  <1> QED
    BY <1>2, WorkspaceInvariant, PTL DEF WorkspaceSpec, CleanupIsQuiet
=============================================================================
