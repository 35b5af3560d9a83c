------------------------- MODULE ReliableLoopProofs -------------------------
(***************************************************************************)
(* Proofs about ReliableLoop for any number of processes, owners, attempts *)
(* and intents: types, that an execution has one unfinished intent, that   *)
(* an effect is in the journal at most once, that what was observed is     *)
(* true, that the Task agrees with the turn, and that a superseded         *)
(* execution is history.                                                   *)
(*                                                                         *)
(* One fact carries the argument: only the one unfinished intent, which is *)
(* of the current execution, may be performed, and only while it is not.   *)
(* So from the moment a process holds a receipt of the turn until the      *)
(* intent is finalized, no other operation moves the turn, whichever       *)
(* processes still run; and the turn of an execution that was superseded   *)
(* has nobody left to move it.                                             *)
(***************************************************************************)
EXTENDS ReliableLoop, FiniteSetTheorems, TLAPS

Lifecycles == {"absent"} \cup OpenLifecycles \cup TerminalLifecycles
TaskRows ==
    [state : {"running", "waiting", "completed", "cancelled"}, revision : Nat,
     required : {"none", "resume", "retry", "inspect", "cancel"}]
ExecRows ==
    [status : {"absent", "active", "superseded"}, owner : Owners \cup {None},
     revision : Nat, postTaskRevision : Nat]
Kinds == {"absent", "start", "report", "cancel", "inspect", "resume", "retry"}
IntentStates ==
    {"absent", "pending", "executing", "observed", "verified", "finalized",
     "retry_wait", "ambiguous", "failed"}
IntentRows ==
    [kind : Kinds, state : IntentStates, execution : {0} \cup Attempts,
     source : {0} \cup Attempts, taskRevision : Nat, executionRevision : Nat,
     report : Reports \cup {"none"}, expects : Nat, act : Workers \cup {None},
     error : {"none", "ambiguous", "retry_wait", "failed"}, observation : Receipts,
     outcome : {"none", "accepted", "waiting", "interrupted", "rejected"},
     afterExpiry : BOOLEAN]
TurnRows == [lifecycle : Lifecycles, revision : Nat, executionRevision : Nat, cancelAt : Nat]
OpRows == [pre : Nat, post : Nat, bound : BOOLEAN, result : Lifecycles]
Places ==
    {"idle", "mark", "reconmark", "noeffect", "recover", "rebind", "invoke", "inspect",
     "observe", "verify", "finalize", "markfail", "finalfail"}
Notes ==
    {"none", "ok", "lost", "definite", "retryable", "ambiguous", "failed", "retry_wait"}
WorkerRows ==
    [pc : Places, intent : {0} \cup Intents, owner : Owners \cup {None}, lenient : BOOLEAN,
     sees : BOOLEAN, recon : BOOLEAN, note : Notes, receipt : Receipts]

Typed ==
    /\ task \in TaskRows
    /\ (task.required # "none") <=> (task.state = "waiting")
    /\ last \in Attempts
    /\ exec \in [Attempts -> ExecRows] /\ expired \subseteq Attempts
    /\ intent \in [Intents -> IntentRows]
    /\ turn \in [Attempts -> TurnRows] /\ op \in [Intents -> OpRows]
    /\ terminal \in [Attempts -> {"none", "completed", "cancelled"}]
    /\ worker \in [Workers -> WorkerRows]

(* Intents are prepared in order. *)
InOrder == \E n \in 0..MaxIntents : \A i \in Intents : Exists(i) <=> i <= n

(* The last attempt is the active one, and later ones have nothing. *)
ExecShape ==
    /\ exec[last].status = "active"
    /\ \A e \in Attempts : e > last =>
          exec[e].status = "absent" /\ terminal[e] = "none" /\ turn[e] = NoTurn

(* A receipt r that intent i may end on: the turn as it is, left so by the *)
(* intent's own operation.                                                 *)
Holds(i, r) ==
    /\ r = Receipt(i) /\ HasTurn(intent[i].execution)
    /\ intent[i].kind # "inspect" =>
          Performed(i) /\ op[i].post = r.revision /\ op[i].result = r.lifecycle

RowShape(i) ==
    /\ ~Exists(i) => intent[i] = NoIntent /\ op[i] = NoOperation
    /\ Exists(i) =>
          intent[i].execution \in Attempts /\ intent[i].execution <= last /\ intent[i].kind # "absent"
    /\ intent[i].kind = "retry" => intent[i].source # 0
    /\ intent[i].kind = "report" => intent[i].report \in Reports
    /\ intent[i].kind = "inspect" => ~Performed(i)
    /\ intent[i].outcome = "rejected" => intent[i].state = "finalized" /\ ~Performed(i)
    /\ intent[i].state \in {"observed", "verified"} => Holds(i, intent[i].observation)
    /\ Performed(i) =>
          /\ HasTurn(intent[i].execution)
          /\ op[i].pre <= op[i].post /\ op[i].post <= turn[intent[i].execution].revision

TurnShape(t) ==
    /\ t.lifecycle = "absent" => t = NoTurn
    /\ t.cancelAt <= t.revision
    /\ t.lifecycle = "cancelled" => 1 <= t.cancelAt /\ t.cancelAt < t.revision

(* What process record x may claim at its place. *)
WorkerShape(x) ==
    /\ x.pc # "idle" => x.intent \in Intents /\ Exists(x.intent)
    /\ x.pc = "invoke" => intent[x.intent].kind # "inspect"
    /\ x.pc = "inspect" => x.note \in {"ok", "lost", "definite", "retryable"}
    /\ x.pc = "markfail" => x.note \in {"ambiguous", "failed", "retry_wait"}
    /\ x.pc = "observe" /\ Unfinished(x.intent) => Holds(x.intent, x.receipt)

IInv ==
    /\ Typed /\ InOrder /\ ExecShape
    /\ \A i \in Intents : RowShape(i)
    /\ \A e \in Attempts : TurnShape(turn[e])
    /\ \A w \in Workers : WorkerShape(worker[w])
    /\ OneUnfinishedIntent /\ EffectAtMostOnce /\ ObservationIsTrue /\ TaskMatchesTurn
-----------------------------------------------------------------------------
(* The rows of nothing.                                                    *)

LEMMA Rest ==
    /\ NoIntent \in IntentRows /\ NoIntent.state = "absent" /\ NoIntent.kind = "absent"
    /\ NoIntent.outcome = "none" /\ NoIntent.observation = NoReceipt /\ NoIntent.execution = 0
    /\ NoOperation \in OpRows /\ NoOperation.result = "absent"
    /\ NoTurn \in TurnRows /\ NoTurn.lifecycle = "absent" /\ NoTurn.revision = 0 /\ NoTurn.cancelAt = 0
    /\ Idle \in WorkerRows /\ Idle.pc = "idle" /\ NoReceipt \in Receipts
<1>1. NoReceipt \in Receipts
  BY DEF NoReceipt, Receipts
<1>2. NoIntent \in IntentRows
  BY <1>1 DEF NoIntent, IntentRows, Kinds, IntentStates
<1>3. Idle \in WorkerRows
  BY <1>1 DEF Idle, WorkerRows, Places, Notes
<1>4. NoOperation \in OpRows /\ NoTurn \in TurnRows
  BY DEF NoOperation, NoTurn, OpRows, TurnRows, Lifecycles
<1> QED
  BY <1>1, <1>2, <1>3, <1>4 DEF NoIntent, NoOperation, NoTurn, Idle

LEMMA Bounds == Attempts \subseteq Nat \ {0} /\ Intents \subseteq Nat \ {0} /\ 1 \in Attempts /\ MaxIntents \in Nat
  BY LoopAssumption DEF Attempts, Intents

LEMMA TaskFields ==
    ASSUME Typed
    PROVE  /\ task.state \in {"running", "waiting", "completed", "cancelled"} /\ task.revision \in Nat
           /\ task.required \in {"none", "resume", "retry", "inspect", "cancel"}
           /\ last \in Attempts /\ last \in Nat
  BY Bounds DEF Typed, TaskRows

LEMMA IntentFields ==
    ASSUME Typed, NEW i \in Intents
    PROVE  /\ intent[i] \in IntentRows /\ op[i] \in OpRows
           /\ intent[i].kind \in Kinds /\ intent[i].state \in IntentStates
           /\ intent[i].execution \in {0} \cup Attempts /\ intent[i].source \in {0} \cup Attempts
           /\ intent[i].taskRevision \in Nat /\ intent[i].executionRevision \in Nat
           /\ intent[i].report \in Reports \cup {"none"} /\ intent[i].observation \in Receipts
           /\ op[i].pre \in Nat /\ op[i].post \in Nat /\ op[i].result \in Lifecycles
  BY DEF Typed, IntentRows, OpRows

LEMMA TurnFields ==
    ASSUME Typed, NEW e \in Attempts
    PROVE  /\ turn[e] \in TurnRows /\ turn[e].lifecycle \in Lifecycles /\ turn[e].revision \in Nat
           /\ turn[e].executionRevision \in Nat /\ turn[e].cancelAt \in Nat
           /\ exec[e] \in ExecRows /\ exec[e].revision \in Nat
           /\ exec[e].status \in {"absent", "active", "superseded"}
           /\ terminal[e] \in {"none", "completed", "cancelled"} /\ e \in Nat
  BY Bounds DEF Typed, TurnRows, ExecRows

LEMMA WorkerFields ==
    ASSUME Typed, NEW w \in Workers
    PROVE  /\ worker[w] \in WorkerRows /\ worker[w].pc \in Places /\ worker[w].intent \in {0} \cup Intents
           /\ worker[w].owner \in Owners \cup {None} /\ worker[w].lenient \in BOOLEAN
           /\ worker[w].sees \in BOOLEAN /\ worker[w].recon \in BOOLEAN
           /\ worker[w].note \in Notes /\ worker[w].receipt \in Receipts
  BY DEF Typed, WorkerRows

(* Initially nothing was prepared. *)
LEMMA InitInv == Init => IInv
<1> SUFFICES ASSUME Init PROVE IInv
  OBVIOUS
<1>0. PICK o \in Owners :
         exec = [e \in Attempts |->
                   IF e = 1 THEN [status |-> "active", owner |-> o, revision |-> 1,
                                  postTaskRevision |-> 2]
                   ELSE NoAttempt]
  BY DEF Init
<1>1. /\ \A i \in Intents : intent[i] = NoIntent /\ op[i] = NoOperation
      /\ \A e \in Attempts : turn[e] = NoTurn /\ terminal[e] = "none"
      /\ \A w \in Workers : worker[w] = Idle
      /\ last = 1 /\ task = [state |-> "running", revision |-> 2, required |-> "none"]
  BY DEF Init
<1>2. /\ \A i \in Intents : ~Exists(i) /\ ~Performed(i) /\ ~Unfinished(i)
      /\ \A e \in Attempts : ~HasTurn(e)
  BY <1>1, Rest DEF Exists, Performed, Unfinished, HasTurn
<1>3. Typed
  <2>1. exec \in [Attempts -> ExecRows]
    BY <1>0 DEF ExecRows, NoAttempt
  <2>2. task \in TaskRows /\ ((task.required # "none") <=> (task.state = "waiting"))
    BY <1>1 DEF TaskRows
  <2> QED
    BY <2>1, <2>2, <1>1, Rest, Bounds DEF Init, Typed
<1>4. InOrder
  BY <1>2, Bounds DEF InOrder
<1>5. ExecShape
  BY <1>0, <1>1, Bounds DEF ExecShape, NoAttempt
<1>6. \A i \in Intents : RowShape(i)
  BY <1>1, <1>2, Rest DEF RowShape
<1>7. \A e \in Attempts : TurnShape(turn[e])
  BY <1>1, Rest DEF TurnShape
<1>8. \A w \in Workers : WorkerShape(worker[w])
  BY <1>1, Rest DEF WorkerShape
<1>9. OneUnfinishedIntent /\ ObservationIsTrue
  BY <1>1, <1>2, Rest DEF OneUnfinishedIntent, ObservationIsTrue
<1>10. EffectAtMostOnce
  <2>1. ASSUME NEW e \in Attempts
        PROVE  {i \in Intents : Performed(i) /\ intent[i].execution = e /\ op[i].post > op[i].pre} = {}
    BY <1>2
  <2> QED
    BY <1>1, <1>2, <2>1, Rest, FS_EmptySet DEF EffectAtMostOnce
<1>11. TaskMatchesTurn
  BY <1>1, Rest, Bounds DEF TaskMatchesTurn
<1> QED
  BY <1>3, <1>4, <1>5, <1>6, <1>7, <1>8, <1>9, <1>10, <1>11 DEF IInv
-----------------------------------------------------------------------------
(* What a step leaves alone.                                               *)

(* The intents that changed the turn of e, and the count of them. *)
Changes(e) ==
    {i \in Intents : Performed(i) /\ intent[i].execution = e /\ op[i].post > op[i].pre}

Counted(e) ==
    /\ turn[e].revision = Cardinality(Changes(e))
    /\ \A i, j \in Changes(e) : i # j => op[i].post # op[j].post

LEMMA EffectCounted ==
    EffectAtMostOnce <=>
        /\ \A e \in Attempts : Counted(e)
        /\ \A i \in Intents : intent[i].outcome = "rejected" => ~Performed(i)
  BY DEF EffectAtMostOnce, Counted, Changes

(* A prepared intent keeps what it is about, a finalized one is not taken  *)
(* up again, an operation that was performed stays as it is, and the turn  *)
(* that an unfinished intent has read does not move.                       *)
Grows ==
    \A j \in Intents :
       /\ Exists(j) =>
             /\ Exists(j)' /\ intent'[j].kind = intent[j].kind
             /\ intent'[j].execution = intent[j].execution
       /\ intent[j].state = "finalized" => intent'[j].state = "finalized"
       /\ Performed(j) =>
             op'[j].pre = op[j].pre /\ op'[j].post = op[j].post /\ op'[j].result = op[j].result
       /\ Unfinished(j) /\ (Performed(j) \/ intent[j].kind = "inspect") =>
             turn'[intent[j].execution] = turn[intent[j].execution]

LEMMA HoldsStays ==
    ASSUME Grows, NEW j \in Intents, Unfinished(j), NEW r, Holds(j, r)
    PROVE  Holds(j, r)'
<1>1. /\ intent'[j].kind = intent[j].kind /\ intent'[j].execution = intent[j].execution
      /\ turn'[intent[j].execution] = turn[intent[j].execution]
  BY DEF Grows, Unfinished, Holds
<1>2. Performed(j) =>
         op'[j].pre = op[j].pre /\ op'[j].post = op[j].post /\ op'[j].result = op[j].result
  BY DEF Grows
<1> QED
  BY <1>1, <1>2 DEF Holds, Receipt, HasTurn, Performed

LEMMA WorkerStays ==
    ASSUME Grows, NEW x, WorkerShape(x)
    PROVE  WorkerShape(x)'
<1>1. x.pc # "idle" =>
        /\ x.intent \in Intents /\ Exists(x.intent)' /\ intent'[x.intent].kind = intent[x.intent].kind
  BY DEF Grows, WorkerShape
<1>2. ASSUME x.pc = "observe", Unfinished(x.intent)'
      PROVE  Holds(x.intent, x.receipt)'
  <2>1. x.intent \in Intents /\ Exists(x.intent)
    BY <1>2 DEF WorkerShape
  <2>2. Unfinished(x.intent)
    BY <1>2, <2>1 DEF Grows, Unfinished, Exists
  <2> QED
    BY <1>2, <2>1, <2>2, HoldsStays DEF WorkerShape
<1> QED
  BY <1>1, <1>2 DEF WorkerShape

(* The journal stays as it is, but for the bindings of its operations. *)
JournalStays ==
    /\ turn' = turn
    /\ \A j \in Intents :
          op'[j].pre = op[j].pre /\ op'[j].post = op[j].post /\ op'[j].result = op[j].result

LEMMA CountStays ==
    ASSUME IInv, JournalStays, NEW e \in Attempts,
           \A j \in Intents : Exists(j) => intent'[j].execution = intent[j].execution
    PROVE  Counted(e)'
<1>1. \A j \in Intents : Performed(j)' <=> Performed(j)
  BY DEF JournalStays, Performed
<1>2. \A j \in Intents : Performed(j) => Exists(j)
  BY Rest DEF IInv, RowShape, Performed
<1>3. Changes(e)' = Changes(e)
  BY <1>1, <1>2 DEF Changes, JournalStays
<1>4. Counted(e)
  BY EffectCounted DEF IInv
<1>5. \A i \in Changes(e) : i \in Intents
  BY DEF Changes
<1>6. turn'[e].revision = Cardinality(Changes(e)')
  BY <1>3, <1>4 DEF Counted, JournalStays
<1>7. \A i, j \in Changes(e)' : i # j => op'[i].post # op'[j].post
  BY <1>3, <1>4, <1>5 DEF Counted, JournalStays
<1> QED
  BY <1>6, <1>7 DEF Counted

(* The whole state but a process stays as it is. *)
LEMMA WorkerStep ==
    ASSUME IInv, NEW w \in Workers, NEW x \in WorkerRows, WorkerShape(x),
           UNCHANGED store, worker' = [worker EXCEPT ![w] = x]
    PROVE  IInv'
<1> USE DEF store
<1>1. Grows
  BY DEF Grows, Exists
<1>2. \A v \in Workers : WorkerShape(worker[v])'
  <2> TAKE v \in Workers
  <2>1. PICK y : y = worker'[v]
    OBVIOUS
  <2>2. WorkerShape(y)
    BY <2>1 DEF IInv, Typed
  <2> QED
    BY <1>1, <2>1, <2>2, WorkerStays DEF WorkerShape
<1>3. Typed'
  BY DEF IInv, Typed
<1>4. InOrder' /\ ExecShape' /\ \A e \in Attempts : TurnShape(turn[e])'
  BY DEF IInv, InOrder, ExecShape, TurnShape, Exists
<1>5. \A i \in Intents : RowShape(i)'
  BY DEF IInv, RowShape, Exists, Performed, Holds, Receipt, HasTurn
<1>6. OneUnfinishedIntent' /\ ObservationIsTrue'
  BY DEF IInv, OneUnfinishedIntent, ObservationIsTrue, Unfinished, Exists, Performed
<1>7. EffectAtMostOnce'
  BY DEF IInv, EffectAtMostOnce, Performed
<1>8. TaskMatchesTurn'
  BY DEF IInv, TaskMatchesTurn, UnfinishedOf, Unfinished, Exists
<1> QED
  BY <1>2, <1>3, <1>4, <1>5, <1>6, <1>7, <1>8 DEF IInv
-----------------------------------------------------------------------------
(* The unfinished intent moves on while the journal stays.                 *)

RowMoves(i, r) ==
    /\ intent' = [intent EXCEPT ![i] = r]
    /\ r.kind = intent[i].kind /\ r.execution = intent[i].execution
    /\ r.source = intent[i].source /\ r.report = intent[i].report
    /\ r.state # "absent"
    /\ r.outcome = "rejected" => r.state = "finalized" /\ ~Performed(i)
    /\ r.state \in {"observed", "verified"} => Holds(i, r.observation)
    /\ r.observation = intent[i].observation \/ Holds(i, r.observation)
    /\ JournalStays /\ op' \in [Intents -> OpRows] /\ \A j \in Intents : j # i => op'[j] = op[j]
    /\ exec' = exec /\ last' = last /\ expired' = expired

LEMMA RowMoveKeeps ==
    ASSUME IInv, NEW i \in Intents, Unfinished(i), NEW r \in IntentRows, RowMoves(i, r),
           \A e \in Attempts : e > last => terminal'[e] = terminal[e]
    PROVE  /\ Grows /\ InOrder' /\ ExecShape' /\ EffectAtMostOnce' /\ ObservationIsTrue'
           /\ \A j \in Intents : RowShape(j)'
           /\ \A e \in Attempts : TurnShape(turn[e])'
           /\ intent' \in [Intents -> IntentRows]
<1>1. /\ intent' \in [Intents -> IntentRows] /\ intent'[i] = r
      /\ \A j \in Intents : j # i => intent'[j] = intent[j]
  BY DEF IInv, Typed, RowMoves
<1>2. Exists(i) /\ \A j \in Intents : Exists(j)' <=> Exists(j)
  BY <1>1 DEF Exists, Unfinished, RowMoves
<1>3. \A j \in Intents : intent'[j].kind = intent[j].kind /\ intent'[j].execution = intent[j].execution
  BY <1>1 DEF RowMoves
<1>4. Grows
  BY <1>1, <1>2, <1>3 DEF Grows, RowMoves, JournalStays, Unfinished
<1>5. \A j \in Intents : Performed(j)' <=> Performed(j)
  BY DEF Performed, RowMoves, JournalStays
<1>6. \A e \in Attempts : HasTurn(e)' <=> HasTurn(e)
  BY DEF HasTurn, RowMoves, JournalStays
<1>7. ASSUME NEW s, NEW j \in Intents, Holds(j, s)
      PROVE  Holds(j, s)'
  BY <1>3, <1>5, <1>7 DEF Holds, Receipt, HasTurn, RowMoves, JournalStays
<1>8. InOrder'
  <2>1. PICK n \in 0..MaxIntents : \A j \in Intents : Exists(j) <=> j <= n
    BY DEF IInv, InOrder
  <2>2. \A j \in Intents : Exists(j)' <=> j <= n
    BY <1>2, <2>1
  <2> QED
    BY <2>2 DEF InOrder
<1>9. ExecShape' /\ \A e \in Attempts : TurnShape(turn[e])'
  BY DEF IInv, ExecShape, TurnShape, RowMoves, JournalStays
<1>10. ASSUME NEW j \in Intents
       PROVE  RowShape(j)'
  <2>1. RowShape(j)
    BY DEF IInv
  <2>2. CASE j # i
    <3>1. intent'[j] = intent[j] /\ op'[j] = op[j] /\ turn' = turn /\ last' = last
      BY <1>1, <2>2 DEF RowMoves, JournalStays
    <3> QED
      BY <2>1, <3>1 DEF RowShape, Exists, Performed, Holds, Receipt, HasTurn
  <2>3. CASE j = i
    <3>1. r.state \in {"observed", "verified"} => Holds(i, r.observation)'
      BY <1>7 DEF RowMoves
    <3>2. intent'[i].state \in {"observed", "verified"} => Holds(i, intent[i].observation)'
      BY <1>1, <3>1 DEF Holds
    <3>3. /\ turn' = turn /\ last' = last
          /\ op'[i].pre = op[i].pre /\ op'[i].post = op[i].post
      BY DEF RowMoves, JournalStays
    <3>4. /\ intent'[i].kind = intent[i].kind /\ intent'[i].execution = intent[i].execution
          /\ intent'[i].source = intent[i].source /\ intent'[i].report = intent[i].report
          /\ intent'[i].outcome = "rejected" => intent'[i].state = "finalized" /\ ~Performed(i)
      BY <1>1 DEF RowMoves
    <3>5. Exists(i)'
      BY <1>2
    <3> HIDE DEF RowMoves
    <3> QED
      BY <2>1, <2>3, <3>2, <3>3, <3>4, <3>5, <1>2, <1>5 DEF RowShape, HasTurn
  <2> QED
    BY <2>2, <2>3
<1>11. EffectAtMostOnce'
  <2>1. \A e \in Attempts : Counted(e)'
    BY <1>3, CountStays DEF RowMoves
  <2>2. \A j \in Intents : intent'[j].outcome = "rejected" => ~Performed(j)'
    BY <1>10 DEF RowShape
  <2> QED
    BY <2>1, <2>2 DEF EffectAtMostOnce, Counted, Changes
<1>12. ObservationIsTrue'
  <2> DEFINE True(j, seen) ==
         LET t == turn[intent[j].execution] IN
             /\ seen.revision <= t.revision
             /\ seen.revision = t.revision => seen.lifecycle = t.lifecycle
             /\ intent[j].kind # "inspect" =>
                   Performed(j) /\ op[j].post = seen.revision /\ op[j].result = seen.lifecycle
  <2>1. ASSUME NEW j \in Intents, intent'[j].observation # NoReceipt
        PROVE  True(j, intent'[j].observation)
    <3>1. CASE intent'[j].observation = intent[j].observation
      BY <2>1, <3>1 DEF IInv, ObservationIsTrue
    <3>2. CASE intent'[j].observation # intent[j].observation
      <4>1. j = i /\ Holds(i, intent'[i].observation)
        BY <1>1, <3>2 DEF RowMoves
      <4>2. intent[i].execution \in Attempts
        BY <1>2 DEF IInv, RowShape
      <4> QED
        BY <4>1, <4>2, TurnFields DEF Holds, Receipt, IInv
    <3> QED
      BY <3>1, <3>2
  <2> HIDE DEF True
  <2>2. ASSUME NEW j \in Intents, intent'[j].observation # NoReceipt
        PROVE  /\ intent'[j].observation.revision <= turn'[intent'[j].execution].revision
               /\ intent'[j].observation.revision = turn'[intent'[j].execution].revision =>
                     intent'[j].observation.lifecycle = turn'[intent'[j].execution].lifecycle
               /\ intent'[j].kind # "inspect" =>
                     /\ Performed(j)' /\ op'[j].post = intent'[j].observation.revision
                     /\ op'[j].result = intent'[j].observation.lifecycle
    BY <2>1, <2>2, <1>3, <1>5 DEF True, RowMoves, JournalStays
  <2> QED
    BY <2>2 DEF ObservationIsTrue
<1> QED
  BY <1>1, <1>4, <1>8, <1>9, <1>10, <1>11, <1>12

LEMMA WorkersStay ==
    ASSUME IInv, Grows, NEW w \in Workers, NEW x \in WorkerRows, WorkerShape(x),
           worker' = [worker EXCEPT ![w] = x]
    PROVE  worker' \in [Workers -> WorkerRows] /\ \A v \in Workers : WorkerShape(worker[v])'
<1>1. worker' \in [Workers -> WorkerRows]
  BY DEF IInv, Typed
<1>2. ASSUME NEW v \in Workers
      PROVE  WorkerShape(worker[v])'
  <2>1. PICK y : y = worker'[v]
    OBVIOUS
  <2>2. WorkerShape(y)
    BY <2>1 DEF IInv, Typed
  <2> QED
    BY <2>1, <2>2, WorkerStays DEF WorkerShape
<1> QED
  BY <1>1, <1>2

(* The intent stays unfinished: neither Task nor execution is touched. *)
LEMMA ProgressStep ==
    ASSUME IInv, NEW i \in Intents, Unfinished(i), NEW r \in IntentRows, RowMoves(i, r),
           r.state # "finalized", task' = task, terminal' = terminal,
           NEW w \in Workers, NEW x \in WorkerRows, WorkerShape(x),
           worker' = [worker EXCEPT ![w] = x]
    PROVE  IInv'
<1>1. /\ Grows /\ InOrder' /\ ExecShape' /\ EffectAtMostOnce' /\ ObservationIsTrue'
      /\ \A j \in Intents : RowShape(j)'
      /\ \A e \in Attempts : TurnShape(turn[e])'
      /\ intent' \in [Intents -> IntentRows]
  BY RowMoveKeeps
<1>2. worker' \in [Workers -> WorkerRows] /\ \A v \in Workers : WorkerShape(worker[v])'
  BY <1>1, WorkersStay
<1>3. Typed'
  BY <1>1, <1>2 DEF IInv, Typed, RowMoves, JournalStays
<1>4. /\ \A j \in Intents : Unfinished(j)' <=> Unfinished(j)
      /\ \A j \in Intents : intent'[j].execution = intent[j].execution
  BY DEF IInv, Typed, RowMoves, Unfinished, Exists
<1>5. OneUnfinishedIntent'
  BY <1>4 DEF IInv, OneUnfinishedIntent, RowMoves
<1>6. UnfinishedOf(last)' # {} /\ UnfinishedOf(last) # {}
  BY <1>4 DEF IInv, OneUnfinishedIntent, UnfinishedOf, RowMoves
<1>7. TaskMatchesTurn'
  BY <1>6 DEF IInv, TaskMatchesTurn
<1> QED
  BY <1>1, <1>2, <1>3, <1>5, <1>7 DEF IInv

(* The intent is finalized: the execution has no unfinished one left. *)
LEMMA FinalStep ==
    ASSUME IInv, NEW i \in Intents, Unfinished(i), NEW r \in IntentRows, RowMoves(i, r),
           r.state = "finalized", task' \in TaskRows,
           (task'.required # "none") <=> (task'.state = "waiting"),
           terminal' \in [Attempts -> {"none", "completed", "cancelled"}],
           \A e \in Attempts : e > last => terminal'[e] = terminal[e],
           task'.state \in {"completed", "cancelled"} =>
              /\ terminal'[last] = task'.state
              /\ turn[last].lifecycle = IF task'.state = "completed" THEN "turn_succeeded" ELSE "cancelled",
           task'.state = "running" =>
              turn[last].lifecycle \in {"absent", "queued", "active", "turn_succeeded"},
           NEW w \in Workers, worker' = [worker EXCEPT ![w] = Idle]
    PROVE  IInv'
<1>1. /\ Grows /\ InOrder' /\ ExecShape' /\ EffectAtMostOnce' /\ ObservationIsTrue'
      /\ \A j \in Intents : RowShape(j)'
      /\ \A e \in Attempts : TurnShape(turn[e])'
      /\ intent' \in [Intents -> IntentRows]
  BY RowMoveKeeps
<1>2. worker' \in [Workers -> WorkerRows] /\ \A v \in Workers : WorkerShape(worker[v])'
  BY <1>1, WorkersStay, Rest DEF WorkerShape
<1>3. Typed'
  BY <1>1, <1>2 DEF IInv, Typed, RowMoves, JournalStays
<1>4. \A j \in Intents : ~Unfinished(j)'
  BY DEF IInv, Typed, OneUnfinishedIntent, RowMoves, Unfinished, Exists
<1>5. OneUnfinishedIntent'
  BY <1>4 DEF OneUnfinishedIntent
<1>6. TaskMatchesTurn'
  <2>1. UnfinishedOf(last)' = {}
    BY <1>4 DEF UnfinishedOf
  <2>2. turn' = turn /\ last' = last /\ last \in Attempts
    BY DEF RowMoves, JournalStays, IInv, Typed
  <2>3. turn[last].lifecycle = "cancelled" => turn[last].cancelAt \in 1..(turn[last].revision - 1)
    BY <2>2, TurnFields DEF IInv, TurnShape
  <2> QED
    BY <2>1, <2>2, <2>3 DEF TaskMatchesTurn
<1> QED
  BY <1>1, <1>2, <1>3, <1>5, <1>6 DEF IInv
-----------------------------------------------------------------------------
(* Steps that move a process only.                                         *)

(* Membership is a truth value like any other. *)
LEMMA TruthOf ==
    ASSUME NEW e, NEW S
    PROVE  \E s \in BOOLEAN : s = (e \in S)
<1>1. CASE e \in S
  <2>1. TRUE = (e \in S)
    BY <1>1
  <2> QED
    BY <2>1
<1>2. CASE e \notin S
  <2>1. FALSE = (e \in S)
    BY <1>2
  <2> QED
    BY <2>1
<1> QED
  BY <1>1, <1>2

(* A process takes up an unfinished intent. *)
LEMMA BeginStep ==
    ASSUME IInv, NEW w \in Workers, NEW i \in Intents, NEW o \in Owners, NEW l \in BOOLEAN,
           NEW p \in {"mark", "noeffect", "reconmark", "recover", "verify", "finalize", "finalfail"},
           Exists(i), Begin(w, i, o, l, p), UNCHANGED store
    PROVE  IInv'
<1> DEFINE e == intent[i].execution
<1>1. PICK s \in BOOLEAN : s = (e \in expired)
  BY TruthOf
<1>2. PICK c \in BOOLEAN : c = (l /\ (e \in expired \/ exec[e].owner # o))
  OBVIOUS
<1>3. PICK x : x = [Idle EXCEPT !.pc = p, !.intent = i, !.owner = o, !.lenient = l,
                               !.sees = s, !.recon = c]
  OBVIOUS
<1>4. worker' = [worker EXCEPT ![w] = x]
  BY <1>1, <1>2, <1>3 DEF Begin
<1>5. x \in WorkerRows /\ x.pc = p /\ x.intent = i
  <2>1. p \in Places /\ "none" \in Notes /\ NoReceipt \in Receipts
    BY Rest DEF Places, Notes
  <2>2. x = [pc |-> p, intent |-> i, owner |-> o, lenient |-> l, sees |-> s, recon |-> c,
             note |-> "none", receipt |-> NoReceipt]
    BY <1>3 DEF Idle
  <2> QED
    BY <2>1, <2>2 DEF WorkerRows
<1>6. WorkerShape(x)
  BY <1>5 DEF WorkerShape
<1> QED
  BY <1>4, <1>5, <1>6, WorkerStep

LEMMA EntryPlace ==
    ASSUME NEW i, NEW c \in BOOLEAN
    PROVE  EntryPoint(i, c) \in
              {"mark", "noeffect", "reconmark", "recover", "verify", "finalize", "finalfail"}
  BY DEF EntryPoint

LEMMA EnterStep ==
    ASSUME IInv, NEW w \in Workers, NEW i \in Intents, NEW o \in Owners,
           Enter(w, i, o) \/ Reconcile(w, i, o) \/ ReconcileExpiredStart(w, i, o)
    PROVE  IInv'
<1>1. Exists(i) /\ UNCHANGED store
  BY DEF Enter, Reconcile, ReconcileExpiredStart, Unfinished
<1>2. CASE Enter(w, i, o)
  <2>1. PICK p : p = EntryPoint(i, FALSE)
    OBVIOUS
  <2>2. Begin(w, i, o, FALSE, p)
    BY <1>2, <2>1 DEF Enter
  <2> QED
    BY <1>1, <2>1, <2>2, EntryPlace, BeginStep
<1>3. CASE Reconcile(w, i, o)
  <2>1. PICK c \in BOOLEAN :
           c = (intent[i].execution \in expired \/ exec[intent[i].execution].owner # o)
    OBVIOUS
  <2>2. PICK p : p = EntryPoint(i, c)
    OBVIOUS
  <2>3. Begin(w, i, o, TRUE, p)
    BY <1>3, <2>1, <2>2 DEF Reconcile
  <2> QED
    BY <1>1, <2>2, <2>3, EntryPlace, BeginStep
<1>4. CASE ReconcileExpiredStart(w, i, o)
  BY <1>1, <1>4, BeginStep DEF ReconcileExpiredStart
<1> QED
  BY <1>2, <1>3, <1>4

LEMMA StopStep ==
    ASSUME IInv, NEW w \in Workers, Stop(w)
    PROVE  IInv'
<1>1. Idle \in WorkerRows /\ WorkerShape(Idle)
  BY Rest DEF WorkerShape
<1> QED
  BY <1>1, WorkerStep DEF Stop

(* A receipt that an inspection may return is one to end on. *)
LEMMA MatchHolds ==
    ASSUME IInv, NEW i \in Intents, Exists(i), InspectionMatches(i)
    PROVE  Receipt(i) \in Receipts /\ Holds(i, Receipt(i))
<1>1. intent[i].execution \in Attempts
  BY DEF IInv, RowShape
<1>2. Receipt(i) \in Receipts
  BY <1>1, TurnFields DEF Receipt, Receipts, IInv, Lifecycles
<1>3. Holds(i, Receipt(i))
  BY DEF Holds, Receipt, InspectionMatches, RequireTurn
<1> QED
  BY <1>2, <1>3

(* The intent of a process that is not idle. *)
LEMMA AtWork ==
    ASSUME IInv, NEW w \in Workers, worker[w].pc # "idle"
    PROVE  worker[w].intent \in Intents /\ Exists(worker[w].intent)
  BY DEF IInv, WorkerShape

LEMMA RecoveryStep ==
    ASSUME IInv, NEW w \in Workers, RecoveryInspect(w)
    PROVE  IInv'
<1> DEFINE i == worker[w].intent
<1>0. worker[w] \in WorkerRows /\ {"observe", "noeffect", "markfail", "rebind"} \subseteq Places
      /\ "ambiguous" \in Notes
  BY WorkerFields DEF IInv, Places, Notes
<1>1. i \in Intents /\ Exists(i) /\ UNCHANGED store
  BY AtWork DEF RecoveryInspect
<1>2. CASE InspectionMatches(i) /\
           worker' = [worker EXCEPT ![w] = [worker[w] EXCEPT !.pc = "observe", !.receipt = Receipt(i)]]
  <2>1. PICK r : r = Receipt(i)
    OBVIOUS
  <2>2. r \in Receipts /\ Holds(i, r)
    BY <1>1, <1>2, <2>1, MatchHolds
  <2>3. PICK x : x = [worker[w] EXCEPT !.pc = "observe", !.receipt = r]
    OBVIOUS
  <2>4. x \in WorkerRows /\ x.pc = "observe" /\ x.intent = i /\ x.receipt = r
    BY <1>0, <2>2, <2>3 DEF WorkerRows
  <2>5. WorkerShape(x)
    BY <1>1, <2>2, <2>4 DEF WorkerShape
  <2> QED
    BY <1>1, <1>2, <2>1, <2>3, <2>4, <2>5, WorkerStep
<1>3. CASE worker' = [worker EXCEPT ![w] = [worker[w] EXCEPT !.pc = "noeffect"]]
  <2>3. PICK x : x = [worker[w] EXCEPT !.pc = "noeffect"]
    OBVIOUS
  <2>4. x \in WorkerRows /\ x.pc = "noeffect" /\ x.intent = i
    BY <1>0, <2>3 DEF WorkerRows
  <2>5. WorkerShape(x)
    BY <1>1, <2>4 DEF WorkerShape
  <2> QED
    BY <1>1, <1>3, <2>3, <2>4, <2>5, WorkerStep
<1>4. CASE worker' = [worker EXCEPT ![w] = [worker[w] EXCEPT !.pc = "markfail", !.note = "ambiguous"]]
  <2>3. PICK x : x = [worker[w] EXCEPT !.pc = "markfail", !.note = "ambiguous"]
    OBVIOUS
  <2>4. x \in WorkerRows /\ x.pc = "markfail" /\ x.intent = i /\ x.note = "ambiguous"
    BY <1>0, <2>3 DEF WorkerRows
  <2>5. WorkerShape(x)
    BY <1>1, <2>4 DEF WorkerShape
  <2> QED
    BY <1>1, <1>4, <2>3, <2>4, <2>5, WorkerStep
<1>5. CASE Proceed(w, "rebind")
  <2>1. PICK s \in BOOLEAN : s = (intent[i].execution \in expired)
    BY TruthOf
  <2>3. PICK x : x = [worker[w] EXCEPT !.pc = "rebind", !.sees = s]
    OBVIOUS
  <2>4. x \in WorkerRows /\ x.pc = "rebind" /\ x.intent = i
    BY <1>0, <2>1, <2>3 DEF WorkerRows
  <2>5. WorkerShape(x)
    BY <1>1, <2>4 DEF WorkerShape
  <2>6. worker' = [worker EXCEPT ![w] = x]
    BY <1>5, <2>1, <2>3 DEF Proceed
  <2> QED
    BY <1>1, <2>4, <2>5, <2>6, WorkerStep
<1> QED
  BY <1>2, <1>3, <1>4, <1>5 DEF RecoveryInspect

LEMMA InspectStep ==
    ASSUME IInv, NEW w \in Workers, InspectAfterEffect(w)
    PROVE  IInv'
<1> DEFINE i == worker[w].intent
<1>0. worker[w] \in WorkerRows /\ {"observe", "markfail"} \subseteq Places
      /\ {"none", "ambiguous", "failed", "retry_wait"} \subseteq Notes
  BY WorkerFields DEF IInv, Places, Notes
<1>1. i \in Intents /\ Exists(i) /\ UNCHANGED store
  BY AtWork DEF InspectAfterEffect
<1>2. CASE InspectionMatches(i) /\
           worker' = [worker EXCEPT ![w] =
             [worker[w] EXCEPT !.pc = "observe", !.receipt = Receipt(i), !.note = "none"]]
  <2>1. PICK r : r = Receipt(i)
    OBVIOUS
  <2>2. r \in Receipts /\ Holds(i, r)
    BY <1>1, <1>2, <2>1, MatchHolds
  <2>3. PICK x : x = [worker[w] EXCEPT !.pc = "observe", !.receipt = r, !.note = "none"]
    OBVIOUS
  <2>4. x \in WorkerRows /\ x.pc = "observe" /\ x.intent = i /\ x.receipt = r
    BY <1>0, <2>2, <2>3 DEF WorkerRows
  <2>5. WorkerShape(x)
    BY <1>1, <2>2, <2>4 DEF WorkerShape
  <2> QED
    BY <1>1, <1>2, <2>1, <2>3, <2>4, <2>5, WorkerStep
<1>3. ASSUME NEW class \in FailureClasses(i, worker[w].note),
             worker' = [worker EXCEPT ![w] = [worker[w] EXCEPT !.pc = "markfail", !.note = class]]
      PROVE  IInv'
  <2>1. worker[w].note \in {"ok", "lost", "definite", "retryable"}
    BY DEF InspectAfterEffect, IInv, WorkerShape
  <2>2. class \in {"ambiguous", "failed", "retry_wait"}
    BY <1>3, <2>1 DEF FailureClasses
  <2>3. PICK x : x = [worker[w] EXCEPT !.pc = "markfail", !.note = class]
    OBVIOUS
  <2>4. x \in WorkerRows /\ x.pc = "markfail" /\ x.intent = i /\ x.note = class
    BY <1>0, <2>2, <2>3 DEF WorkerRows
  <2>5. WorkerShape(x)
    BY <1>1, <2>2, <2>4 DEF WorkerShape
  <2> QED
    BY <1>1, <1>3, <2>3, <2>4, <2>5, WorkerStep
<1> QED
  BY <1>2, <1>3 DEF InspectAfterEffect
-----------------------------------------------------------------------------
(* Steps that carry the intent on.                                         *)

(* A new Act binding changes neither what the intent is about nor what was *)
(* performed for it.                                                       *)
LEMMA BindMoves ==
    ASSUME IInv, NEW i \in Intents, NEW h \in Workers \cup {None}, Unfinished(i),
           intent[i].state \in {"pending", "retry_wait", "executing"}, BindAct(i, h),
           UNCHANGED <<exec, last, expired, turn>>
    PROVE  \E r \in IntentRows : RowMoves(i, r) /\ r.state = "executing"
<1>0. intent[i] \in IntentRows /\ op[i] \in OpRows /\ RowShape(i)
  BY IntentFields DEF IInv
<1>1. PICK r : r = [intent[i] EXCEPT !.state = "executing", !.act = h]
  OBVIOUS
<1>2. /\ r \in IntentRows /\ r.state = "executing" /\ r.kind = intent[i].kind
      /\ r.execution = intent[i].execution /\ r.source = intent[i].source
      /\ r.report = intent[i].report /\ r.outcome = intent[i].outcome
      /\ r.observation = intent[i].observation
  BY <1>0, <1>1 DEF IntentRows, IntentStates
<1>3. intent' = [intent EXCEPT ![i] = r]
  BY <1>1 DEF BindAct, IInv, Typed
<1>4. PICK q : q = [op[i] EXCEPT !.bound = FALSE]
  OBVIOUS
<1>5. q \in OpRows /\ q.pre = op[i].pre /\ q.post = op[i].post /\ q.result = op[i].result
  BY <1>0, <1>4 DEF OpRows
<1>6. op' = [op EXCEPT ![i] = q]
  BY <1>4 DEF BindAct, IInv, Typed
<1>7. op \in [Intents -> OpRows]
  BY DEF IInv, Typed
<1>8. JournalStays /\ op' \in [Intents -> OpRows] /\ \A j \in Intents : j # i => op'[j] = op[j]
  BY <1>5, <1>6, <1>7 DEF JournalStays
<1>9. RowMoves(i, r)
  BY <1>0, <1>2, <1>3, <1>8 DEF RowMoves, RowShape
<1> QED
  BY <1>2, <1>9

LEMMA MarkStep ==
    ASSUME IInv, NEW w \in Workers, MarkExecuting(w)
    PROVE  IInv'
<1> DEFINE i == worker[w].intent
<1>1. i \in Intents /\ Exists(i) /\ Unfinished(i)
  BY AtWork DEF MarkExecuting, Unfinished
<1>2. PICK r \in IntentRows : RowMoves(i, r) /\ r.state = "executing"
  BY <1>1, BindMoves DEF MarkExecuting
<1>3. PICK s \in BOOLEAN : s = (intent[i].execution \in expired)
  BY TruthOf
<1>4. PICK x : x = [worker[w] EXCEPT !.pc = "rebind", !.sees = s]
  OBVIOUS
<1>5. x \in WorkerRows /\ x.pc = "rebind" /\ x.intent = i
  <2>1. worker[w] \in WorkerRows /\ "rebind" \in Places
    BY WorkerFields DEF IInv, Places
  <2> QED
    BY <1>4, <2>1 DEF WorkerRows
<1>6. WorkerShape(x) /\ worker' = [worker EXCEPT ![w] = x] /\ task' = task /\ terminal' = terminal
  BY <1>1, <1>3, <1>4, <1>5 DEF WorkerShape, MarkExecuting, Proceed
<1> QED
  BY <1>1, <1>2, <1>5, <1>6, ProgressStep

LEMMA ReconMarkStep ==
    ASSUME IInv, NEW w \in Workers, MarkReconciliationExecuting(w)
    PROVE  IInv'
<1> DEFINE i == worker[w].intent
<1>1. i \in Intents /\ Exists(i) /\ Unfinished(i)
  BY AtWork DEF MarkReconciliationExecuting, Unfinished
<1>2. PICK r \in IntentRows : RowMoves(i, r) /\ r.state = "executing"
  BY <1>1, BindMoves DEF MarkReconciliationExecuting
<1>4. PICK x : x = [worker[w] EXCEPT !.pc = "recover"]
  OBVIOUS
<1>5. x \in WorkerRows /\ x.pc = "recover" /\ x.intent = i
  <2>1. worker[w] \in WorkerRows /\ "recover" \in Places
    BY WorkerFields DEF IInv, Places
  <2> QED
    BY <1>4, <2>1 DEF WorkerRows
<1>6. worker' = [worker EXCEPT ![w] = x]
  BY <1>4 DEF MarkReconciliationExecuting, IInv, Typed
<1>7. WorkerShape(x) /\ task' = task /\ terminal' = terminal
  BY <1>1, <1>5 DEF WorkerShape, MarkReconciliationExecuting
<1> QED
  BY <1>1, <1>2, <1>5, <1>6, <1>7, ProgressStep

LEMMA RebindStep ==
    ASSUME IInv, NEW w \in Workers, Rebind(w)
    PROVE  IInv'
<1> DEFINE i == worker[w].intent
<1>1. i \in Intents /\ Exists(i) /\ Unfinished(i)
  BY AtWork DEF Rebind, Unfinished
<1>2. PICK r \in IntentRows : RowMoves(i, r) /\ r.state = "executing"
  BY <1>1, BindMoves DEF Rebind
<1>3. PICK p, n : /\ p = IF intent[i].kind = "inspect" THEN "inspect" ELSE "invoke"
                  /\ n = IF intent[i].kind = "inspect" THEN "ok" ELSE "none"
  OBVIOUS
<1>4. PICK x : x = [worker[w] EXCEPT !.lenient = FALSE, !.pc = p, !.note = n]
  OBVIOUS
<1>5. x \in WorkerRows /\ x.pc = p /\ x.intent = i /\ x.note = n
  <2>1. worker[w] \in WorkerRows /\ p \in Places /\ n \in Notes
    BY <1>3, WorkerFields DEF IInv, Places, Notes
  <2> QED
    BY <1>4, <2>1 DEF WorkerRows
<1>6. worker' = [worker EXCEPT ![w] = x]
  BY <1>3, <1>4 DEF Rebind
<1>7. WorkerShape(x) /\ task' = task /\ terminal' = terminal
  BY <1>1, <1>3, <1>5 DEF WorkerShape, Rebind
<1> QED
  BY <1>1, <1>2, <1>5, <1>6, <1>7, ProgressStep

LEMMA ObserveStep ==
    ASSUME IInv, NEW w \in Workers, PersistObservation(w)
    PROVE  IInv'
<1> DEFINE i == worker[w].intent
<1>0. worker[w] \in WorkerRows /\ worker[w].receipt \in Receipts /\ "verify" \in Places
  BY WorkerFields DEF IInv, Places
<1>1. i \in Intents /\ Exists(i) /\ Unfinished(i)
  BY AtWork DEF PersistObservation, Unfinished
<1>2. intent[i] \in IntentRows /\ RowShape(i)
  BY <1>1, IntentFields DEF IInv
<1>3. PICK seen : seen = worker[w].receipt
  OBVIOUS
<1>4. Holds(i, seen)
  BY <1>1, <1>3 DEF PersistObservation, IInv, WorkerShape
<1>5. PICK r : r = [intent[i] EXCEPT !.state = "observed", !.observation = seen]
  OBVIOUS
<1>6. /\ r \in IntentRows /\ r.state = "observed" /\ r.kind = intent[i].kind
      /\ r.execution = intent[i].execution /\ r.source = intent[i].source
      /\ r.report = intent[i].report /\ r.outcome = intent[i].outcome
      /\ r.observation = seen
  BY <1>0, <1>2, <1>3, <1>5 DEF IntentRows, IntentStates
<1>7. intent' = [intent EXCEPT ![i] = r]
  BY <1>3, <1>5 DEF PersistObservation, IInv, Typed
<1>8. RowMoves(i, r)
  BY <1>1, <1>2, <1>4, <1>6, <1>7 DEF RowMoves, RowShape, JournalStays, PersistObservation, IInv, Typed, Unfinished
<1>9. PICK x : x = [worker[w] EXCEPT !.pc = "verify", !.receipt = NoReceipt]
  OBVIOUS
<1>10. x \in WorkerRows /\ x.pc = "verify" /\ x.intent = i
  BY <1>0, <1>9, Rest DEF WorkerRows
<1>11. worker' = [worker EXCEPT ![w] = x]
  BY <1>9 DEF PersistObservation
<1>12. WorkerShape(x) /\ task' = task /\ terminal' = terminal
  BY <1>1, <1>10 DEF WorkerShape, PersistObservation
<1> QED
  BY <1>1, <1>6, <1>8, <1>10, <1>11, <1>12, ProgressStep

LEMMA VerifyStep ==
    ASSUME IInv, NEW w \in Workers, VerifyObservation(w)
    PROVE  IInv'
<1> DEFINE i == worker[w].intent
<1>0. worker[w] \in WorkerRows /\ "finalize" \in Places
  BY WorkerFields DEF IInv, Places
<1>1. i \in Intents /\ Exists(i) /\ Unfinished(i)
  BY AtWork DEF VerifyObservation, Unfinished
<1>2. intent[i] \in IntentRows /\ RowShape(i)
  BY <1>1, IntentFields DEF IInv
<1>3. PICK r : r = [intent[i] EXCEPT !.state = "verified"]
  OBVIOUS
<1>4. /\ r \in IntentRows /\ r.state = "verified" /\ r.kind = intent[i].kind
      /\ r.execution = intent[i].execution /\ r.source = intent[i].source
      /\ r.report = intent[i].report /\ r.outcome = intent[i].outcome
      /\ r.observation = intent[i].observation
  BY <1>2, <1>3 DEF IntentRows, IntentStates
<1>5. intent' = [intent EXCEPT ![i] = r]
  BY <1>3 DEF VerifyObservation, IInv, Typed
<1>6. Holds(i, r.observation) /\ intent[i].outcome # "rejected"
  BY <1>2, <1>4 DEF RowShape, VerifyObservation
<1>7. RowMoves(i, r)
  BY <1>4, <1>5, <1>6 DEF RowMoves, JournalStays, VerifyObservation, IInv, Typed
<1>8. PICK s \in BOOLEAN : s = (intent[i].execution \in expired)
  BY TruthOf
<1>9. PICK x : x = [worker[w] EXCEPT !.pc = "finalize", !.sees = s]
  OBVIOUS
<1>10. x \in WorkerRows /\ x.pc = "finalize" /\ x.intent = i
  BY <1>0, <1>9 DEF WorkerRows
<1>11. worker' = [worker EXCEPT ![w] = x]
  BY <1>8, <1>9 DEF VerifyObservation, Proceed
<1>12. WorkerShape(x) /\ task' = task /\ terminal' = terminal
  BY <1>1, <1>10 DEF WorkerShape, VerifyObservation
<1> QED
  BY <1>1, <1>4, <1>7, <1>10, <1>11, <1>12, ProgressStep

LEMMA FailureStep ==
    ASSUME IInv, NEW w \in Workers, MarkAdapterFailure(w)
    PROVE  IInv'
<1> DEFINE i == worker[w].intent
<1>0. worker[w] \in WorkerRows /\ "finalfail" \in Places /\ "none" \in Notes
  BY WorkerFields DEF IInv, Places, Notes
<1>1. i \in Intents /\ Exists(i) /\ Unfinished(i)
  BY AtWork DEF MarkAdapterFailure, Unfinished
<1>2. intent[i] \in IntentRows /\ RowShape(i)
  BY <1>1, IntentFields DEF IInv
<1>3. PICK f : f = IF intent[i].state = "executing" THEN worker[w].note ELSE intent[i].state
  OBVIOUS
<1>4. f \in {"ambiguous", "failed", "retry_wait"}
  BY <1>3 DEF MarkAdapterFailure, IInv, WorkerShape
<1>5. PICK r : r = [intent[i] EXCEPT !.state = f, !.error = f]
  OBVIOUS
<1>6. /\ r \in IntentRows /\ r.state = f /\ r.kind = intent[i].kind
      /\ r.execution = intent[i].execution /\ r.source = intent[i].source
      /\ r.report = intent[i].report /\ r.outcome = intent[i].outcome
      /\ r.observation = intent[i].observation
  BY <1>2, <1>4, <1>5 DEF IntentRows, IntentStates
<1>7. intent' = [intent EXCEPT ![i] = r]
  BY <1>3, <1>5 DEF MarkAdapterFailure, IInv, Typed
<1>8. intent[i].outcome # "rejected"
  BY <1>2 DEF RowShape, MarkAdapterFailure
<1>9. RowMoves(i, r)
  BY <1>4, <1>6, <1>7, <1>8 DEF RowMoves, JournalStays, MarkAdapterFailure, IInv, Typed
<1>10. task' = task /\ terminal' = terminal
  BY DEF MarkAdapterFailure
<1>11. CASE f = "retry_wait"
  <2>1. worker' = [worker EXCEPT ![w] = Idle]
    BY <1>3, <1>11 DEF MarkAdapterFailure
  <2>2. Idle \in WorkerRows /\ WorkerShape(Idle)
    BY Rest DEF WorkerShape
  <2> QED
    BY <1>1, <1>4, <1>6, <1>9, <1>10, <2>1, <2>2, ProgressStep
<1>12. CASE f # "retry_wait"
  <2>1. PICK s \in BOOLEAN : s = (intent[i].execution \in expired)
    BY TruthOf
  <2>2. PICK x : x = [worker[w] EXCEPT !.pc = "finalfail", !.note = "none", !.sees = s]
    OBVIOUS
  <2>3. x \in WorkerRows /\ x.pc = "finalfail" /\ x.intent = i
    BY <1>0, <2>2 DEF WorkerRows
  <2>4. worker' = [worker EXCEPT ![w] = x]
    BY <1>3, <1>12, <2>1, <2>2 DEF MarkAdapterFailure
  <2>5. WorkerShape(x)
    BY <1>1, <2>3 DEF WorkerShape
  <2> QED
    BY <1>1, <1>4, <1>6, <1>9, <1>10, <2>3, <2>4, <2>5, ProgressStep
<1> QED
  BY <1>11, <1>12
-----------------------------------------------------------------------------
(* Steps that finalize the intent.                                         *)

(* The unfinished intent is of the current execution, which has not ended. *)
LEMMA CurrentIntent ==
    ASSUME IInv, NEW i \in Intents, Unfinished(i)
    PROVE  /\ intent[i].execution = last /\ terminal[last] = "none" /\ last \in Attempts
           /\ task.state \in {"running", "waiting"}
<1>1. intent[i].execution = last /\ terminal[last] = "none" /\ last \in Attempts
  BY DEF IInv, OneUnfinishedIntent, Typed
<1>2. UnfinishedOf(last) # {}
  BY <1>1 DEF UnfinishedOf
<1>3. task.state \notin {"completed", "cancelled"}
  BY <1>2 DEF IInv, TaskMatchesTurn
<1> QED
  BY <1>1, <1>3, TaskFields DEF IInv

LEMMA FinalizeVerifiedStep ==
    ASSUME IInv, NEW w \in Workers, FinalizeVerified(w)
    PROVE  IInv'
<1> DEFINE i == worker[w].intent
           seen == intent[i].observation.lifecycle
<1>1. i \in Intents /\ Exists(i) /\ Unfinished(i)
  BY AtWork DEF FinalizeVerified, Unfinished
<1>2. intent[i] \in IntentRows /\ RowShape(i)
  BY <1>1, IntentFields DEF IInv
<1>3. /\ intent[i].execution = last /\ terminal[last] = "none" /\ last \in Attempts
      /\ task.state \in {"running", "waiting"}
  BY <1>1, CurrentIntent
<1>4. seen = turn[last].lifecycle /\ seen # "absent"
  BY <1>2, <1>3 DEF RowShape, FinalizeVerified, Holds, Receipt, HasTurn
<1>5. PICK c, q : /\ c = (intent[i].kind = "inspect" /\ worker[w].sees)
                  /\ q = IF seen = "cancelled" THEN "interrupted"
                         ELSE IF TaskWaits(w, seen) THEN "waiting" ELSE "accepted"
  OBVIOUS
<1>6. c \in BOOLEAN /\ q \in {"accepted", "waiting", "interrupted"}
  BY <1>5
<1>7. PICK r : r = [intent[i] EXCEPT !.state = "finalized", !.act = None, !.afterExpiry = c, !.outcome = q]
  OBVIOUS
<1>8. /\ r \in IntentRows /\ r.state = "finalized" /\ r.kind = intent[i].kind
      /\ r.execution = intent[i].execution /\ r.source = intent[i].source
      /\ r.report = intent[i].report /\ r.outcome = q
      /\ r.observation = intent[i].observation
  <2>1. PICK y : y = [intent[i] EXCEPT !.state = "finalized", !.act = None]
    OBVIOUS
  <2>2. /\ y \in IntentRows /\ y.state = "finalized" /\ y.kind = intent[i].kind
        /\ y.execution = intent[i].execution /\ y.source = intent[i].source
        /\ y.report = intent[i].report /\ y.observation = intent[i].observation
    BY <1>2, <2>1 DEF IntentRows, IntentStates
  <2>3. r = [y EXCEPT !.afterExpiry = c, !.outcome = q]
    BY <1>2, <1>7, <2>1 DEF IntentRows
  <2> QED
    BY <1>6, <2>2, <2>3 DEF IntentRows
<1>9. intent' = [intent EXCEPT ![i] = r]
  BY <1>5, <1>7 DEF FinalizeVerified
<1>10. RowMoves(i, r)
  BY <1>6, <1>8, <1>9 DEF RowMoves, JournalStays, FinalizeVerified, IInv, Typed
<1>11. /\ task' \in TaskRows /\ ((task'.required # "none") <=> (task'.state = "waiting"))
       /\ task'.state \in {"completed", "cancelled"} => task'.state = "cancelled" /\ seen = "cancelled"
       /\ task'.state = "running" => seen # "cancelled" /\ ~TaskWaits(w, seen)
  <2>0. task \in TaskRows /\ ((task.required # "none") <=> (task.state = "waiting")) /\ task.revision \in Nat
    BY TaskFields DEF IInv, Typed
  <2>1. CASE seen = "cancelled"
    <3>1. task' = [state |-> "cancelled", revision |-> task.revision + 1, required |-> "none"]
      BY <2>1 DEF FinalizeVerified
    <3> QED
      BY <2>0, <2>1, <3>1 DEF TaskRows
  <2>2. CASE seen # "cancelled" /\ TaskWaits(w, seen) /\ task.state = "running"
    <3>1. PICK q2 \in {"resume", "retry"} :
             task' = [state |-> "waiting", revision |-> task.revision + 1, required |-> q2]
      BY <2>2 DEF FinalizeVerified
    <3> QED
      BY <2>0, <2>2, <3>1 DEF TaskRows
  <2>3. CASE seen # "cancelled" /\ ~(TaskWaits(w, seen) /\ task.state = "running")
    <3>1. task' = task
      BY <2>3 DEF FinalizeVerified
    <3> QED
      BY <1>3, <2>0, <2>3, <3>1
  <2> QED
    BY <2>1, <2>2, <2>3
<1>12. /\ terminal' = [terminal EXCEPT ![last] = IF seen = "cancelled" THEN "cancelled" ELSE terminal[last]]
       /\ terminal \in [Attempts -> {"none", "completed", "cancelled"}]
  BY <1>3 DEF FinalizeVerified, IInv, Typed
<1>13. /\ terminal' \in [Attempts -> {"none", "completed", "cancelled"}]
       /\ \A e \in Attempts : e > last => terminal'[e] = terminal[e]
       /\ seen = "cancelled" => terminal'[last] = "cancelled"
  BY <1>3, <1>12, Bounds
<1>14. ~TaskWaits(w, seen) /\ seen # "cancelled" => seen \in {"queued", "active", "turn_succeeded"}
  BY <1>3, <1>4, TurnFields DEF TaskWaits, IInv, Lifecycles, OpenLifecycles, TerminalLifecycles
<1>15. /\ task'.state \in {"completed", "cancelled"} =>
              /\ terminal'[last] = task'.state
              /\ turn[last].lifecycle = IF task'.state = "completed" THEN "turn_succeeded" ELSE "cancelled"
       /\ task'.state = "running" =>
              turn[last].lifecycle \in {"absent", "queued", "active", "turn_succeeded"}
  BY <1>4, <1>11, <1>13, <1>14
<1>16. worker' = [worker EXCEPT ![w] = Idle]
  BY DEF FinalizeVerified
<1> HIDE DEF i, seen
<1> QED
  BY <1>1, <1>8, <1>10, <1>11, <1>13, <1>15, <1>16, FinalStep

LEMMA FinalizeFailureStep ==
    ASSUME IInv, NEW w \in Workers, FinalizeAdapterFailure(w)
    PROVE  IInv'
<1> DEFINE i == worker[w].intent
<1>1. i \in Intents /\ Exists(i) /\ Unfinished(i)
  BY AtWork DEF FinalizeAdapterFailure, Unfinished
<1>2. intent[i] \in IntentRows /\ RowShape(i)
  BY <1>1, IntentFields DEF IInv
<1>3. /\ intent[i].execution = last /\ terminal[last] = "none" /\ last \in Attempts
      /\ task.state \in {"running", "waiting"}
  BY <1>1, CurrentIntent
<1>4. PICK r : r = [intent[i] EXCEPT !.state = "finalized", !.act = None, !.outcome = "waiting"]
  OBVIOUS
<1>5. /\ r \in IntentRows /\ r.state = "finalized" /\ r.kind = intent[i].kind
      /\ r.execution = intent[i].execution /\ r.source = intent[i].source
      /\ r.report = intent[i].report /\ r.outcome = "waiting"
      /\ r.observation = intent[i].observation
  BY <1>2, <1>4 DEF IntentRows, IntentStates
<1>6. intent' = [intent EXCEPT ![i] = r]
  BY <1>4 DEF FinalizeAdapterFailure
<1>7. RowMoves(i, r)
  BY <1>5, <1>6 DEF RowMoves, JournalStays, FinalizeAdapterFailure, IInv, Typed
<1>8. /\ task' \in TaskRows /\ ((task'.required # "none") <=> (task'.state = "waiting"))
      /\ task'.state = "waiting"
  <2>0. task \in TaskRows /\ ((task.required # "none") <=> (task.state = "waiting")) /\ task.revision \in Nat
    BY TaskFields DEF IInv, Typed
  <2>1. CASE task.state = "running"
    <3>1. PICK q \in {"inspect", "cancel"} :
             task' = [state |-> "waiting", revision |-> task.revision + 1, required |-> q]
      BY <2>1 DEF FinalizeAdapterFailure
    <3> QED
      BY <2>0, <3>1 DEF TaskRows
  <2>2. CASE task.state # "running"
    <3>1. task' = task
      BY <2>2 DEF FinalizeAdapterFailure
    <3> QED
      BY <1>3, <2>0, <2>2, <3>1
  <2> QED
    BY <2>1, <2>2
<1>9. /\ terminal' \in [Attempts -> {"none", "completed", "cancelled"}] /\ terminal' = terminal
      /\ worker' = [worker EXCEPT ![w] = Idle]
  BY DEF FinalizeAdapterFailure, IInv, Typed
<1> HIDE DEF i
<1> QED
  BY <1>1, <1>5, <1>7, <1>8, <1>9, FinalStep

LEMMA FinalizeNoEffectStep ==
    ASSUME IInv, NEW w \in Workers, FinalizeProvenNoEffect(w)
    PROVE  IInv'
<1> DEFINE i == worker[w].intent
<1>1. i \in Intents /\ Exists(i) /\ Unfinished(i)
  BY AtWork DEF FinalizeProvenNoEffect, Unfinished
<1>2. intent[i] \in IntentRows /\ RowShape(i)
  BY <1>1, IntentFields DEF IInv
<1>3. /\ intent[i].execution = last /\ terminal[last] = "none" /\ last \in Attempts
      /\ task.state \in {"running", "waiting"}
  BY <1>1, CurrentIntent
<1>4. PICK r : r = [intent[i] EXCEPT !.state = "finalized", !.act = None, !.outcome = "rejected"]
  OBVIOUS
<1>5. /\ r \in IntentRows /\ r.state = "finalized" /\ r.kind = intent[i].kind
      /\ r.execution = intent[i].execution /\ r.source = intent[i].source
      /\ r.report = intent[i].report /\ r.outcome = "rejected"
      /\ r.observation = intent[i].observation
  BY <1>2, <1>4 DEF IntentRows, IntentStates
<1>6. intent' = [intent EXCEPT ![i] = r]
  BY <1>4 DEF FinalizeProvenNoEffect
<1>7. ~Performed(i) /\ turn[last].lifecycle = "absent"
  BY <1>3 DEF FinalizeProvenNoEffect, StartAbsent, BackendEffectAbsent, HasTurn
<1>8. RowMoves(i, r)
  BY <1>5, <1>6, <1>7 DEF RowMoves, JournalStays, FinalizeProvenNoEffect, IInv, Typed
<1>9. /\ terminal' \in [Attempts -> {"none", "completed", "cancelled"}] /\ terminal' = terminal
      /\ worker' = [worker EXCEPT ![w] = Idle] /\ task' \in TaskRows /\ task' = task
      /\ (task'.required # "none") <=> (task'.state = "waiting")
  BY DEF FinalizeProvenNoEffect, IInv, Typed
<1> HIDE DEF i
<1> QED
  BY <1>1, <1>3, <1>5, <1>7, <1>8, <1>9, FinalStep
-----------------------------------------------------------------------------
(* Steps that prepare an intent.                                           *)

(* The prepared row is the first absent one. *)
Inserts(k, e, source, report) ==
    \E i \in Intents, r \in IntentRows :
       /\ intent' = [intent EXCEPT ![i] = r]
       /\ \A j \in Intents : Exists(j) <=> j < i
       /\ r.kind = k /\ r.state = "pending" /\ r.execution = e /\ r.source = source
       /\ r.report = report /\ r.outcome = "none" /\ r.observation = NoReceipt

LEMMA InsertedRow ==
    ASSUME IInv, NEW k \in Kinds \ {"absent"}, NEW e \in Attempts, NEW source \in {0} \cup Attempts,
           NEW tr \in Nat, NEW er \in Nat, NEW report \in Reports \cup {"none"},
           Insert(k, e, source, tr, er, report)
    PROVE  Inserts(k, e, source, report)
<1>1. PICK n \in 0..MaxIntents : \A j \in Intents : Exists(j) <=> j <= n
  BY DEF IInv, InOrder
<1>2. n \in Nat /\ {j \in Intents : Exists(j)} = 1..n
  BY <1>1, Bounds DEF Intents
<1>3. Cardinality(1..n) = n
  BY <1>2, FS_Interval
<1>4. PICK x : x = IF k = "report" THEN turn[e].revision ELSE 0
  OBVIOUS
<1>5. x \in Nat
  BY <1>4, TurnFields DEF IInv
<1>6. PICK r : r = [NoIntent EXCEPT !.kind = k, !.state = "pending", !.execution = e,
            !.source = source, !.taskRevision = tr,
            !.executionRevision = er, !.report = report, !.expects = x]
  OBVIOUS
<1>7. r = [kind |-> k, state |-> "pending", execution |-> e, source |-> source,
           taskRevision |-> tr, executionRevision |-> er, report |-> report, expects |-> x,
           act |-> None, error |-> "none", observation |-> NoReceipt, outcome |-> "none",
           afterExpiry |-> FALSE]
  BY <1>6 DEF NoIntent
<1>8. r \in IntentRows
  BY <1>5, <1>7, Rest DEF IntentRows, IntentStates
<1>9. n + 1 \in Intents /\ intent' = [intent EXCEPT ![n + 1] = r]
  BY <1>2, <1>3, <1>4, <1>6 DEF Insert
<1>10. \A j \in Intents : Exists(j) <=> j < n + 1
  BY <1>1, <1>2, Bounds
<1>11. /\ r.kind = k /\ r.state = "pending" /\ r.execution = e /\ r.source = source
       /\ r.report = report /\ r.outcome = "none" /\ r.observation = NoReceipt
  BY <1>7
<1>12. PICK i \in Intents : i = n + 1
  BY <1>9
<1>13. intent' = [intent EXCEPT ![i] = r] /\ \A j \in Intents : Exists(j) <=> j < i
  BY <1>9, <1>10, <1>12
<1> QED
  BY <1>8, <1>11, <1>13 DEF Inserts

LEMMA InsertStep ==
    ASSUME IInv, NEW k \in Kinds \ {"absent"}, NEW e \in Attempts, NEW source \in {0} \cup Attempts,
           NEW tr \in Nat, NEW er \in Nat, NEW report \in Reports \cup {"none"},
           Insert(k, e, source, tr, er, report),
           k = "retry" => source # 0, k = "report" => report \in Reports,
           UnfinishedOf(last) = {}, last' = e, e >= last, terminal[e] = "none",
           UNCHANGED <<expired, turn, op, terminal, worker>>,
           exec' \in [Attempts -> ExecRows], exec'[e].status = "active",
           \A d \in Attempts : d > e => exec'[d] = exec[d],
           task' \in TaskRows, (task'.required # "none") <=> (task'.state = "waiting"),
           task'.state \in {"running", "waiting"}
    PROVE  IInv'
<1>0. Inserts(k, e, source, report)
  BY InsertedRow, Zenon
<1>1. PICK i \in Intents, r \in IntentRows :
              /\ intent' = [intent EXCEPT ![i] = r]
              /\ \A j \in Intents : Exists(j) <=> j < i
              /\ r.kind = k /\ r.state = "pending" /\ r.execution = e /\ r.source = source
              /\ r.report = report /\ r.outcome = "none" /\ r.observation = NoReceipt
  BY <1>0 DEF Inserts
<1>2. /\ intent' \in [Intents -> IntentRows] /\ intent'[i] = r
      /\ \A j \in Intents : j # i => intent'[j] = intent[j]
  BY <1>1 DEF IInv, Typed
<1>3. i \in Nat /\ i # 0 /\ e \in Nat /\ last \in Nat /\ last \in Attempts
  BY Bounds, TaskFields DEF IInv
<1>4. ~Exists(i) /\ intent[i] = NoIntent /\ op[i] = NoOperation /\ ~Performed(i) /\ ~Performed(i)'
  BY <1>1, <1>3, Rest DEF IInv, RowShape, Performed
<1>5. \A j \in Intents : Exists(j) => ~Unfinished(j) /\ intent'[j] = intent[j]
  <2>1. ASSUME NEW j \in Intents, Unfinished(j) PROVE FALSE
    BY <2>1 DEF IInv, OneUnfinishedIntent, UnfinishedOf
  <2> QED
    BY <1>2, <1>4, <2>1
<1>6. Grows
  BY <1>4, <1>5 DEF Grows, Exists, Unfinished
<1>7. \A v \in Workers : WorkerShape(worker[v])'
  <2> TAKE v \in Workers
  <2>1. PICK y : y = worker[v]
    OBVIOUS
  <2>2. WorkerShape(y)
    BY <2>1 DEF IInv
  <2> QED
    BY <1>6, <2>1, <2>2, WorkerStays DEF WorkerShape
<1>8. Typed'
  BY <1>2 DEF IInv, Typed
<1>9. InOrder'
  <2>1. i \in 0..MaxIntents
    BY <1>3 DEF Intents
  <2>2. \A j \in Intents : Exists(j)' <=> j <= i
    BY <1>1, <1>2, <1>3, Bounds DEF Exists
  <2> QED
    BY <2>1, <2>2 DEF InOrder
<1>10. ExecShape'
  BY <1>3, Bounds DEF IInv, ExecShape
<1>11. ASSUME NEW j \in Intents
       PROVE  RowShape(j)'
  <2>1. RowShape(j)
    BY DEF IInv
  <2>2. CASE j # i
    <3>1. intent'[j] = intent[j] /\ op' = op /\ turn' = turn /\ last' >= last /\ last' \in Nat
      BY <1>2, <1>3, <2>2
    <3>2. \A d \in Attempts : d <= last => d <= last'
      BY <1>3, <3>1, Bounds
    <3> QED
      BY <2>1, <3>1, <3>2 DEF RowShape, Exists, Performed, Holds, Receipt, HasTurn
  <2>3. CASE j = i
    BY <1>1, <1>2, <1>3, <1>4, <2>3 DEF RowShape, Exists
  <2> QED
    BY <2>2, <2>3
<1>12. \A d \in Attempts : TurnShape(turn[d])'
  BY DEF IInv, TurnShape
<1>13. OneUnfinishedIntent'
  BY <1>1, <1>2, <1>5, <1>4 DEF OneUnfinishedIntent, Unfinished, Exists
<1>14. EffectAtMostOnce'
  <2>1. \A d \in Attempts : Counted(d)'
    BY <1>5, CountStays DEF JournalStays
  <2>2. \A j \in Intents : intent'[j].outcome = "rejected" => ~Performed(j)'
    BY <1>11 DEF RowShape
  <2> QED
    BY <2>1, <2>2 DEF EffectAtMostOnce, Counted, Changes
<1>15. ObservationIsTrue'
  BY <1>1, <1>2 DEF IInv, ObservationIsTrue, Performed
<1>16. TaskMatchesTurn'
  <2>1. UnfinishedOf(last)' # {}
    BY <1>1, <1>2 DEF UnfinishedOf, Unfinished, Exists
  <2> QED
    BY <2>1 DEF TaskMatchesTurn
<1> QED
  BY <1>7, <1>8, <1>9, <1>10, <1>11, <1>12, <1>13, <1>14, <1>15, <1>16 DEF IInv

LEMMA PrepareStep ==
    ASSUME IInv, NEW k \in {"start", "report", "cancel", "inspect"}, NEW report \in Reports \cup {"none"},
           k = "report" => report \in Reports, terminal[last] = "none",
           task.state \in {"running", "waiting"}, Prepare(k, last, report)
    PROVE  IInv'
<1>1. last \in Attempts /\ last \in Nat /\ exec[last].revision \in Nat /\ task.revision \in Nat
  BY TaskFields, TurnFields DEF IInv
<1>2. PICK e \in Attempts, tr \in Nat, er \in Nat :
         e = last /\ tr = task.revision /\ er = exec[last].revision
  BY <1>1
<1>3. Insert(k, e, 0, tr, er, report) /\ k \in Kinds \ {"absent"} /\ k # "retry" /\ 0 \in {0} \cup Attempts
  BY <1>2 DEF Prepare, Kinds
<1>4. /\ UnfinishedOf(last) = {} /\ last' = e /\ e >= last /\ terminal[e] = "none"
      /\ UNCHANGED <<expired, turn, op, terminal, worker>>
      /\ exec' = exec /\ task' = task
  BY <1>1, <1>2 DEF Prepare
<1>5. /\ exec' \in [Attempts -> ExecRows] /\ exec'[e].status = "active"
      /\ \A d \in Attempts : d > e => exec'[d] = exec[d]
      /\ task' \in TaskRows /\ ((task'.required # "none") <=> (task'.state = "waiting"))
      /\ task'.state \in {"running", "waiting"}
  BY <1>2, <1>4 DEF IInv, Typed, ExecShape
<1> QED
  BY <1>3, <1>4, <1>5, InsertStep

LEMMA PrepareSteps ==
    ASSUME IInv, NEW o \in Owners,
           \/ PrepareStart(o) \/ PrepareCancel(o)
           \/ \E r \in Reports : PrepareReport(o, r)
           \/ \E l \in BOOLEAN : PrepareInspect(o, l)
    PROVE  IInv'
<1>1. CASE PrepareStart(o)
  BY <1>1, PrepareStep DEF PrepareStart, BindExecution
<1>2. CASE PrepareCancel(o)
  BY <1>2, PrepareStep DEF PrepareCancel, BindExecution
<1>3. ASSUME NEW r \in Reports, PrepareReport(o, r)
      PROVE  IInv'
  BY <1>3, PrepareStep DEF PrepareReport, BindExecution
<1>4. ASSUME NEW l \in BOOLEAN, PrepareInspect(o, l)
      PROVE  IInv'
  BY <1>4, PrepareStep DEF PrepareInspect, BindExecution
<1> QED
  BY <1>1, <1>2, <1>3, <1>4

(* A continued Task runs. *)
LEMMA Continued ==
    ASSUME Typed, NEW k, ContinueTask(k)
    PROVE  /\ task' \in TaskRows /\ ((task'.required # "none") <=> (task'.state = "waiting"))
           /\ task'.state \in {"running", "waiting"}
<1>1. task' = [state |-> "running", revision |-> task.revision + 1, required |-> "none"] /\ task.revision \in Nat
  BY TaskFields DEF ContinueTask
<1> QED
  BY <1>1 DEF TaskRows

LEMMA ResumeStep ==
    ASSUME IInv, NEW o \in Owners, PrepareResume(o)
    PROVE  IInv'
<1>1. last \in Attempts /\ last \in Nat /\ exec[last].revision \in Nat /\ task.revision + 1 \in Nat
  BY TaskFields, TurnFields DEF IInv
<1>2. PICK e \in Attempts, tr \in Nat, er \in Nat :
         e = last /\ tr = task.revision + 1 /\ er = exec[last].revision
  BY <1>1
<1>3. Insert("resume", e, 0, tr, er, "none") /\ "resume" \in Kinds \ {"absent"} /\ 0 \in {0} \cup Attempts
  BY <1>2 DEF PrepareResume, Kinds
<1>4. /\ UnfinishedOf(last) = {} /\ last' = e /\ e >= last /\ terminal[e] = "none"
      /\ UNCHANGED <<expired, turn, op, terminal, worker>>
      /\ exec' = exec
  BY <1>1, <1>2 DEF PrepareResume, BindExecution
<1>5. /\ exec' \in [Attempts -> ExecRows] /\ exec'[e].status = "active"
      /\ \A d \in Attempts : d > e => exec'[d] = exec[d]
  BY <1>2, <1>4 DEF IInv, Typed, ExecShape
<1>6. /\ task' \in TaskRows /\ ((task'.required # "none") <=> (task'.state = "waiting"))
      /\ task'.state \in {"running", "waiting"}
  BY Continued DEF PrepareResume, IInv
<1> QED
  BY <1>3, <1>4, <1>5, <1>6, InsertStep

(* Succession: the last attempt is superseded by the next one. *)
LEMMA Superseded ==
    ASSUME IInv, NEW o \in Owners, NEW rev \in Nat, last + 1 \in Attempts,
           exec' = [exec EXCEPT
              ![last] = [exec[last] EXCEPT !.status = "superseded", !.revision = exec[last].revision + 1],
              ![last + 1] = [status |-> "active", owner |-> o, revision |-> 1, postTaskRevision |-> rev]]
    PROVE  /\ exec' \in [Attempts -> ExecRows] /\ exec'[last + 1].status = "active"
           /\ \A d \in Attempts : d # last /\ d # last + 1 => exec'[d] = exec[d]
<1>1. last \in Attempts /\ last \in Nat /\ exec[last] \in ExecRows /\ exec[last].revision \in Nat
  BY TaskFields, TurnFields DEF IInv
<1>2. PICK x : x = [exec[last] EXCEPT !.status = "superseded", !.revision = exec[last].revision + 1]
  OBVIOUS
<1>3. x \in ExecRows
  <2>1. PICK z \in ExecRows : z = exec[last]
    BY <1>1
  <2>2. z.revision + 1 \in Nat
    BY <1>1, <2>1
  <2>3. PICK n \in Nat : n = z.revision + 1
    BY <2>2
  <2>4. x = [z EXCEPT !.status = "superseded", !.revision = n]
    BY <1>2, <2>1, <2>3
  <2> QED
    BY <2>4 DEF ExecRows
<1>4. PICK y : y = [status |-> "active", owner |-> o, revision |-> 1, postTaskRevision |-> rev]
  OBVIOUS
<1>5. y \in ExecRows /\ y.status = "active"
  BY <1>4 DEF ExecRows
<1>6. exec' = [exec EXCEPT ![last] = x, ![last + 1] = y] /\ exec \in [Attempts -> ExecRows]
  BY <1>2, <1>4 DEF IInv, Typed
<1>7. last # last + 1
  BY <1>1
<1> QED
  BY <1>1, <1>3, <1>5, <1>6, <1>7

LEMMA SuccessorStep ==
    ASSUME IInv, NEW o \in Owners, NEW k \in {"resume", "retry"}, PrepareSuccessor(o, k)
    PROVE  IInv'
<1>1. last \in Attempts /\ last \in Nat /\ last # 0 /\ task.revision + 1 \in Nat
  BY TaskFields, Bounds DEF IInv
<1>2. PICK e \in Attempts, source \in {0} \cup Attempts, tr \in Nat :
         e = last + 1 /\ source = last /\ tr = task.revision + 1
  BY <1>1 DEF PrepareSuccessor
<1>3. Insert(k, e, source, tr, 1, "none") /\ k \in Kinds \ {"absent"} /\ source # 0 /\ k # "report"
  BY <1>1, <1>2 DEF PrepareSuccessor, Kinds
<1>4. /\ UnfinishedOf(last) = {} /\ last' = e /\ e >= last /\ e > last
      /\ UNCHANGED <<expired, turn, op, terminal, worker>>
  BY <1>1, <1>2 DEF PrepareSuccessor
<1>5. terminal[e] = "none"
  BY <1>4 DEF IInv, ExecShape
<1>6. /\ exec' \in [Attempts -> ExecRows] /\ exec'[last + 1].status = "active"
      /\ \A d \in Attempts : d # last /\ d # last + 1 => exec'[d] = exec[d]
  BY <1>1, <1>2, Superseded DEF PrepareSuccessor
<1>7. \A d \in Attempts : d > e => exec'[d] = exec[d]
  BY <1>1, <1>2, <1>6, Bounds
<1>8. /\ task' \in TaskRows /\ ((task'.required # "none") <=> (task'.state = "waiting"))
      /\ task'.state \in {"running", "waiting"}
  BY Continued DEF PrepareSuccessor, IInv
<1> QED
  BY <1>2, <1>3, <1>4, <1>5, <1>6, <1>7, <1>8, InsertStep
-----------------------------------------------------------------------------
(* The call of the backend.                                                *)

(* What an operation that the journal accepts does to the turn: it leaves  *)
(* it as it is, or moves it to its next revision.                          *)
LEMMA AcceptedTurn ==
    ASSUME IInv, NEW i \in Intents, Exists(i), intent[i].kind # "inspect", JournalAccepts(i),
           NEW a, a = AfterOperation(i)
    PROVE  LET t == turn[intent[i].execution] IN
           /\ a \in TurnRows /\ a.lifecycle # "absent" /\ TurnShape(a)
           /\ a = t \/ a.revision = t.revision + 1
<1> DEFINE e == intent[i].execution
           t == turn[e]
<1>0. PICK k : k = intent[i].kind
  OBVIOUS
<1>1. /\ e \in Attempts /\ k \in {"start", "report", "cancel", "resume", "retry"}
      /\ k = "retry" => intent[i].source # 0
      /\ k = "report" => intent[i].report \in Reports
      /\ intent[i].executionRevision \in Nat
  BY <1>0, IntentFields DEF IInv, RowShape, Kinds
<1>2. /\ t \in TurnRows /\ t.revision \in Nat /\ t.cancelAt \in Nat /\ t.lifecycle \in Lifecycles
      /\ TurnShape(t) /\ t.executionRevision \in Nat
  BY <1>1, TurnFields DEF IInv
<1>3. CASE k = "start" \/ (k \in {"resume", "retry"} /\ intent[i].source # 0)
  <2>1. ~HasTurn(e)
    BY <1>0, <1>3 DEF JournalAccepts
  <2>2. t.revision = 0
    BY <1>2, <2>1, Rest DEF TurnShape, HasTurn
  <2>3. PICK l \in {"queued", "active"} :
           a = [lifecycle |-> l, revision |-> 1, cancelAt |-> 0,
                executionRevision |-> intent[i].executionRevision]
    BY <1>0, <1>3 DEF AfterOperation
  <2>4. /\ a \in TurnRows /\ a.lifecycle = l /\ a.revision = 1 /\ a.cancelAt = 0
    BY <1>1, <2>3 DEF TurnRows, Lifecycles, OpenLifecycles
  <2> QED
    BY <2>2, <2>4 DEF TurnShape
<1>4. CASE k = "resume" /\ intent[i].source = 0
  <2>1. a = [t EXCEPT !.lifecycle = "active", !.revision = t.revision + 1]
    BY <1>0, <1>4 DEF AfterOperation
  <2>2. PICK n \in Nat : n = t.revision + 1
    BY <1>2
  <2>3. /\ a \in TurnRows /\ a.lifecycle = "active" /\ a.revision = n /\ a.cancelAt = t.cancelAt
    BY <1>2, <2>1, <2>2 DEF TurnRows, Lifecycles, OpenLifecycles
  <2> QED
    BY <1>2, <2>2, <2>3 DEF TurnShape
<1>5. CASE k = "cancel"
  <2>1. t.lifecycle # "absent"
    BY <1>0, <1>5 DEF JournalAccepts, RequireTurn, HasTurn
  <2>2. CASE t.lifecycle \in TerminalLifecycles
    <3>1. a = t
      BY <1>0, <1>5, <2>2 DEF AfterOperation
    <3> QED
      BY <1>2, <2>1, <3>1
  <2>3. CASE t.lifecycle \notin TerminalLifecycles
    <3>1. a = [t EXCEPT !.cancelAt = t.revision + 1, !.revision = t.revision + 1]
      BY <1>0, <1>5, <2>3 DEF AfterOperation
    <3>2. PICK n \in Nat : n = t.revision + 1
      BY <1>2
    <3>3. a = [t EXCEPT !.cancelAt = n, !.revision = n]
      BY <3>1, <3>2
    <3>4. /\ a \in TurnRows /\ a.lifecycle = t.lifecycle /\ a.revision = n /\ a.cancelAt = n
      BY <1>2, <3>3 DEF TurnRows
    <3> QED
      BY <2>1, <2>3, <3>2, <3>4 DEF TurnShape, TerminalLifecycles
  <2> QED
    BY <2>2, <2>3
<1>6. CASE k = "report"
  <2>1. PICK r \in {"activate", "wait", "succeed", "fail", "confirm_cancelled"} : r = intent[i].report
    BY <1>1, <1>6, LoopAssumption
  <2>2. PICK l : l = ReportTarget(r)
    OBVIOUS
  <2>3. l \in Lifecycles /\ l # "absent" /\ (l = "cancelled" => r = "confirm_cancelled")
    BY <2>1, <2>2 DEF ReportTarget, Lifecycles, OpenLifecycles, TerminalLifecycles
  <2>4. a = [t EXCEPT !.lifecycle = l, !.revision = t.revision + 1]
    BY <1>0, <1>6, <2>1, <2>2 DEF AfterOperation
  <2>5. l = "cancelled" => t.cancelAt # 0
    BY <1>0, <1>6, <2>1, <2>3 DEF JournalAccepts, ReportAllowed
  <2>6. PICK n \in Nat : n = t.revision + 1
    BY <1>2
  <2>7. /\ a \in TurnRows /\ a.lifecycle = l /\ a.revision = n /\ a.cancelAt = t.cancelAt
    BY <1>2, <2>3, <2>4, <2>6 DEF TurnRows
  <2> QED
    BY <1>2, <2>3, <2>5, <2>6, <2>7 DEF TurnShape
<1> QED
  BY <1>1, <1>3, <1>4, <1>5, <1>6

(* One operation more, made by an intent that has none: the turn counts it *)
(* exactly if it moved.                                                    *)
LEMMA OneMoreCounted ==
    ASSUME IInv, NEW i \in Intents, ~Performed(i), intent[i].execution = last,
           NEW a \in TurnRows, NEW q \in OpRows, q.result # "absent",
           q.pre = turn[last].revision, q.post = a.revision,
           a.revision = turn[last].revision \/ a.revision = turn[last].revision + 1,
           turn' = [turn EXCEPT ![last] = a], op' = [op EXCEPT ![i] = q], intent' = intent,
           NEW e \in Attempts
    PROVE  Counted(e)'
<1>0. last \in Attempts /\ turn \in [Attempts -> TurnRows] /\ op \in [Intents -> OpRows]
  BY DEF IInv, Typed
<1>1. Counted(e)
  BY EffectCounted DEF IInv
<1>2. \A j \in Intents : j # i => op'[j] = op[j] /\ (Performed(j)' <=> Performed(j))
  BY <1>0 DEF Performed
<1>3. op'[i] = q /\ Performed(i)'
  BY <1>0 DEF Performed
<1>4. CASE e # last
  <2>1. Changes(e)' = Changes(e)
    BY <1>2, <1>4 DEF Changes
  <2>2. \A j \in Changes(e) : j \in Intents /\ j # i /\ op'[j] = op[j]
    BY <1>2, <1>4 DEF Changes
  <2>3. turn'[e] = turn[e]
    BY <1>0, <1>4
  <2>4. turn'[e].revision = Cardinality(Changes(e)')
    BY <1>1, <2>1, <2>3 DEF Counted
  <2>5. \A j, k \in Changes(e)' : j # k => op'[j].post # op'[k].post
    BY <1>1, <2>1, <2>2 DEF Counted
  <2> QED
    BY <2>4, <2>5 DEF Counted
<1>5. CASE e = last
  <2>0. turn'[e] = a /\ turn[e].revision \in Nat /\ a.revision \in Nat
    BY <1>0, <1>5, TurnFields DEF IInv, TurnRows
  <2>1. i \notin Changes(e)
    BY DEF Changes
  <2>2. \A j \in Changes(e) : /\ j \in Intents /\ j # i /\ op'[j] = op[j] /\ op[j].post \in Nat
                              /\ op[j].post <= turn[e].revision
    <3>1. \A j \in Intents : RowShape(j) /\ op[j].post \in Nat
      BY IntentFields DEF IInv
    <3> QED
      BY <1>2, <2>1, <3>1 DEF Changes, RowShape
  <2>3. CASE a.revision = turn[e].revision
    <3>1. Changes(e)' = Changes(e)
      BY <1>2, <1>3, <1>5, <2>0, <2>3 DEF Changes
    <3>2. turn'[e].revision = Cardinality(Changes(e)')
      BY <1>1, <2>0, <2>3, <3>1 DEF Counted
    <3>3. \A j, k \in Changes(e)' : j # k => op'[j].post # op'[k].post
      BY <1>1, <2>2, <3>1 DEF Counted
    <3> QED
      BY <3>2, <3>3 DEF Counted
  <2>4. CASE a.revision = turn[e].revision + 1
    <3>1. Changes(e)' = Changes(e) \cup {i}
      BY <1>2, <1>3, <1>5, <2>0, <2>4 DEF Changes
    <3>2. IsFiniteSet(Changes(e))
      <4>1. IsFiniteSet(Intents)
        BY Bounds, FS_Interval DEF Intents
      <4> QED
        BY <4>1, FS_Subset DEF Changes
    <3>3. Cardinality(Changes(e) \cup {i}) = Cardinality(Changes(e)) + 1
      BY <2>1, <3>2, FS_AddElement
    <3>4. turn'[e].revision = Cardinality(Changes(e)')
      BY <1>1, <2>0, <2>4, <3>1, <3>3 DEF Counted
    <3>5. \A j \in Changes(e) : op'[j].post # op'[i].post
      BY <1>3, <2>0, <2>2, <2>4
    <3>6. \A j, k \in Changes(e) : j # k => op'[j].post # op'[k].post
      BY <1>1, <2>2 DEF Counted
    <3>7. \A j, k \in Changes(e)' : j # k => op'[j].post # op'[k].post
      BY <3>1, <3>5, <3>6
    <3> QED
      BY <3>4, <3>7 DEF Counted
  <2> QED
    BY <1>5, <2>3, <2>4
<1> QED
  BY <1>4, <1>5

LEMMA PerformStep ==
    ASSUME IInv, NEW i \in Intents, intent[i].state = "executing", intent[i].kind # "inspect",
           ~Performed(i), JournalAccepts(i), Perform(i),
           UNCHANGED <<task, last, exec, expired, intent, terminal>>,
           NEW w \in Workers, NEW x \in WorkerRows, WorkerShape(x),
           worker' = [worker EXCEPT ![w] = x]
    PROVE  IInv'
<1>1. Exists(i) /\ Unfinished(i)
  BY DEF Exists, Unfinished
<1>2. intent[i].execution = last /\ last \in Attempts
  BY <1>1, CurrentIntent
<1>3. PICK a : a = AfterOperation(i)
  OBVIOUS
<1>4. /\ a \in TurnRows /\ a.lifecycle # "absent" /\ TurnShape(a)
      /\ a = turn[last] \/ a.revision = turn[last].revision + 1
  BY <1>1, <1>2, <1>3, AcceptedTurn
<1>5. /\ turn[last].revision \in Nat /\ a.revision \in Nat /\ a.lifecycle \in Lifecycles
  BY <1>2, <1>4, TurnFields DEF IInv, TurnRows
<1>6. PICK q : q = [pre |-> turn[last].revision, post |-> a.revision, result |-> a.lifecycle, bound |-> TRUE]
  OBVIOUS
<1>7. /\ q \in OpRows /\ q.pre = turn[last].revision /\ q.post = a.revision /\ q.result = a.lifecycle
  BY <1>5, <1>6 DEF OpRows
<1>8. turn' = [turn EXCEPT ![last] = a] /\ op' = [op EXCEPT ![i] = q]
  BY <1>2, <1>3, <1>6 DEF Perform
<1>9. /\ turn' \in [Attempts -> TurnRows] /\ turn'[last] = a
      /\ \A e \in Attempts : e # last => turn'[e] = turn[e]
  BY <1>2, <1>4, <1>8 DEF IInv, Typed
<1>10. /\ op' \in [Intents -> OpRows] /\ op'[i] = q
       /\ \A j \in Intents : j # i => op'[j] = op[j]
  BY <1>7, <1>8 DEF IInv, Typed
<1>11. \A j \in Intents : Unfinished(j) => j = i
  BY <1>1 DEF IInv, OneUnfinishedIntent
<1>12. Grows
  BY <1>10, <1>11 DEF Grows, Exists
<1>13. worker' \in [Workers -> WorkerRows] /\ \A v \in Workers : WorkerShape(worker[v])'
  BY <1>12, WorkersStay
<1>14. Typed'
  BY <1>9, <1>10, <1>13 DEF IInv, Typed
<1>15. InOrder'
  BY DEF IInv, InOrder, Exists
<1>16. ExecShape' /\ \A e \in Attempts : TurnShape(turn[e])'
  <2>1. last \in Nat /\ Attempts \subseteq Nat
    BY <1>2, Bounds
  <2>2. \A e \in Attempts : e > last => turn'[e] = turn[e]
    BY <1>9, <2>1
  <2>3. ASSUME NEW e \in Attempts
        PROVE  TurnShape(turn[e])'
    <3>1. CASE e = last
      BY <1>4, <1>9, <3>1 DEF TurnShape
    <3>2. CASE e # last
      BY <1>9, <3>2 DEF IInv, TurnShape
    <3> QED
      BY <3>1, <3>2
  <2> QED
    BY <2>2, <2>3 DEF IInv, ExecShape
<1>17. ASSUME NEW j \in Intents
       PROVE  RowShape(j)'
  <2>1. RowShape(j)
    BY DEF IInv
  <2>2. CASE j = i
    <3>1. HasTurn(last)' /\ Performed(i)'
      BY <1>4, <1>7, <1>9, <1>10 DEF HasTurn, Performed
    <3>2. op'[i].pre <= op'[i].post /\ op'[i].post <= turn'[last].revision
      BY <1>4, <1>5, <1>7, <1>9, <1>10
    <3>3. intent' = intent /\ last' = last
      OBVIOUS
    <3> QED
      BY <1>1, <1>2, <2>1, <2>2, <3>1, <3>2, <3>3 DEF RowShape, Exists
  <2>3. CASE j # i
    <3>1. intent' = intent /\ last' = last /\ op'[j] = op[j]
      BY <1>10, <2>3
    <3>2. intent[j].state \notin {"observed", "verified"}
      BY <1>11, <2>3 DEF Unfinished, Exists
    <3>3. Performed(j) =>
             /\ HasTurn(intent[j].execution)'
             /\ op[j].pre <= op[j].post /\ op[j].post <= turn'[intent[j].execution].revision
      <4> SUFFICES ASSUME Performed(j)
                   PROVE  /\ HasTurn(intent[j].execution)'
                          /\ op[j].pre <= op[j].post /\ op[j].post <= turn'[intent[j].execution].revision
        OBVIOUS
      <4>1. PICK e : e = intent[j].execution
        OBVIOUS
      <4>2. /\ HasTurn(e) /\ op[j].pre <= op[j].post /\ op[j].post <= turn[e].revision
            /\ e \in Attempts /\ op[j].post \in Nat
        BY <2>1, <4>1, Rest, IntentFields DEF RowShape, IInv, Performed
      <4>3. HasTurn(e)' /\ op[j].post <= turn'[e].revision
        <5>1. CASE e = last
          BY <1>4, <1>5, <1>9, <4>2, <5>1 DEF HasTurn
        <5>2. CASE e # last
          BY <1>9, <4>2, <5>2 DEF HasTurn
        <5> QED
          BY <5>1, <5>2
      <4> QED
        BY <3>1, <4>1, <4>2, <4>3 DEF HasTurn
    <3> QED
      BY <2>1, <3>1, <3>2, <3>3 DEF RowShape, Exists, Performed, HasTurn
  <2> QED
    BY <2>2, <2>3
<1>18. OneUnfinishedIntent'
  BY DEF IInv, OneUnfinishedIntent, Unfinished, Exists
<1>19. EffectAtMostOnce'
  <2>1. \A e \in Attempts : Counted(e)'
    BY <1>2, <1>4, <1>7, <1>8, OneMoreCounted
  <2>2. \A j \in Intents : intent'[j].outcome = "rejected" => ~Performed(j)'
    BY <1>17 DEF RowShape
  <2> QED
    BY <2>1, <2>2 DEF EffectAtMostOnce, Counted, Changes
<1>20. ObservationIsTrue'
  <2>1. ASSUME NEW j \in Intents, intent[j].observation # NoReceipt
        PROVE  /\ intent[j].observation.revision <= turn'[intent[j].execution].revision
               /\ intent[j].observation.revision = turn'[intent[j].execution].revision =>
                     intent[j].observation.lifecycle = turn'[intent[j].execution].lifecycle
               /\ intent[j].kind # "inspect" =>
                     /\ Performed(j)' /\ op'[j].post = intent[j].observation.revision
                     /\ op'[j].result = intent[j].observation.lifecycle
    <3>1. PICK s, e : s = intent[j].observation /\ e = intent[j].execution
      OBVIOUS
    <3>2. /\ s.revision <= turn[e].revision
          /\ s.revision = turn[e].revision => s.lifecycle = turn[e].lifecycle
          /\ intent[j].kind # "inspect" =>
                   Performed(j) /\ op[j].post = s.revision /\ op[j].result = s.lifecycle
      BY <2>1, <3>1 DEF IInv, ObservationIsTrue
    <3>3. j # i
      BY <3>2
    <3>4. s.revision \in Nat /\ e \in Attempts
      BY <2>1, <3>1, Rest, IntentFields DEF IInv, RowShape, Receipts
    <3>5. /\ s.revision <= turn'[e].revision
          /\ s.revision = turn'[e].revision => s.lifecycle = turn'[e].lifecycle
      <4>1. CASE e = last
        BY <1>4, <1>5, <1>9, <3>2, <3>4, <4>1
      <4>2. CASE e # last
        BY <1>9, <3>2, <3>4, <4>2
      <4> QED
        BY <4>1, <4>2
    <3> QED
      BY <1>10, <3>1, <3>2, <3>3, <3>5 DEF Performed
  <2> QED
    BY <2>1 DEF ObservationIsTrue
<1>21. TaskMatchesTurn'
  <2>1. UnfinishedOf(last) # {} /\ UnfinishedOf(last)' # {}
    BY <1>1, <1>2 DEF UnfinishedOf, Unfinished, Exists
  <2> QED
    BY <2>1 DEF IInv, TaskMatchesTurn
<1> QED
  BY <1>13, <1>14, <1>15, <1>16, <1>17, <1>18, <1>19, <1>20, <1>21 DEF IInv

LEMMA InvokeStep ==
    ASSUME IInv, NEW w \in Workers, InvokeEffect(w)
    PROVE  IInv'
<1> DEFINE i == worker[w].intent
<1>0. worker[w] \in WorkerRows /\ "inspect" \in Places
      /\ {"ok", "lost", "definite", "retryable"} \subseteq Notes
  BY WorkerFields DEF IInv, Places, Notes
<1>1. i \in Intents /\ Exists(i) /\ worker[w].pc = "invoke"
  BY AtWork DEF InvokeEffect
<1>2. intent[i].kind # "inspect"
  BY <1>1 DEF IInv, WorkerShape
<1>3. PICK s \in BOOLEAN : s = (intent[i].execution \in expired)
  BY TruthOf
<1>4. PICK answer \in {"ok", "lost", "definite", "retryable"} :
       /\ worker' = [worker EXCEPT ![w] = [worker[w] EXCEPT !.pc = "inspect", !.note = answer, !.sees = s]]
       /\ \/ ~Performed(i) /\ ActAuthorized(w) /\ JournalAccepts(i) /\ Perform(i)
          \/ UNCHANGED <<turn, op>>
  BY <1>3 DEF InvokeEffect
<1>5. PICK x : x = [worker[w] EXCEPT !.pc = "inspect", !.note = answer, !.sees = s]
  OBVIOUS
<1>6. x \in WorkerRows /\ x.pc = "inspect" /\ x.intent = i /\ x.note = answer
  BY <1>0, <1>5 DEF WorkerRows
<1>7. WorkerShape(x)
  BY <1>1, <1>6 DEF WorkerShape
<1>8. UNCHANGED <<task, last, exec, expired, intent, terminal>> /\ worker' = [worker EXCEPT ![w] = x]
  BY <1>4, <1>5 DEF InvokeEffect
<1>9. CASE ~Performed(i) /\ ActAuthorized(w) /\ JournalAccepts(i) /\ Perform(i)
  <2>1. intent[i].state = "executing"
    BY <1>9 DEF ActAuthorized
  <2> HIDE DEF i
  <2> QED
    BY <1>1, <1>2, <1>6, <1>7, <1>8, <1>9, <2>1, PerformStep
<1>10. CASE UNCHANGED <<turn, op>>
  <2>1. UNCHANGED store
    BY <1>8, <1>10 DEF store
  <2> QED
    BY <1>6, <1>7, <1>8, <2>1, WorkerStep
<1> QED
  BY <1>4, <1>9, <1>10
-----------------------------------------------------------------------------
(* Steps around the loop: intents, journal and processes stay.             *)

LEMMA OutsideStep ==
    ASSUME IInv, UNCHANGED <<intent, turn, op, worker>>, Typed', ExecShape', last' >= last,
           OneUnfinishedIntent', TaskMatchesTurn'
    PROVE  IInv'
<1>1. Grows
  BY DEF Grows, Exists
<1>2. \A v \in Workers : WorkerShape(worker[v])'
  <2> TAKE v \in Workers
  <2>1. PICK y : y = worker[v]
    OBVIOUS
  <2>2. WorkerShape(y)
    BY <2>1 DEF IInv
  <2> QED
    BY <1>1, <2>1, <2>2, WorkerStays DEF WorkerShape
<1>3. InOrder' /\ (\A e \in Attempts : TurnShape(turn[e])') /\ ObservationIsTrue'
  BY DEF IInv, InOrder, TurnShape, Exists, ObservationIsTrue, Performed
<1>4. \A i \in Intents : RowShape(i)'
  <2>1. \A e \in Attempts : e <= last => e <= last'
    <3>1. last \in Nat /\ last' \in Nat
      BY Bounds DEF IInv, Typed
    <3> QED
      BY <3>1, Bounds
  <2> QED
    BY <2>1 DEF IInv, RowShape, Exists, Performed, Holds, Receipt, HasTurn
<1>5. EffectAtMostOnce'
  BY DEF IInv, EffectAtMostOnce, Performed
<1> QED
  BY <1>2, <1>3, <1>4, <1>5 DEF IInv

(* Without an unfinished intent of the last execution there is none. *)
LEMMA NoUnfinished ==
    ASSUME IInv, UnfinishedOf(last) = {}, intent' = intent
    PROVE  /\ OneUnfinishedIntent' /\ \A e : UnfinishedOf(e)' = {}
<1>1. \A i \in Intents : ~Unfinished(i)
  BY DEF IInv, OneUnfinishedIntent, UnfinishedOf
<1>2. \A i \in Intents : ~Unfinished(i)'
  BY <1>1 DEF Unfinished, Exists
<1> QED
  BY <1>2 DEF OneUnfinishedIntent, UnfinishedOf

LEMMA CompletionStep ==
    ASSUME IInv, NEW o \in Owners, AcceptCompletion(o)
    PROVE  IInv'
<1>1. last \in Attempts /\ last \in Nat /\ task.revision \in Nat /\ UnfinishedOf(last) = {}
  BY TaskFields DEF IInv, AcceptCompletion
<1>2. /\ task' = [state |-> "completed", revision |-> task.revision + 1, required |-> "none"]
      /\ terminal' = [terminal EXCEPT ![last] = "completed"]
      /\ UNCHANGED <<last, exec, expired, intent, turn, op, worker>>
      /\ turn[last].lifecycle = "turn_succeeded"
  BY DEF AcceptCompletion, SucceededReceipt
<1>3. Typed'
  <2>1. task' \in TaskRows /\ ((task'.required # "none") <=> (task'.state = "waiting"))
    BY <1>1, <1>2 DEF TaskRows
  <2>2. terminal' \in [Attempts -> {"none", "completed", "cancelled"}]
    BY <1>2 DEF IInv, Typed
  <2> QED
    BY <1>2, <2>1, <2>2 DEF IInv, Typed
<1>4. ExecShape'
  BY <1>1, <1>2, Bounds DEF IInv, Typed, ExecShape
<1>5. OneUnfinishedIntent' /\ UnfinishedOf(last)' = {}
  BY <1>1, <1>2, NoUnfinished
<1>6. TaskMatchesTurn'
  BY <1>1, <1>2, <1>5 DEF TaskMatchesTurn, IInv, Typed
<1> QED
  BY <1>1, <1>2, <1>3, <1>4, <1>5, <1>6, OutsideStep

LEMMA ExpireStep ==
    ASSUME IInv, NEW e \in Attempts, Expire(e)
    PROVE  IInv'
<1>1. /\ UNCHANGED <<task, last, exec, intent, turn, op, terminal, worker>>
      /\ expired' = expired \cup {e}
  BY DEF Expire
<1>2. Typed' /\ ExecShape' /\ last' >= last
  BY <1>1, Bounds DEF IInv, Typed, ExecShape
<1>3. OneUnfinishedIntent' /\ TaskMatchesTurn'
  BY <1>1 DEF IInv, OneUnfinishedIntent, TaskMatchesTurn, UnfinishedOf, Unfinished, Exists
<1> QED
  BY <1>1, <1>2, <1>3, OutsideStep

LEMMA RenewStep ==
    ASSUME IInv, NEW o \in Owners, Renew(o)
    PROVE  IInv'
<1>0. last \in Attempts /\ exec[last] \in ExecRows /\ exec[last].revision \in Nat /\ last \in Nat
  BY TaskFields, TurnFields DEF IInv
<1>1. /\ UNCHANGED <<task, last, expired, intent, turn, op, terminal, worker>>
      /\ exec' = [exec EXCEPT ![last].revision = exec[last].revision + 1]
  BY DEF Renew
<1>2. PICK x : x = [exec[last] EXCEPT !.revision = exec[last].revision + 1]
  OBVIOUS
<1>3. x \in ExecRows /\ x.status = exec[last].status
  <2>1. PICK n \in Nat : n = exec[last].revision + 1
    BY <1>0
  <2> QED
    BY <1>0, <1>2, <2>1 DEF ExecRows
<1>4. exec' = [exec EXCEPT ![last] = x] /\ exec \in [Attempts -> ExecRows]
  BY <1>1, <1>2 DEF IInv, Typed
<1>5. Typed' /\ ExecShape' /\ last' >= last
  <2>1. /\ exec' \in [Attempts -> ExecRows] /\ exec'[last].status = "active"
        /\ \A e \in Attempts : e > last => exec'[e] = exec[e]
    BY <1>0, <1>3, <1>4, Bounds DEF IInv, ExecShape
  <2> QED
    BY <1>0, <1>1, <2>1 DEF IInv, Typed, ExecShape
<1>6. OneUnfinishedIntent' /\ TaskMatchesTurn'
  BY <1>1 DEF IInv, OneUnfinishedIntent, TaskMatchesTurn, UnfinishedOf, Unfinished, Exists
<1> QED
  BY <1>1, <1>5, <1>6, OutsideStep

LEMMA TakeoverStep ==
    ASSUME IInv, NEW o \in Owners, Takeover(o)
    PROVE  IInv'
<1>0. last \in Attempts /\ last \in Nat /\ last + 1 \in Attempts /\ task.revision \in Nat
      /\ UnfinishedOf(last) = {} /\ task.state = "running"
  BY TaskFields DEF IInv, Takeover, EffectFree
<1>1. UNCHANGED <<task, expired, intent, turn, op, terminal, worker>> /\ last' = last + 1
  BY DEF Takeover
<1>2. /\ exec' \in [Attempts -> ExecRows] /\ exec'[last + 1].status = "active"
      /\ \A d \in Attempts : d # last /\ d # last + 1 => exec'[d] = exec[d]
  BY <1>0, Superseded DEF Takeover
<1>3. Typed' /\ last' >= last
  BY <1>0, <1>1, <1>2 DEF IInv, Typed
<1>4. ExecShape'
  BY <1>0, <1>1, <1>2, Bounds DEF IInv, ExecShape
<1>5. OneUnfinishedIntent'
  BY <1>0, <1>1, NoUnfinished
<1>6. turn'[last'].lifecycle = "absent"
  BY <1>0, <1>1, Rest DEF IInv, ExecShape
<1>7. TaskMatchesTurn'
  BY <1>0, <1>1, <1>6 DEF TaskMatchesTurn
<1> QED
  BY <1>1, <1>3, <1>4, <1>5, <1>7, OutsideStep

LEMMA UpdateStep ==
    ASSUME IInv, UpdateTaskBody
    PROVE  IInv'
<1>0. task \in TaskRows /\ task.revision \in Nat /\ last \in Nat
  BY TaskFields DEF IInv, Typed
<1>1. /\ UNCHANGED <<last, exec, expired, intent, turn, op, terminal, worker>>
      /\ task' = [task EXCEPT !.revision = task.revision + 1]
  BY DEF UpdateTaskBody
<1>2. task' \in TaskRows /\ task'.state = task.state /\ task'.required = task.required
  <2>1. PICK n \in Nat : n = task.revision + 1
    BY <1>0
  <2> QED
    BY <1>0, <1>1, <2>1 DEF TaskRows
<1>3. Typed' /\ ExecShape' /\ last' >= last
  BY <1>0, <1>1, <1>2 DEF IInv, Typed, ExecShape
<1>4. OneUnfinishedIntent' /\ TaskMatchesTurn'
  BY <1>1, <1>2 DEF IInv, OneUnfinishedIntent, TaskMatchesTurn, UnfinishedOf, Unfinished, Exists
<1> QED
  BY <1>1, <1>3, <1>4, OutsideStep
-----------------------------------------------------------------------------
(* Every step.                                                             *)

LEMMA NextInv == IInv /\ [Next]_vars => IInv'
<1> SUFFICES ASSUME IInv, [Next]_vars PROVE IInv'
  OBVIOUS
<1>1. ASSUME NEW o \in Owners,
             \/ PrepareStart(o) \/ PrepareCancel(o) \/ PrepareResume(o)
             \/ AcceptCompletion(o) \/ Renew(o) \/ Takeover(o)
      PROVE  IInv'
  BY <1>1, PrepareSteps, ResumeStep, CompletionStep, RenewStep, TakeoverStep
<1>2. ASSUME NEW o \in Owners, NEW r \in Reports, PrepareReport(o, r)
      PROVE  IInv'
  BY <1>2, PrepareSteps
<1>3. ASSUME NEW o \in Owners, NEW l \in BOOLEAN, PrepareInspect(o, l)
      PROVE  IInv'
  BY <1>3, PrepareSteps
<1>4. ASSUME NEW o \in Owners, NEW k \in {"resume", "retry"}, PrepareSuccessor(o, k)
      PROVE  IInv'
  BY <1>4, SuccessorStep
<1>5. ASSUME NEW w \in Workers, NEW i \in Intents, NEW o \in Owners,
             \/ Enter(w, i, o) \/ Reconcile(w, i, o) \/ ReconcileExpiredStart(w, i, o)
             \/ DispatcherContinue(w, i, o)
      PROVE  IInv'
  <2>1. Enter(w, i, o) \/ Reconcile(w, i, o) \/ ReconcileExpiredStart(w, i, o)
    BY <1>5 DEF DispatcherContinue
  <2> QED
    BY <2>1, EnterStep
<1>6. ASSUME NEW w \in Workers, Step(w) \/ Stop(w)
      PROVE  IInv'
  BY <1>6, StopStep, MarkStep, ReconMarkStep, RecoveryStep, RebindStep, InvokeStep, InspectStep,
     ObserveStep, VerifyStep, FinalizeVerifiedStep, FailureStep, FinalizeFailureStep,
     FinalizeNoEffectStep DEF Step
<1>7. ASSUME NEW e \in Attempts, Expire(e)
      PROVE  IInv'
  BY <1>7, ExpireStep
<1>8. CASE UpdateTaskBody
  BY <1>8, UpdateStep
<1>9. CASE UNCHANGED vars
  <2> USE <1>9 DEF vars
  <2>1. Typed' /\ ExecShape' /\ last' >= last
    BY TaskFields DEF IInv, Typed, ExecShape
  <2>2. OneUnfinishedIntent' /\ TaskMatchesTurn'
    BY DEF IInv, OneUnfinishedIntent, TaskMatchesTurn, UnfinishedOf, Unfinished, Exists
  <2> QED
    BY <2>1, <2>2, OutsideStep
<1> QED
  BY <1>1, <1>2, <1>3, <1>4, <1>5, <1>6, <1>7, <1>8, <1>9 DEF Next

(* The inductive invariant of the loop: it holds initially (nothing was    *)
(* prepared) and every transaction, call and crash keeps it.               *)
THEOREM LoopInvariant == Spec => []IInv
<1>1. Init => IInv
  BY InitInv
<1>2. IInv /\ [Next]_vars => IInv'
  BY NextInv
<1> QED
  BY <1>1, <1>2, PTL DEF Spec

(* Every row and every process keeps its shape. *)
THEOREM LoopTypeOK == Spec => []TypeOK
<1>1. IInv => TypeOK
  <2> SUFFICES ASSUME IInv PROVE TypeOK
    OBVIOUS
  <2>1. \A w \in Workers : worker[w].intent \in {0} \cup Intents
    BY WorkerFields DEF IInv
  <2> QED
    BY <2>1 DEF IInv, Typed, TypeOK, TaskRows, ExecRows, IntentRows, TurnRows, OpRows, Kinds,
                IntentStates, Lifecycles
<1> QED
  BY <1>1, LoopInvariant, PTL

(* Only the current, not yet terminal execution has an unfinished intent,  *)
(* and it has one: the guard of prepareOperation, of succession, takeover  *)
(* and completion together keep it so for any number of processes.         *)
THEOREM LoopOneUnfinished == Spec => []OneUnfinishedIntent
<1>1. IInv => OneUnfinishedIntent
  BY DEF IInv
<1> QED
  BY <1>1, LoopInvariant, PTL

(* However often an intent is retried, by however many processes, its      *)
(* effect is in the Manual journal at most once.                           *)
THEOREM LoopEffectAtMostOnce == Spec => []EffectAtMostOnce
<1>1. IInv => EffectAtMostOnce
  BY DEF IInv
<1> QED
  BY <1>1, LoopInvariant, PTL

(* What persistObservation recorded is what the intent's own operation     *)
(* left in the journal.                                                    *)
THEOREM LoopObservationIsTrue == Spec => []ObservationIsTrue
<1>1. IInv => ObservationIsTrue
  BY DEF IInv
<1> QED
  BY <1>1, LoopInvariant, PTL

(* The Task is where the turn of its execution took it. *)
THEOREM LoopTaskMatchesTurn == Spec => []TaskMatchesTurn
<1>1. IInv => TaskMatchesTurn
  BY DEF IInv
<1> QED
  BY <1>1, LoopInvariant, PTL
-----------------------------------------------------------------------------
(* Superseded executions.                                                  *)

(* A step changes the turn of the last execution only, attempts from the   *)
(* last on only, and nothing of a finalized intent.                        *)
Freezes ==
    /\ \A e \in Attempts : e < last => exec'[e] = exec[e] /\ turn'[e] = turn[e]
    /\ \A i \in Intents : intent[i].state = "finalized" => intent'[i] = intent[i] /\ op'[i] = op[i]

LEMMA InsertFreezes ==
    ASSUME IInv, NEW k, NEW e, NEW source, NEW tr, NEW er, NEW report,
           Insert(k, e, source, tr, er, report)
    PROVE  \A j \in Intents : intent[j].state = "finalized" => intent'[j] = intent[j]
<1>1. PICK n \in 0..MaxIntents : \A j \in Intents : Exists(j) <=> j <= n
  BY DEF IInv, InOrder
<1>2. n \in Nat /\ {j \in Intents : Exists(j)} = 1..n
  BY <1>1, Bounds DEF Intents
<1>3. Cardinality(1..n) = n
  BY <1>2, FS_Interval
<1>4. PICK r : intent' = [intent EXCEPT ![n + 1] = r]
  BY <1>2, <1>3 DEF Insert
<1>5. \A j \in Intents : j # n + 1 => intent'[j] = intent[j]
  BY <1>4 DEF IInv, Typed
<1>6. \A j \in Intents : intent[j].state = "finalized" => j # n + 1
  BY <1>1, <1>2 DEF Exists
<1> QED
  BY <1>5, <1>6

LEMMA PrepareFreezes ==
    ASSUME IInv, NEW k, NEW e, NEW source, NEW tr, NEW er, NEW report,
           Insert(k, e, source, tr, er, report), UNCHANGED <<turn, op>>,
           \A d \in Attempts : d < last => exec'[d] = exec[d]
    PROVE  Freezes
<1>1. \A j \in Intents : intent[j].state = "finalized" => intent'[j] = intent[j]
  BY InsertFreezes
<1> QED
  BY <1>1 DEF Freezes

LEMMA OldAttempts ==
    ASSUME IInv, NEW o \in Owners, (\E k \in {"resume", "retry"} : PrepareSuccessor(o, k)) \/ Takeover(o)
    PROVE  \A d \in Attempts : d < last => exec'[d] = exec[d]
<1>0. last \in Nat /\ task.revision \in Nat /\ Attempts \subseteq Nat
  BY TaskFields, Bounds DEF IInv
<1>1. PICK x, y : exec' = [exec EXCEPT ![last] = x, ![last + 1] = y]
  BY DEF PrepareSuccessor, Takeover
<1>2. \A d \in Attempts : d # last /\ d # last + 1 => exec'[d] = exec[d]
  BY <1>1 DEF IInv, Typed
<1>3. \A d \in Attempts : d < last => d # last /\ d # last + 1
  BY <1>0
<1> QED
  BY <1>2, <1>3

(* The step of a process: the intent it changes is not finalized, and the  *)
(* operation it performs is of an executing one.                           *)
LEMMA StepFreezes ==
    ASSUME IInv, NEW w \in Workers, Step(w)
    PROVE  Freezes
<1> DEFINE i == worker[w].intent
<1>0. intent \in [Intents -> IntentRows] /\ op \in [Intents -> OpRows] /\ turn \in [Attempts -> TurnRows]
  BY DEF IInv, Typed
<1>1. CASE RecoveryInspect(w) \/ InspectAfterEffect(w)
  BY <1>1 DEF RecoveryInspect, InspectAfterEffect, store, Freezes
<1>2. CASE MarkExecuting(w) \/ MarkReconciliationExecuting(w) \/ Rebind(w)
  <2>1. /\ UNCHANGED <<exec, turn>> /\ intent[i].state # "finalized"
        /\ \E h : BindAct(i, h)
    BY <1>2 DEF MarkExecuting, MarkReconciliationExecuting, Rebind
  <2>2. \A j \in Intents : j # i => intent'[j] = intent[j] /\ op'[j] = op[j]
    BY <1>0, <2>1 DEF BindAct
  <2> QED
    BY <2>1, <2>2 DEF Freezes
<1>3. CASE PersistObservation(w) \/ VerifyObservation(w) \/ MarkAdapterFailure(w)
  <2>1. UNCHANGED <<exec, turn, op>> /\ intent[i].state # "finalized"
    BY <1>3 DEF PersistObservation, VerifyObservation, MarkAdapterFailure
  <2>2. \A j \in Intents : j # i => intent'[j] = intent[j]
    BY <1>0, <1>3 DEF PersistObservation, VerifyObservation, MarkAdapterFailure
  <2> QED
    BY <2>1, <2>2 DEF Freezes
<1>4. CASE FinalizeVerified(w) \/ FinalizeAdapterFailure(w) \/ FinalizeProvenNoEffect(w)
  <2>1. UNCHANGED <<exec, turn, op>> /\ intent[i].state # "finalized"
    BY <1>4 DEF FinalizeVerified, FinalizeAdapterFailure, FinalizeProvenNoEffect
  <2>2. \E r : intent' = [intent EXCEPT ![i] = r]
    BY <1>4 DEF FinalizeVerified, FinalizeAdapterFailure, FinalizeProvenNoEffect
  <2>3. \A j \in Intents : j # i => intent'[j] = intent[j]
    BY <1>0, <2>2
  <2> QED
    BY <2>1, <2>3 DEF Freezes
<1>5. CASE InvokeEffect(w)
  <2>1. UNCHANGED <<exec, intent>> /\ (UNCHANGED <<turn, op>> \/ (ActAuthorized(w) /\ Perform(i)))
    BY <1>5 DEF InvokeEffect
  <2>2. CASE UNCHANGED <<turn, op>>
    BY <2>1, <2>2 DEF Freezes
  <2>3. CASE ActAuthorized(w) /\ Perform(i)
    <3>1. i \in Intents
      BY <1>5, AtWork DEF InvokeEffect
    <3>2. intent[i].state = "executing" /\ intent[i].execution = last
      BY <2>3, <3>1, CurrentIntent DEF ActAuthorized, Unfinished, Exists
    <3>3. /\ \A e \in Attempts : e # last => turn'[e] = turn[e]
          /\ \A j \in Intents : j # i => op'[j] = op[j]
      BY <1>0, <2>3, <3>2 DEF Perform
    <3>4. last \in Nat
      BY TaskFields DEF IInv
    <3> QED
      BY <2>1, <3>2, <3>3, <3>4, Bounds DEF Freezes
  <2> QED
    BY <2>1, <2>2, <2>3
<1> QED
  BY <1>1, <1>2, <1>3, <1>4, <1>5 DEF Step

LEMMA NextFreezes ==
    ASSUME IInv, [Next]_vars
    PROVE  Freezes
<1>1. ASSUME NEW o \in Owners, PrepareStart(o) \/ PrepareCancel(o)
      PROVE  Freezes
  BY <1>1, PrepareFreezes DEF PrepareStart, PrepareCancel, Prepare
<1>2. ASSUME NEW o \in Owners, NEW r \in Reports, PrepareReport(o, r)
      PROVE  Freezes
  BY <1>2, PrepareFreezes DEF PrepareReport, Prepare
<1>3. ASSUME NEW o \in Owners, NEW l \in BOOLEAN, PrepareInspect(o, l)
      PROVE  Freezes
  BY <1>3, PrepareFreezes DEF PrepareInspect, Prepare
<1>4. ASSUME NEW o \in Owners, PrepareResume(o)
      PROVE  Freezes
  BY <1>4, PrepareFreezes DEF PrepareResume
<1>5. ASSUME NEW o \in Owners, NEW k \in {"resume", "retry"}, PrepareSuccessor(o, k)
      PROVE  Freezes
  <2>1. \A d \in Attempts : d < last => exec'[d] = exec[d]
    BY <1>5, OldAttempts
  <2> QED
    BY <1>5, <2>1, PrepareFreezes DEF PrepareSuccessor
<1>6. ASSUME NEW o \in Owners, Takeover(o)
      PROVE  Freezes
  <2>1. \A d \in Attempts : d < last => exec'[d] = exec[d]
    BY <1>6, OldAttempts
  <2> QED
    BY <1>6, <2>1 DEF Takeover, Freezes
<1>7. ASSUME NEW o \in Owners, Renew(o)
      PROVE  Freezes
  <2>1. \A d \in Attempts : d # last => exec'[d] = exec[d]
    BY <1>7 DEF Renew, IInv, Typed
  <2>2. last \in Nat
    BY TaskFields DEF IInv
  <2> QED
    BY <1>7, <2>1, <2>2, Bounds DEF Renew, Freezes
<1>8. ASSUME NEW o \in Owners, AcceptCompletion(o)
      PROVE  Freezes
  BY <1>8 DEF AcceptCompletion, Freezes
<1>9. ASSUME NEW w \in Workers, NEW i \in Intents, NEW o \in Owners,
             \/ Enter(w, i, o) \/ Reconcile(w, i, o) \/ ReconcileExpiredStart(w, i, o)
             \/ DispatcherContinue(w, i, o)
      PROVE  Freezes
  BY <1>9 DEF DispatcherContinue, Enter, Reconcile, ReconcileExpiredStart, store, Freezes
<1>10. ASSUME NEW w \in Workers, Step(w) \/ Stop(w)
       PROVE  Freezes
  BY <1>10, StepFreezes DEF Stop, store, Freezes
<1>11. CASE (\E e \in Attempts : Expire(e)) \/ UpdateTaskBody \/ UNCHANGED vars
  BY <1>11 DEF Expire, UpdateTaskBody, vars, Freezes
<1> QED
  BY <1>1, <1>2, <1>3, <1>4, <1>5, <1>6, <1>7, <1>8, <1>9, <1>10, <1>11 DEF Next

(* A superseded execution is history: its attempt, its turn, its intents   *)
(* and their journal operations stay as they are, whichever processes      *)
(* still work for it.                                                      *)
THEOREM LoopSupersededIsFrozen == Spec => SupersededIsFrozen
<1>1. IInv /\ [Next]_vars =>
         [\A e \in Attempts :
             exec[e].status = "superseded" =>
               /\ exec'[e] = exec[e] /\ turn'[e] = turn[e]
               /\ \A i \in Intents : intent[i].execution = e =>
                     intent'[i] = intent[i] /\ op'[i] = op[i]]_vars
  <2> SUFFICES ASSUME IInv, [Next]_vars, NEW e \in Attempts, exec[e].status = "superseded"
               PROVE  /\ exec'[e] = exec[e] /\ turn'[e] = turn[e]
                      /\ \A i \in Intents : intent[i].execution = e =>
                            intent'[i] = intent[i] /\ op'[i] = op[i]
    OBVIOUS
  <2>1. e < last
    <3>1. e \in Nat /\ last \in Nat
      BY Bounds, TaskFields DEF IInv
    <3>2. e # last /\ ~(e > last)
      BY DEF IInv, ExecShape
    <3> QED
      BY <3>1, <3>2
  <2>2. ASSUME NEW i \in Intents, intent[i].execution = e
        PROVE  intent[i].state = "finalized"
    <3>1. Exists(i)
      BY <2>2, Rest, Bounds DEF IInv, RowShape
    <3>2. last \in Nat /\ e # last
      BY <2>1, Bounds, TaskFields DEF IInv
    <3>3. ~Unfinished(i)
      BY <2>2, <3>2 DEF IInv, OneUnfinishedIntent
    <3> QED
      BY <3>1, <3>3 DEF Unfinished
  <2>3. Freezes
    BY NextFreezes
  <2> QED
    BY <2>1, <2>2, <2>3 DEF Freezes
<1> QED
  BY <1>1, LoopInvariant, PTL DEF Spec, SupersededIsFrozen
=============================================================================
