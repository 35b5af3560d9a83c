------------------------ MODULE DispatcherRunProofs ------------------------
(***************************************************************************)
(* Proofs about DispatcherRun for any number of workers, Tasks, triggers,  *)
(* runs and lease expiries: types, that nothing is dispatched twice, that  *)
(* a run that has ended accounts for everything, that only its owner       *)
(* advances a run, and that stale runs come first.                         *)
(*                                                                         *)
(* The stack of continueRun calls carries the argument for stale runs: of  *)
(* every run in the inventory that a call has read, either it has ended,   *)
(* or the call holds it as bad, or it is still to be resolved, or the next *)
(* call on the stack is resolving it.  When the inventory is committed     *)
(* nothing is left to be resolved and there is no next call.               *)
(***************************************************************************)
EXTENDS DispatcherRun, SequenceTheorems, FiniteSetTheorems, TLAPS

Statuses == {"absent"} \cup ActiveStatuses \cup TerminalStatuses
RunRows ==
    [status : Statuses, key : Keys \cup Slots \cup {Nobody}, owner : Workers \cup {Nobody},
     work : SUBSET Tasks, stale : SUBSET Runs, recovered : SUBSET Runs,
     reconciled : BOOLEAN, badRuns : SUBSET Runs, badWork : BOOLEAN,
     member : [Tasks -> {"none", "pending"} \cup Outcomes], changed : SUBSET Tasks]
TaskRows ==
    [state : {"planned", "ready", "running"}, start : {"none", "pending", "finalized"},
     by : {0} \cup Runs]
Places ==
    {"refused", "takeover", "begin", "inventory", "reconcile", "resource", "commit", "seal",
     "members", "sweep", "claim", "claimed", "start", "finalize"}
Frames ==
    [run : Runs, pc : Places, sawExpired : BOOLEAN, inventory : SUBSET Runs,
     work : SUBSET Tasks, runs : SUBSET Runs, badRuns : SUBSET Runs, badWork : BOOLEAN,
     sweep : SUBSET Tasks, unresolved : SUBSET Tasks, at : Tasks \cup {Nobody}]

Typed ==
    /\ run \in [Runs -> RunRows] /\ task \in [Tasks -> TaskRows]
    /\ expired \subseteq Runs /\ denied \subseteq Keys /\ expiries \in 0..MaxExpiries
    /\ worker \in [Workers -> Seq(Frames)]

(* Runs are created in order. *)
InOrder == \E n \in 0..MaxRuns : \A r \in Runs : Exists(r) <=> r <= n

Ended(r) == run[r].status \in TerminalStatuses

(* A run that is not sealed has no members; a sealed one has reconciled,   *)
(* and what it found stale has ended or is held as bad.                    *)
RunShape(r) ==
    /\ ~Sealed(r) => \A t \in Tasks : run[r].member[t] = "none"
    /\ Sealed(r) => run[r].reconciled
    /\ \A s \in Inventory(r) : Exists(s)
    /\ run[r].reconciled => \A s \in run[r].stale : Ended(s) \/ s \in run[r].badRuns

(* What nobody has claimed was claimed by no run. *)
TaskShape(t) == task[t].state # "running" => task[t].by = 0

(* The inventory of the i-th call on the stack st is accounted for. *)
Accounted(st, i) ==
    /\ \A s \in st[i].inventory :
          /\ Exists(s)
          /\ \/ Ended(s) \/ s \in st[i].badRuns \/ s \in st[i].runs
             \/ i < Len(st) /\ st[i + 1].run = s
    /\ st[i].pc = "commit" => st[i].runs = {}
    /\ st[i].runs \subseteq st[i].inventory

StackShape(st) == \A i \in 1..Len(st) : Exists(st[i].run) /\ Accounted(st, i)

IInv ==
    /\ Typed /\ InOrder
    /\ \A r \in Runs : RunShape(r)
    /\ \A t \in Tasks : TaskShape(t)
    /\ \A w \in Workers : StackShape(worker[w])
    /\ DispatchedOnce /\ TerminalRunIsAccounted
-----------------------------------------------------------------------------
(* The rows.                                                               *)

LEMMA RunsNat == Runs \subseteq Nat \ {0} /\ MaxRuns \in Nat
  BY RunsAssumption DEF Runs

LEMMA RunFields ==
    ASSUME NEW x \in RunRows
    PROVE  /\ x.status \in Statuses /\ x.key \in Keys \cup Slots \cup {Nobody}
           /\ x.owner \in Workers \cup {Nobody} /\ x.stale \subseteq Runs /\ x.recovered \subseteq Runs
           /\ x.reconciled \in BOOLEAN /\ x.badRuns \subseteq Runs /\ x.badWork \in BOOLEAN
           /\ x.member \in [Tasks -> {"none", "pending"} \cup Outcomes]
           /\ x.changed \subseteq Tasks /\ x.work \subseteq Tasks
  BY DEF RunRows

LEMMA FrameFields ==
    ASSUME NEW f \in Frames
    PROVE  /\ f.run \in Runs /\ f.pc \in Places /\ f.sawExpired \in BOOLEAN /\ f.inventory \subseteq Runs
           /\ f.work \subseteq Tasks /\ f.runs \subseteq Runs /\ f.badRuns \subseteq Runs
           /\ f.badWork \in BOOLEAN /\ f.sweep \subseteq Tasks /\ f.unresolved \subseteq Tasks
           /\ f.at \in Tasks \cup {Nobody}
  BY DEF Frames

LEMMA NewFrame ==
    ASSUME NEW r \in Runs
    PROVE  /\ Frame(r) \in Frames /\ Frame(r).run = r /\ Frame(r).pc = "refused"
           /\ Frame(r).inventory = {} /\ Frame(r).runs = {}
  BY DEF Frame, Frames, Places

LEMMA NoRunRow ==
    /\ NoRun \in RunRows /\ NoRun.status = "absent" /\ NoRun.stale = {} /\ NoRun.recovered = {}
    /\ NoRun.reconciled = FALSE /\ \A t \in Tasks : NoRun.member[t] = "none"
<1>1. NoRun.member \in [Tasks -> {"none", "pending"} \cup Outcomes]
  BY DEF NoRun
<1> QED
  BY <1>1 DEF NoRun, RunRows, Statuses

(* Initially there is no run. *)
LEMMA InitInv == Init => IInv
<1> SUFFICES ASSUME Init PROVE IInv
  OBVIOUS
<1>1. /\ \A r \in Runs : run[r] = NoRun
      /\ \A w \in Workers : worker[w] = <<>>
      /\ run \in [Runs -> RunRows] /\ worker \in [Workers -> Seq(Frames)]
  BY NoRunRow DEF Init
<1>2. task \in [Tasks -> TaskRows] /\ \A t \in Tasks : task[t].by = 0
  BY DEF Init, TaskRows
<1>3. Typed
  BY <1>1, <1>2, RunsAssumption DEF Init, Typed
<1>4. \A r \in Runs : ~Exists(r) /\ ~Sealed(r) /\ ~Ended(r) /\ Inventory(r) = {}
  BY <1>1, NoRunRow DEF Exists, Sealed, Ended, Inventory, TerminalStatuses
<1>5. InOrder
  BY <1>4, RunsNat DEF InOrder
<1>6. \A r \in Runs : RunShape(r)
  BY <1>1, <1>4, NoRunRow DEF RunShape
<1>7. \A t \in Tasks : TaskShape(t)
  BY <1>2 DEF TaskShape
<1>8. \A w \in Workers : StackShape(worker[w])
  BY <1>1 DEF StackShape
<1>9. DispatchedOnce
  BY <1>1, <1>2, <1>4, NoRunRow, RunsNat DEF DispatchedOnce
<1>10. TerminalRunIsAccounted
  BY <1>4 DEF TerminalRunIsAccounted, Ended
<1> QED
  BY <1>3, <1>5, <1>6, <1>7, <1>8, <1>9, <1>10 DEF IInv
-----------------------------------------------------------------------------
(* What the calls of the workers may rely on.                              *)

(* No run disappears, and none that has ended starts again. *)
RunsGrow ==
    \A r \in Runs : (Exists(r) => Exists(r)') /\ (Ended(r) => Ended(r)')

(* Frame f at the top of a stack. *)
TopShape(f) ==
    /\ Exists(f.run)
    /\ \A s \in f.inventory : Exists(s) /\ (Ended(s) \/ s \in f.badRuns \/ s \in f.runs)
    /\ f.pc = "commit" => f.runs = {}
    /\ f.runs \subseteq f.inventory

(* A frame that accounts for no more than g did. *)
Like(g, h) ==
    /\ h.run = g.run
    /\ \/ h.inventory = {} /\ h.runs = {}
       \/ /\ h.inventory = g.inventory /\ h.badRuns = g.badRuns /\ h.runs = g.runs
          /\ h.pc = "commit" => g.pc = "commit"

LEMMA StackFacts ==
    ASSUME IInv, NEW w \in Workers, ~Idle(w)
    PROVE  /\ worker[w] \in Seq(Frames) /\ Len(worker[w]) \in Nat \ {0}
           /\ DOMAIN worker[w] = 1..Len(worker[w])
           /\ Top(w) \in Frames /\ Top(w) = worker[w][Len(worker[w])] /\ TopShape(Top(w))
<1>1. worker[w] \in Seq(Frames) /\ worker[w] # <<>> /\ StackShape(worker[w])
  BY DEF IInv, Typed, Idle
<1>2. Len(worker[w]) \in Nat \ {0} /\ DOMAIN worker[w] = 1..Len(worker[w])
  BY <1>1, EmptySeq, LenProperties
<1>3. Len(worker[w]) \in 1..Len(worker[w])
  BY <1>2
<1>4. Top(w) \in Frames
  BY <1>1, <1>3, ElementOfSeq DEF Top
<1>5. TopShape(Top(w))
  BY <1>1, <1>2, <1>3 DEF StackShape, Accounted, TopShape, Top
<1> QED
  BY <1>1, <1>2, <1>4, <1>5 DEF Top

(* A stack whose calls stay below a new top. *)
LEMMA StackStays ==
    ASSUME Typed, RunsGrow, NEW st \in Seq(Frames), StackShape(st), NEW new \in Seq(Frames), Len(new) = Len(st),
           \A i \in 1..Len(st) :
              Like(st[i], new[i]) \/ (i = Len(st) /\ new[i].run = st[i].run /\ TopShape(new[i])')
    PROVE  StackShape(new)'
<1>0. Len(st) \in Nat
  BY LenProperties
<1>1. SUFFICES ASSUME NEW i \in 1..Len(st)
               PROVE  Exists(new[i].run)' /\ Accounted(new, i)'
  BY DEF StackShape
<1>2. Exists(st[i].run) /\ Accounted(st, i)
  BY DEF StackShape
<1>3. st[i] \in Frames /\ new[i] \in Frames /\ i \in Nat
  BY ElementOfSeq
<1>4. i < Len(st) => new[i + 1].run = st[i + 1].run
  <2>1. i < Len(st) => i + 1 \in 1..Len(st)
    BY <1>0
  <2> QED
    BY <2>1 DEF Like
<1>5. CASE Like(st[i], new[i])
  <2>1. Exists(new[i].run)'
    BY <1>2, <1>3, <1>5, FrameFields DEF Like, RunsGrow
  <2>2. \A s \in st[i].inventory : s \in Runs
    BY <1>3, FrameFields
  <2> QED
    BY <1>2, <1>4, <1>5, <2>1, <2>2 DEF Like, Accounted, RunsGrow
<1>6. CASE new[i].run = st[i].run /\ TopShape(new[i])'
  BY <1>6 DEF TopShape, Accounted
<1> QED
  BY <1>5, <1>6

LEMMA SequenceOf ==
    ASSUME NEW S, NEW n \in Nat, NEW s \in [1..n -> S]
    PROVE  s \in Seq(S) /\ Len(s) = n
<1>1. s \in Seq(S)
  BY SeqDef
<1>2. DOMAIN s = 1..n /\ DOMAIN s = 1..Len(s) /\ Len(s) \in Nat
  BY <1>1, LenProperties
<1> QED
  BY <1>1, <1>2

(* The state part of a step: the top call of worker w becomes f. *)
LEMMA GotoStacks ==
    ASSUME IInv, RunsGrow, NEW w \in Workers, ~Idle(w), NEW f \in Frames, NEW advanced,
           Goto(w, f, advanced), f.run = Top(w).run, TopShape(f)'
    PROVE  /\ worker' \in [Workers -> Seq(Frames)]
           /\ \A v \in Workers : StackShape(worker[v])'
           /\ worker'[w] # worker[w] \/ f.pc = Top(w).pc
<1> DEFINE n == Len(worker[w])
<1>0. /\ Typed /\ worker[w] \in Seq(Frames) /\ n \in Nat \ {0} /\ Top(w) \in Frames /\ Top(w) = worker[w][n]
  BY StackFacts DEF IInv
<1>1. ASSUME NEW v \in Workers, v # w
      PROVE  worker'[v] \in Seq(Frames) /\ StackShape(worker[v])'
  <2>1. PICK st : st = worker[v]
    OBVIOUS
  <2>2. st \in Seq(Frames) /\ StackShape(st) /\ Len(st) \in Nat
    BY <2>1, LenProperties DEF IInv, Typed
  <2>3. PICK new : new = worker'[v]
    OBVIOUS
  <2>4. new = [i \in 1..Len(st) |->
                 IF advanced /\ st[i].run = f.run /\ st[i].pc \in Fenced THEN Frame(st[i].run) ELSE st[i]]
    BY <1>1, <2>1, <2>3 DEF Goto
  <2>5. \A i \in 1..Len(st) : new[i] \in Frames /\ Like(st[i], new[i])
    <3> TAKE i \in 1..Len(st)
    <3>1. st[i] \in Frames /\ st[i].run \in Runs
      BY <2>2, ElementOfSeq, FrameFields
    <3>2. new[i] = Frame(st[i].run) \/ new[i] = st[i]
      BY <2>4
    <3> QED
      BY <3>1, <3>2, NewFrame DEF Like
  <2>6. new \in [1..Len(st) -> Frames]
    BY <2>4, <2>5
  <2>7. new \in Seq(Frames) /\ Len(new) = Len(st)
    BY <2>2, <2>6, SequenceOf
  <2>8. StackShape(new)'
    BY <1>0, <2>2, <2>5, <2>7, StackStays
  <2> QED
    BY <2>3, <2>7, <2>8 DEF StackShape, Accounted
<1>2. /\ worker'[w] \in Seq(Frames) /\ StackShape(worker[w])' /\ Len(worker'[w]) = n
      /\ worker'[w][n].pc = f.pc
  <2>1. PICK st : st = worker[w]
    OBVIOUS
  <2>2. st \in Seq(Frames) /\ StackShape(st) /\ Len(st) \in Nat /\ n = Len(st)
    BY <2>1, LenProperties DEF IInv, Typed
  <2>3. PICK new : new = worker'[w]
    OBVIOUS
  <2>4. new = [i \in 1..Len(st) |->
                 LET g == IF i = Len(st) THEN f ELSE st[i]
                 IN [g EXCEPT !.sawExpired = g.pc \in Timed /\ g.run \in expired']]
    BY <2>1, <2>3 DEF Goto
  <2>5. ASSUME NEW i \in 1..Len(st)
        PROVE  /\ new[i] \in Frames
               /\ i = Len(st) => new[i].pc = f.pc
               /\ Like(st[i], new[i]) \/ (i = Len(st) /\ new[i].run = st[i].run /\ TopShape(new[i])')
    <3>1. PICK g : g = IF i = Len(st) THEN f ELSE st[i]
      OBVIOUS
    <3>2. g \in Frames
      BY <2>2, <3>1, ElementOfSeq
    <3>3. PICK b \in BOOLEAN : b = (g.pc \in Timed /\ g.run \in expired')
      OBVIOUS
    <3>4. PICK h : h = [g EXCEPT !.sawExpired = b]
      OBVIOUS
    <3>5. new[i] = h
      BY <2>4, <3>1, <3>3, <3>4
    <3>6. /\ h \in Frames /\ h.run = g.run /\ h.pc = g.pc /\ h.inventory = g.inventory
          /\ h.runs = g.runs /\ h.badRuns = g.badRuns
      BY <3>2, <3>4 DEF Frames
    <3>7. CASE i = Len(st)
      <4>1. g = f
        BY <3>1, <3>7
      <4>2. TopShape(h)'
        BY <3>6, <4>1 DEF TopShape
      <4>3. h.run = st[i].run
        BY <1>0, <2>1, <2>2, <3>6, <3>7, <4>1
      <4>4. TopShape(new[i])'
        BY <3>5, <4>2
      <4> QED
        BY <3>5, <3>6, <3>7, <4>1, <4>3, <4>4
    <3>8. CASE i # Len(st)
      BY <3>1, <3>5, <3>6, <3>8 DEF Like
    <3> QED
      BY <3>7, <3>8
  <2>6. new \in [1..Len(st) -> Frames]
    <3>1. \A i \in 1..Len(st) : new[i] \in Frames
      BY <2>5
    <3>2. new = [i \in 1..Len(st) |-> new[i]]
      BY <2>4
    <3> QED
      BY <3>1, <3>2
  <2>7. new \in Seq(Frames) /\ Len(new) = Len(st)
    BY <2>2, <2>6, SequenceOf
  <2>8. StackShape(new)'
    BY <1>0, <2>2, <2>5, <2>7, StackStays
  <2>9. new[n].pc = f.pc
    <3>1. Len(st) \in 1..Len(st)
      BY <1>0, <2>2
    <3>2. new[Len(st)].pc = f.pc
      BY <2>5, <3>1
    <3> QED
      BY <2>2, <3>2
  <2> QED
    BY <2>2, <2>3, <2>7, <2>8, <2>9 DEF StackShape, Accounted
<1>3. worker' \in [Workers -> Seq(Frames)]
  <2>1. DOMAIN worker' = Workers /\ worker' = [v \in Workers |-> worker'[v]]
    BY DEF Goto
  <2>2. \A v \in Workers : worker'[v] \in Seq(Frames)
    BY <1>1, <1>2
  <2> QED
    BY <2>1, <2>2
<1> QED
  BY <1>0, <1>1, <1>2, <1>3

(* Nothing but the stack of worker w changes. *)
LEMMA OneStack ==
    ASSUME IInv, RunsGrow, NEW w \in Workers, NEW new \in Seq(Frames), StackShape(new)',
           worker' = [worker EXCEPT ![w] = new]
    PROVE  /\ worker' \in [Workers -> Seq(Frames)]
           /\ \A v \in Workers : StackShape(worker[v])'
<1>1. Typed /\ worker \in [Workers -> Seq(Frames)]
  BY DEF IInv, Typed
<1>2. worker' \in [Workers -> Seq(Frames)]
  BY <1>1
<1>3. ASSUME NEW v \in Workers, v # w
      PROVE  StackShape(worker[v])'
  <2>1. PICK st : st = worker[v]
    OBVIOUS
  <2>2. st \in Seq(Frames) /\ StackShape(st) /\ worker'[v] = st
    BY <1>1, <1>3, <2>1 DEF IInv
  <2>3. \A i \in 1..Len(st) : Like(st[i], st[i])
    BY DEF Like
  <2>4. StackShape(st)'
    BY <1>1, <2>2, <2>3, StackStays
  <2> QED
    BY <2>2, <2>4 DEF StackShape, Accounted
<1>4. StackShape(worker[w])'
  <2>1. worker'[w] = new
    BY <1>1
  <2> QED
    BY <2>1 DEF StackShape, Accounted
<1> QED
  BY <1>2, <1>3, <1>4

(* The stacks stay as they are. *)
LEMMA SameStacks ==
    ASSUME IInv, RunsGrow, UNCHANGED worker
    PROVE  /\ worker' \in [Workers -> Seq(Frames)]
           /\ \A v \in Workers : StackShape(worker[v])'
<1>1. Typed /\ worker \in [Workers -> Seq(Frames)]
  BY DEF IInv, Typed
<1>2. ASSUME NEW v \in Workers
      PROVE  StackShape(worker[v])'
  <2>1. PICK st : st = worker[v]
    OBVIOUS
  <2>2. st \in Seq(Frames) /\ StackShape(st) /\ worker'[v] = st
    BY <1>1, <2>1 DEF IInv
  <2>3. \A i \in 1..Len(st) : Like(st[i], st[i])
    BY DEF Like
  <2>4. StackShape(st)'
    BY <1>1, <2>2, <2>3, StackStays
  <2> QED
    BY <2>2, <2>4 DEF StackShape, Accounted
<1> QED
  BY <1>1, <1>2

(* Membership is a truth value like any other. *)
LEMMA TruthOf ==
    ASSUME NEW e, NEW S
    PROVE  \E s \in BOOLEAN : s = (e \in S)
<1>1. CASE e \in S
  <2>1. TRUE = (e \in S)
    BY <1>1
  <2> QED
    BY <2>1
<1>2. CASE e \notin S
  <2>1. FALSE = (e \in S)
    BY <1>2
  <2> QED
    BY <2>1
<1> QED
  BY <1>1, <1>2

(* The frame of a new call. *)
LEMMA EnteredFrame ==
    ASSUME Typed, NEW w \in Workers, NEW r \in Runs, Active(r) \/ ~Exists(r)
    PROVE  /\ Entered(w, r) \in Frames /\ Entered(w, r).run = r
           /\ Entered(w, r).inventory = {} /\ Entered(w, r).runs = {}
<1>1. PICK p : p = IF ~Exists(r) THEN "begin" ELSE IF run[r].owner = w THEN NextPhase(r) ELSE "takeover"
  OBVIOUS
<1>2. Active(r) => NextPhase(r) \in {"begin", "members", "seal", "inventory"}
  BY DEF Active, ActiveStatuses, NextPhase
<1>3. p \in Places
  BY <1>1, <1>2 DEF Places
<1>4. PICK b \in BOOLEAN : b = (r \in expired)
  BY TruthOf
<1>5. Entered(w, r) = [Frame(r) EXCEPT !.sawExpired = b, !.pc = p]
  BY <1>1, <1>4 DEF Entered
<1>6. PICK f : f = Frame(r)
  OBVIOUS
<1>7. f \in Frames /\ f.run = r /\ f.inventory = {} /\ f.runs = {}
  BY <1>6, NewFrame
<1> QED
  BY <1>3, <1>5, <1>6, <1>7 DEF Frames

(* An idle worker calls continueRun. *)
LEMMA PushStacks ==
    ASSUME IInv, RunsGrow, NEW w \in Workers, Idle(w), NEW r \in Runs, Active(r) \/ ~Exists(r),
           Exists(r)', Push(w, r)
    PROVE  /\ worker' \in [Workers -> Seq(Frames)]
           /\ \A v \in Workers : StackShape(worker[v])'
<1>1. PICK e : e = Entered(w, r)
  OBVIOUS
<1>2. e \in Frames /\ e.run = r /\ e.inventory = {} /\ e.runs = {}
  BY <1>1, EnteredFrame DEF IInv
<1>3. PICK new : new = <<e>>
  OBVIOUS
<1>4. new \in Seq(Frames) /\ Len(new) = 1 /\ new[1] = e
  BY <1>2, <1>3
<1>5. worker' = [worker EXCEPT ![w] = new]
  BY <1>1, <1>3 DEF Push, Idle, IInv, Typed
<1>6. StackShape(new)'
  BY <1>2, <1>4 DEF StackShape, Accounted
<1> QED
  BY <1>4, <1>5, <1>6, OneStack

(* The top call g, waiting for a call of run s. *)
WaitsShape(g, s) ==
    /\ Exists(g.run) /\ g.pc # "commit" /\ g.runs \subseteq g.inventory
    /\ \A q \in g.inventory : Exists(q) /\ (Ended(q) \/ q \in g.badRuns \/ q \in g.runs \/ q = s)

(* A call below the top makes a new call. *)
LEMMA StackGrows ==
    ASSUME Typed, RunsGrow, NEW st \in Seq(Frames), StackShape(st), st # <<>>,
           NEW g \in Frames, NEW e \in Frames, g.run = st[Len(st)].run, WaitsShape(g, e.run)',
           Exists(e.run)', e.inventory = {}, e.runs = {}
    PROVE  LET new == Append([st EXCEPT ![Len(st)] = g], e)
           IN new \in Seq(Frames) /\ StackShape(new)'
<1>0. PICK n : n = Len(st)
  OBVIOUS
<1>1. n \in Nat \ {0} /\ n \in 1..n /\ DOMAIN st = 1..n
  BY <1>0, EmptySeq, LenProperties
<1>2. PICK mid : mid = [st EXCEPT ![n] = g]
  OBVIOUS
<1>3. /\ mid \in Seq(Frames) /\ Len(mid) = n /\ mid[n] = g
      /\ \A i \in 1..n : i # n => mid[i] = st[i]
  <2>1. mid \in [1..n -> Frames]
    BY <1>0, <1>1, <1>2, ElementOfSeq
  <2> QED
    BY <1>1, <1>2, <2>1, SequenceOf
<1>4. PICK new : new = Append(mid, e)
  OBVIOUS
<1>5. /\ new \in Seq(Frames) /\ Len(new) = n + 1 /\ new[n + 1] = e
      /\ \A i \in 1..n : new[i] = mid[i]
  BY <1>3, <1>4, AppendProperties
<1>6. ASSUME NEW i \in 1..Len(new)
      PROVE  Exists(new[i].run)' /\ Accounted(new, i)'
  <2>0. i \in Nat
    BY <1>1, <1>5
  <2>1. CASE i = n + 1
    BY <1>5, <2>1 DEF Accounted
  <2>2. CASE i = n
    <3>1. new[i] = g /\ i < Len(new) /\ new[i + 1] = e
      BY <1>1, <1>3, <1>5, <2>2
    <3> QED
      BY <3>1 DEF WaitsShape, Accounted
  <2>3. CASE i < n
    <3>1. i \in 1..n /\ i + 1 \in 1..n /\ i < Len(st) /\ i < Len(new)
      BY <1>0, <1>1, <1>5, <2>0, <2>3
    <3>2. new[i] = st[i] /\ new[i + 1].run = st[i + 1].run
      BY <1>1, <1>3, <1>5, <2>3, <3>1
    <3>3. Exists(st[i].run) /\ Accounted(st, i)
      BY <1>0, <3>1 DEF StackShape
    <3>4. st[i] \in Frames /\ st[i].run \in Runs /\ st[i].inventory \subseteq Runs
      BY <1>0, <3>1, ElementOfSeq, FrameFields
    <3> QED
      BY <3>1, <3>2, <3>3, <3>4 DEF Accounted, RunsGrow
  <2> QED
    BY <1>1, <1>5, <2>0, <2>1, <2>2, <2>3
<1>7. StackShape(new)'
  BY <1>6 DEF StackShape
<1> QED
  BY <1>0, <1>2, <1>4, <1>5, <1>7

(* A call returns: the run it continued has ended, or is held as bad. *)
LEMMA PopStacks ==
    ASSUME IInv, RunsGrow, NEW w \in Workers, ~Idle(w), NEW recovered \in BOOLEAN, NEW s,
           s = Top(w).run, recovered => Ended(s)', Pop(w, recovered)
    PROVE  /\ worker' \in [Workers -> Seq(Frames)]
           /\ \A v \in Workers : StackShape(worker[v])'
           /\ worker'[w] # worker[w]
<1>1. PICK st : st = worker[w]
  OBVIOUS
<1>2. PICK n : n = Len(st)
  OBVIOUS
<1>3. s = st[n].run
  BY <1>1, <1>2 DEF Top
<1>4. /\ Typed /\ st \in Seq(Frames) /\ StackShape(st) /\ n \in Nat \ {0} /\ Top(w).run = s
      /\ worker \in [Workers -> Seq(Frames)]
  BY <1>1, <1>2, <1>3, StackFacts DEF IInv, Typed
<1>5. PICK outer : outer = SubSeq(st, 1, n - 1)
  OBVIOUS
<1>6. outer \in Seq(Frames) /\ Len(outer) = n - 1 /\ \A i \in 1..(n - 1) : outer[i] = st[i]
  <2>1. 1 \in 1..Len(st)+1 /\ n - 1 \in 0..Len(st)
    BY <1>2, <1>4
  <2> QED
    BY <1>2, <1>4, <1>5, <2>1, SubSeqProperties
<1>7. PICK new : new = IF outer = <<>> THEN <<>>
                       ELSE [outer EXCEPT ![Len(outer)] =
                               [outer[Len(outer)] EXCEPT !.pc = "reconcile",
                                         !.badRuns = IF recovered THEN @ ELSE @ \cup {s}]]
  OBVIOUS
<1>8. worker' = [worker EXCEPT ![w] = new]
  BY <1>1, <1>2, <1>3, <1>4, <1>5, <1>7 DEF Pop, Top
<1>9. new \in Seq(Frames) /\ StackShape(new)' /\ Len(new) < n
  <2>1. CASE outer = <<>>
    <3>1. new = <<>> /\ Len(new) = 0
      BY <1>7, <2>1
    <3> QED
      BY <1>4, <3>1 DEF StackShape
  <2>2. CASE outer # <<>>
    <3>1. n - 1 \in Nat \ {0} /\ n - 1 \in 1..(n - 1) /\ n - 1 \in 1..n /\ n \in Nat /\ n \in 1..n
          /\ DOMAIN outer = 1..(n - 1)
      BY <1>4, <1>6, <2>2, EmptySeq, LenProperties
    <3>2. PICK m \in Nat : m = n - 1
      BY <3>1
    <3>3. PICK o : o = st[m]
      OBVIOUS
    <3>4. o \in Frames /\ s \in Runs /\ Exists(o.run) /\ Accounted(st, m) /\ o = outer[m]
      <4>1. st[m] \in Frames /\ st[n] \in Frames
        BY <1>2, <1>4, <3>1, <3>2, ElementOfSeq
      <4>2. Exists(st[m].run) /\ Accounted(st, m)
        BY <1>2, <1>4, <3>1, <3>2 DEF StackShape
      <4> QED
        BY <1>3, <1>6, <3>1, <3>2, <3>3, <4>1, <4>2, FrameFields
    <3>5. PICK b : b = IF recovered THEN o.badRuns ELSE o.badRuns \cup {s}
      OBVIOUS
    <3>6. PICK h : h = [o EXCEPT !.pc = "reconcile", !.badRuns = b]
      OBVIOUS
    <3>7. b \subseteq Runs
      BY <3>4, <3>5, FrameFields
    <3>8. /\ h \in Frames /\ h.run = o.run /\ h.pc = "reconcile" /\ h.inventory = o.inventory
          /\ h.runs = o.runs /\ h.badRuns = b
      BY <3>4, <3>6, <3>7 DEF Frames, Places
    <3>9. new = [outer EXCEPT ![m] = h]
      <4>1. Len(outer) = m /\ outer[Len(outer)] = o
        BY <1>6, <3>2, <3>4
      <4>2. h = [outer[Len(outer)] EXCEPT !.pc = "reconcile",
                                         !.badRuns = IF recovered THEN @ ELSE @ \cup {s}]
        BY <3>4, <3>5, <3>6, <4>1 DEF Frames
      <4>3. new = [outer EXCEPT ![Len(outer)] = h]
        BY <1>7, <2>2, <4>2
      <4> QED
        BY <4>1, <4>3
    <3>10. /\ new \in Seq(Frames) /\ Len(new) = m /\ new[m] = h
           /\ \A i \in 1..m : i # m => new[i] = outer[i]
      <4>1. new \in [1..m -> Frames]
        BY <1>6, <3>1, <3>2, <3>8, <3>9, ElementOfSeq
      <4>2. new \in Seq(Frames) /\ Len(new) = m
        BY <4>1, SequenceOf
      <4>3. m \in 1..m /\ DOMAIN outer = 1..m
        BY <3>1, <3>2
      <4> QED
        BY <3>9, <4>2, <4>3
    <3>11. TopShape(h)'
      <4>1. /\ \A q \in o.inventory : q \in Runs /\ Exists(q)
                  /\ (Ended(q) \/ q \in o.badRuns \/ q \in o.runs \/ q = s)
            /\ o.runs \subseteq o.inventory /\ o.run \in Runs
        BY <1>2, <1>3, <3>1, <3>2, <3>3, <3>4, FrameFields DEF Accounted
      <4> QED
        BY <3>4, <3>5, <3>8, <4>1 DEF TopShape, RunsGrow
    <3>12. ASSUME NEW i \in 1..Len(new)
           PROVE  Exists(new[i].run)' /\ Accounted(new, i)'
      <4>1. CASE i = m
        BY <3>8, <3>10, <3>11, <4>1 DEF TopShape, Accounted
      <4>2. CASE i # m
        <5>1. i \in 1..n /\ i \in 1..m /\ i + 1 \in 1..m /\ i < Len(st) /\ i < Len(new) /\ i \in Nat
          BY <1>2, <1>4, <3>1, <3>2, <3>10, <4>2
        <5>2. new[i] = st[i] /\ new[i + 1].run = st[i + 1].run
          BY <1>6, <3>2, <3>3, <3>8, <3>10, <4>2, <5>1
        <5>3. Exists(st[i].run) /\ Accounted(st, i)
          BY <1>2, <1>4, <5>1 DEF StackShape
        <5>4. st[i] \in Frames /\ st[i].run \in Runs /\ st[i].inventory \subseteq Runs
          BY <1>2, <1>4, <5>1, ElementOfSeq, FrameFields
        <5> QED
          BY <5>1, <5>2, <5>3, <5>4 DEF Accounted, RunsGrow
      <4> QED
        BY <4>1, <4>2
    <3>13. StackShape(new)'
      BY <3>12 DEF StackShape
    <3> QED
      BY <3>1, <3>2, <3>10, <3>13
  <2> QED
    BY <2>1, <2>2
<1>10. worker' \in [Workers -> Seq(Frames)] /\ \A v \in Workers : StackShape(worker[v])'
  BY <1>8, <1>9, OneStack
<1>11. worker'[w] # worker[w]
  <2>1. worker'[w] = new
    BY <1>4, <1>8
  <2>2. new # st
    BY <1>2, <1>4, <1>9, LenProperties
  <2> QED
    BY <1>1, <2>1, <2>2
<1> QED
  BY <1>10, <1>11
-----------------------------------------------------------------------------
(* What a step does to the runs.                                           *)

KeysUnique == \A r, s \in Runs : (Exists(r) /\ Exists(s) /\ run[r].key = run[s].key) => r = s
ClaimsMatch(r) == \A t \in Tasks : run[r].member[t] = "claimed" <=> task[t].by = r
AccountedFor(r) ==
    run[r].status \in TerminalStatuses =>
       /\ run[r].reconciled
       /\ \A t \in Tasks : /\ run[r].member[t] # "pending"
                           /\ run[r].member[t] = "claimed" => task[t].start = "finalized"
       /\ run[r].status = "completed" =>
             /\ run[r].badRuns = {} /\ ~run[r].badWork
             /\ \A t \in Tasks : run[r].member[t] \in {"none", "claimed", "already_claimed"}

(* A step that leaves a run where it is: it may lose a stale run that was  *)
(* renewed, or find one that was taken over.                               *)
SameRow(x, y) ==
    /\ y.status = x.status /\ y.key = x.key /\ y.member = x.member /\ y.reconciled = x.reconciled
    /\ y.badRuns = x.badRuns /\ y.badWork = x.badWork /\ y.stale \subseteq x.stale
Quiet(r) ==
    /\ SameRow(run[r], run'[r])
    /\ \A s \in run'[r].recovered : s \in run[r].recovered \/ Exists(s)
    /\ \A t \in Tasks :
          /\ task'[t].by = r <=> task[t].by = r
          /\ (task[t].by = r /\ task[t].start = "finalized") => task'[t].start = "finalized"
Moved(r) ==
    /\ Exists(r)' /\ (Ended(r) => Ended(r)')
    /\ RunShape(r)' /\ ClaimsMatch(r)' /\ AccountedFor(r)'

(* The rest of the state. *)
RestTyped ==
    /\ run \in [Runs -> RunRows] /\ task \in [Tasks -> TaskRows]
    /\ expired \subseteq Runs /\ denied \subseteq Keys /\ expiries \in 0..MaxExpiries
    /\ \A t \in Tasks : TaskShape(t)
StacksOK ==
    /\ worker \in [Workers -> Seq(Frames)]
    /\ \A w \in Workers : StackShape(worker[w])

LEMMA QuietGrows ==
    ASSUME \A r \in Runs : Quiet(r) \/ Moved(r)
    PROVE  RunsGrow
  BY DEF RunsGrow, Quiet, SameRow, Moved, Exists, Ended

LEMMA Parts ==
    /\ DispatchedOnce <=> KeysUnique /\ \A r \in Runs : ClaimsMatch(r)
    /\ TerminalRunIsAccounted <=> \A r \in Runs : AccountedFor(r)
    /\ IInv <=> /\ RestTyped /\ StacksOK /\ InOrder /\ KeysUnique
                /\ \A r \in Runs : RunShape(r) /\ ClaimsMatch(r) /\ AccountedFor(r)
<1>1. DispatchedOnce <=> KeysUnique /\ \A r \in Runs : ClaimsMatch(r)
  BY DEF DispatchedOnce, KeysUnique, ClaimsMatch
<1>2. TerminalRunIsAccounted <=> \A r \in Runs : AccountedFor(r)
  BY DEF TerminalRunIsAccounted, AccountedFor
<1> QED
  BY <1>1, <1>2 DEF IInv, RestTyped, StacksOK, Typed

(* Every run is left where it is, or moved to where the invariant holds. *)
LEMMA StepInv ==
    ASSUME IInv, RestTyped', StacksOK', InOrder', KeysUnique',
           \A r \in Runs : Quiet(r) \/ Moved(r)
    PROVE  IInv'
<1>1. ASSUME NEW r \in Runs
      PROVE  RunShape(r)' /\ ClaimsMatch(r)' /\ AccountedFor(r)'
  <2>1. CASE Moved(r)
    BY <2>1 DEF Moved
  <2>2. CASE Quiet(r)
    <3>1. RunShape(r) /\ ClaimsMatch(r) /\ AccountedFor(r)
      BY Parts
    <3>2. run[r] \in RunRows /\ run[r].stale \subseteq Runs /\ run[r].recovered \subseteq Runs
      BY RunFields DEF IInv, Typed
    <3>3. run'[r] \in RunRows /\ run'[r].recovered \subseteq Runs
      BY RunFields DEF RestTyped
    <3>4. RunsGrow
      BY QuietGrows
    <3>5. RunShape(r)'
      <4>1. Sealed(r)' <=> Sealed(r)
        BY <2>2 DEF Quiet, SameRow, Sealed
      <4>2. \A s \in Inventory(r)' : Exists(s)'
        <5>1. SUFFICES ASSUME NEW s \in run'[r].stale \cup run'[r].recovered PROVE Exists(s)'
          BY DEF Inventory
        <5>2. s \in Runs /\ Exists(s)
          BY <2>2, <3>1, <3>2, <3>3, <5>1 DEF Quiet, SameRow, RunShape, Inventory
        <5> QED
          BY <3>4, <5>2 DEF RunsGrow
      <4>3. run'[r].reconciled => \A s \in run'[r].stale : Ended(s)' \/ s \in run'[r].badRuns
        BY <2>2, <3>1, <3>2, <3>4 DEF Quiet, SameRow, RunShape, RunsGrow
      <4> QED
        BY <2>2, <3>1, <4>1, <4>2, <4>3 DEF Quiet, SameRow, RunShape
    <3>6. ClaimsMatch(r)'
      BY <2>2, <3>1 DEF Quiet, SameRow, ClaimsMatch
    <3>7. AccountedFor(r)'
      BY <2>2, <3>1 DEF Quiet, SameRow, AccountedFor, ClaimsMatch
    <3> QED
      BY <3>5, <3>6, <3>7
  <2> QED
    BY <2>1, <2>2
<1>2. DispatchedOnce'
  BY <1>1 DEF DispatchedOnce, KeysUnique, ClaimsMatch
<1>3. TerminalRunIsAccounted'
  BY <1>1 DEF TerminalRunIsAccounted, AccountedFor
<1>4. Typed' /\ \A w \in Workers : StackShape(worker[w])'
  BY DEF RestTyped, StacksOK, Typed
<1> QED
  BY <1>1, <1>2, <1>3, <1>4 DEF IInv, RestTyped

(* No run is created. *)
LEMMA SameOrder ==
    ASSUME IInv, \A r \in Runs : (Exists(r)' <=> Exists(r)) /\ run'[r].key = run[r].key
    PROVE  InOrder' /\ KeysUnique'
<1>1. InOrder /\ KeysUnique
  BY Parts
<1>2. KeysUnique'
  BY <1>1 DEF KeysUnique
<1>3. PICK n \in 0..MaxRuns : \A r \in Runs : Exists(r) <=> r <= n
  BY <1>1 DEF InOrder
<1>4. InOrder'
  BY <1>3 DEF InOrder
<1> QED
  BY <1>2, <1>4

(* What the two action properties say of run r. *)
Legal(r) ==
    /\ (/\ Exists(r)
        /\ <<run[r].status, run[r].member, run[r].reconciled>>
              # <<run'[r].status, run'[r].member, run'[r].reconciled>>)
       => \E w \in Workers :
             /\ run[r].owner = w
             /\ ~Idle(w) /\ Top(w).run = r /\ worker'[w] # worker[w]
    /\ Sealed(r) => \A t \in Tasks :
          IF run[r].member[t] = "pending"
          THEN run'[r].member[t] # "none"
          ELSE run'[r].member[t] = run[r].member[t]
    /\ run[r].status \in TerminalStatuses => run'[r].status = run[r].status
    /\ \A t \in Tasks : (run[r].member[t] # "claimed" /\ run'[r].member[t] = "claimed")
          => \A s \in run[r].stale : run[s].member[t] # "pending"

Good == IInv' /\ \A r \in Runs : Legal(r)

(* Every run is left where it is, except for at most one. *)
LEMMA StepDone ==
    ASSUME IInv, RestTyped', StacksOK', InOrder', KeysUnique',
           \A r \in Runs : Quiet(r) \/ (Moved(r) /\ Legal(r))
    PROVE  Good
<1>1. \A r \in Runs : Quiet(r) => Legal(r)
  BY DEF Quiet, SameRow, Legal
<1>2. IInv'
  BY StepInv
<1> QED
  BY <1>1, <1>2 DEF Good

LEMMA QuietStep ==
    ASSUME IInv, RestTyped', StacksOK', \A r \in Runs : Quiet(r)
    PROVE  Good
<1>1. InOrder' /\ KeysUnique'
  BY SameOrder DEF Quiet, SameRow, Exists
<1> QED
  BY <1>1, StepDone

(* The Tasks keep the run that claimed them, and a settled start stays. *)
TasksStay ==
    \A t \in Tasks :
       /\ task'[t].by = task[t].by
       /\ (task[t].by # 0 /\ task[t].start = "finalized") => task'[t].start = "finalized"

LEMMA SameRuns ==
    ASSUME UNCHANGED run, TasksStay
    PROVE  \A r \in Runs : Quiet(r)
  BY RunsNat DEF TasksStay, Quiet, SameRow

LEMMA SameTasks ==
    ASSUME IInv, UNCHANGED task
    PROVE  TasksStay /\ task' \in [Tasks -> TaskRows] /\ \A t \in Tasks : TaskShape(t)'
  BY DEF IInv, Typed, TasksStay, TaskShape

(* The top call goes on without learning anything. *)
LEMMA TopStays ==
    ASSUME RunsGrow, NEW g \in Frames, NEW f \in Frames, TopShape(g), f.run = g.run,
           \/ f.inventory = {} /\ f.runs = {}
           \/ /\ f.inventory = g.inventory /\ f.runs = g.runs /\ f.badRuns = g.badRuns
              /\ f.pc = "commit" => f.runs = {}
    PROVE  TopShape(f)'
  BY FrameFields DEF TopShape, RunsGrow

(* A new lease of run r with the given record. *)
LEMMA AdvanceRows ==
    ASSUME IInv, NEW r \in Runs, NEW record \in RunRows, Advance(r, record), UNCHANGED task
    PROVE  /\ run' \in [Runs -> RunRows] /\ expired' \subseteq Runs /\ run'[r] = record
           /\ \A s \in Runs : s # r => Quiet(s)
<1>1. run \in [Runs -> RunRows] /\ expired \subseteq Runs /\ TasksStay
  BY SameTasks DEF IInv, Typed
<1>2. CASE expired' = expired \ {r}
           /\ run' = [s \in Runs |->
                IF s = r THEN record
                ELSE [run[s] EXCEPT !.stale = IF r \in expired THEN @ \ {r} ELSE @]]
  <2>1. ASSUME NEW s \in Runs, s # r
        PROVE  run'[s] \in RunRows /\ Quiet(s)
    <3>1. PICK x : x = run[s]
      OBVIOUS
    <3>2. PICK stale : stale = IF r \in expired THEN x.stale \ {r} ELSE x.stale
      OBVIOUS
    <3>3. x \in RunRows /\ stale \subseteq x.stale /\ x.stale \subseteq Runs
      BY <1>1, <3>1, <3>2, RunFields
    <3>4. PICK y : y = [x EXCEPT !.stale = stale]
      OBVIOUS
    <3>5. run'[s] = y
      BY <1>2, <2>1, <3>1, <3>2, <3>4
    <3>6. y \in RunRows /\ SameRow(x, y) /\ y.recovered = x.recovered
      BY <3>3, <3>4 DEF RunRows, SameRow
    <3> QED
      BY <1>1, <3>1, <3>5, <3>6, RunsNat DEF Quiet, TasksStay
  <2>2. run'[r] = record
    BY <1>2
  <2>3. run' \in [Runs -> RunRows]
    BY <1>2, <2>1, <2>2
  <2> QED
    BY <1>1, <1>2, <2>1, <2>2, <2>3
<1>3. CASE run' = [run EXCEPT ![r] = record] /\ UNCHANGED expired
  BY <1>1, <1>3, RunsNat DEF Quiet, SameRow, TasksStay
<1> QED
  BY <1>2, <1>3 DEF Advance
-----------------------------------------------------------------------------
(* What happens around the dispatcher.                                     *)

(* A step that changes the Tasks only. *)
LEMMA TasksStep ==
    ASSUME IInv, TasksStay, task' \in [Tasks -> TaskRows], \A t \in Tasks : TaskShape(t)',
           UNCHANGED <<run, expired, denied, expiries, worker>>
    PROVE  Good
<1>1. \A r \in Runs : Quiet(r)
  BY SameRuns
<1>2. StacksOK'
  BY <1>1, QuietGrows, SameStacks DEF StacksOK
<1>3. RestTyped'
  BY DEF RestTyped, IInv, Typed
<1> QED
  BY <1>1, <1>2, <1>3, QuietStep

LEMMA TaskFields ==
    ASSUME NEW x \in TaskRows
    PROVE  /\ x.state \in {"planned", "ready", "running"}
           /\ x.start \in {"none", "pending", "finalized"} /\ x.by \in {0} \cup Runs
  BY DEF TaskRows

LEMMA MarkReadyStep ==
    ASSUME IInv, NEW t \in Tasks, MarkReady(t), UNCHANGED expiries
    PROVE  Good
<1>1. task \in [Tasks -> TaskRows] /\ \A u \in Tasks : TaskShape(u)
  BY DEF IInv, Typed
<1>2. PICK x : x = task[t]
  OBVIOUS
<1>3. PICK y : y = [x EXCEPT !.state = "ready"]
  OBVIOUS
<1>4. task' = [task EXCEPT ![t] = y]
  BY <1>1, <1>2, <1>3 DEF MarkReady
<1>5. x \in TaskRows /\ x.state = "planned" /\ x.by = 0
  BY <1>1, <1>2 DEF MarkReady, TaskShape
<1>6. y \in TaskRows /\ y.start = x.start /\ y.by = x.by
  BY <1>3, <1>5 DEF TaskRows
<1>7. TasksStay /\ task' \in [Tasks -> TaskRows] /\ \A u \in Tasks : TaskShape(u)'
  BY <1>1, <1>2, <1>4, <1>5, <1>6 DEF TasksStay, TaskShape
<1> QED
  BY <1>7, TasksStep DEF MarkReady

LEMMA ClientClaimStep ==
    ASSUME IInv, NEW t \in Tasks, ClientClaim(t), UNCHANGED expiries
    PROVE  Good
<1>1. task \in [Tasks -> TaskRows] /\ \A u \in Tasks : TaskShape(u)
  BY DEF IInv, Typed
<1>2. PICK y : y = [state |-> "running", start |-> "none", by |-> 0]
  OBVIOUS
<1>3. task' = [task EXCEPT ![t] = y] /\ y \in TaskRows /\ y.by = 0
  BY <1>2 DEF ClientClaim, TaskRows
<1>4. task[t].by = 0
  BY <1>1 DEF ClientClaim, Eligible, TaskShape
<1>5. TasksStay /\ task' \in [Tasks -> TaskRows] /\ \A u \in Tasks : TaskShape(u)'
  BY <1>1, <1>3, <1>4 DEF TasksStay, TaskShape
<1> QED
  BY <1>5, TasksStep DEF ClientClaim

(* A start is settled, or left as it is. *)
LEMMA StartSettles ==
    ASSUME IInv, NEW t \in Tasks, NEW s \in {"none", "pending", "finalized"},
           s = task[t].start \/ s = "finalized",
           task' = [task EXCEPT ![t].start = s]
    PROVE  TasksStay /\ task' \in [Tasks -> TaskRows] /\ \A u \in Tasks : TaskShape(u)'
<1>1. task \in [Tasks -> TaskRows] /\ \A u \in Tasks : TaskShape(u)
  BY DEF IInv, Typed
<1>2. PICK x : x = task[t]
  OBVIOUS
<1>3. PICK y : y = [x EXCEPT !.start = s]
  OBVIOUS
<1>4. task' = [task EXCEPT ![t] = y]
  BY <1>1, <1>2, <1>3
<1>5. x \in TaskRows /\ y \in TaskRows /\ y.start = s /\ y.by = x.by /\ y.state = x.state
  BY <1>1, <1>2, <1>3 DEF TaskRows
<1> QED
  BY <1>1, <1>2, <1>4, <1>5 DEF TasksStay, TaskShape

LEMMA LoopFinalizeStep ==
    ASSUME IInv, NEW t \in Tasks, LoopFinalize(t), UNCHANGED expiries
    PROVE  Good
<1>1. task' = [task EXCEPT ![t].start = "finalized"]
  BY DEF LoopFinalize
<1> QED
  BY <1>1, StartSettles, TasksStep DEF LoopFinalize

(* Rows that differ in their owner or in the edited members only. *)
LEMMA RowsStay ==
    ASSUME IInv, UNCHANGED task, NEW v \in [Runs -> RunRows], run' = v,
           \A r \in Runs : SameRow(run[r], v[r]) /\ v[r].recovered = run[r].recovered
    PROVE  \A r \in Runs : Quiet(r)
  BY RunsNat DEF Quiet

LEMMA EditTaskStep ==
    ASSUME IInv, NEW t \in Tasks, EditTask(t), UNCHANGED expiries
    PROVE  Good
<1>1. run \in [Runs -> RunRows]
  BY DEF IInv, Typed
<1>2. ASSUME NEW r \in Runs
      PROVE  /\ run'[r] \in RunRows /\ SameRow(run[r], run'[r]) /\ run'[r].recovered = run[r].recovered
  <2>1. PICK x : x = run[r]
    OBVIOUS
  <2>2. PICK c : c = IF Pending(r, t) THEN x.changed \cup {t} ELSE x.changed
    OBVIOUS
  <2>3. PICK y : y = [x EXCEPT !.changed = c]
    OBVIOUS
  <2>4. run'[r] = y
    BY <2>1, <2>2, <2>3 DEF EditTask
  <2>5. x \in RunRows /\ c \subseteq Tasks
    BY <1>1, <2>1, <2>2, RunFields
  <2>6. y \in RunRows /\ SameRow(x, y) /\ y.recovered = x.recovered
    BY <2>3, <2>5 DEF RunRows, SameRow
  <2> QED
    BY <2>1, <2>4, <2>6
<1>3. PICK v : v = run'
  OBVIOUS
<1>4. v \in [Runs -> RunRows]
  BY <1>2, <1>3 DEF EditTask
<1>5. \A r \in Runs : Quiet(r)
  BY <1>2, <1>3, <1>4, RowsStay DEF EditTask
<1>6. StacksOK'
  BY <1>5, QuietGrows, SameStacks DEF StacksOK, EditTask
<1>7. RestTyped'
  BY <1>3, <1>4, SameTasks DEF EditTask, RestTyped, IInv, Typed
<1> QED
  BY <1>5, <1>6, <1>7, QuietStep

LEMMA DieStep ==
    ASSUME IInv, NEW w \in Workers, Die(w)
    PROVE  Good
<1>1. run \in [Runs -> RunRows]
  BY DEF IInv, Typed
<1>2. ASSUME NEW r \in Runs
      PROVE  /\ run'[r] \in RunRows /\ SameRow(run[r], run'[r]) /\ run'[r].recovered = run[r].recovered
  <2>1. PICK x : x = run[r]
    OBVIOUS
  <2>2. PICK o : o = IF x.owner = w THEN Nobody ELSE x.owner
    OBVIOUS
  <2>3. PICK y : y = [x EXCEPT !.owner = o]
    OBVIOUS
  <2>4. run'[r] = y
    BY <2>1, <2>2, <2>3 DEF Die
  <2>5. x \in RunRows /\ o \in Workers \cup {Nobody}
    BY <1>1, <2>1, <2>2, RunFields
  <2>6. y \in RunRows /\ SameRow(x, y) /\ y.recovered = x.recovered
    BY <2>3, <2>5 DEF RunRows, SameRow
  <2> QED
    BY <2>1, <2>4, <2>6
<1>3. PICK v : v = run'
  OBVIOUS
<1>4. v \in [Runs -> RunRows]
  BY <1>2, <1>3 DEF Die
<1>5. \A r \in Runs : Quiet(r)
  BY <1>2, <1>3, <1>4, RowsStay DEF Die
<1>6. StacksOK'
  <2>1. PICK new : new = <<>>
    OBVIOUS
  <2>2. new \in Seq(Frames) /\ StackShape(new)'
    BY <2>1 DEF StackShape
  <2>3. worker' = [worker EXCEPT ![w] = new]
    BY <2>1 DEF Die
  <2> QED
    BY <1>5, <2>2, <2>3, QuietGrows, OneStack DEF StacksOK
<1>7. RestTyped'
  BY <1>3, <1>4, SameTasks DEF Die, RestTyped, IInv, Typed
<1> QED
  BY <1>5, <1>6, <1>7, QuietStep

LEMMA ExpireStep ==
    ASSUME IInv, NEW r \in Runs, Expire(r)
    PROVE  Good
<1>1. \A s \in Runs : Quiet(s)
  BY SameRuns, SameTasks DEF Expire
<1>2. StacksOK'
  BY <1>1, QuietGrows, SameStacks DEF StacksOK, Expire
<1>3. expired' \subseteq Runs /\ expiries' \in 0..MaxExpiries
  BY RunsAssumption DEF Expire, IInv, Typed
<1>4. RestTyped'
  BY <1>3, SameTasks DEF Expire, RestTyped, IInv, Typed
<1> QED
  BY <1>1, <1>2, <1>4, QuietStep

(* A step of a worker that changes neither runs nor Tasks. *)
LEMMA WorkersStep ==
    ASSUME IInv, StacksOK', UNCHANGED <<run, expired, task, expiries>>, denied' \subseteq Keys
    PROVE  Good
<1>1. \A s \in Runs : Quiet(s)
  BY SameRuns, SameTasks
<1>2. RestTyped'
  BY SameTasks DEF RestTyped, IInv, Typed
<1> QED
  BY <1>1, <1>2, QuietStep

LEMMA NothingGrows ==
    ASSUME UNCHANGED run
    PROVE  RunsGrow
  BY DEF RunsGrow, Exists, Ended

LEMMA FailStep ==
    ASSUME IInv, NEW w \in Workers, Fail(w), UNCHANGED expiries
    PROVE  Good
<1>1. PICK s : s = Top(w).run
  OBVIOUS
<1>2. StacksOK'
  BY <1>1, NothingGrows, PopStacks DEF Fail, StacksOK
<1> QED
  BY <1>2, WorkersStep DEF Fail, IInv, Typed

LEMMA ResumeStep ==
    ASSUME IInv, NEW w \in Workers, NEW r \in Runs, Idle(w), Active(r), Push(w, r),
           UNCHANGED <<run, expired, denied, task, expiries>>
    PROVE  Good
<1>1. Exists(r)'
  BY DEF Active, ActiveStatuses, Exists
<1>2. StacksOK'
  BY <1>1, NothingGrows, PushStacks DEF StacksOK
<1> QED
  BY <1>2, WorkersStep DEF IInv, Typed
-----------------------------------------------------------------------------
(* Calls that leave the runs alone.                                        *)

LEMMA GotoStep ==
    ASSUME IInv, NEW w \in Workers, ~Idle(w), NEW f \in Frames, NEW advanced, Goto(w, f, advanced),
           f.run = Top(w).run, TopShape(f)', UNCHANGED <<run, expired, denied, expiries>>,
           TasksStay, task' \in [Tasks -> TaskRows], \A t \in Tasks : TaskShape(t)'
    PROVE  Good
<1>1. StacksOK'
  BY NothingGrows, GotoStacks DEF StacksOK
<1>2. \A r \in Runs : Quiet(r)
  BY SameRuns
<1>3. RestTyped'
  BY DEF RestTyped, IInv, Typed
<1> QED
  BY <1>1, <1>2, <1>3, QuietStep

(* What a call that is not idle finds. *)
LEMMA TopFacts ==
    ASSUME IInv, NEW w \in Workers, ~Idle(w)
    PROVE  /\ Top(w) \in Frames /\ TopShape(Top(w)) /\ Top(w).run \in Runs
           /\ run[Top(w).run] \in RunRows /\ RunShape(Top(w).run) /\ Exists(Top(w).run)
<1>1. Top(w) \in Frames /\ TopShape(Top(w)) /\ Top(w).run \in Runs
  BY StackFacts, FrameFields
<1> QED
  BY <1>1 DEF IInv, Typed, TopShape

LEMMA ReadInventoryStep ==
    ASSUME IInv, NEW w \in Workers, ReadInventory(w), UNCHANGED expiries
    PROVE  Good
<1>1. PICK g : g = Top(w)
  OBVIOUS
<1>2. PICK r : r = g.run
  OBVIOUS
<1>3. PICK inv : inv = Inventory(r)
  OBVIOUS
<1>4. ~Idle(w) /\ g \in Frames /\ TopShape(g) /\ r \in Runs /\ run[r] \in RunRows /\ RunShape(r)
  BY <1>1, <1>2, TopFacts DEF ReadInventory, At
<1>5. inv \subseteq Runs /\ run[r].work \subseteq Tasks /\ \A s \in inv : Exists(s)
  BY <1>3, <1>4, RunFields DEF Inventory, RunShape
<1>6. PICK f : f = [g EXCEPT !.pc = "reconcile", !.inventory = inv, !.work = run[r].work, !.runs = inv]
  OBVIOUS
<1>7. f \in Frames /\ f.run = r /\ f.inventory = inv /\ f.runs = inv /\ f.pc = "reconcile"
  BY <1>2, <1>4, <1>5, <1>6 DEF Frames, Places
<1>8. Goto(w, f, FALSE) /\ UNCHANGED <<run, expired, denied, task>>
  BY <1>1, <1>2, <1>3, <1>6 DEF ReadInventory
<1>9. TopShape(f)'
  BY <1>2, <1>4, <1>5, <1>7, <1>8 DEF TopShape, Exists
<1> QED
  BY <1>1, <1>2, <1>4, <1>7, <1>8, <1>9, SameTasks, GotoStep

LEMMA ReadMembersStep ==
    ASSUME IInv, NEW w \in Workers, ReadMembers(w), UNCHANGED expiries
    PROVE  Good
<1>1. PICK g : g = Top(w)
  OBVIOUS
<1>2. ~Idle(w) /\ g \in Frames /\ TopShape(g)
  BY <1>1, TopFacts DEF ReadMembers, At
<1>3. PICK m : m = {t \in Tasks : run[g.run].member[t] # "none"}
  OBVIOUS
<1>4. PICK u : u = {t \in Tasks : Pending(g.run, t)}
  OBVIOUS
<1>5. PICK f : f = [g EXCEPT !.pc = "sweep", !.sweep = m, !.unresolved = u]
  OBVIOUS
<1>6. m \subseteq Tasks /\ u \subseteq Tasks
  BY <1>3, <1>4
<1>7. /\ f \in Frames /\ f.run = g.run /\ f.inventory = g.inventory /\ f.runs = g.runs
      /\ f.badRuns = g.badRuns /\ f.pc = "sweep"
  BY <1>2, <1>5, <1>6 DEF Frames, Places
<1>8. Goto(w, f, FALSE) /\ UNCHANGED <<run, expired, denied, task>>
  BY <1>1, <1>3, <1>4, <1>5 DEF ReadMembers
<1>9. TopShape(f)'
  BY <1>2, <1>7, <1>8, NothingGrows, TopStays
<1> QED
  BY <1>1, <1>2, <1>7, <1>8, <1>9, SameTasks, GotoStep

LEMMA ResolveWorkStep ==
    ASSUME IInv, NEW w \in Workers, NEW t \in Tasks, ResolveWork(w, t), UNCHANGED expiries
    PROVE  Good
<1>1. PICK g : g = Top(w)
  OBVIOUS
<1>2. ~Idle(w) /\ g \in Frames /\ TopShape(g) /\ g.work \subseteq Tasks /\ g.badWork \in BOOLEAN
  BY <1>1, TopFacts, FrameFields DEF ResolveWork, At
<1>3. RunsGrow
  BY NothingGrows DEF ResolveWork
<1>4. CASE /\ task' = [task EXCEPT ![t].start = IF @ = "pending" THEN "finalized" ELSE @]
           /\ Goto(w, [g EXCEPT !.pc = "reconcile", !.work = @ \ {t}], FALSE)
  <2>1. PICK f : f = [g EXCEPT !.pc = "reconcile", !.work = @ \ {t}]
    OBVIOUS
  <2>2. /\ f \in Frames /\ f.run = g.run /\ f.inventory = g.inventory /\ f.runs = g.runs
        /\ f.badRuns = g.badRuns /\ f.pc = "reconcile"
    BY <1>2, <2>1 DEF Frames, Places
  <2>3. TopShape(f)'
    BY <1>2, <1>3, <2>2, TopStays
  <2>4. PICK s : s = IF task[t].start = "pending" THEN "finalized" ELSE task[t].start
    OBVIOUS
  <2>5. s \in {"none", "pending", "finalized"} /\ (s = task[t].start \/ s = "finalized")
    BY <2>4, TaskFields DEF IInv, Typed
  <2>6. task' = [task EXCEPT ![t].start = s]
    BY <1>4, <2>4
  <2>7. TasksStay /\ task' \in [Tasks -> TaskRows] /\ \A u \in Tasks : TaskShape(u)'
    BY <2>5, <2>6, StartSettles
  <2>8. Goto(w, f, FALSE)
    BY <1>4, <2>1
  <2> QED
    BY <1>1, <1>2, <2>2, <2>3, <2>7, <2>8, GotoStep DEF ResolveWork
<1>5. CASE /\ Goto(w, [g EXCEPT !.pc = "reconcile", !.work = @ \ {t}, !.badWork = TRUE], FALSE)
           /\ UNCHANGED task
  <2>1. PICK f : f = [g EXCEPT !.pc = "reconcile", !.work = @ \ {t}, !.badWork = TRUE]
    OBVIOUS
  <2>2. /\ f \in Frames /\ f.run = g.run /\ f.inventory = g.inventory /\ f.runs = g.runs
        /\ f.badRuns = g.badRuns /\ f.pc = "reconcile"
    BY <1>2, <2>1 DEF Frames, Places
  <2>3. TopShape(f)'
    BY <1>2, <1>3, <2>2, TopStays
  <2>4. Goto(w, f, FALSE)
    BY <1>5, <2>1
  <2> QED
    BY <1>1, <1>2, <1>5, <2>2, <2>3, <2>4, SameTasks, GotoStep DEF ResolveWork
<1> QED
  BY <1>1, <1>4, <1>5 DEF ResolveWork

LEMMA StartMemberStep ==
    ASSUME IInv, NEW w \in Workers, StartMember(w), UNCHANGED expiries
    PROVE  Good
<1>1. PICK g : g = Top(w)
  OBVIOUS
<1>2. ~Idle(w) /\ g \in Frames /\ TopShape(g) /\ g.at \in Tasks \cup {Nobody}
  BY <1>1, TopFacts, FrameFields DEF StartMember, At
<1>3. PICK f : f = [g EXCEPT !.pc = "sweep", !.at = Nobody]
  OBVIOUS
<1>4. /\ f \in Frames /\ f.run = g.run /\ f.inventory = g.inventory /\ f.runs = g.runs
      /\ f.badRuns = g.badRuns /\ f.pc = "sweep"
  BY <1>2, <1>3 DEF Frames, Places
<1>5. TopShape(f)'
  BY <1>2, <1>4, NothingGrows, TopStays DEF StartMember
<1>6. Goto(w, f, FALSE)
  BY <1>1, <1>3 DEF StartMember
<1>7. TasksStay /\ task' \in [Tasks -> TaskRows] /\ \A u \in Tasks : TaskShape(u)'
  <2>1. PICK t : t = g.at
    OBVIOUS
  <2>2. PICK s : s = IF run[g.run].member[t] = "claimed" THEN "finalized" ELSE task[t].start
    OBVIOUS
  <2>3. task' = [task EXCEPT ![t].start = s]
    BY <1>1, <2>1, <2>2 DEF StartMember
  <2>4. CASE t \in Tasks
    <3>1. s \in {"none", "pending", "finalized"} /\ (s = task[t].start \/ s = "finalized")
      BY <2>2, <2>4, TaskFields DEF IInv, Typed
    <3> QED
      BY <2>3, <2>4, <3>1, StartSettles
  <2>5. CASE t \notin Tasks
    <3>1. task \in [Tasks -> TaskRows]
      BY DEF IInv, Typed
    <3>2. task' = task
      BY <2>3, <2>5, <3>1
    <3> QED
      BY <3>2, SameTasks
  <2> QED
    BY <2>4, <2>5
<1> QED
  BY <1>1, <1>2, <1>4, <1>5, <1>6, <1>7, GotoStep DEF StartMember

LEMMA ResolveRunStep ==
    ASSUME IInv, NEW w \in Workers, NEW s \in Runs, ResolveRun(w, s), UNCHANGED expiries
    PROVE  Good
<1>1. PICK g : g = Top(w)
  OBVIOUS
<1>2. PICK left : left = g.runs \ {s}
  OBVIOUS
<1>3. ~Idle(w) /\ g \in Frames /\ TopShape(g) /\ g.runs \subseteq Runs /\ g.run \in Runs
  BY <1>1, TopFacts, FrameFields DEF ResolveRun, At
<1>4. PICK f : f = [g EXCEPT !.pc = "reconcile", !.runs = left]
  OBVIOUS
<1>5. /\ f \in Frames /\ f.run = g.run /\ f.inventory = g.inventory /\ f.runs = left
      /\ f.badRuns = g.badRuns /\ f.pc = "reconcile"
  BY <1>2, <1>3, <1>4 DEF Frames, Places
<1>6. /\ s \in g.inventory /\ Exists(s) /\ UNCHANGED <<run, expired, denied, task>> /\ RunsGrow
      /\ IF Active(s)
         THEN worker' = [worker EXCEPT ![w] = Append([@ EXCEPT ![Len(worker[w])] = f], Entered(w, s))]
         ELSE Goto(w, f, FALSE)
  BY <1>1, <1>2, <1>3, <1>4, NothingGrows DEF ResolveRun, TopShape
<1>7. WaitsShape(f, s)'
  BY <1>2, <1>3, <1>5, <1>6, FrameFields DEF WaitsShape, TopShape, RunsGrow
<1>8. CASE Active(s)
  <2>1. PICK st : st = worker[w]
    OBVIOUS
  <2>2. st \in Seq(Frames) /\ StackShape(st) /\ st # <<>> /\ g = st[Len(st)] /\ Typed
    BY <1>1, <1>3, <2>1 DEF IInv, Typed, Idle, Top
  <2>3. PICK e : e = Entered(w, s)
    OBVIOUS
  <2>4. e \in Frames /\ e.run = s /\ e.inventory = {} /\ e.runs = {}
    BY <1>8, <2>2, <2>3, EnteredFrame
  <2>5. PICK new : new = Append([st EXCEPT ![Len(st)] = f], e)
    OBVIOUS
  <2>6. worker' = [worker EXCEPT ![w] = new]
    BY <1>6, <1>8, <2>1, <2>3, <2>5 DEF IInv, Typed
  <2>7. Exists(s)'
    BY <1>6 DEF Exists
  <2>8. new \in Seq(Frames) /\ StackShape(new)'
    <3>1. WaitsShape(f, e.run)' /\ Exists(e.run)'
      BY <1>7, <2>4, <2>7
    <3> QED
      BY <1>5, <1>6, <2>2, <2>4, <2>5, <3>1, StackGrows
  <2>9. StacksOK'
    BY <1>6, <2>6, <2>8, OneStack DEF StacksOK
  <2> QED
    BY <1>6, <2>9, WorkersStep DEF IInv, Typed
<1>9. CASE ~Active(s)
  <2>1. Ended(s)'
    BY <1>6, <1>9, RunFields DEF IInv, Typed, Active, Ended, Exists, Statuses
  <2>2. TopShape(f)'
    BY <1>5, <1>7, <2>1 DEF WaitsShape, TopShape
  <2> QED
    BY <1>1, <1>3, <1>5, <1>6, <1>9, <2>2, SameTasks, GotoStep
<1> QED
  BY <1>8, <1>9
-----------------------------------------------------------------------------
(* Creating a run.                                                         *)

(* Runs are numbered in order, so the new one is not there yet. *)
LEMMA FreshRun ==
    ASSUME IInv, NEW r \in Runs, r = Cardinality({s \in Runs : Exists(s)}) + 1
    PROVE  \A s \in Runs : Exists(s) <=> s < r
<1>1. PICK n \in 0..MaxRuns : \A s \in Runs : Exists(s) <=> s <= n
  BY DEF IInv, InOrder
<1>2. n \in Nat /\ {s \in Runs : Exists(s)} = 1..n
  BY <1>1, RunsNat DEF Runs
<1>3. Cardinality(1..n) = n
  BY <1>2, FS_Interval
<1>4. r = n + 1
  BY <1>2, <1>3
<1> QED
  BY <1>1, <1>2, <1>4, RunsNat

LEMMA CreateRows ==
    ASSUME IInv, NEW w \in Workers, NEW k \in Keys \cup Slots, RunsOf(k) = {}, NEW r \in Runs,
           CreateRun(w, k, r)
    PROVE  /\ run' \in [Runs -> RunRows] /\ InOrder' /\ KeysUnique' /\ ~Exists(r)
           /\ \A s \in Runs : Quiet(s) \/ (Moved(r) /\ Legal(r) /\ s = r)
           /\ Exists(r)'
<1>1. run \in [Runs -> RunRows] /\ expired \subseteq Runs /\ TasksStay
  BY SameTasks DEF IInv, Typed, CreateRun
<1>2. \A s \in Runs : Exists(s) <=> s < r
  BY FreshRun DEF CreateRun
<1>3. PICK leases \in SUBSET {t \in Tasks : Claimed(t)} :
         run' = [run EXCEPT ![r] =
           [NoRun EXCEPT !.status = "starting", !.key = k, !.owner = w,
              !.work = leases \cup {t \in Tasks : task[t].start = "pending"},
              !.stale = {s \in expired : Active(s)}]]
  BY DEF CreateRun
<1>4. PICK work : work = leases \cup {t \in Tasks : task[t].start = "pending"}
  OBVIOUS
<1>5. PICK stale : stale = {s \in expired : Active(s)}
  OBVIOUS
<1>6. PICK x : x = [NoRun EXCEPT !.status = "starting", !.key = k, !.owner = w, !.work = work, !.stale = stale]
  OBVIOUS
<1>7. /\ work \subseteq Tasks /\ stale \subseteq Runs
      /\ \A s \in stale : Exists(s)
  BY <1>1, <1>3, <1>4, <1>5 DEF Active, ActiveStatuses, Exists
<1>8. /\ x \in RunRows /\ x.status = "starting" /\ x.key = k /\ x.member = NoRun.member
      /\ x.reconciled = FALSE /\ x.stale = stale /\ x.recovered = {}
  BY <1>6, <1>7, NoRunRow DEF RunRows, Statuses, ActiveStatuses
<1>9. run' = [run EXCEPT ![r] = x]
  BY <1>3, <1>4, <1>5, <1>6
<1>10. run'[r] = x /\ \A s \in Runs : s # r => run'[s] = run[s]
  BY <1>1, <1>9
<1>11. \A s \in Runs : s # r => Quiet(s)
  BY <1>1, <1>10, RunsNat DEF Quiet, SameRow, TasksStay
<1>12. ~Exists(r) /\ ~Sealed(r) /\ ~Ended(r) /\ Exists(r)' /\ ~Sealed(r)' /\ ~Ended(r)'
  BY <1>2, <1>8, <1>10, RunsNat DEF Exists, Sealed, Ended, TerminalStatuses
<1>13. \A t \in Tasks : x.member[t] = "none"
  BY <1>8, NoRunRow
<1>14. Moved(r)
  <2>1. RunShape(r)'
    <3>1. \A s \in Inventory(r)' : Exists(s)'
      BY <1>7, <1>8, <1>10, <1>12 DEF Inventory, Exists
    <3> QED
      BY <1>8, <1>10, <1>12, <1>13, <3>1 DEF RunShape
  <2>2. ClaimsMatch(r)'
    <3>1. RunShape(r) /\ ClaimsMatch(r)
      BY Parts
    <3>2. \A t \in Tasks : task'[t].by # r
      BY <1>1, <1>12, <3>1 DEF RunShape, ClaimsMatch, TasksStay
    <3> QED
      BY <1>10, <1>13, <3>2 DEF ClaimsMatch
  <2>3. AccountedFor(r)'
    BY <1>12 DEF AccountedFor, Ended
  <2> QED
    BY <1>12, <2>1, <2>2, <2>3 DEF Moved
<1>15. Legal(r)
  BY <1>10, <1>12, <1>13 DEF Legal, Ended
<1>16. KeysUnique'
  <2>1. KeysUnique
    BY Parts
  <2>2. \A s \in Runs : Exists(s) => run[s].key # k
    BY DEF RunsOf
  <2>3. \A s \in Runs : s # r => (Exists(s)' <=> Exists(s)) /\ run'[s].key = run[s].key
    BY <1>10 DEF Exists
  <2> QED
    BY <1>8, <1>10, <2>1, <2>2, <2>3 DEF KeysUnique
<1>17. InOrder'
  <2>1. \A s \in Runs : Exists(s)' <=> s <= r
    BY <1>2, <1>10, <1>12, RunsNat DEF Exists
  <2>2. r \in 0..MaxRuns
    BY RunsNat DEF Runs
  <2> QED
    BY <2>1, <2>2 DEF InOrder
<1>18. run' \in [Runs -> RunRows]
  BY <1>1, <1>8, <1>9
<1> QED
  BY <1>11, <1>12, <1>14, <1>15, <1>16, <1>17, <1>18

LEMMA CreateStep ==
    ASSUME IInv, NEW w \in Workers, NEW k \in Keys \cup Slots, RunsOf(k) = {}, NEW r \in Runs,
           CreateRun(w, k, r), Idle(w), Push(w, r) \/ UNCHANGED worker, UNCHANGED expiries
    PROVE  Good
<1>1. /\ run' \in [Runs -> RunRows] /\ InOrder' /\ KeysUnique' /\ ~Exists(r) /\ Exists(r)'
      /\ \A s \in Runs : Quiet(s) \/ (Moved(s) /\ Legal(s))
  BY CreateRows
<1>2. RunsGrow
  BY <1>1, QuietGrows
<1>3. StacksOK'
  BY <1>1, <1>2, PushStacks, SameStacks DEF StacksOK
<1>4. RestTyped'
  BY <1>1, SameTasks DEF CreateRun, RestTyped, IInv, Typed
<1> QED
  BY <1>1, <1>3, <1>4, StepDone

LEMMA TriggerStep ==
    ASSUME IInv, NEW w \in Workers, NEW k \in Keys, Trigger(w, k), UNCHANGED expiries
    PROVE  Good
<1>1. CASE RunsOf(k) = {} /\ \E r \in Runs : CreateRun(w, k, r) /\ Push(w, r)
  BY <1>1, CreateStep DEF Trigger
<1>2. CASE denied' = denied \cup {k} /\ UNCHANGED <<run, expired, task, worker>>
  <2>1. StacksOK'
    BY <1>2, NothingGrows, SameStacks DEF StacksOK
  <2> QED
    BY <1>2, <2>1, WorkersStep DEF IInv, Typed
<1>3. CASE \E r \in RunsOf(k) :
             /\ Active(r)
             /\ UNCHANGED <<run, expired, denied, task>>
             /\ Push(w, r)
  BY <1>3, ResumeStep DEF Trigger, RunsOf
<1> QED
  BY <1>1, <1>2, <1>3 DEF Trigger

LEMMA DeliverStep ==
    ASSUME IInv, NEW w \in Workers, NEW k \in Slots, DeliverScheduled(w, k), UNCHANGED expiries
    PROVE  Good
  BY CreateStep DEF DeliverScheduled
-----------------------------------------------------------------------------
(* The calls of the owner.                                                 *)

LEMMA OwnerFacts ==
    ASSUME IInv, NEW w \in Workers, ~Idle(w), NEW r, r = Top(w).run, Owns(w, r)
    PROVE  /\ r \in Runs /\ run[r] \in RunRows /\ Exists(r) /\ Active(r) /\ ~Ended(r) /\ run[r].owner = w
           /\ RunShape(r) /\ ClaimsMatch(r) /\ Top(w) \in Frames /\ TopShape(Top(w))
           /\ \A s \in Inventory(r) : s \in Runs /\ Exists(s)
<1>1. r \in Runs /\ run[r] \in RunRows /\ Exists(r) /\ RunShape(r) /\ Top(w) \in Frames /\ TopShape(Top(w))
  BY TopFacts
<1>2. Active(r) /\ ~Ended(r) /\ run[r].owner = w
  BY DEF Owns, Active, Ended, ActiveStatuses, TerminalStatuses
<1>3. ClaimsMatch(r)
  BY <1>1, Parts
<1> QED
  BY <1>1, <1>2, <1>3, RunFields DEF RunShape, Inventory

(* Only run r moves, and it does not disappear. *)
LEMMA OneMovesGrows ==
    ASSUME NEW r \in Runs, \A s \in Runs : s # r => Quiet(s), Exists(r)', ~Ended(r)
    PROVE  RunsGrow
  BY DEF RunsGrow, Quiet, SameRow, Exists, Ended

LEMMA OwnerStep ==
    ASSUME IInv, NEW r \in Runs, Exists(r), \A s \in Runs : s # r => Quiet(s),
           run' \in [Runs -> RunRows], expired' \subseteq Runs, run'[r].key = run[r].key,
           UNCHANGED <<denied, task, expiries>>, Moved(r), Legal(r), StacksOK'
    PROVE  Good
<1>1. RestTyped'
  BY SameTasks DEF RestTyped, IInv, Typed
<1>2. InOrder' /\ KeysUnique'
  BY SameOrder DEF Moved, Quiet, SameRow, Exists
<1> QED
  BY <1>1, <1>2, StepDone

(* The shape of the run that has moved. *)
LEMMA MovedShape ==
    ASSUME IInv, NEW r \in Runs, RunsGrow, \A s \in Inventory(r) : s \in Runs /\ Exists(s),
           run'[r].stale = run[r].stale, run'[r].recovered = run[r].recovered,
           Sealed(r)' => run'[r].reconciled,
           ~Sealed(r)' => \A t \in Tasks : run'[r].member[t] = "none",
           run'[r].reconciled => \A s \in run[r].stale : Ended(s)' \/ s \in run'[r].badRuns
    PROVE  RunShape(r)'
<1>1. \A s \in Inventory(r)' : Exists(s)'
  BY DEF Inventory, RunsGrow
<1> QED
  BY <1>1 DEF RunShape

LEMMA BeginStep ==
    ASSUME IInv, NEW w \in Workers, BeginReconciliation(w), UNCHANGED expiries
    PROVE  Good
<1>1. PICK g : g = Top(w)
  OBVIOUS
<1>2. PICK r : r = g.run
  OBVIOUS
<1>3. PICK x : x = run[r]
  OBVIOUS
<1>4. PICK y : y = [x EXCEPT !.status = "reconciling"]
  OBVIOUS
<1>5. PICK f : f = [g EXCEPT !.pc = "inventory"]
  OBVIOUS
<1>6. /\ ~Idle(w) /\ Owns(w, r) /\ x.status = "starting" /\ g.pc = "begin"
      /\ Advance(r, y) /\ Goto(w, f, TRUE) /\ UNCHANGED <<denied, task>>
  BY <1>1, <1>2, <1>3, <1>4, <1>5 DEF BeginReconciliation, At
<1>7. /\ r \in Runs /\ x \in RunRows /\ Exists(r) /\ ~Ended(r) /\ x.owner = w
      /\ RunShape(r) /\ ClaimsMatch(r) /\ g \in Frames /\ TopShape(g)
      /\ \A s \in Inventory(r) : s \in Runs /\ Exists(s)
  BY <1>1, <1>2, <1>3, <1>6, OwnerFacts
<1>8. /\ y \in RunRows /\ y.status = "reconciling" /\ y.key = x.key /\ y.member = x.member
      /\ y.reconciled = x.reconciled /\ y.badRuns = x.badRuns /\ y.stale = x.stale /\ y.recovered = x.recovered
  BY <1>4, <1>7 DEF RunRows, Statuses, ActiveStatuses
<1>9. /\ run' \in [Runs -> RunRows] /\ expired' \subseteq Runs /\ run'[r] = y
      /\ \A s \in Runs : s # r => Quiet(s)
  BY <1>6, <1>7, <1>8, AdvanceRows
<1>10. ~Sealed(r) /\ Exists(r)' /\ ~Sealed(r)' /\ ~Ended(r)'
  BY <1>3, <1>6, <1>8, <1>9 DEF Sealed, Exists, Ended, TerminalStatuses
<1>11. RunsGrow
  BY <1>7, <1>9, <1>10, OneMovesGrows
<1>12. /\ f \in Frames /\ f.run = g.run /\ f.inventory = g.inventory /\ f.runs = g.runs
       /\ f.badRuns = g.badRuns /\ f.pc = "inventory"
  BY <1>5, <1>7 DEF Frames, Places
<1>13. TopShape(f)'
  BY <1>7, <1>11, <1>12, TopStays
<1>14. StacksOK' /\ worker'[w] # worker[w]
  BY <1>1, <1>6, <1>11, <1>12, <1>13, GotoStacks DEF StacksOK
<1>15. Moved(r)
  <2>1. \A t \in Tasks : x.member[t] = "none"
    BY <1>3, <1>7, <1>10 DEF RunShape
  <2>2. x.reconciled => \A s \in x.stale : Ended(s)' \/ s \in x.badRuns
    BY <1>3, <1>7, <1>11 DEF RunShape, RunsGrow, Inventory
  <2>3. RunShape(r)'
    BY <1>3, <1>7, <1>8, <1>9, <1>10, <1>11, <2>1, <2>2, MovedShape
  <2>4. ClaimsMatch(r)'
    BY <1>3, <1>6, <1>7, <1>8, <1>9 DEF ClaimsMatch
  <2>5. AccountedFor(r)'
    BY <1>10 DEF AccountedFor, Ended
  <2> QED
    BY <1>7, <1>10, <2>3, <2>4, <2>5 DEF Moved
<1>16. Legal(r)
  <2>1. run[r].owner = w /\ ~Idle(w) /\ Top(w).run = r /\ worker'[w] # worker[w]
    BY <1>1, <1>2, <1>3, <1>6, <1>7, <1>14
  <2>2. run'[r].member = run[r].member
    BY <1>3, <1>8, <1>9
  <2> QED
    BY <1>7, <1>10, <2>1, <2>2 DEF Legal, Ended
<1> QED
  BY <1>3, <1>6, <1>7, <1>8, <1>9, <1>14, <1>15, <1>16, OwnerStep

LEMMA CommitStep ==
    ASSUME IInv, NEW w \in Workers, CommitReconciliation(w), UNCHANGED expiries
    PROVE  Good
<1>1. PICK g : g = Top(w)
  OBVIOUS
<1>2. PICK r : r = g.run
  OBVIOUS
<1>3. PICK x : x = run[r]
  OBVIOUS
<1>4. PICK y : y = [x EXCEPT !.reconciled = TRUE, !.badRuns = g.badRuns, !.badWork = g.badWork]
  OBVIOUS
<1>5. PICK f : f = [Frame(r) EXCEPT !.pc = "seal"]
  OBVIOUS
<1>6. /\ ~Idle(w) /\ Owns(w, r) /\ x.status = "reconciling" /\ g.pc = "commit" /\ g.inventory = Inventory(r)
      /\ Advance(r, y) /\ Goto(w, f, TRUE) /\ UNCHANGED <<denied, task>>
  BY <1>1, <1>2, <1>3, <1>4, <1>5 DEF CommitReconciliation, At
<1>7. /\ r \in Runs /\ x \in RunRows /\ Exists(r) /\ ~Ended(r) /\ x.owner = w
      /\ RunShape(r) /\ ClaimsMatch(r) /\ g \in Frames /\ TopShape(g)
      /\ \A s \in Inventory(r) : s \in Runs /\ Exists(s)
  BY <1>1, <1>2, <1>3, <1>6, OwnerFacts
<1>8. /\ y \in RunRows /\ y.status = x.status /\ y.key = x.key /\ y.member = x.member
      /\ y.badRuns = g.badRuns /\ y.reconciled = TRUE /\ y.stale = x.stale /\ y.recovered = x.recovered
  <2>1. g.badRuns \subseteq Runs /\ g.badWork \in BOOLEAN
    BY <1>7, FrameFields
  <2> QED
    BY <1>4, <1>7, <2>1 DEF RunRows
<1>9. /\ run' \in [Runs -> RunRows] /\ expired' \subseteq Runs /\ run'[r] = y
      /\ \A s \in Runs : s # r => Quiet(s)
  BY <1>6, <1>7, <1>8, AdvanceRows
<1>10. ~Sealed(r) /\ Exists(r)' /\ ~Sealed(r)' /\ ~Ended(r)'
  BY <1>3, <1>6, <1>8, <1>9 DEF Sealed, Exists, Ended, TerminalStatuses
<1>11. RunsGrow
  BY <1>7, <1>9, <1>10, OneMovesGrows
<1>12. f \in Frames /\ f.run = g.run /\ f.inventory = {} /\ f.runs = {} /\ f.pc = "seal"
  <2>1. PICK h : h = Frame(r)
    OBVIOUS
  <2>2. h \in Frames /\ h.run = r /\ h.inventory = {} /\ h.runs = {}
    BY <1>7, <2>1, NewFrame
  <2> QED
    BY <1>2, <1>5, <2>1, <2>2 DEF Frames, Places
<1>13. TopShape(f)'
  BY <1>7, <1>11, <1>12, TopStays
<1>14. StacksOK' /\ worker'[w] # worker[w]
  BY <1>1, <1>6, <1>11, <1>12, <1>13, GotoStacks DEF StacksOK
<1>15. Moved(r)
  <2>1. \A t \in Tasks : x.member[t] = "none"
    BY <1>3, <1>7, <1>10 DEF RunShape
  <2>2. \A s \in x.stale : Ended(s)' \/ s \in y.badRuns
    <3>1. \A s \in x.stale : s \in Runs /\ s \in g.inventory
      BY <1>3, <1>6, <1>7 DEF Inventory
    <3>2. \A s \in g.inventory : Ended(s) \/ s \in g.badRuns
      BY <1>6, <1>7 DEF TopShape
    <3> QED
      BY <1>8, <1>11, <3>1, <3>2 DEF RunsGrow
  <2>3. RunShape(r)'
    BY <1>3, <1>7, <1>8, <1>9, <1>10, <1>11, <2>1, <2>2, MovedShape
  <2>4. ClaimsMatch(r)'
    BY <1>3, <1>6, <1>7, <1>8, <1>9 DEF ClaimsMatch
  <2>5. AccountedFor(r)'
    BY <1>10 DEF AccountedFor, Ended
  <2> QED
    BY <1>7, <1>10, <2>3, <2>4, <2>5 DEF Moved
<1>16. Legal(r)
  <2>1. run[r].owner = w /\ ~Idle(w) /\ Top(w).run = r /\ worker'[w] # worker[w]
    BY <1>1, <1>2, <1>3, <1>6, <1>7, <1>14
  <2>2. run'[r].member = run[r].member
    BY <1>3, <1>8, <1>9
  <2> QED
    BY <1>7, <1>10, <2>1, <2>2 DEF Legal, Ended
<1> QED
  BY <1>3, <1>6, <1>7, <1>8, <1>9, <1>14, <1>15, <1>16, OwnerStep

LEMMA SealStep ==
    ASSUME IInv, NEW w \in Workers, SealCandidates(w), UNCHANGED expiries
    PROVE  Good
<1>1. PICK g : g = Top(w)
  OBVIOUS
<1>2. PICK r : r = g.run
  OBVIOUS
<1>3. PICK x : x = run[r]
  OBVIOUS
<1>0. PICK m : m = [t \in Tasks |-> IF Eligible(t) THEN "pending" ELSE "none"]
  OBVIOUS
<1>4. PICK y : y = [x EXCEPT !.status = "sweeping", !.member = m]
  OBVIOUS
<1>5. PICK f : f = [g EXCEPT !.pc = "members"]
  OBVIOUS
<1>6. /\ ~Idle(w) /\ Owns(w, r) /\ x.status = "reconciling" /\ x.reconciled /\ g.pc = "seal"
      /\ Advance(r, y) /\ Goto(w, f, TRUE) /\ UNCHANGED <<denied, task>>
  BY <1>0, <1>1, <1>2, <1>3, <1>4, <1>5 DEF SealCandidates, At
<1>7. /\ r \in Runs /\ x \in RunRows /\ Exists(r) /\ ~Ended(r) /\ x.owner = w
      /\ RunShape(r) /\ ClaimsMatch(r) /\ g \in Frames /\ TopShape(g)
      /\ \A s \in Inventory(r) : s \in Runs /\ Exists(s)
  BY <1>1, <1>2, <1>3, <1>6, OwnerFacts
<1>8. /\ y \in RunRows /\ y.status = "sweeping" /\ y.key = x.key /\ y.member = m
      /\ y.badRuns = x.badRuns /\ y.reconciled = x.reconciled /\ y.stale = x.stale /\ y.recovered = x.recovered
      /\ \A t \in Tasks : m[t] \in {"none", "pending"}
  <2>1. m \in [Tasks -> {"none", "pending"} \cup Outcomes] /\ \A t \in Tasks : m[t] \in {"none", "pending"}
    BY <1>0
  <2> QED
    BY <1>4, <1>7, <2>1 DEF RunRows, Statuses, ActiveStatuses
<1>9. /\ run' \in [Runs -> RunRows] /\ expired' \subseteq Runs /\ run'[r] = y
      /\ \A s \in Runs : s # r => Quiet(s)
  BY <1>6, <1>7, <1>8, AdvanceRows
<1>10. ~Sealed(r) /\ Exists(r)' /\ Sealed(r)' /\ ~Ended(r)'
  BY <1>3, <1>6, <1>8, <1>9 DEF Sealed, Exists, Ended, TerminalStatuses
<1>11. RunsGrow
  BY <1>7, <1>9, <1>10, OneMovesGrows
<1>12. /\ f \in Frames /\ f.run = g.run /\ f.inventory = g.inventory /\ f.runs = g.runs
       /\ f.badRuns = g.badRuns /\ f.pc = "members"
  BY <1>5, <1>7 DEF Frames, Places
<1>13. TopShape(f)'
  BY <1>7, <1>11, <1>12, TopStays
<1>14. StacksOK' /\ worker'[w] # worker[w]
  BY <1>1, <1>6, <1>11, <1>12, <1>13, GotoStacks DEF StacksOK
<1>15. Moved(r)
  <2>1. \A t \in Tasks : x.member[t] = "none"
    BY <1>3, <1>7, <1>10 DEF RunShape
  <2>2. \A s \in x.stale : Ended(s)' \/ s \in x.badRuns
    BY <1>3, <1>6, <1>7, <1>11 DEF RunShape, RunsGrow, Inventory
  <2>3. RunShape(r)'
    BY <1>3, <1>6, <1>7, <1>8, <1>9, <1>10, <1>11, <2>2, MovedShape
  <2>4. ClaimsMatch(r)'
    BY <1>3, <1>6, <1>7, <1>8, <1>9, <2>1 DEF ClaimsMatch
  <2>5. AccountedFor(r)'
    BY <1>10 DEF AccountedFor, Ended
  <2> QED
    BY <1>7, <1>10, <2>3, <2>4, <2>5 DEF Moved
<1>16. Legal(r)
  <2>1. run[r].owner = w /\ ~Idle(w) /\ Top(w).run = r /\ worker'[w] # worker[w]
    BY <1>1, <1>2, <1>3, <1>6, <1>7, <1>14
  <2>2. \A t \in Tasks : run'[r].member[t] # "claimed"
    BY <1>8, <1>9
  <2> QED
    BY <1>7, <1>10, <2>1, <2>2 DEF Legal, Ended
<1> QED
  BY <1>3, <1>6, <1>7, <1>8, <1>9, <1>14, <1>15, <1>16, OwnerStep

LEMMA FinalizeStep ==
    ASSUME IInv, NEW w \in Workers, Finalize(w), UNCHANGED expiries
    PROVE  Good
<1>1. PICK g : g = Top(w)
  OBVIOUS
<1>2. PICK r : r = g.run
  OBVIOUS
<1>3. PICK x : x = run[r]
  OBVIOUS
<1>0. PICK st : st = TerminalStatus(r)
  OBVIOUS
<1>4. PICK y : y = [x EXCEPT !.status = st, !.owner = Nobody]
  OBVIOUS
<1>6. /\ ~Idle(w) /\ Owns(w, r) /\ x.status = "sweeping" /\ MembersSettled(r)
      /\ Advance(r, y) /\ Pop(w, TRUE) /\ UNCHANGED <<denied, task>>
  BY <1>0, <1>1, <1>2, <1>3, <1>4 DEF Finalize, At
<1>7. /\ r \in Runs /\ x \in RunRows /\ Exists(r) /\ ~Ended(r) /\ x.owner = w
      /\ RunShape(r) /\ ClaimsMatch(r)
      /\ \A s \in Inventory(r) : s \in Runs /\ Exists(s)
  BY <1>1, <1>2, <1>3, <1>6, OwnerFacts
<1>8. /\ y \in RunRows /\ y.status = st /\ y.key = x.key /\ y.member = x.member
      /\ y.badRuns = x.badRuns /\ y.badWork = x.badWork /\ y.reconciled = x.reconciled
      /\ y.stale = x.stale /\ y.recovered = x.recovered /\ st \in TerminalStatuses
  <2>1. st \in TerminalStatuses
    BY <1>0 DEF TerminalStatus, TerminalStatuses
  <2> QED
    BY <1>4, <1>7, <2>1 DEF RunRows, Statuses
<1>9. /\ run' \in [Runs -> RunRows] /\ expired' \subseteq Runs /\ run'[r] = y
      /\ \A s \in Runs : s # r => Quiet(s)
  BY <1>6, <1>7, <1>8, AdvanceRows
<1>10. Sealed(r) /\ Exists(r)' /\ Sealed(r)' /\ Ended(r)'
  BY <1>3, <1>6, <1>8, <1>9 DEF Sealed, Exists, Ended, TerminalStatuses
<1>11. RunsGrow
  BY <1>7, <1>9, <1>10, OneMovesGrows
<1>14. StacksOK' /\ worker'[w] # worker[w]
  BY <1>1, <1>2, <1>6, <1>10, <1>11, PopStacks DEF StacksOK
<1>15. Moved(r)
  <2>1. x.reconciled
    BY <1>3, <1>7, <1>10 DEF RunShape
  <2>2. \A s \in x.stale : Ended(s)' \/ s \in x.badRuns
    BY <1>3, <1>7, <1>11, <2>1 DEF RunShape, RunsGrow, Inventory
  <2>3. RunShape(r)'
    BY <1>3, <1>7, <1>8, <1>9, <1>10, <1>11, <2>1, <2>2, MovedShape
  <2>4. ClaimsMatch(r)'
    BY <1>3, <1>6, <1>7, <1>8, <1>9 DEF ClaimsMatch
  <2>5. AccountedFor(r)'
    <3>1. \A t \in Tasks : /\ x.member[t] # "pending"
                           /\ x.member[t] = "claimed" => task'[t].start = "finalized"
      BY <1>3, <1>6 DEF MembersSettled
    <3>2. st = "completed" =>
             /\ x.badRuns = {} /\ ~x.badWork
             /\ \A t \in Tasks : x.member[t] \in {"none", "claimed", "already_claimed"}
      BY <1>0, <1>3 DEF TerminalStatus
    <3> QED
      BY <1>8, <1>9, <2>1, <3>1, <3>2 DEF AccountedFor
  <2> QED
    BY <1>7, <1>10, <2>3, <2>4, <2>5 DEF Moved
<1>16. Legal(r)
  <2>1. run[r].owner = w /\ ~Idle(w) /\ Top(w).run = r /\ worker'[w] # worker[w]
    BY <1>1, <1>2, <1>3, <1>6, <1>7, <1>14
  <2>2. run'[r].member = run[r].member
    BY <1>3, <1>8, <1>9
  <2>3. Sealed(r) => \A t \in Tasks :
          IF run[r].member[t] = "pending"
          THEN run'[r].member[t] # "none"
          ELSE run'[r].member[t] = run[r].member[t]
    BY <2>2
  <2> QED
    BY <1>7, <2>1, <2>2, <2>3 DEF Legal, Ended
<1> QED
  BY <1>3, <1>6, <1>7, <1>8, <1>9, <1>14, <1>15, <1>16, OwnerStep

LEMMA CheckpointStep ==
    ASSUME IInv, NEW w \in Workers, Checkpoint(w), UNCHANGED expiries
    PROVE  Good
<1>1. PICK g : g = Top(w)
  OBVIOUS
<1>2. PICK r : r = g.run
  OBVIOUS
<1>3. PICK p : p = AfterCheckpoint(g)
  OBVIOUS
<1>4. PICK f : f = [g EXCEPT !.pc = p]
  OBVIOUS
<1>5. /\ ~Idle(w) /\ g.pc \in Checkpoints /\ UNCHANGED <<denied, task>>
      /\ \/ Advance(r, run[r]) /\ Goto(w, f, TRUE)
         \/ UNCHANGED <<run, expired>> /\ Goto(w, f, FALSE)
  BY <1>1, <1>2, <1>3, <1>4 DEF Checkpoint
<1>6. g \in Frames /\ TopShape(g) /\ r \in Runs /\ run[r] \in RunRows
  BY <1>1, <1>2, <1>5, TopFacts
<1>7. p \in Places /\ (p = "commit" => g.runs = {})
  BY <1>3, <1>5 DEF AfterCheckpoint, Checkpoints, Places
<1>8. /\ f \in Frames /\ f.run = g.run /\ f.inventory = g.inventory /\ f.runs = g.runs
      /\ f.badRuns = g.badRuns /\ f.pc = p
  BY <1>4, <1>6, <1>7 DEF Frames
<1>9. CASE Advance(r, run[r]) /\ Goto(w, f, TRUE)
  <2>1. /\ run' \in [Runs -> RunRows] /\ expired' \subseteq Runs /\ run'[r] = run[r]
        /\ \A s \in Runs : s # r => Quiet(s)
    BY <1>5, <1>6, <1>9, AdvanceRows
  <2>2. Quiet(r)
    BY <1>5, <2>1 DEF Quiet, SameRow
  <2>3. RunsGrow
    BY <2>1, <2>2, QuietGrows
  <2>4. StacksOK'
    BY <1>1, <1>5, <1>6, <1>7, <1>8, <1>9, <2>3, TopStays, GotoStacks DEF StacksOK
  <2>5. RestTyped'
    BY <1>5, <2>1, SameTasks DEF RestTyped, IInv, Typed
  <2> QED
    BY <2>1, <2>2, <2>4, <2>5, QuietStep
<1>10. CASE UNCHANGED <<run, expired>> /\ Goto(w, f, FALSE)
  <2>1. TopShape(f)'
    BY <1>6, <1>7, <1>8, <1>10, NothingGrows, TopStays
  <2> QED
    BY <1>1, <1>5, <1>8, <1>10, <2>1, SameTasks, GotoStep
<1> QED
  BY <1>5, <1>9, <1>10

LEMMA TakeoverStep ==
    ASSUME IInv, NEW w \in Workers, Takeover(w), UNCHANGED expiries
    PROVE  Good
<1>1. PICK g : g = Top(w)
  OBVIOUS
<1>2. PICK r : r = g.run
  OBVIOUS
<1>3. PICK p : p = NextPhase(r)
  OBVIOUS
<1>4. PICK f : f = [g EXCEPT !.pc = p]
  OBVIOUS
<1>5. /\ ~Idle(w) /\ Active(r) /\ UNCHANGED <<denied, task>> /\ expired' = expired \ {r}
      /\ Goto(w, f, TRUE)
      /\ run' = [s \in Runs |->
            IF s = r THEN [run[r] EXCEPT !.owner = w]
            ELSE IF s > r /\ Exists(s) /\ ~run[s].reconciled THEN [run[s] EXCEPT !.recovered = @ \cup {r}]
            ELSE run[s]]
  BY <1>1, <1>2, <1>3, <1>4 DEF Takeover, At
<1>6. g \in Frames /\ TopShape(g) /\ r \in Runs /\ run \in [Runs -> RunRows] /\ Exists(r) /\ TasksStay
  BY <1>1, <1>2, <1>5, TopFacts, SameTasks DEF IInv, Typed
<1>7. p \in {"begin", "members", "seal", "inventory"}
  BY <1>3, <1>5 DEF NextPhase, Active, ActiveStatuses
<1>8. /\ f \in Frames /\ f.run = g.run /\ f.inventory = g.inventory /\ f.runs = g.runs
      /\ f.badRuns = g.badRuns /\ f.pc # "commit"
  BY <1>4, <1>6, <1>7 DEF Frames, Places
<1>9. ASSUME NEW s \in Runs
      PROVE  run'[s] \in RunRows /\ Quiet(s)
  <2>1. PICK x : x = run[s]
    OBVIOUS
  <2>2. x \in RunRows /\ x.recovered \subseteq Runs
    BY <1>6, <2>1, RunFields
  <2>3. ASSUME NEW y \in RunRows, run'[s] = y, SameRow(x, y), y.recovered \subseteq x.recovered \cup {r}
        PROVE  run'[s] \in RunRows /\ Quiet(s)
    BY <1>6, <2>1, <2>3, RunsNat DEF Quiet, TasksStay
  <2>4. CASE s = r
    <3>1. PICK y : y = [x EXCEPT !.owner = w]
      OBVIOUS
    <3>2. run'[s] = y
      BY <1>5, <1>6, <2>1, <2>4, <3>1
    <3>3. y \in RunRows /\ SameRow(x, y) /\ y.recovered = x.recovered
      BY <2>2, <3>1 DEF RunRows, SameRow
    <3> QED
      BY <2>3, <3>2, <3>3
  <2>5. CASE s # r /\ s > r /\ Exists(s) /\ ~run[s].reconciled
    <3>1. PICK y : y = [x EXCEPT !.recovered = @ \cup {r}]
      OBVIOUS
    <3>2. run'[s] = y
      BY <1>5, <2>1, <2>5, <3>1
    <3>3. y \in RunRows /\ SameRow(x, y) /\ y.recovered = x.recovered \cup {r}
      BY <1>6, <2>2, <3>1 DEF RunRows, SameRow
    <3> QED
      BY <2>3, <3>2, <3>3
  <2>6. CASE s # r /\ ~(s > r /\ Exists(s) /\ ~run[s].reconciled)
    <3>1. run'[s] = x
      BY <1>5, <2>1, <2>6
    <3> QED
      BY <2>2, <2>3, <3>1 DEF SameRow
  <2> QED
    BY <2>4, <2>5, <2>6
<1>10. run' \in [Runs -> RunRows]
  BY <1>5, <1>9
<1>11. RunsGrow
  BY <1>9, QuietGrows
<1>12. StacksOK'
  BY <1>1, <1>5, <1>6, <1>8, <1>11, TopStays, GotoStacks DEF StacksOK
<1>13. RestTyped'
  BY <1>5, <1>10, SameTasks DEF RestTyped, IInv, Typed
<1> QED
  BY <1>9, <1>12, <1>13, QuietStep

(* A member is resolved as claimed only if it is ready, and no run that    *)
(* was found stale has it pending: what was found stale has ended, or it   *)
(* is held as bad and holds back its members.                              *)
LEMMA ClaimVerdict ==
    ASSUME IInv, NEW r \in Runs, run[r].status = "sweeping", NEW t \in Tasks, "claimed" \in Verdicts(r, t)
    PROVE  task[t].state = "ready" /\ \A s \in run[r].stale : run[s].member[t] # "pending"
<1>1. Eligible(t) /\ ~Blocked(r, t)
  BY DEF Verdicts
<1>2. RunShape(r) /\ Sealed(r)
  BY DEF IInv, Sealed
<1>3. ASSUME NEW s \in run[r].stale
      PROVE  run[s].member[t] # "pending"
  <2>1. s \in Runs
    BY <1>3, RunFields DEF IInv, Typed
  <2>2. Ended(s) \/ s \in run[r].badRuns
    BY <1>2, <1>3 DEF RunShape
  <2>3. CASE Ended(s)
    <3>1. AccountedFor(s)
      BY <2>1, Parts
    <3> QED
      BY <2>3, <3>1 DEF AccountedFor, Ended
  <2>4. CASE s \in run[r].badRuns
    BY <1>1, <2>4 DEF Blocked
  <2> QED
    BY <2>2, <2>3, <2>4
<1> QED
  BY <1>1, <1>3 DEF Eligible

(* Member t of run r is resolved by verdict v. *)
LEMMA ResolveMember ==
    ASSUME IInv, NEW w \in Workers, ~Idle(w), NEW r, r = Top(w).run, Owns(w, r), run[r].status = "sweeping",
           NEW t \in Tasks, Pending(r, t), NEW v \in Verdicts(r, t),
           run' = [run EXCEPT ![r].member[t] = v, ![r].changed = @ \ {t}],
           task' = IF v = "claimed"
                   THEN [task EXCEPT ![t] = [state |-> "running", start |-> "pending", by |-> r]]
                   ELSE task,
           UNCHANGED <<expired, denied, expiries>>,
           NEW f \in Frames, f.run = Top(w).run, f.pc = "claimed", Top(w).pc = "claim",
           f.inventory = Top(w).inventory, f.runs = Top(w).runs, f.badRuns = Top(w).badRuns, Goto(w, f, FALSE)
    PROVE  Good
<1>1. /\ r \in Runs /\ run[r] \in RunRows /\ Exists(r) /\ ~Ended(r) /\ run[r].owner = w
      /\ RunShape(r) /\ ClaimsMatch(r) /\ Top(w) \in Frames /\ TopShape(Top(w))
      /\ \A s \in Inventory(r) : s \in Runs /\ Exists(s)
  BY OwnerFacts
<1>2. run \in [Runs -> RunRows] /\ task \in [Tasks -> TaskRows] /\ \A u \in Tasks : TaskShape(u)
  BY DEF IInv, Typed
<1>3. PICK x : x = run[r]
  OBVIOUS
<1>4. PICK m : m = [x.member EXCEPT ![t] = v]
  OBVIOUS
<1>5. PICK c : c = x.changed \ {t}
  OBVIOUS
<1>6. PICK y : y = [x EXCEPT !.member = m, !.changed = c]
  OBVIOUS
<1>7. run' = [run EXCEPT ![r] = y]
  BY <1>1, <1>2, <1>3, <1>4, <1>5, <1>6
<1>8. v \in Outcomes
  BY DEF Verdicts, Outcomes
<1>9. /\ x.member \in [Tasks -> {"none", "pending"} \cup Outcomes] /\ x.member[t] = "pending" /\ c \subseteq Tasks
      /\ m \in [Tasks -> {"none", "pending"} \cup Outcomes] /\ m[t] = v
      /\ \A u \in Tasks : u # t => m[u] = x.member[u]
  BY <1>1, <1>3, <1>4, <1>5, <1>8, RunFields DEF Pending
<1>10. /\ y \in RunRows /\ y.status = x.status /\ y.key = x.key /\ y.member = m
       /\ y.badRuns = x.badRuns /\ y.reconciled = x.reconciled
       /\ y.stale = x.stale /\ y.recovered = x.recovered
  BY <1>1, <1>3, <1>6, <1>9 DEF RunRows
<1>11. run' \in [Runs -> RunRows] /\ run'[r] = y /\ \A s \in Runs : s # r => run'[s] = run[s]
  <2>1. PICK q : q = run'
    OBVIOUS
  <2>2. q = [run EXCEPT ![r] = y]
    BY <1>7, <2>1
  <2>3. q \in [Runs -> RunRows] /\ q[r] = y /\ \A s \in Runs : s # r => q[s] = run[s]
    BY <1>1, <1>2, <1>10, <2>2
  <2> QED
    BY <2>1, <2>3
<1>12. v = "claimed" => task[t].state = "ready" /\ task[t].by = 0
                        /\ \A s \in run[r].stale : run[s].member[t] # "pending"
  BY <1>1, <1>2, ClaimVerdict DEF TaskShape
<1>13. /\ task' \in [Tasks -> TaskRows]
       /\ v = "claimed" => task'[t].by = r /\ task'[t].state = "running"
       /\ v # "claimed" => task'[t] = task[t]
       /\ \A u \in Tasks : u # t => task'[u] = task[u]
  <2>1. PICK z : z = [state |-> "running", start |-> "pending", by |-> r]
    OBVIOUS
  <2>2. z \in TaskRows /\ z.by = r /\ z.state = "running"
    BY <1>1, <2>1 DEF TaskRows
  <2>3. task' = IF v = "claimed" THEN [task EXCEPT ![t] = z] ELSE task
    BY <2>1
  <2> QED
    BY <1>2, <2>2, <2>3
<1>14. \A u \in Tasks : TaskShape(u)'
  BY <1>2, <1>13 DEF TaskShape
<1>15. \A s \in Runs : s # r => Quiet(s)
  BY <1>1, <1>11, <1>12, <1>13, RunsNat DEF Quiet, SameRow
<1>16. Exists(r)' /\ Sealed(r) /\ Sealed(r)' /\ ~Ended(r)'
  BY <1>3, <1>10, <1>11 DEF Exists, Sealed, Ended, TerminalStatuses
<1>17. RunsGrow
  BY <1>1, <1>15, <1>16, OneMovesGrows
<1>18. StacksOK' /\ worker'[w] # worker[w]
  <2>1. TopShape(f)'
    BY <1>1, <1>17, TopStays
  <2> QED
    BY <1>17, <2>1, GotoStacks DEF StacksOK
<1>19. Moved(r)
  <2>1. x.reconciled
    BY <1>1, <1>3, <1>16 DEF RunShape
  <2>2. \A s \in x.stale : Ended(s)' \/ s \in x.badRuns
    BY <1>1, <1>3, <1>17, <2>1 DEF RunShape, RunsGrow, Inventory
  <2>3. RunShape(r)'
    <3>1. /\ run'[r].stale = run[r].stale /\ run'[r].recovered = run[r].recovered
          /\ run'[r].reconciled /\ run'[r].badRuns = run[r].badRuns
      BY <1>3, <1>10, <1>11, <2>1
    <3>2. \A s \in run[r].stale : Ended(s)' \/ s \in run'[r].badRuns
      BY <1>3, <2>2, <3>1
    <3> QED
      BY <1>1, <1>16, <1>17, <3>1, <3>2, MovedShape
  <2>4. ClaimsMatch(r)'
    BY <1>1, <1>3, <1>9, <1>10, <1>11, <1>13 DEF ClaimsMatch
  <2>5. AccountedFor(r)'
    BY <1>16 DEF AccountedFor, Ended
  <2> QED
    BY <1>1, <1>16, <2>3, <2>4, <2>5 DEF Moved
<1>20. Legal(r)
  <2>1. run[r].owner = w /\ ~Idle(w) /\ Top(w).run = r /\ worker'[w] # worker[w]
    BY <1>1, <1>18
  <2>2. \A u \in Tasks :
          IF run[r].member[u] = "pending"
          THEN run'[r].member[u] # "none"
          ELSE run'[r].member[u] = run[r].member[u]
    BY <1>3, <1>8, <1>9, <1>10, <1>11 DEF Outcomes
  <2>3. \A u \in Tasks : (run[r].member[u] # "claimed" /\ run'[r].member[u] = "claimed")
          => \A s \in run[r].stale : run[s].member[u] # "pending"
    BY <1>3, <1>9, <1>10, <1>11, <1>12
  <2> QED
    BY <1>1, <2>1, <2>2, <2>3 DEF Legal, Ended
<1>21. RestTyped'
  BY <1>11, <1>13, <1>14 DEF RestTyped, IInv, Typed
<1>22. InOrder' /\ KeysUnique'
  BY <1>1, <1>3, <1>10, <1>11, <1>16, SameOrder DEF Exists
<1> QED
  BY <1>15, <1>18, <1>19, <1>20, <1>21, <1>22, StepDone

LEMMA ClaimStep ==
    ASSUME IInv, NEW w \in Workers, NEW t \in Tasks, ClaimMember(w, t), UNCHANGED expiries
    PROVE  Good
<1>1. PICK g : g = Top(w)
  OBVIOUS
<1>2. PICK r : r = g.run
  OBVIOUS
<1>3. PICK f : f = [g EXCEPT !.pc = "claimed", !.at = t, !.sweep = @ \ {t}, !.unresolved = @ \ {t}]
  OBVIOUS
<1>4. /\ ~Idle(w) /\ g.pc = "claim" /\ UNCHANGED <<expired, denied>> /\ Goto(w, f, FALSE)
      /\ t \in g.unresolved => Owns(w, r) /\ run[r].status = "sweeping"
  BY <1>1, <1>2, <1>3 DEF ClaimMember, At
<1>5. g \in Frames /\ TopShape(g) /\ g.sweep \subseteq Tasks /\ g.unresolved \subseteq Tasks
  BY <1>1, <1>4, TopFacts, FrameFields
<1>6. /\ f \in Frames /\ f.run = g.run /\ f.inventory = g.inventory /\ f.runs = g.runs
      /\ f.badRuns = g.badRuns /\ f.pc = "claimed"
  BY <1>3, <1>5 DEF Frames, Places
<1>7. CASE t \in g.unresolved /\ Pending(r, t)
  <2>1. PICK v \in Verdicts(r, t) :
                 /\ run' = [run EXCEPT ![r].member[t] = v, ![r].changed = @ \ {t}]
                 /\ task' = IF v = "claimed"
                            THEN [task EXCEPT ![t] = [state |-> "running",
                                                      start |-> "pending", by |-> r]]
                            ELSE task
    BY <1>1, <1>2, <1>7 DEF ClaimMember
  <2> QED
    BY <1>1, <1>2, <1>4, <1>6, <1>7, <2>1, ResolveMember
<1>8. CASE ~(t \in g.unresolved /\ Pending(r, t))
  <2>1. UNCHANGED <<run, task>>
    BY <1>1, <1>2, <1>8 DEF ClaimMember
  <2>2. TopShape(f)'
    BY <1>5, <1>6, <2>1, NothingGrows, TopStays
  <2> QED
    BY <1>1, <1>4, <1>6, <2>1, <2>2, SameTasks, GotoStep
<1> QED
  BY <1>7, <1>8
-----------------------------------------------------------------------------
(* The theorems.                                                           *)

LEMMA NextGood == IInv /\ Next => Good
<1> SUFFICES ASSUME IInv, Next PROVE Good
  OBVIOUS
<1>1. CASE UNCHANGED expiries /\ \E w \in Workers :
                \/ \E k \in Keys : Trigger(w, k)
                \/ \E k \in Slots : DeliverScheduled(w, k)
                \/ \E r \in Runs : Resume(w, r)
  BY <1>1, TriggerStep, DeliverStep, ResumeStep DEF Resume
<1>2. CASE UNCHANGED expiries /\ \E w \in Workers : Step(w) \/ Fail(w)
  BY <1>2, TakeoverStep, BeginStep, ReadInventoryStep, CheckpointStep, CommitStep, SealStep, ReadMembersStep,
     StartMemberStep, FinalizeStep, ResolveWorkStep, ClaimStep, ResolveRunStep, FailStep DEF Step
<1>3. CASE UNCHANGED expiries
           /\ \E t \in Tasks : MarkReady(t) \/ EditTask(t) \/ ClientClaim(t) \/ LoopFinalize(t)
  BY <1>3, MarkReadyStep, EditTaskStep, ClientClaimStep, LoopFinalizeStep
<1>4. CASE \E w \in Workers : Die(w)
  BY <1>4, DieStep
<1>5. CASE \E r \in Runs : Expire(r)
  BY <1>5, ExpireStep
<1> QED
  BY <1>1, <1>2, <1>3, <1>4, <1>5 DEF Next

LEMMA StutterInv == IInv /\ UNCHANGED vars => IInv'
<1> SUFFICES ASSUME IInv, UNCHANGED vars PROVE IInv'
  OBVIOUS
<1>1. StacksOK'
  BY NothingGrows, SameStacks DEF StacksOK, vars
<1>2. Good
  BY <1>1, WorkersStep DEF vars, IInv, Typed
<1> QED
  BY <1>2 DEF Good

(* Every reachable state of the dispatcher runs satisfies the inductive    *)
(* invariant: sealed runs have reconciled, what they found stale has ended *)
(* or is held as bad, and every call on a worker's stack accounts for the  *)
(* inventory it has read.                                                  *)
THEOREM RunsInvariant == Spec => []IInv
<1>1. IInv /\ [Next]_vars => IInv'
  BY NextGood, StutterInv DEF Good
<1> QED
  BY <1>1, InitInv, PTL DEF Spec

(* The shape of runs, Tasks and calls. *)
THEOREM RunsTypeOK == Spec => []TypeOK
<1>1. IInv => TypeOK
  BY DEF IInv, Typed, TypeOK, RunRows, TaskRows, Statuses
<1> QED
  BY <1>1, RunsInvariant, PTL

(* A trigger or scheduled tuple has one run, and a Task is claimed by the  *)
(* one member that says so, whatever the workers and clients race for.     *)
THEOREM RunsDispatchedOnce == Spec => []DispatchedOnce
<1>1. IInv => DispatchedOnce
  BY DEF IInv
<1> QED
  BY <1>1, RunsInvariant, PTL

(* A run that has ended accounts for its reconciliation, for every member  *)
(* and for every start it claimed.                                         *)
THEOREM RunsAccounted == Spec => []TerminalRunIsAccounted
<1>1. IInv => TerminalRunIsAccounted
  BY DEF IInv
<1> QED
  BY <1>1, RunsInvariant, PTL

(* Only the current owner advances a run or resolves its members; the      *)
(* sealed set is final and a run that has ended stays as it is.            *)
THEOREM RunsOnlyTheOwner == Spec => OnlyTheOwnerAdvances
<1>1. IInv /\ [Next]_vars =>
        [\A r \in Runs :
          /\ (/\ Exists(r)
              /\ <<run[r].status, run[r].member, run[r].reconciled>>
                    # <<run'[r].status, run'[r].member, run'[r].reconciled>>)
             => \E w \in Workers :
                   /\ run[r].owner = w
                   /\ ~Idle(w) /\ Top(w).run = r /\ worker'[w] # worker[w]
          /\ Sealed(r) => \A t \in Tasks :
                IF run[r].member[t] = "pending"
                THEN run'[r].member[t] # "none"
                ELSE run'[r].member[t] = run[r].member[t]
          /\ run[r].status \in TerminalStatuses => run'[r].status = run[r].status]_vars
  BY NextGood DEF Good, Legal
<1> QED
  BY <1>1, RunsInvariant, PTL DEF Spec, OnlyTheOwnerAdvances

(* A run claims no Task that an older run it found stale has still to      *)
(* resolve: that run has ended first, or it is held as bad and holds back  *)
(* its members.                                                            *)
THEOREM RunsStaleFirst == Spec => StaleRunsFirst
<1>1. IInv /\ [Next]_vars =>
        [\A r \in Runs, t \in Tasks :
          (run[r].member[t] # "claimed" /\ run'[r].member[t] = "claimed")
             => \A s \in run[r].stale : run[s].member[t] # "pending"]_vars
  BY NextGood DEF Good, Legal
<1> QED
  BY <1>1, RunsInvariant, PTL DEF Spec, StaleRunsFirst
=============================================================================
