------------------------ MODULE CompletionGatesProofs ------------------------
(***************************************************************************)
(* Proofs about CompletionGates for any number of calls, processes, gates, *)
(* objects, operations and policy receipts: types, that a finalized        *)
(* verdict is what the gate did, and that a Task is completed only on an   *)
(* object on which every required gate has passed.                         *)
(*                                                                         *)
(* The evidence leaf carries the argument.  It is claimed once, published  *)
(* at most once, and from then on the record of what the child did is      *)
(* final; a call may hold a verdict only if the leaf of its run has it.    *)
(* Policy receipts keep their subject and runs their gate and receipt, so  *)
(* what was read of them under way is still true at the end.               *)
(***************************************************************************)
EXTENDS CompletionGates, SequenceTheorems, FiniteSetTheorems, TLAPS

Typed ==
    /\ rev \in Nat /\ rec \in Nat /\ head \in Heads /\ disk \in Heads
    /\ policy \in Seq(PolicyReceipts) /\ Len(policy) <= MaxPolicies
    /\ ops \in [Ops -> Operations]
    /\ leaf \in [Ops -> Leaves] /\ fresh \in [Ops -> BOOLEAN]
    /\ live \in [Ops -> {"none", "running", "cancelled"}]
    /\ ran \in [Ops -> [exit : {"none", "pass", "other"}, head : Heads \cup {None}]]
    /\ done \in {None} \cup [policy : DOMAIN policy, head : Heads]
    /\ home \in [Callers -> Processes]
    /\ caller \in [Callers -> Calls]

(* Operations are prepared in order. *)
InOrder == \E n \in 0..MaxOps : \A o \in Ops : ops[o].state # "none" <=> o <= n

IsRun(o) == ops[o].kind = "run"

(* What operation o is about: a run is about itself, an inspection or a    *)
(* cancellation about a run of its gate under its policy receipt.          *)
Row(o) ==
    /\ ops[o].kind # "none" =>
        /\ ops[o].state # "none"
        /\ ops[o].policy \in DOMAIN policy
        /\ ops[o].run \in Ops /\ IsRun(ops[o].run)
        /\ ops[ops[o].run].gate = ops[o].gate /\ ops[ops[o].run].policy = ops[o].policy
        /\ IsRun(o) => ops[o].run = o
    /\ ops[o].state = "finalized" =>
        ops[o].kind # "none" /\ ops[o].verdict \in Verdicts /\ leaf[ops[o].run] = ops[o].verdict

(* The evidence of run o: only a run has any, and a published verdict is   *)
(* what its child did, on the object of the policy's subject.              *)
Evidence(o) ==
    /\ leaf[o] # "absent" => IsRun(o)
    /\ leaf[o] \in Verdicts =>
        /\ leaf[o] = "pass" <=> ran[o].exit = "pass"
        /\ ran[o].head = policy[ops[o].policy].subject.head
    /\ live[o] # "none" =>
        leaf[o] = "claimed" /\ \E c \in Callers : caller[c].pc = "child" /\ caller[c].op = o

StateAt(pc) ==
    CASE pc = "act" -> "pending" [] pc \in {"backend", "child", "answered"} -> "executing"
      [] pc = "verify" -> "observed" [] pc = "finalize" -> "verified" [] OTHER -> "none"

(* Where call c is: bound by its policy receipt, with its operation in the *)
(* state that its place demands, and with a verdict only from the leaf.    *)
InCall(c) ==
    LET call == caller[c]  o == caller[c].op IN
    /\ call.pc # "idle" =>
        /\ call.policy \in DOMAIN policy /\ call.bound \in Bounds
        /\ policy[call.policy].subject = [rev |-> call.bound.rev, head |-> call.bound.head]
    /\ \A t \in call.todo : IsRun(t) /\ ops[t].policy = call.policy
    /\ call.pc \in {"idle", "reopen"} => o = 0
    /\ call.pc \notin {"idle", "reopen"} =>
        /\ o \in Ops /\ ops[o].kind # "none" /\ ops[o].policy = call.policy
        /\ ops[o].state = StateAt(call.pc)
    /\ call.pc = "child" =>
        /\ IsRun(o) /\ leaf[o] = "claimed"
        /\ ran[o].head = call.bound.head
    /\ call.pc = "answered" /\ call.result \in Verdicts => leaf[ops[o].run] = call.result
    /\ call.pc \in {"verify", "finalize"} =>
        call.result \in Verdicts /\ leaf[ops[o].run] = call.result
    /\ call.pc = "finalize" => ops[o].verdict = call.result

(* An operation is carried on by one call. *)
OneCall == \A c, d \in Callers : c # d /\ caller[c].op = caller[d].op => caller[c].op = 0

(* What the Task was completed with. *)
CompletedOnEvidence ==
    done # None =>
        /\ policy[done.policy].subject.head = done.head
        /\ \A g \in policy[done.policy].needs :
            \E o \in Ops : /\ IsRun(o) /\ ops[o].gate = g /\ ops[o].policy = done.policy
                           /\ leaf[o] = "pass"

IInv ==
    /\ Typed /\ InOrder /\ OneCall /\ CompletedOnEvidence
    /\ \A o \in Ops : Row(o) /\ Evidence(o)
    /\ \A c \in Callers : InCall(c)
-----------------------------------------------------------------------------
(* The records.                                                            *)

LEMMA OpFields ==
    ASSUME NEW x \in Operations
    PROVE  /\ x.kind \in Kinds \cup {"none"} /\ x.gate \in Gates \cup {None} /\ x.policy \in Nat /\ x.run \in Nat
           /\ x.state \in OpStates /\ x.verdict \in Verdicts \cup {"none"} /\ x.at \in Nat
  BY DEF Operations

LEMMA CallFields ==
    ASSUME NEW x \in Calls
    PROVE  /\ x.pc \in {"idle", "act", "backend", "child", "answered", "verify", "finalize", "reopen"}
           /\ x.bound \in Bounds \cup {None} /\ x.policy \in Nat /\ x.op \in Nat
           /\ x.result \in Verdicts \cup {"none", "unclear"}
           /\ x.accepting \in BOOLEAN /\ x.todo \in SUBSET Ops /\ x.reopened \in SUBSET Ops
  BY DEF Calls

LEMMA Rest ==
    /\ Idle \in Calls /\ Idle.pc = "idle" /\ Idle.op = 0 /\ Idle.todo = {}
    /\ NoOperation \in Operations /\ NoOperation.kind = "none" /\ NoOperation.state = "none"
  BY DEF Idle, NoOperation, Calls, Operations, OpStates, Kinds

LEMMA PolicyFields ==
    ASSUME policy \in Seq(PolicyReceipts), NEW r \in DOMAIN policy
    PROVE  /\ policy[r] \in PolicyReceipts /\ r \in Nat
           /\ policy[r].subject \in Subjects /\ policy[r].needs \subseteq Gates /\ policy[r].valid \in BOOLEAN
<1>1. policy[r] \in PolicyReceipts /\ r \in Nat
  BY ElementOfSeq, LenProperties
<1> QED
  BY <1>1 DEF PolicyReceipts

(* An ended operation keeps what a run is about. *)
LEMMA EndedRecord ==
    ASSUME NEW o \in Ops, ops[o] \in Operations
    PROVE  /\ Ended(o) \in Operations /\ Ended(o).state = "ended"
           /\ IsRun(o) => /\ Ended(o).kind = "run" /\ Ended(o).gate = ops[o].gate
                          /\ Ended(o).policy = ops[o].policy /\ Ended(o).run = ops[o].run
           /\ ~IsRun(o) => Ended(o).kind = "none"
<1>1. CASE IsRun(o)
  <2> DEFINE y == [ops[o] EXCEPT !.state = "ended", !.verdict = "none"]
  <2>1. /\ y \in Operations /\ y.state = "ended" /\ y.kind = ops[o].kind /\ y.gate = ops[o].gate
        /\ y.policy = ops[o].policy /\ y.run = ops[o].run
    BY DEF Operations, OpStates
  <2>2. Ended(o) = y
    BY <1>1 DEF Ended, IsRun
  <2> HIDE DEF y
  <2> QED
    BY <1>1, <2>1, <2>2 DEF IsRun
<1>2. CASE ~IsRun(o)
  <2> DEFINE y == [NoOperation EXCEPT !.state = "ended"]
  <2>1. y \in Operations /\ y.state = "ended" /\ y.kind = "none"
    BY Rest DEF Operations, OpStates
  <2>2. Ended(o) = y
    BY <1>2 DEF Ended, IsRun
  <2> HIDE DEF y
  <2> QED
    BY <1>2, <2>1, <2>2
<1> QED
  BY <1>1, <1>2

LEMMA EndedRows ==
    ASSUME Typed, NEW S \in SUBSET Callers
    PROVE  /\ EndedOf(S) \in [Ops -> Operations]
           /\ \A o \in Ops : \/ EndedOf(S)[o] = ops[o]
                             \/ /\ EndedOf(S)[o] = Ended(o) /\ ops[o].state \notin {"none", "finalized"}
                                /\ \E c \in S : caller[c].op = o
<1>1. \A o \in Ops : Ended(o) \in Operations /\ ops[o] \in Operations
  BY EndedRecord DEF Typed
<1>2. /\ EndedOf(S) = [o \in Ops |-> EndedOf(S)[o]]
      /\ \A o \in Ops : \/ EndedOf(S)[o] = ops[o]
                        \/ /\ EndedOf(S)[o] = Ended(o) /\ ops[o].state \notin {"none", "finalized"}
                           /\ \E c \in S : caller[c].op = o
  BY DEF EndedOf
<1>3. \A o \in Ops : EndedOf(S)[o] \in Operations
  BY <1>1, <1>2
<1> QED
  BY <1>2, <1>3

LEMMA NextOperation ==
    ASSUME Typed, InOrder, Fresh \in Ops
    PROVE  /\ ops[Fresh].state = "none"
           /\ \A o \in Ops : ops[o].state # "none" <=> o < Fresh
<1>1. PICK n \in 0..MaxOps : \A o \in Ops : ops[o].state # "none" <=> o <= n
  BY DEF InOrder
<1>2. {o \in Ops : ops[o].state # "none"} = 1..n
  BY <1>1, GatesAssumption DEF Ops
<1>3. Cardinality(1..n) = n
  BY <1>1, FS_Interval, GatesAssumption
<1>4. Fresh = n + 1
  BY <1>2, <1>3 DEF Fresh
<1> QED
  BY <1>1, <1>4, GatesAssumption DEF Ops
-----------------------------------------------------------------------------
(* What every step keeps, and what follows for those it is not a step of.  *)

(* Policy receipts keep their subject and their gates, runs what they are  *)
(* about, and published verdicts and what they report are final.           *)
Grows ==
    /\ \A r \in DOMAIN policy : /\ r \in DOMAIN policy' /\ policy'[r].subject = policy[r].subject
                                /\ policy'[r].needs = policy[r].needs
    /\ \A o \in Ops : IsRun(o) => /\ ops'[o].kind = "run" /\ ops'[o].gate = ops[o].gate
                                  /\ ops'[o].policy = ops[o].policy /\ ops'[o].run = ops[o].run
    /\ \A o \in Ops : leaf[o] \in Verdicts => leaf'[o] = leaf[o] /\ ran'[o] = ran[o]

LEMMA SameRow ==
    ASSUME IInv, Grows, NEW o \in Ops, ops'[o] = ops[o]
    PROVE  Row(o)'
<1>1. Row(o)
  BY DEF IInv
<1> QED
  BY <1>1 DEF Row, Grows, IsRun

LEMMA EndedRow ==
    ASSUME IInv, Grows, NEW o \in Ops, ops'[o] = Ended(o)
    PROVE  Row(o)'
<1>1. Row(o) /\ ops[o] \in Operations
  BY DEF IInv, Typed
<1>2. ops'[o].state = "ended" /\ (ops'[o].kind # "none" => IsRun(o))
  BY <1>1, EndedRecord
<1>3. CASE IsRun(o)
  BY <1>1, <1>2, <1>3 DEF Row, Grows, IsRun
<1>4. CASE ~IsRun(o)
  BY <1>2, <1>4 DEF Row
<1> QED
  BY <1>3, <1>4

LEMMA OtherCall ==
    ASSUME IInv, Grows, NEW d \in Callers, caller'[d] = caller[d],
           caller[d].op \in Ops => ops'[caller[d].op] = ops[caller[d].op],
           caller[d].pc = "child" => leaf'[caller[d].op] = leaf[caller[d].op] /\ ran'[caller[d].op] = ran[caller[d].op]
    PROVE  InCall(d)'
<1>1. PICK call \in Calls, o \in Nat : call = caller[d] /\ o = caller[d].op
  BY CallFields DEF IInv, Typed
<1>2. InCall(d)
  BY DEF IInv
<1>3. o \in Ops => Row(o)
  BY DEF IInv
<1>4. \A t \in call.todo : t \in Ops
  BY CallFields
<1> QED
  BY <1>1, <1>2, <1>3, <1>4 DEF InCall, Row, Grows, IsRun

LEMMA SameCompletion ==
    ASSUME IInv, Grows, done' = done
    PROVE  CompletedOnEvidence'
<1>1. done # None => done.policy \in DOMAIN policy
  BY DEF IInv, Typed
<1> QED
  BY <1>1 DEF IInv, CompletedOnEvidence, Grows, IsRun, Verdicts

LEMMA SameEvidence ==
    ASSUME IInv, Grows, NEW o \in Ops, leaf'[o] = leaf[o], ran'[o] = ran[o],
           live'[o] # "none" =>
              live[o] # "none" /\ \A c \in Callers : caller[c].pc = "child" /\ caller[c].op = o => caller'[c] = caller[c]
    PROVE  Evidence(o)'
<1>1. Evidence(o) /\ Row(o)
  BY DEF IInv
<1>2. leaf[o] \in Verdicts => leaf[o] # "absent"
  BY DEF Verdicts
<1> QED
  BY <1>1, <1>2 DEF Evidence, Row, Grows, IsRun

LEMMA BusyOperation ==
    ASSUME IInv, NEW d \in Callers, caller[d].op # 0
    PROVE  /\ caller[d].op \in Ops /\ caller[d].pc \notin {"idle", "reopen"}
           /\ ops[caller[d].op].state \notin {"none", "finalized", "ended"}
<1>1. /\ caller[d].op \in Ops /\ caller[d].pc \notin {"idle", "reopen"}
      /\ ops[caller[d].op].state = StateAt(caller[d].pc)
  BY DEF IInv, InCall
<1>2. caller[d].pc \in {"idle", "act", "backend", "child", "answered", "verify", "finalize", "reopen"}
  BY CallFields DEF IInv, Typed
<1> QED
  BY <1>1, <1>2 DEF StateAt

(* A step of call c, which may change its operation or a new one. *)
StepOf(c) ==
    /\ \A d \in Callers \ {c} : caller'[d] = caller[d]
    /\ \A o \in Ops : ops'[o] = ops[o] \/ o = caller[c].op \/ ops[o].state = "none"
    /\ \/ caller'[c].op \in {0, caller[c].op}
       \/ caller'[c].op \in Ops /\ ops[caller'[c].op].state = "none"

LEMMA OthersStay ==
    ASSUME IInv, Grows, NEW c \in Callers, StepOf(c),
           \A o \in Ops \ {caller[c].op} : leaf'[o] = leaf[o] /\ ran'[o] = ran[o]
    PROVE  OneCall' /\ \A d \in Callers \ {c} : InCall(d)'
<1>1. \A d \in Callers : caller[d].op # 0 =>
        caller[d].op \in Ops /\ ops[caller[d].op].state # "none" /\ caller[d].pc \notin {"idle", "reopen"}
  BY BusyOperation
<1>2. 0 \notin Ops
  BY GatesAssumption DEF Ops
<1>3. \A d \in Callers \ {c} : caller[d].op # 0 => caller[d].op # caller[c].op
  BY DEF IInv, OneCall
<1>4. ASSUME NEW d \in Callers \ {c} PROVE InCall(d)'
  <2>1. caller'[d] = caller[d]
    BY DEF StepOf
  <2>2. caller[d].op \in Ops => ops'[caller[d].op] = ops[caller[d].op] /\ caller[d].op # caller[c].op
    BY <1>1, <1>2, <1>3 DEF StepOf
  <2>3. caller[d].pc = "child" => caller[d].op \in Ops
    BY DEF IInv, InCall
  <2> QED
    BY <2>1, <2>2, <2>3, OtherCall
<1>5. OneCall'
  <2> SUFFICES ASSUME NEW a \in Callers, NEW b \in Callers, a # b, caller'[a].op = caller'[b].op
               PROVE  caller'[a].op = 0
    BY DEF OneCall
  <2>1. CASE a # c /\ b # c
    BY <2>1 DEF StepOf, IInv, OneCall
  <2>2. CASE a = c
    BY <1>1, <1>3, <2>2 DEF StepOf
  <2>3. CASE b = c
    BY <1>1, <1>3, <2>3 DEF StepOf
  <2> QED
    BY <2>1, <2>2, <2>3
<1> QED
  BY <1>4, <1>5

(* A step of call c that leaves the gates alone. *)
LEMMA CallerStep ==
    ASSUME IInv, Grows, NEW c \in Callers, StepOf(c), caller[c].pc # "child", UNCHANGED <<leaf, live, ran>>,
           Typed', InOrder', CompletedOnEvidence', InCall(c)', \A o \in Ops : Row(o)'
    PROVE  IInv'
<1>1. OneCall' /\ \A d \in Callers \ {c} : InCall(d)'
  BY OthersStay
<1>2. \A o \in Ops : Evidence(o)'
  <2> SUFFICES ASSUME NEW o \in Ops PROVE Evidence(o)'
    OBVIOUS
  <2>1. \A d \in Callers : caller[d].pc = "child" => caller'[d] = caller[d]
    BY DEF StepOf
  <2> QED
    BY <2>1, SameEvidence
<1> QED
  BY <1>1, <1>2 DEF IInv

(* The order is kept if no operation is begun. *)
LEMMA SameOrder ==
    ASSUME InOrder, \A o \in Ops : ops'[o].state = "none" <=> ops[o].state = "none"
    PROVE  InOrder'
  BY DEF InOrder

LEMMA SameTypes ==
    ASSUME Typed, UNCHANGED <<rev, rec, head, disk, policy, leaf, fresh, live, ran, done, home>>,
           ops' \in [Ops -> Operations], caller' \in [Callers -> Calls]
    PROVE  Typed'
  BY DEF Typed
-----------------------------------------------------------------------------
(* The steps of a call that only end it.                                   *)

LEMMA EndStep ==
    ASSUME IInv, NEW c \in Callers, caller[c].pc # "child",
           UNCHANGED <<world, binding, policy, done, home>>, ops' = EndedOf({c}), Done(c)
    PROVE  IInv'
<1>1. Typed /\ InOrder
  BY DEF IInv
<1>2. /\ ops' \in [Ops -> Operations]
      /\ \A o \in Ops : ops'[o] = ops[o] \/ (ops'[o] = Ended(o) /\ ops[o].state # "none" /\ caller[c].op = o)
  BY <1>1, EndedRows
<1>3. caller' \in [Callers -> Calls] /\ caller'[c] = Idle /\ \A d \in Callers \ {c} : caller'[d] = caller[d]
  BY <1>1, Rest DEF Done, Typed
<1>4. \A o \in Ops : ops[o] \in Operations
  BY <1>1 DEF Typed
<1>5. Grows
  <2>1. \A o \in Ops : IsRun(o) => /\ ops'[o].kind = "run" /\ ops'[o].gate = ops[o].gate
                                   /\ ops'[o].policy = ops[o].policy /\ ops'[o].run = ops[o].run
    BY <1>2, <1>4, EndedRecord DEF IsRun
  <2> QED
    BY <2>1 DEF Grows, world
<1>6. StepOf(c)
  BY <1>2, <1>3, Rest DEF StepOf
<1>7. InOrder'
  BY <1>1, <1>2, <1>4, EndedRecord, SameOrder
<1>8. Typed'
  BY <1>1, <1>2, <1>3, SameTypes DEF world, binding
<1>9. InCall(c)'
  BY <1>3, Rest DEF InCall
<1>10. \A o \in Ops : Row(o)'
  BY <1>2, <1>5, SameRow, EndedRow
<1>11. CompletedOnEvidence'
  BY <1>5, SameCompletion
<1> QED
  BY <1>5, <1>6, <1>7, <1>8, <1>9, <1>10, <1>11, CallerStep DEF world

LEMMA StopStep ==
    ASSUME IInv, NEW c \in Callers, Stop(c)
    PROVE  IInv'
  BY EndStep DEF Stop
-----------------------------------------------------------------------------
(* The steps of a call that carry its operation on.                        *)

LEMMA GotoFields ==
    ASSUME Typed, NEW c \in Callers, NEW pc \in {"backend", "child", "verify", "finalize"}, Goto(c, pc)
    PROVE  /\ caller' \in [Callers -> Calls] /\ \A d \in Callers \ {c} : caller'[d] = caller[d]
           /\ caller'[c].pc = pc /\ caller'[c].bound = caller[c].bound /\ caller'[c].policy = caller[c].policy
           /\ caller'[c].op = caller[c].op /\ caller'[c].result = caller[c].result /\ caller'[c].todo = caller[c].todo
<1> DEFINE x == [caller[c] EXCEPT !.pc = pc]
<1>1. caller[c] \in Calls
  BY DEF Typed
<1>2. /\ x \in Calls /\ x.pc = pc /\ x.bound = caller[c].bound /\ x.policy = caller[c].policy
      /\ x.op = caller[c].op /\ x.result = caller[c].result /\ x.todo = caller[c].todo
  BY <1>1 DEF Calls
<1>3. caller' = [caller EXCEPT ![c] = x]
  BY DEF Goto
<1> HIDE DEF x
<1> QED
  BY <1>2, <1>3 DEF Typed

LEMMA AnswerFields ==
    ASSUME Typed, NEW c \in Callers, NEW v \in Verdicts \cup {"unclear"}, Answer(c, v)
    PROVE  /\ caller' \in [Callers -> Calls] /\ \A d \in Callers \ {c} : caller'[d] = caller[d]
           /\ caller'[c].pc = "answered" /\ caller'[c].bound = caller[c].bound
           /\ caller'[c].policy = caller[c].policy
           /\ caller'[c].op = caller[c].op /\ caller'[c].result = v /\ caller'[c].todo = caller[c].todo
<1> DEFINE x == [caller[c] EXCEPT !.pc = "answered", !.result = v]
<1>1. caller[c] \in Calls
  BY DEF Typed
<1>2. /\ x \in Calls /\ x.pc = "answered" /\ x.bound = caller[c].bound /\ x.policy = caller[c].policy
      /\ x.op = caller[c].op /\ x.result = v /\ x.todo = caller[c].todo
  BY <1>1 DEF Calls
<1>3. caller' = [caller EXCEPT ![c] = x]
  BY DEF Answer
<1> HIDE DEF x
<1> QED
  BY <1>2, <1>3 DEF Typed

(* Operation o gets the record x, about the same run. *)
Rewrites(o, x) ==
    /\ x \in Operations /\ ops' = [ops EXCEPT ![o] = x]
    /\ x.kind = ops[o].kind /\ x.gate = ops[o].gate /\ x.policy = ops[o].policy /\ x.run = ops[o].run

LEMMA StateWritten ==
    ASSUME Typed, NEW o \in Ops, NEW s \in OpStates, ops' = [ops EXCEPT ![o].state = s]
    PROVE  \E x : Rewrites(o, x) /\ x.state = s /\ x.verdict = ops[o].verdict
<1> DEFINE x == [ops[o] EXCEPT !.state = s]
<1>1. ops[o] \in Operations
  BY DEF Typed
<1>2. /\ x \in Operations /\ x.state = s /\ x.verdict = ops[o].verdict
      /\ x.kind = ops[o].kind /\ x.gate = ops[o].gate /\ x.policy = ops[o].policy /\ x.run = ops[o].run
  BY <1>1 DEF Operations
<1>3. ops' = [ops EXCEPT ![o] = x]
  OBVIOUS
<1> QED
  BY <1>2, <1>3 DEF Rewrites

(* What a call at work knows of its operation. *)
LEMMA Working ==
    ASSUME IInv, NEW c \in Callers, caller[c].pc \notin {"idle", "reopen"}
    PROVE  \E o \in Ops, w \in Ops :
             /\ o = caller[c].op /\ w = ops[o].run
             /\ ops[o].kind # "none" /\ ops[o].state = StateAt(caller[c].pc) /\ ops[o].policy = caller[c].policy
             /\ IsRun(w) /\ ops[w].gate = ops[o].gate /\ ops[w].policy = ops[o].policy
             /\ ops[o].state \notin {"none", "finalized", "ended"}
<1>1. PICK o \in Ops : o = caller[c].op
  BY DEF IInv, InCall
<1>2. InCall(c) /\ Row(o)
  BY DEF IInv
<1>3. ops[o].kind # "none"
  BY <1>1, <1>2 DEF InCall
<1>4. PICK w \in Ops : w = ops[o].run
  BY <1>2, <1>3 DEF Row
<1>5. o # 0
  BY GatesAssumption DEF Ops
<1>6. ops[o].state \notin {"none", "finalized", "ended"}
  BY <1>1, <1>5, BusyOperation
<1> QED
  BY <1>1, <1>2, <1>3, <1>4, <1>6 DEF InCall, Row

(* A call rewrites its operation and stays with it. *)
LEMMA RewriteStep ==
    ASSUME IInv, NEW c \in Callers, caller[c].pc \notin {"idle", "reopen", "child"},
           UNCHANGED <<world, binding, policy, done, home>>,
           NEW x, Rewrites(caller[c].op, x), x.state # "none",
           caller' \in [Callers -> Calls], \A d \in Callers \ {c} : caller'[d] = caller[d],
           caller'[c].op \in {0, caller[c].op},
           x.state = "finalized" => x.verdict \in Verdicts /\ leaf[x.run] = x.verdict,
           InCall(c)'
    PROVE  IInv'
<1>1. PICK o \in Ops, w \in Ops :
             /\ o = caller[c].op /\ w = ops[o].run
             /\ ops[o].kind # "none" /\ ops[o].policy = caller[c].policy
             /\ IsRun(w) /\ ops[w].gate = ops[o].gate /\ ops[w].policy = ops[o].policy
             /\ ops[o].state # "none"
  BY Working
<1>2. Typed /\ InOrder /\ Row(o)
  BY DEF IInv
<1>3. /\ ops' \in [Ops -> Operations] /\ ops'[o] = x /\ \A n \in Ops \ {o} : ops'[n] = ops[n]
      /\ x.kind = ops[o].kind /\ x.gate = ops[o].gate /\ x.policy = ops[o].policy /\ x.run = ops[o].run
  BY <1>1, <1>2 DEF Rewrites, Typed
<1>4. Grows
  <2>1. \A n \in Ops : IsRun(n) => /\ ops'[n].kind = "run" /\ ops'[n].gate = ops[n].gate
                                   /\ ops'[n].policy = ops[n].policy /\ ops'[n].run = ops[n].run
    BY <1>3 DEF IsRun
  <2> QED
    BY <2>1 DEF Grows, world
<1>5. StepOf(c)
  BY <1>1, <1>3 DEF StepOf
<1>6. InOrder'
  <2>1. \A n \in Ops : ops'[n].state = "none" <=> ops[n].state = "none"
    BY <1>1, <1>3
  <2> QED
    BY <1>2, <2>1, SameOrder
<1>7. Typed'
  BY <1>2, <1>3, SameTypes DEF world, binding
<1>8. Row(o)'
  <2>1. leaf' = leaf /\ policy' = policy
    BY DEF world
  <2> QED
    BY <1>1, <1>2, <1>3, <1>4, <2>1 DEF Row, Grows, IsRun
<1>9. \A n \in Ops : Row(n)'
  BY <1>3, <1>4, <1>8, SameRow
<1>10. CompletedOnEvidence'
  BY <1>4, SameCompletion
<1> QED
  BY <1>4, <1>5, <1>6, <1>7, <1>9, <1>10, CallerStep DEF world

LEMMA ActStep ==
    ASSUME IInv, NEW c \in Callers, Act(c)
    PROVE  IInv'
<1>1. PICK o \in Ops : o = caller[c].op /\ ops[o].kind # "none" /\ ops[o].policy = caller[c].policy
  BY Working DEF Act
<1>2. caller[c].pc = "act" /\ UNCHANGED <<world, binding, policy, done, home>>
  BY DEF Act
<1>3. CASE ~IsCurrent(caller[c].policy)
  BY <1>2, <1>3, EndStep DEF Act
<1>4. CASE IsCurrent(caller[c].policy)
  <2>1. ops' = [ops EXCEPT ![o].state = "executing"] /\ Goto(c, "backend") /\ Typed
    BY <1>1, <1>4 DEF Act, IInv
  <2>2. PICK x : Rewrites(o, x) /\ x.state = "executing" /\ x.verdict = ops[o].verdict
    BY <2>1, StateWritten DEF OpStates
  <2>3. ops'[o] = x /\ \A n \in Ops : IsRun(n) => ops'[n].kind = "run" /\ ops'[n].policy = ops[n].policy
    BY <2>1, <2>2 DEF Rewrites, IsRun, Typed
  <2>4. /\ caller' \in [Callers -> Calls] /\ \A d \in Callers \ {c} : caller'[d] = caller[d]
        /\ caller'[c].pc = "backend" /\ caller'[c].bound = caller[c].bound /\ caller'[c].policy = caller[c].policy
        /\ caller'[c].op = caller[c].op /\ caller'[c].todo = caller[c].todo
    BY <2>1, GotoFields
  <2>5. InCall(c) /\ \A t \in caller[c].todo : t \in Ops
    BY <2>1, CallFields DEF IInv, Typed
  <2>6. InCall(c)'
    BY <1>1, <1>2, <2>2, <2>3, <2>4, <2>5 DEF InCall, Rewrites, StateAt, IsRun
  <2> QED
    BY <1>1, <1>2, <2>2, <2>4, <2>6, RewriteStep
<1> QED
  BY <1>3, <1>4

LEMMA ObserveStep ==
    ASSUME IInv, NEW c \in Callers, Observe(c)
    PROVE  IInv'
<1>1. PICK o \in Ops, w \in Ops : o = caller[c].op /\ w = ops[o].run
                                  /\ ops[o].kind # "none" /\ ops[o].policy = caller[c].policy
  BY Working DEF Observe
<1>2. caller[c].pc = "answered" /\ UNCHANGED <<world, binding, policy, done, home>>
  BY DEF Observe
<1> DEFINE determinate == caller[c].result \in Verdicts /\ IsBound(c) /\ IsCurrent(caller[c].policy)
<1>3. CASE ~determinate
  BY <1>2, <1>3, EndStep DEF Observe
<1>4. CASE determinate
  <2>1. ops' = [ops EXCEPT ![o].state = "observed"] /\ Goto(c, "verify") /\ Typed /\ caller[c].result \in Verdicts
    BY <1>1, <1>4 DEF Observe, IInv
  <2>2. PICK x : Rewrites(o, x) /\ x.state = "observed" /\ x.verdict = ops[o].verdict
    BY <2>1, StateWritten DEF OpStates
  <2>3. ops'[o] = x /\ \A n \in Ops : IsRun(n) => ops'[n].kind = "run" /\ ops'[n].policy = ops[n].policy
    BY <2>1, <2>2 DEF Rewrites, IsRun, Typed
  <2>4. /\ caller' \in [Callers -> Calls] /\ \A d \in Callers \ {c} : caller'[d] = caller[d]
        /\ caller'[c].pc = "verify" /\ caller'[c].bound = caller[c].bound /\ caller'[c].policy = caller[c].policy
        /\ caller'[c].op = caller[c].op /\ caller'[c].todo = caller[c].todo /\ caller'[c].result = caller[c].result
    BY <2>1, GotoFields
  <2>5. InCall(c) /\ \A t \in caller[c].todo : t \in Ops
    BY <2>1, CallFields DEF IInv, Typed
  <2>6. leaf' = leaf /\ policy' = policy
    BY <1>2 DEF world
  <2>7. InCall(c)'
    BY <1>1, <1>2, <2>1, <2>2, <2>3, <2>4, <2>5, <2>6 DEF InCall, Rewrites, StateAt, IsRun
  <2> QED
    BY <1>1, <1>2, <2>2, <2>4, <2>7, RewriteStep
<1> QED
  BY <1>3, <1>4

LEMMA VerifyStep ==
    ASSUME IInv, NEW c \in Callers, Verify(c)
    PROVE  IInv'
<1>1. PICK o \in Ops, w \in Ops : o = caller[c].op /\ w = ops[o].run
                                  /\ ops[o].kind # "none" /\ ops[o].policy = caller[c].policy
  BY Working DEF Verify
<1>2. caller[c].pc = "verify" /\ UNCHANGED <<world, binding, policy, done, home>> /\ Goto(c, "finalize")
  BY DEF Verify
<1>3. Typed /\ InCall(c) /\ caller[c].result \in Verdicts /\ ops[o] \in Operations
  BY <1>1, <1>2 DEF IInv, InCall, Typed
<1>4. Verified \in Nat
  <2>1. IsFiniteSet({n \in Ops : ops[n].at > 0})
    <3>1. IsFiniteSet(Ops) /\ {n \in Ops : ops[n].at > 0} \in SUBSET Ops
      BY FS_Interval, GatesAssumption DEF Ops
    <3> QED
      BY <3>1, FS_Subset
  <2> QED
    BY <2>1, FS_CardinalityType DEF Verified
<1> DEFINE at == IF ops[o].kind = "inspect" THEN Verified + 1 ELSE 0
<1>5. at \in Nat /\ ops' = [ops EXCEPT ![o].state = "verified", ![o].verdict = caller[c].result, ![o].at = at]
  BY <1>1, <1>4 DEF Verify
<1> HIDE DEF at
<1> DEFINE x == [ops[o] EXCEPT !.state = "verified", !.verdict = caller[c].result, !.at = at]
<1>6. /\ x \in Operations /\ x.state = "verified" /\ x.verdict = caller[c].result
      /\ x.kind = ops[o].kind /\ x.gate = ops[o].gate /\ x.policy = ops[o].policy /\ x.run = ops[o].run
  BY <1>3, <1>5 DEF Operations, OpStates
<1>7. ops' = [ops EXCEPT ![o] = x]
  BY <1>5
<1> HIDE DEF x
<1>8. Rewrites(o, x)
  BY <1>6, <1>7 DEF Rewrites
<1>9. ops'[o] = x /\ \A n \in Ops : IsRun(n) => ops'[n].kind = "run" /\ ops'[n].policy = ops[n].policy
  BY <1>3, <1>6, <1>7 DEF IsRun, Typed
<1>10. /\ caller' \in [Callers -> Calls] /\ \A d \in Callers \ {c} : caller'[d] = caller[d]
       /\ caller'[c].pc = "finalize" /\ caller'[c].bound = caller[c].bound /\ caller'[c].policy = caller[c].policy
       /\ caller'[c].op = caller[c].op /\ caller'[c].todo = caller[c].todo /\ caller'[c].result = caller[c].result
  BY <1>2, <1>3, GotoFields
<1>11. \A t \in caller[c].todo : t \in Ops
  BY <1>3, CallFields DEF Typed
<1>12. leaf' = leaf /\ policy' = policy
  BY <1>2 DEF world
<1>13. InCall(c)'
  BY <1>1, <1>2, <1>3, <1>6, <1>9, <1>10, <1>11, <1>12 DEF InCall, StateAt, IsRun
<1> QED
  BY <1>1, <1>2, <1>6, <1>8, <1>10, <1>13, RewriteStep

LEMMA FinalizeStep ==
    ASSUME IInv, NEW c \in Callers, Finalize(c)
    PROVE  IInv'
<1>1. PICK o \in Ops, w \in Ops : o = caller[c].op /\ w = ops[o].run
                                  /\ ops[o].kind # "none" /\ ops[o].policy = caller[c].policy
  BY Working DEF Finalize
<1>2. caller[c].pc = "finalize" /\ UNCHANGED <<world, binding, policy, done, home>>
  BY DEF Finalize
<1>3. CASE ~IsCurrent(caller[c].policy)
  BY <1>2, <1>3, EndStep DEF Finalize
<1>4. CASE IsCurrent(caller[c].policy)
  <2>1. ops' = [ops EXCEPT ![o].state = "finalized"] /\ Typed /\ InCall(c)
    BY <1>1, <1>4 DEF Finalize, IInv
  <2>2. PICK x : Rewrites(o, x) /\ x.state = "finalized" /\ x.verdict = ops[o].verdict
    BY <2>1, StateWritten DEF OpStates
  <2>3. \A n \in Ops : IsRun(n) => ops'[n].kind = "run" /\ ops'[n].policy = ops[n].policy
    BY <2>1, <2>2 DEF Rewrites, IsRun, Typed
  <2>4. x.verdict \in Verdicts /\ leaf[x.run] = x.verdict
    BY <1>1, <1>2, <2>1, <2>2 DEF InCall, Rewrites
  <2>5. caller[c] \in Calls /\ caller[c].bound \in Bounds /\ caller[c].todo \subseteq Ops
        /\ caller[c].reopened \subseteq Ops /\ caller[c].policy \in Nat
    BY <1>2, <2>1, CallFields DEF Typed, InCall
  <2> DEFINE next == [Idle EXCEPT !.pc = "reopen", !.bound = caller[c].bound, !.policy = caller[c].policy,
                                    !.accepting = TRUE, !.todo = caller[c].todo \ {ops[caller[c].op].run},
                                    !.reopened = caller[c].reopened \cup {caller[c].op}]
  <2>6. /\ next \in Calls /\ next.pc = "reopen" /\ next.bound = caller[c].bound /\ next.policy = caller[c].policy
        /\ next.op = 0 /\ next.todo \subseteq caller[c].todo
    BY <1>1, <2>5 DEF Idle, Calls
  <2>7. Done(c) \/ Call(c, next)
    BY <1>4 DEF Finalize
  <2> HIDE DEF next
  <2>8. CASE Done(c)
    <3>1. caller' \in [Callers -> Calls] /\ caller'[c] = Idle /\ \A d \in Callers \ {c} : caller'[d] = caller[d]
      BY <2>1, <2>8, Rest DEF Done, Typed
    <3>2. InCall(c)'
      BY <3>1, Rest DEF InCall
    <3> QED
      BY <1>1, <1>2, <2>2, <2>4, <3>1, <3>2, Rest, RewriteStep
  <2>9. CASE Call(c, next)
    <3>1. caller' \in [Callers -> Calls] /\ caller'[c] = next /\ \A d \in Callers \ {c} : caller'[d] = caller[d]
      BY <2>1, <2>6, <2>9 DEF Call, Typed
    <3>2. InCall(c)'
      BY <1>2, <2>1, <2>3, <2>5, <2>6, <3>1 DEF InCall, IsRun
    <3> QED
      BY <1>1, <1>2, <2>2, <2>4, <2>6, <3>1, <3>2, RewriteStep
  <2> QED
    BY <2>7, <2>8, <2>9
<1> QED
  BY <1>3, <1>4
-----------------------------------------------------------------------------
(* The steps of a call that begin something.                               *)

LEMMA BoundIsCurrent ==
    ASSUME Typed, NEW r \in DOMAIN policy, IsCurrent(r)
    PROVE  /\ Bound \in Bounds /\ policy[r].subject = [rev |-> Bound.rev, head |-> Bound.head]
           /\ policy[r].subject.head = head
  BY DEF Typed, Bound, Bounds, IsCurrent, Subject

LEMMA PrepareStep ==
    ASSUME IInv, NEW c \in Callers, caller[c].pc \in {"idle", "reopen"},
           NEW kind \in Kinds, NEW g, NEW r \in DOMAIN policy, NEW run, NEW call \in Calls,
           kind # "run" => run \in Ops /\ IsRun(run) /\ ops[run].gate = g /\ ops[run].policy = r,
           \A t \in call.todo : IsRun(t) /\ ops[t].policy = r,
           Prepare(c, call, kind, g, r, run)
    PROVE  IInv'
<1>1. Typed /\ InOrder /\ caller[c].op = 0
  BY DEF IInv, InCall
<1>2. PICK o \in Ops : o = Fresh
  BY DEF Prepare
<1>3. ops[o].state = "none" /\ \A n \in Ops : ops[n].state # "none" <=> n < o
  BY <1>1, <1>2, NextOperation
<1>4. /\ IsCurrent(r) /\ g \in policy[r].needs
      /\ UNCHANGED <<world, binding, policy, done, home>>
  BY DEF Prepare
<1>5. g \in Gates /\ r \in Nat /\ o \in Nat /\ o # 0
  BY <1>1, <1>4, PolicyFields, GatesAssumption DEF Typed, Ops
<1> DEFINE w == IF kind = "run" THEN o ELSE run
<1>6. w \in Ops
  OBVIOUS
<1> DEFINE v == [NoOperation EXCEPT !.kind = kind, !.gate = g, !.policy = r]
<1> DEFINE x == [v EXCEPT !.state = "pending", !.run = w]
<1>7. v \in Operations /\ v.kind = kind /\ v.gate = g /\ v.policy = r
  BY <1>5, Rest DEF Operations
<1>8. ops' = [ops EXCEPT ![o] = x]
  BY <1>2 DEF Prepare
<1> HIDE DEF v
<1>9. /\ x \in Operations /\ x.kind = kind /\ x.gate = g /\ x.policy = r /\ x.run = w /\ x.state = "pending"
  <2>1. w \in Nat
    BY <1>6 DEF Ops
  <2> HIDE DEF w
  <2> QED
    BY <1>7, <2>1 DEF Operations, OpStates
<1> HIDE DEF x
<1>10. ops' \in [Ops -> Operations] /\ ops'[o] = x /\ \A n \in Ops \ {o} : ops'[n] = ops[n]
  BY <1>1, <1>8, <1>9 DEF Typed
<1> DEFINE y == [call EXCEPT !.pc = "act", !.bound = Bound]
<1> DEFINE z == [y EXCEPT !.policy = r, !.op = o]
<1>11. Bound \in Bounds /\ policy[r].subject = [rev |-> Bound.rev, head |-> Bound.head]
  BY <1>1, <1>4, BoundIsCurrent
<1>12. y \in Calls /\ y.pc = "act" /\ y.bound = Bound /\ y.todo = call.todo
  BY <1>11 DEF Calls
<1>13. caller' = [caller EXCEPT ![c] = z]
  BY <1>2 DEF Prepare, Call
<1> HIDE DEF y
<1>14. z \in Calls /\ z.pc = "act" /\ z.bound = Bound /\ z.policy = r /\ z.op = o /\ z.todo = call.todo
  BY <1>5, <1>12 DEF Calls
<1> HIDE DEF z
<1>15. caller' \in [Callers -> Calls] /\ caller'[c] = z /\ \A d \in Callers \ {c} : caller'[d] = caller[d]
  BY <1>1, <1>13, <1>14 DEF Typed
<1>16. ~IsRun(o)
  BY <1>3 DEF IInv, Row, IsRun
<1>17. Grows
  <2>1. \A n \in Ops : IsRun(n) => /\ ops'[n].kind = "run" /\ ops'[n].gate = ops[n].gate
                                   /\ ops'[n].policy = ops[n].policy /\ ops'[n].run = ops[n].run
    BY <1>10, <1>16 DEF IsRun
  <2> QED
    BY <1>4, <2>1 DEF Grows, world
<1>18. StepOf(c)
  BY <1>3, <1>10, <1>14, <1>15 DEF StepOf
<1>19. InOrder'
  <2>1. \A n \in Ops : ops'[n].state # "none" <=> n <= o
    BY <1>3, <1>9, <1>10, GatesAssumption DEF Ops
  <2>2. o \in 0..MaxOps
    BY GatesAssumption DEF Ops
  <2> QED
    BY <2>1, <2>2 DEF InOrder
<1>20. Typed'
  BY <1>1, <1>4, <1>10, <1>15, SameTypes DEF world, binding
<1>21. Row(o)'
  <2>1. IsRun(w)' /\ ops'[w].gate = g /\ ops'[w].policy = r
    BY <1>9, <1>10, <1>17 DEF Grows, IsRun
  <2>2. kind = "run" => w = o
    OBVIOUS
  <2> HIDE DEF w
  <2> QED
    BY <1>4, <1>6, <1>9, <1>10, <2>1, <2>2 DEF Row, IsRun
<1>22. \A n \in Ops : Row(n)'
  BY <1>10, <1>17, <1>21, SameRow
<1>23. InCall(c)'
  <2>1. \A t \in call.todo : t \in Ops
    BY CallFields
  <2>2. \A t \in call.todo : IsRun(t)' /\ ops'[t].policy = r
    BY <1>17, <2>1 DEF Grows, IsRun
  <2>3. x.kind # "none"
    BY <1>9 DEF Kinds
  <2> QED
    BY <1>4, <1>9, <1>10, <1>11, <1>14, <1>15, <2>2, <2>3 DEF InCall, StateAt
<1>24. CompletedOnEvidence'
  BY <1>4, <1>17, SameCompletion
<1> QED
  BY <1>4, <1>17, <1>18, <1>19, <1>20, <1>22, <1>23, <1>24, CallerStep DEF world

LEMMA PrepareRunStep ==
    ASSUME IInv, NEW c \in Callers, NEW r \in DOMAIN policy, NEW g \in Gates, PrepareRun(c, r, g)
    PROVE  IInv'
  BY PrepareStep, Rest DEF PrepareRun, Kinds

LEMMA PrepareOnRunStep ==
    ASSUME IInv, NEW c \in Callers, NEW kind \in {"inspect", "cancel"}, NEW o \in Ops, PrepareOnRun(c, kind, o)
    PROVE  IInv'
<1>1. IsRun(o) /\ caller[c].pc = "idle" /\ Row(o)
  BY DEF PrepareOnRun, IsRun, IInv
<1>2. PICK r \in DOMAIN policy : r = ops[o].policy
  BY <1>1 DEF Row, IsRun
<1>3. Prepare(c, Idle, kind, ops[o].gate, r, o)
  BY <1>2 DEF PrepareOnRun
<1>4. kind \in Kinds
  BY DEF Kinds
<1> QED
  BY <1>1, <1>2, <1>3, <1>4, PrepareStep, Rest

LEMMA ReopenStep ==
    ASSUME IInv, NEW c \in Callers, NEW o \in Ops, Reopen(c, o)
    PROVE  IInv'
<1>1. caller[c].pc = "reopen" /\ o \in caller[c].todo /\ caller[c] \in Calls /\ InCall(c)
  BY DEF Reopen, IInv, Typed
<1>2. PICK r \in DOMAIN policy : r = caller[c].policy
  BY <1>1 DEF InCall
<1>3. IsRun(o) /\ ops[o].policy = r /\ \A t \in caller[c].todo : IsRun(t) /\ ops[t].policy = r
  BY <1>1, <1>2 DEF InCall
<1> DEFINE call == [caller[c] EXCEPT !.accepting = IsBound(c)]
<1>4. IsBound(c) \in BOOLEAN
  BY DEF IsBound
<1>5. call \in Calls /\ call.todo = caller[c].todo
  BY <1>1, <1>4 DEF Calls
<1>6. Prepare(c, call, "inspect", ops[o].gate, r, o)
  BY <1>2 DEF Reopen
<1> HIDE DEF call
<1>7. "inspect" \in Kinds
  BY DEF Kinds
<1> QED
  BY <1>1, <1>3, <1>5, <1>6, <1>7, PrepareStep

(* With the operations and the policies unchanged. *)
LEMMA SameOperations ==
    ASSUME IInv, UNCHANGED <<ops, policy>>,
           \A o \in Ops : leaf[o] \in Verdicts => leaf'[o] = leaf[o] /\ ran'[o] = ran[o]
    PROVE  Grows /\ InOrder' /\ \A o \in Ops : Row(o)'
<1>1. Grows
  BY DEF Grows, IsRun
<1>2. InOrder'
  BY DEF IInv, InOrder
<1> QED
  BY <1>1, <1>2, SameRow

LEMMA BeginAcceptStep ==
    ASSUME IInv, NEW c \in Callers, NEW r \in DOMAIN policy, BeginAccept(c, r)
    PROVE  IInv'
<1>1. /\ caller[c].pc = "idle" /\ IsCurrent(r) /\ Typed
      /\ UNCHANGED <<world, binding, policy, ops, done, home>>
  BY DEF BeginAccept, IInv
<1>2. Bound \in Bounds /\ policy[r].subject = [rev |-> Bound.rev, head |-> Bound.head] /\ r \in Nat
  BY <1>1, BoundIsCurrent, PolicyFields DEF Typed
<1> DEFINE runs == {ops[o].run : o \in GateSet(r)}
<1>3. \A t \in runs : t \in Ops /\ IsRun(t) /\ ops[t].policy = r
  <2> SUFFICES ASSUME NEW o \in GateSet(r)
               PROVE  ops[o].run \in Ops /\ IsRun(ops[o].run) /\ ops[ops[o].run].policy = r
    OBVIOUS
  <2>1. o \in Ops /\ ops[o].kind = "inspect" /\ ops[o].policy = r
    BY DEF GateSet, Inspections
  <2> QED
    BY <2>1 DEF IInv, Row
<1> DEFINE y == [Idle EXCEPT !.pc = "reopen", !.bound = Bound, !.policy = r]
<1> DEFINE z == [y EXCEPT !.accepting = TRUE, !.todo = runs]
<1>4. y \in Calls /\ y.pc = "reopen" /\ y.bound = Bound /\ y.policy = r /\ y.op = 0
  BY <1>2, Rest DEF Calls
<1>5. caller' = [caller EXCEPT ![c] = z]
  BY DEF BeginAccept, Call
<1> HIDE DEF y
<1>6. z \in Calls /\ z.pc = "reopen" /\ z.bound = Bound /\ z.policy = r /\ z.op = 0 /\ z.todo = runs
  <2>1. runs \subseteq Ops
    BY <1>3
  <2> HIDE DEF runs
  <2> QED
    BY <1>4, <2>1 DEF Calls
<1> HIDE DEF z
<1>7. caller' \in [Callers -> Calls] /\ caller'[c] = z /\ \A d \in Callers \ {c} : caller'[d] = caller[d]
  BY <1>1, <1>5, <1>6 DEF Typed
<1>8. Grows /\ InOrder' /\ \A o \in Ops : Row(o)'
  BY <1>1, SameOperations DEF world
<1>9. StepOf(c)
  BY <1>1, <1>6, <1>7 DEF StepOf
<1>10. Typed'
  BY <1>1, <1>7, SameTypes DEF world, binding, Typed
<1>11. InCall(c)'
  <2> HIDE DEF runs
  <2> QED
    BY <1>1, <1>2, <1>3, <1>6, <1>7 DEF InCall, IsRun
<1>12. CompletedOnEvidence'
  BY <1>1, <1>8, SameCompletion
<1> QED
  BY <1>1, <1>8, <1>9, <1>10, <1>11, <1>12, CallerStep DEF world

LEMMA AcceptStep ==
    ASSUME IInv, NEW c \in Callers, Accept(c)
    PROVE  IInv'
<1>1. /\ caller[c].pc = "reopen" /\ IsCurrent(caller[c].policy) /\ ReopenedIsCurrent(c) /\ Typed /\ InCall(c)
      /\ UNCHANGED <<world, rec, head, policy, ops, home>> /\ rev' = rev + 1 /\ Done(c)
      /\ done' = [policy |-> caller[c].policy, head |-> head]
  BY DEF Accept, IInv
<1>2. PICK r \in DOMAIN policy : r = caller[c].policy
  BY <1>1 DEF InCall
<1>3. policy[r].subject.head = head
  BY <1>1, <1>2, BoundIsCurrent
<1>4. caller' \in [Callers -> Calls] /\ caller'[c] = Idle /\ \A d \in Callers \ {c} : caller'[d] = caller[d]
  BY <1>1, Rest DEF Done, Typed
<1>5. Grows /\ InOrder' /\ \A o \in Ops : Row(o)'
  BY <1>1, SameOperations DEF world
<1>6. StepOf(c)
  BY <1>1, <1>4, Rest DEF StepOf
<1>7. done'.policy = r /\ done'.head = head /\ done' \in [policy : DOMAIN policy, head : Heads]
  BY <1>1, <1>2 DEF Typed
<1>8. Typed'
  BY <1>1, <1>4, <1>7 DEF Typed, world
<1>9. InCall(c)'
  BY <1>4, Rest DEF InCall
<1>10. CompletedOnEvidence'
  <2>1. ASSUME NEW g \in policy[r].needs
        PROVE  \E o \in Ops : IsRun(o) /\ ops[o].gate = g /\ ops[o].policy = r /\ leaf[o] = "pass"
    <3>1. PICK i \in Ops : /\ ops[i].kind = "inspect" /\ ops[i].gate = g /\ ops[i].policy = r
                           /\ ops[i].state = "finalized" /\ ops[i].verdict = "pass"
      BY <1>1, <1>2 DEF ReopenedIsCurrent, GateSetComplete, Inspections
    <3>2. Row(i)
      BY DEF IInv
    <3>3. PICK w \in Ops : w = ops[i].run
      BY <3>1, <3>2 DEF Row
    <3>4. IsRun(w) /\ ops[w].gate = g /\ ops[w].policy = r /\ leaf[w] = "pass"
      BY <3>1, <3>2, <3>3 DEF Row
    <3> QED
      BY <3>4
  <2>2. UNCHANGED <<policy, ops, leaf>>
    BY <1>1 DEF world
  <2> QED
    BY <1>3, <1>7, <2>1, <2>2 DEF CompletedOnEvidence, IsRun
<1> QED
  BY <1>1, <1>5, <1>6, <1>8, <1>9, <1>10, CallerStep DEF world
-----------------------------------------------------------------------------
(* The backend.                                                            *)

LEMMA ReadingIsEvidence ==
    ASSUME NEW c, NEW o
    PROVE  /\ Reading(c, o) \in Verdicts \cup {"unclear"}
           /\ Reading(c, o) \in Verdicts => leaf[o] = Reading(c, o)
  BY DEF Reading, Verdicts

LEMMA InspectStep ==
    ASSUME IInv, NEW c \in Callers, Inspect(c)
    PROVE  IInv'
<1>1. caller[c].pc = "backend" /\ UNCHANGED <<world, binding, policy, ops, done, home>> /\ Typed /\ InCall(c)
  BY DEF Inspect, IInv
<1>2. PICK o \in Ops, w \in Ops : o = caller[c].op /\ w = ops[o].run
  BY <1>1, Working
<1>3. PICK v \in Verdicts \cup {"unclear"} : v = Reading(c, w)
  BY ReadingIsEvidence
<1>4. v \in Verdicts => leaf[w] = v
  BY <1>3, ReadingIsEvidence
<1>5. Answer(c, v)
  BY <1>2, <1>3 DEF Inspect
<1>6. /\ caller' \in [Callers -> Calls] /\ \A d \in Callers \ {c} : caller'[d] = caller[d]
      /\ caller'[c].pc = "answered" /\ caller'[c].bound = caller[c].bound /\ caller'[c].policy = caller[c].policy
      /\ caller'[c].op = caller[c].op /\ caller'[c].result = v /\ caller'[c].todo = caller[c].todo
  BY <1>1, <1>5, AnswerFields
<1>7. Grows /\ InOrder' /\ \A n \in Ops : Row(n)'
  BY <1>1, SameOperations DEF world
<1>8. StepOf(c)
  BY <1>1, <1>6 DEF StepOf
<1>9. Typed'
  BY <1>1, <1>6, SameTypes DEF world, binding, Typed
<1>10. InCall(c)'
  <2>1. UNCHANGED <<policy, ops, leaf>>
    BY <1>1 DEF world
  <2> QED
    BY <1>1, <1>2, <1>4, <1>6, <2>1 DEF InCall, StateAt, IsRun
<1>11. CompletedOnEvidence'
  BY <1>1, <1>7, SameCompletion
<1> QED
  BY <1>1, <1>7, <1>8, <1>9, <1>10, <1>11, CallerStep DEF world

LEMMA CancelStep ==
    ASSUME IInv, NEW c \in Callers, Cancel(c)
    PROVE  IInv'
<1>1. /\ caller[c].pc = "backend" /\ Typed /\ InCall(c)
      /\ UNCHANGED <<disk, leaf, fresh, ran, binding, policy, ops, done, home>>
  BY DEF Cancel, IInv
<1>2. PICK o \in Ops, w \in Ops : o = caller[c].op /\ w = ops[o].run
  BY <1>1, Working
<1>3. PICK v \in Verdicts \cup {"unclear"} : v = Reading(c, w)
  BY ReadingIsEvidence
<1>4. v \in Verdicts => leaf[w] = v
  BY <1>3, ReadingIsEvidence
<1>5. Answer(c, v) /\ live' = [live EXCEPT ![w] = IF IsLive(c, w) THEN "cancelled" ELSE @]
  BY <1>2, <1>3 DEF Cancel
<1>6. /\ caller' \in [Callers -> Calls] /\ \A d \in Callers \ {c} : caller'[d] = caller[d]
      /\ caller'[c].pc = "answered" /\ caller'[c].bound = caller[c].bound /\ caller'[c].policy = caller[c].policy
      /\ caller'[c].op = caller[c].op /\ caller'[c].result = v /\ caller'[c].todo = caller[c].todo
  BY <1>1, <1>5, AnswerFields
<1>7. live' \in [Ops -> {"none", "running", "cancelled"}] /\ \A n \in Ops : live'[n] # "none" => live[n] # "none"
  BY <1>1, <1>5 DEF Typed, IsLive
<1>8. Grows /\ InOrder' /\ \A n \in Ops : Row(n)'
  BY <1>1, SameOperations
<1>9. StepOf(c)
  BY <1>1, <1>6 DEF StepOf
<1>10. Typed'
  BY <1>1, <1>6, <1>7 DEF binding, Typed
<1>11. InCall(c)'
  BY <1>1, <1>2, <1>4, <1>6 DEF InCall, StateAt, IsRun
<1>12. CompletedOnEvidence'
  BY <1>1, <1>8, SameCompletion
<1>13. \A n \in Ops : Evidence(n)'
  <2> SUFFICES ASSUME NEW n \in Ops PROVE Evidence(n)'
    OBVIOUS
  <2>1. \A d \in Callers : caller[d].pc = "child" => caller'[d] = caller[d]
    BY <1>1, <1>6
  <2> QED
    BY <1>1, <1>7, <1>8, <2>1, SameEvidence
<1>14. OneCall' /\ \A d \in Callers \ {c} : InCall(d)'
  BY <1>1, <1>8, <1>9, OthersStay
<1> QED
  BY <1>8, <1>10, <1>11, <1>12, <1>13, <1>14 DEF IInv

(* A step of call c on the gate o it runs. *)
LEMMA GateStep ==
    ASSUME IInv, NEW c \in Callers, NEW o \in Ops, o = caller[c].op, IsRun(o), leaf[o] \notin Verdicts \/
              (leaf'[o] = leaf[o] /\ ran'[o] = ran[o]),
           UNCHANGED <<disk, fresh, binding, policy, ops, done, home>>,
           leaf' \in [Ops -> Leaves], live' \in [Ops -> {"none", "running", "cancelled"}],
           ran' \in [Ops -> [exit : {"none", "pass", "other"}, head : Heads \cup {None}]],
           \A n \in Ops \ {o} : leaf'[n] = leaf[n] /\ ran'[n] = ran[n] /\ live'[n] = live[n],
           caller' \in [Callers -> Calls], \A d \in Callers \ {c} : caller'[d] = caller[d],
           caller'[c].op = caller[c].op,
           InCall(c)', Evidence(o)'
    PROVE  IInv'
<1>1. Grows /\ InOrder' /\ \A n \in Ops : Row(n)'
  <2>1. \A n \in Ops : leaf[n] \in Verdicts => leaf'[n] = leaf[n] /\ ran'[n] = ran[n]
    OBVIOUS
  <2> QED
    BY <2>1, SameOperations
<1>2. StepOf(c)
  BY DEF StepOf
<1>3. Typed'
  BY DEF IInv, Typed, binding
<1>4. CompletedOnEvidence'
  BY <1>1, SameCompletion
<1>5. OneCall' /\ \A d \in Callers \ {c} : InCall(d)'
  BY <1>1, <1>2, OthersStay
<1>6. \A n \in Ops \ {o} : Evidence(n)'
  <2> SUFFICES ASSUME NEW n \in Ops \ {o} PROVE Evidence(n)'
    OBVIOUS
  <2>1. \A d \in Callers : caller[d].op = n => caller'[d] = caller[d]
    OBVIOUS
  <2> QED
    BY <1>1, <2>1, SameEvidence
<1> QED
  BY <1>1, <1>3, <1>4, <1>5, <1>6 DEF IInv

LEMMA StartStep ==
    ASSUME IInv, NEW c \in Callers, NEW spawned \in BOOLEAN, Start(c, spawned)
    PROVE  IInv'
<1>1. /\ caller[c].pc = "backend" /\ Typed /\ InCall(c) /\ disk = caller[c].bound.head
      /\ UNCHANGED <<disk, fresh, binding, policy, ops, done, home>>
  BY DEF Start, IInv, Resolves
<1>2. PICK o \in Ops : o = caller[c].op
  BY <1>1, Working
<1>3. IsRun(o) /\ ops[o].run = o /\ Evidence(o)
  BY <1>2 DEF Start, IInv, Row, IsRun
<1>4. leaf' = [leaf EXCEPT ![o] = IF @ = "absent" THEN "claimed" ELSE @]
  BY <1>2 DEF Start
<1>5. /\ leaf' \in [Ops -> Leaves] /\ \A n \in Ops \ {o} : leaf'[n] = leaf[n]
      /\ leaf'[o] = IF leaf[o] = "absent" THEN "claimed" ELSE leaf[o]
  BY <1>1, <1>4 DEF Typed, Leaves
<1>6. CASE leaf[o] = "absent" /\ spawned
  <2>1. live' = [live EXCEPT ![o] = "running"] /\ ran' = [ran EXCEPT ![o].head = disk] /\ Goto(c, "child")
    BY <1>2, <1>6 DEF Start
  <2>2. live' \in [Ops -> {"none", "running", "cancelled"}] /\ \A n \in Ops \ {o} : live'[n] = live[n]
    BY <1>1, <2>1 DEF Typed
  <2>3. /\ ran' \in [Ops -> [exit : {"none", "pass", "other"}, head : Heads \cup {None}]]
        /\ ran'[o].head = disk /\ \A n \in Ops \ {o} : ran'[n] = ran[n]
    BY <1>1, <2>1 DEF Typed
  <2>4. /\ caller' \in [Callers -> Calls] /\ \A d \in Callers \ {c} : caller'[d] = caller[d]
        /\ caller'[c].pc = "child" /\ caller'[c].bound = caller[c].bound /\ caller'[c].policy = caller[c].policy
        /\ caller'[c].op = caller[c].op /\ caller'[c].todo = caller[c].todo
    BY <1>1, <2>1, GotoFields
  <2>5. leaf'[o] = "claimed" /\ leaf[o] \notin Verdicts /\ "claimed" \notin Verdicts
    BY <1>5, <1>6 DEF Verdicts
  <2>6. InCall(c)'
    BY <1>1, <1>2, <1>3, <2>3, <2>4, <2>5 DEF InCall, StateAt, IsRun
  <2>7. Evidence(o)'
    BY <1>1, <1>2, <1>3, <2>4, <2>5 DEF Evidence, IsRun
  <2> QED
    BY <1>1, <1>2, <1>3, <1>5, <2>2, <2>3, <2>4, <2>5, <2>6, <2>7, GateStep
<1>7. CASE ~(leaf[o] = "absent" /\ spawned)
  <2>1. PICK v \in Verdicts \cup {"unclear"} : v = Reading(c, o)
    BY ReadingIsEvidence
  <2>2. (v \in Verdicts => leaf[o] = v) /\ "absent" \notin Verdicts /\ "claimed" \notin Verdicts
    BY <2>1, ReadingIsEvidence DEF Verdicts
  <2>3. UNCHANGED <<live, ran>> /\ Answer(c, v)
    BY <1>2, <1>7, <2>1 DEF Start
  <2>4. /\ caller' \in [Callers -> Calls] /\ \A d \in Callers \ {c} : caller'[d] = caller[d]
        /\ caller'[c].pc = "answered" /\ caller'[c].bound = caller[c].bound /\ caller'[c].policy = caller[c].policy
        /\ caller'[c].op = caller[c].op /\ caller'[c].result = v /\ caller'[c].todo = caller[c].todo
    BY <1>1, <2>3, AnswerFields
  <2>5. InCall(c)'
    BY <1>1, <1>2, <1>3, <1>5, <2>2, <2>4 DEF InCall, StateAt, IsRun
  <2>6. \A d \in Callers : caller[d].pc = "child" => caller'[d] = caller[d]
    BY <1>1, <2>4
  <2>7. Evidence(o)'
    BY <1>1, <1>3, <1>5, <2>2, <2>3, <2>6 DEF Evidence, IsRun
  <2> QED
    BY <1>1, <1>2, <1>3, <1>5, <2>2, <2>3, <2>4, <2>5, <2>7, GateStep DEF Typed
<1> QED
  BY <1>6, <1>7

LEMMA FinishStep ==
    ASSUME IInv, NEW c \in Callers, NEW exit \in {"pass", "other"}, NEW cut \in BOOLEAN, NEW published \in BOOLEAN,
           Finish(c, exit, cut, published)
    PROVE  IInv'
<1>1. /\ caller[c].pc = "child" /\ Typed /\ InCall(c)
      /\ UNCHANGED <<disk, fresh, binding, policy, ops, done, home>>
  BY DEF Finish, IInv
<1>2. PICK o \in Ops : o = caller[c].op
  BY <1>1, Working
<1>3. /\ IsRun(o) /\ ops[o].run = o /\ leaf[o] = "claimed" /\ ran[o].head = caller[c].bound.head
      /\ ops[o].policy = caller[c].policy /\ policy[caller[c].policy].subject.head = caller[c].bound.head
  BY <1>1, <1>2 DEF InCall, IInv, Row, IsRun
<1>4. PICK v \in {"cancelled", "indeterminate", "pass", "fail"} : v = Verdict(o, exit, cut)
  BY DEF Verdict
<1>5. v \in Verdicts => (v = "pass" <=> exit = "pass")
  BY <1>4 DEF Verdict, Verdicts
<1>6. /\ live' = [live EXCEPT ![o] = "none"] /\ ran' = [ran EXCEPT ![o].exit = exit]
      /\ leaf' = [leaf EXCEPT ![o] = IF published THEN v ELSE @]
      /\ Answer(c, IF published /\ v \in Verdicts THEN v ELSE "unclear")
  BY <1>2, <1>4 DEF Finish
<1>7. PICK a \in Verdicts \cup {"unclear"} : a = IF published /\ v \in Verdicts THEN v ELSE "unclear"
  OBVIOUS
<1>8. /\ caller' \in [Callers -> Calls] /\ \A d \in Callers \ {c} : caller'[d] = caller[d]
      /\ caller'[c].pc = "answered" /\ caller'[c].bound = caller[c].bound /\ caller'[c].policy = caller[c].policy
      /\ caller'[c].op = caller[c].op /\ caller'[c].result = a /\ caller'[c].todo = caller[c].todo
  BY <1>1, <1>6, <1>7, AnswerFields
<1>9. /\ leaf' \in [Ops -> Leaves] /\ \A n \in Ops \ {o} : leaf'[n] = leaf[n]
      /\ leaf'[o] = IF published THEN v ELSE "claimed"
  BY <1>1, <1>3, <1>6 DEF Typed, Leaves, Verdicts
<1>10. /\ live' \in [Ops -> {"none", "running", "cancelled"}] /\ live'[o] = "none"
       /\ \A n \in Ops \ {o} : live'[n] = live[n]
  BY <1>1, <1>6 DEF Typed
<1>11. /\ ran' \in [Ops -> [exit : {"none", "pass", "other"}, head : Heads \cup {None}]]
       /\ ran'[o].exit = exit /\ ran'[o].head = ran[o].head /\ \A n \in Ops \ {o} : ran'[n] = ran[n]
  BY <1>1, <1>6 DEF Typed
<1>12. "claimed" \notin Verdicts /\ "unclear" \notin Verdicts
  BY DEF Verdicts
<1>13. InCall(c)'
  BY <1>1, <1>2, <1>3, <1>7, <1>8, <1>9, <1>12 DEF InCall, StateAt, IsRun
<1>14. Evidence(o)'
  BY <1>1, <1>3, <1>5, <1>9, <1>10, <1>11, <1>12 DEF Evidence, IsRun
<1> QED
  BY <1>1, <1>2, <1>3, <1>8, <1>9, <1>10, <1>11, <1>12, <1>13, <1>14, GateStep
-----------------------------------------------------------------------------
(* The world, and the death of a process.                                  *)

(* A step that no call takes. *)
LEMMA WorldStep ==
    ASSUME IInv, Grows, Typed', UNCHANGED <<ops, leaf, live, ran, done, caller>>
    PROVE  IInv'
<1>1. InOrder' /\ OneCall'
  BY DEF IInv, InOrder, OneCall
<1>2. CompletedOnEvidence'
  BY SameCompletion
<1>3. \A o \in Ops : Row(o)' /\ Evidence(o)'
  BY SameRow, SameEvidence
<1>4. \A c \in Callers : InCall(c)'
  BY OtherCall
<1> QED
  BY <1>1, <1>2, <1>3, <1>4 DEF IInv

LEMMA EvaluatePolicyStep ==
    ASSUME IInv, NEW needs \in SUBSET Gates, EvaluatePolicy(needs)
    PROVE  IInv'
<1> DEFINE x == [subject |-> Subject, needs |-> needs, valid |-> TRUE]
<1>1. /\ Typed /\ Len(policy) < MaxPolicies /\ policy' = Append(policy, x)
      /\ UNCHANGED <<world, binding, ops, done, home, caller>>
  BY DEF EvaluatePolicy, IInv
<1>2. x \in PolicyReceipts
  BY <1>1 DEF Subject, Typed, PolicyReceipts, Subjects
<1> HIDE DEF x
<1>3. /\ policy' \in Seq(PolicyReceipts) /\ Len(policy') = Len(policy) + 1
      /\ \A r \in DOMAIN policy : r \in DOMAIN policy' /\ policy'[r] = policy[r]
  BY <1>1, <1>2, AppendProperties, LenProperties DEF Typed
<1>4. Len(policy') <= MaxPolicies
  BY <1>1, <1>3, LenProperties, GatesAssumption DEF Typed
<1>5. Grows
  BY <1>1, <1>3 DEF Grows, IsRun, world
<1>6. Typed'
  BY <1>1, <1>3, <1>4 DEF Typed, world, binding
<1> QED
  BY <1>1, <1>5, <1>6, WorldStep DEF world

LEMMA PolicyLapsesStep ==
    ASSUME IInv, NEW r \in DOMAIN policy, PolicyLapses(r)
    PROVE  IInv'
<1> DEFINE x == [policy[r] EXCEPT !.valid = FALSE]
<1>1. Typed /\ policy' = [policy EXCEPT ![r] = x] /\ UNCHANGED <<world, binding, ops, done, home, caller>>
  BY DEF PolicyLapses, IInv
<1>2. x \in PolicyReceipts /\ x.subject = policy[r].subject /\ x.needs = policy[r].needs
  BY <1>1, PolicyFields DEF PolicyReceipts, Typed
<1> HIDE DEF x
<1>3. policy' \in Seq(PolicyReceipts) /\ Len(policy') = Len(policy)
      /\ DOMAIN policy' = DOMAIN policy /\ policy'[r] = x /\ \A s \in DOMAIN policy \ {r} : policy'[s] = policy[s]
  BY <1>1, <1>2, ExceptSeq, LenProperties DEF Typed
<1>4. Grows
  BY <1>1, <1>2, <1>3 DEF Grows, IsRun, world
<1>5. Typed'
  BY <1>1, <1>3 DEF Typed, world, binding
<1> QED
  BY <1>1, <1>4, <1>5, WorldStep DEF world

LEMMA EnvironmentStep ==
    ASSUME IInv,
           \/ \E h \in Heads : CheckOut(h)
           \/ InspectWorkspace \/ Revise
           \/ \E o \in Ops : PassLapses(o)
    PROVE  IInv'
<1>1. UNCHANGED <<policy, ops, leaf, live, ran, done, home, caller>>
  BY DEF CheckOut, InspectWorkspace, Revise, PassLapses, world
<1>2. Grows
  BY <1>1 DEF Grows, IsRun
<1>3. /\ rev' \in Nat /\ rec' \in Nat /\ head' \in Heads /\ disk' \in Heads /\ fresh' \in [Ops -> BOOLEAN]
  <2>1. /\ rev \in Nat /\ rec \in Nat /\ head \in Heads /\ disk \in Heads
        /\ fresh \in [Ops -> BOOLEAN]
    BY DEF IInv, Typed
  <2>2. CASE \E h \in Heads : CheckOut(h)
    BY <2>1, <2>2 DEF CheckOut, binding
  <2>3. CASE InspectWorkspace
    BY <2>1, <2>3 DEF InspectWorkspace, world
  <2>4. CASE Revise
    BY <2>1, <2>4 DEF Revise, world
  <2>5. ASSUME NEW o \in Ops, PassLapses(o)
        PROVE  UNCHANGED <<rev, rec, head, disk>> /\ fresh' = [fresh EXCEPT ![o] = FALSE]
    BY <2>5 DEF PassLapses, binding
  <2>6. ASSUME NEW o \in Ops, PassLapses(o)
        PROVE  fresh' \in [Ops -> BOOLEAN]
    BY <2>1, <2>5, <2>6
  <2> QED
    BY <2>1, <2>2, <2>3, <2>4, <2>5, <2>6
<1>4. Typed'
  BY <1>1, <1>3 DEF IInv, Typed
<1> QED
  BY <1>1, <1>2, <1>4, WorldStep

LEMMA CrashStep ==
    ASSUME IInv, NEW h \in Processes, Crash(h)
    PROVE  IInv'
<1> DEFINE dead == {c \in Callers : home[c] = h}
<1> DEFINE lost == {caller[c].op : c \in {d \in dead : caller[d].pc = "child"}}
<1>1. /\ Typed /\ InOrder /\ UNCHANGED <<disk, leaf, fresh, ran, binding, policy, done, home>>
      /\ live' = [o \in Ops |-> IF o \in lost THEN "none" ELSE live[o]]
      /\ ops' = EndedOf(dead)
      /\ caller' = [c \in Callers |-> IF c \in dead THEN Idle ELSE caller[c]]
  BY DEF Crash, IInv
<1>2. dead \in SUBSET Callers /\ \A c \in dead : caller[c].pc = "child" => caller[c].op \in lost
  OBVIOUS
<1> HIDE DEF dead, lost
<1>3. /\ ops' \in [Ops -> Operations]
      /\ \A o \in Ops : \/ ops'[o] = ops[o]
                        \/ /\ ops'[o] = Ended(o) /\ ops[o].state # "none"
                           /\ \E c \in dead : caller[c].op = o
  BY <1>1, <1>2, EndedRows
<1>4. /\ caller' \in [Callers -> Calls] /\ \A c \in dead : caller'[c] = Idle
      /\ \A c \in Callers \ dead : caller'[c] = caller[c]
  BY <1>1, <1>2, Rest DEF Typed
<1>5. \A o \in Ops : ops[o] \in Operations
  BY <1>1 DEF Typed
<1>6. Grows
  <2>1. \A o \in Ops : IsRun(o) => /\ ops'[o].kind = "run" /\ ops'[o].gate = ops[o].gate
                                   /\ ops'[o].policy = ops[o].policy /\ ops'[o].run = ops[o].run
    BY <1>3, <1>5, EndedRecord DEF IsRun
  <2> QED
    BY <1>1, <2>1 DEF Grows
<1>7. InOrder'
  <2>1. \A o \in Ops : ops'[o].state = "none" <=> ops[o].state = "none"
    BY <1>3, <1>5, EndedRecord
  <2> QED
    BY <1>1, <2>1, SameOrder
<1>8. live' \in [Ops -> {"none", "running", "cancelled"}]
  BY <1>1 DEF Typed
<1>9. Typed'
  BY <1>1, <1>3, <1>4, <1>8 DEF Typed, binding
<1>10. \A o \in Ops : Row(o)'
  BY <1>3, <1>6, SameRow, EndedRow
<1>11. CompletedOnEvidence'
  BY <1>1, <1>6, SameCompletion
<1>12. \A c \in Callers : InCall(c)'
  <2>1. ASSUME NEW c \in dead PROVE InCall(c)'
    BY <1>4, <2>1, Rest DEF InCall
  <2>2. ASSUME NEW c \in Callers \ dead PROVE InCall(c)'
    <3>1. caller[c].op \in Ops => caller[c].op # 0
      BY GatesAssumption DEF Ops
    <3>2. caller[c].op \in Ops => \A d \in dead : caller[d].op # caller[c].op
      BY <1>2, <2>2, <3>1 DEF IInv, OneCall
    <3>3. caller[c].op \in Ops => ops'[caller[c].op] = ops[caller[c].op]
      BY <1>3, <3>2
    <3> QED
      BY <1>1, <1>4, <1>6, <2>2, <3>3, OtherCall
  <2> QED
    BY <2>1, <2>2
<1>13. OneCall'
  BY <1>2, <1>4, Rest DEF IInv, OneCall
<1>14. \A o \in Ops : Evidence(o)'
  <2> SUFFICES ASSUME NEW o \in Ops PROVE Evidence(o)'
    OBVIOUS
  <2>1. live'[o] # "none" => live[o] # "none" /\ o \notin lost
    BY <1>1
  <2>2. live'[o] # "none" => \A c \in Callers : caller[c].pc = "child" /\ caller[c].op = o => caller'[c] = caller[c]
    BY <1>2, <1>4, <2>1
  <2> QED
    BY <1>1, <1>6, <2>1, <2>2, SameEvidence
<1> QED
  BY <1>7, <1>9, <1>10, <1>11, <1>12, <1>13, <1>14 DEF IInv
-----------------------------------------------------------------------------
(* The invariant, and what follows from it.                                *)

LEMMA InitHolds == Init => IInv
<1> SUFFICES ASSUME Init PROVE IInv
  OBVIOUS
<1>1. /\ \A o \in Ops : /\ ops[o] = NoOperation /\ leaf[o] = "absent" /\ live[o] = "none"
      /\ \A c \in Callers : caller[c] = Idle
      /\ policy = << >> /\ done = None
  BY DEF Init
<1>2. ops \in [Ops -> Operations] /\ caller \in [Callers -> Calls]
  BY Rest DEF Init
<1>3. /\ leaf \in [Ops -> Leaves] /\ live \in [Ops -> {"none", "running", "cancelled"}]
      /\ ran \in [Ops -> [exit : {"none", "pass", "other"}, head : Heads \cup {None}]]
  BY DEF Init, Leaves
<1>4. fresh \in [Ops -> BOOLEAN]
  BY DEF Init
<1>5. policy \in Seq(PolicyReceipts) /\ Len(policy) <= MaxPolicies
  BY <1>1, GatesAssumption
<1>6. /\ rev \in Nat /\ rec \in Nat /\ head \in Heads /\ disk \in Heads /\ home \in [Callers -> Processes]
  BY DEF Init
<1>7. Typed
  BY <1>1, <1>2, <1>3, <1>4, <1>5, <1>6 DEF Typed
<1>8. InOrder
  <2>1. 0 \in 0..MaxOps /\ \A o \in Ops : ops[o].state # "none" <=> o <= 0
    BY <1>1, Rest, GatesAssumption DEF Ops
  <2> QED
    BY <2>1 DEF InOrder
<1>9. OneCall /\ CompletedOnEvidence
  BY <1>1, Rest DEF OneCall, CompletedOnEvidence
<1>10. \A o \in Ops : Row(o)
  BY <1>1, Rest DEF Row
<1>11. \A o \in Ops : Evidence(o)
  BY <1>1 DEF Evidence, Verdicts
<1>12. \A c \in Callers : InCall(c)
  BY <1>1, Rest DEF InCall
<1> QED
  BY <1>7, <1>8, <1>9, <1>10, <1>11, <1>12 DEF IInv

LEMMA NextHolds ==
    ASSUME IInv, Next
    PROVE  IInv'
<1>1. ASSUME NEW c \in Callers, NEW r \in DOMAIN policy, BeginAccept(c, r) \/ \E g \in Gates : PrepareRun(c, r, g)
      PROVE  IInv'
  BY <1>1, BeginAcceptStep, PrepareRunStep
<1>2. ASSUME NEW c \in Callers, NEW o \in Ops,
             Reopen(c, o) \/ \E kind \in {"inspect", "cancel"} : PrepareOnRun(c, kind, o)
      PROVE  IInv'
  BY <1>2, ReopenStep, PrepareOnRunStep
<1>3. ASSUME NEW c \in Callers, Act(c) \/ Inspect(c) \/ Cancel(c) \/ Observe(c) \/ Verify(c) \/ Finalize(c)
      PROVE  IInv'
  BY <1>3, ActStep, InspectStep, CancelStep, ObserveStep, VerifyStep, FinalizeStep
<1>4. ASSUME NEW c \in Callers, NEW spawned \in BOOLEAN, Start(c, spawned)
      PROVE  IInv'
  BY <1>4, StartStep
<1>5. ASSUME NEW c \in Callers, NEW exit \in {"pass", "other"}, NEW cut \in BOOLEAN, NEW published \in BOOLEAN,
             Finish(c, exit, cut, published)
      PROVE  IInv'
  BY <1>5, FinishStep
<1>6. ASSUME NEW c \in Callers, Accept(c) \/ Stop(c)
      PROVE  IInv'
  BY <1>6, AcceptStep, StopStep
<1>7. ASSUME NEW needs \in SUBSET Gates, EvaluatePolicy(needs)
      PROVE  IInv'
  BY <1>7, EvaluatePolicyStep
<1>8. ASSUME NEW r \in DOMAIN policy, PolicyLapses(r)
      PROVE  IInv'
  BY <1>8, PolicyLapsesStep
<1>9. ASSUME NEW h \in Processes, Crash(h)
      PROVE  IInv'
  BY <1>9, CrashStep
<1> QED
  BY <1>1, <1>2, <1>3, <1>4, <1>5, <1>6, <1>7, <1>8, <1>9, EnvironmentStep DEF Next

LEMMA StutterHolds ==
    ASSUME IInv, UNCHANGED vars
    PROVE  IInv'
<1>1. Grows
  BY DEF vars, Grows, IsRun
<1>2. Typed'
  BY DEF vars, IInv, Typed
<1> QED
  BY <1>1, <1>2, WorldStep DEF vars

(***************************************************************************)
(* The inductive invariant: through every interleaving of runs,            *)
(* inspections, cancellations, acceptances, crashes and changes of the     *)
(* subject, each call, its operation, the evidence leaf and the policy     *)
(* receipt it works under fit together.                                    *)
(***************************************************************************)
THEOREM GatesInvariant == Spec => []IInv
<1>1. IInv /\ [Next]_vars => IInv'
  BY NextHolds, StutterHolds
<1> QED
  BY <1>1, InitHolds, PTL DEF Spec

(***************************************************************************)
(* Types; only a run has evidence, and a live child has claimed its leaf   *)
(* and has the call that waits for it.                                     *)
(***************************************************************************)
THEOREM GatesTypeOK == Spec => []TypeOK
<1>1. IInv => TypeOK
  <2> SUFFICES ASSUME IInv PROVE TypeOK
    OBVIOUS
  <2>1. Typed /\ \A o \in Ops : Evidence(o)
    BY DEF IInv
  <2> QED
    BY <2>1 DEF Typed, Evidence, IsRun, TypeOK
<1> QED
  BY <1>1, GatesInvariant, PTL

(***************************************************************************)
(* processGate finalizes an operation only with what the gate did: a pass  *)
(* exactly if the child of the run exited with a passing code, and on the  *)
(* object of the policy's subject, for any number of calls in any number   *)
(* of processes.                                                           *)
(***************************************************************************)
THEOREM GatesVerdictIsTrue == Spec => []VerdictIsTrue
<1>1. IInv => VerdictIsTrue
  <2> SUFFICES ASSUME IInv, NEW o \in Ops, ops[o].state = "finalized"
               PROVE  /\ ops[o].verdict = "pass" <=> ran[ops[o].run].exit = "pass"
                      /\ ran[ops[o].run].head = policy[ops[o].policy].subject.head
    BY DEF VerdictIsTrue
  <2>1. Row(o)
    BY DEF IInv
  <2>2. PICK w \in Ops : w = ops[o].run /\ ops[w].policy = ops[o].policy /\ leaf[w] = ops[o].verdict
                         /\ leaf[w] \in Verdicts
    BY <2>1 DEF Row
  <2>3. Evidence(w)
    BY DEF IInv
  <2> QED
    BY <2>2, <2>3 DEF Evidence
<1> QED
  BY <1>1, GatesInvariant, PTL

(***************************************************************************)
(* acceptCompletion completes a Task only on an object on which every gate *)
(* the policy receipt requires has passed under that receipt: neither an   *)
(* acceptance racing new runs and new receipts nor evidence of another     *)
(* object gets a Task completed.                                           *)
(***************************************************************************)
THEOREM GatesCompleted == Spec => []CompletedOnPassingHead
<1>1. IInv => CompletedOnPassingHead
  <2> SUFFICES ASSUME IInv, done # None
               PROVE  /\ policy[done.policy].subject.head = done.head
                      /\ \A g \in policy[done.policy].needs :
                          \E o \in Ops : /\ ops[o].kind = "run" /\ ops[o].gate = g /\ ops[o].policy = done.policy
                                         /\ ran[o] = [exit |-> "pass", head |-> done.head]
    BY DEF CompletedOnPassingHead
  <2>1. policy[done.policy].subject.head = done.head
    BY DEF IInv, CompletedOnEvidence
  <2>2. ASSUME NEW g \in policy[done.policy].needs
        PROVE  \E o \in Ops : /\ ops[o].kind = "run" /\ ops[o].gate = g /\ ops[o].policy = done.policy
                              /\ ran[o] = [exit |-> "pass", head |-> done.head]
    <3>1. PICK o \in Ops : IsRun(o) /\ ops[o].gate = g /\ ops[o].policy = done.policy /\ leaf[o] = "pass"
      BY DEF IInv, CompletedOnEvidence
    <3>2. Evidence(o) /\ ran[o] \in [exit : {"none", "pass", "other"}, head : Heads \cup {None}]
      BY DEF IInv, Typed
    <3>3. ran[o].exit = "pass" /\ ran[o].head = done.head
      BY <2>1, <3>1, <3>2 DEF Evidence, Verdicts
    <3>4. ran[o] = [exit |-> "pass", head |-> done.head]
      BY <3>2, <3>3
    <3> QED
      BY <3>1, <3>4 DEF IsRun
  <2> QED
    BY <2>1, <2>2
<1> QED
  BY <1>1, GatesInvariant, PTL
=============================================================================
