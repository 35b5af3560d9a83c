--------------------------- MODULE CompletionGates ---------------------------
(***************************************************************************)
(* Policy-gated completion of one execution attempt: the ProjectPolicy     *)
(* receipts, the run, inspect and cancel operations on gates and the       *)
(* acceptance of src/src/completion-application.ts, the local gate backend *)
(* (src/src/local-completion-backend.ts), and the rules under which a gate *)
(* transaction may commit.                                                 *)
(*                                                                         *)
(* A gate operation is named by the order in which it was prepared.  A     *)
(* repeated key only reads, so an operation is carried on by the call that *)
(* prepared it and by nobody else.  Stop is every rolled back transaction  *)
(* and early return after which a call does not go on; Crash ends all      *)
(* calls of a process, and with them its table of live gates.              *)
(*                                                                         *)
(* Abstractions.                                                           *)
(*  - rev stands for the revisions of the Task and of the workspace        *)
(*    generation, rec for the latest ready workspace receipt, head for the *)
(*    object that receipt names, disk for what the worktree really has     *)
(*    checked out.                                                         *)
(*  - Time is what it decides: a policy receipt or a pass has run out.     *)
(*  - A receipt of the backend is pass, fail or unclear: a verdict of a    *)
(*    completed gate, or anything else.                                    *)
(*  - An operation has ended when it is failed or ambiguous, and when its  *)
(*    call stopped, wherever that left it: nobody goes on with it, and of  *)
(*    its record only the gate and the policy of a run are read again.     *)
(*  - The turn has succeeded, integration is not required, and the actor   *)
(*    is authorized; ReliableLoop and Integration are about those.         *)
(*  - A backend failure is a Stop: its transaction records the finalized   *)
(*    event with observation number 0, which the schema refuses.           *)
(***************************************************************************)
EXTENDS Naturals, Sequences, FiniteSets

CONSTANTS
    Callers,     \* calls that can be under way at the same time
    Processes,   \* processes they run in
    Gates,       \* gates a policy may require
    Heads,       \* objects the worktree can have checked out
    None,
    MaxOps,      \* bound of the number of gate operations
    MaxPolicies, \* bound of the number of policy receipts
    MaxChanges   \* bound of the number of changes of what a command binds

ASSUME GatesAssumption ==
    /\ MaxOps \in Nat /\ MaxPolicies \in Nat /\ MaxChanges \in Nat
    /\ None \notin Heads \cup Gates \cup Callers \cup Processes

VARIABLES
    rev, rec, head, \* what a completion command binds
    disk,           \* the object the worktree has checked out
    policy,         \* policy[r]: the r-th policy receipt
    ops,            \* ops[o]: the o-th gate operation
    leaf,           \* leaf[o]: the evidence leaf of run o
    live,           \* live[o]: the child process of run o
    fresh,          \* fresh[o]: a pass of run o has not run out
    ran,            \* history: how the child of run o ended, and on which object it was started
    done,           \* the policy receipt and the object the Task was completed with
    home,           \* home[c]: the process of call c
    caller          \* caller[c]: where call c is

world == <<disk, leaf, live, fresh, ran>>
binding == <<rev, rec, head>>
vars == <<rev, rec, head, disk, policy, ops, leaf, live, fresh, ran, done, home, caller>>

Ops == 1..MaxOps
Policies == 1..MaxPolicies
Kinds == {"run", "inspect", "cancel"}
OpStates == {"none", "pending", "executing", "observed", "verified", "finalized", "ended"}
Verdicts == {"pass", "fail"}
Leaves == {"absent", "claimed", "indeterminate", "cancelled"} \cup Verdicts

Subjects == [rev : Nat, head : Heads]
Bounds == [rev : Nat, head : Heads, rec : Nat]
PolicyReceipts == [subject : Subjects, needs : SUBSET Gates, valid : BOOLEAN]
Operations ==
    [kind : Kinds \cup {"none"}, gate : Gates \cup {None}, policy : Nat, run : Nat,
     state : OpStates, verdict : Verdicts \cup {"none"}, at : Nat]
Calls ==
    [pc : {"idle", "act", "backend", "child", "answered", "verify", "finalize", "reopen"},
     bound : Bounds \cup {None}, policy : Nat, op : Nat, result : Verdicts \cup {"none", "unclear"},
     accepting : BOOLEAN, todo : SUBSET Ops, reopened : SUBSET Ops]

NoOperation ==
    [kind |-> "none", gate |-> None, policy |-> 0, run |-> 0, state |-> "none", verdict |-> "none", at |-> 0]
Idle ==
    [pc |-> "idle", bound |-> None, policy |-> 0, op |-> 0, result |-> "none", accepting |-> FALSE,
     todo |-> {}, reopened |-> {}]

Init ==
    /\ rev = 1 /\ rec = 1
    /\ disk \in Heads /\ head = disk
    /\ policy = <<>>
    /\ ops = [o \in Ops |-> NoOperation]
    /\ leaf = [o \in Ops |-> "absent"]
    /\ live = [o \in Ops |-> "none"]
    /\ fresh = [o \in Ops |-> TRUE]
    /\ ran = [o \in Ops |-> [exit |-> "none", head |-> None]]
    /\ done = None
    /\ home \in [Callers -> Processes]
    /\ caller = [c \in Callers |-> Idle]
-----------------------------------------------------------------------------
(* bindPhase3, and completionSubject of what it binds *)
Bound == [rev |-> rev, head |-> head, rec |-> rec]
Subject == [rev |-> rev, head |-> head]
IsBound(c) == caller[c].bound = Bound

(* Mutant: a receipt is current as long as it is valid. *)
MutantIsCurrent(r) == policy[r].valid

(* currentPolicyReceipt, and gateRequirement for a gate of it *)
IsCurrent(r) == policy[r].valid /\ policy[r].subject = Subject

Call(c, to) == caller' = [caller EXCEPT ![c] = to]
Done(c) == caller' = [caller EXCEPT ![c] = Idle]
Answer(c, result) == caller' = [caller EXCEPT ![c].pc = "answered", ![c].result = result]
Goto(c, pc) == caller' = [caller EXCEPT ![c].pc = pc]

(* The records of ended operations. *)
Ended(o) ==
    IF ops[o].kind = "run" THEN [ops[o] EXCEPT !.state = "ended", !.verdict = "none"]
    ELSE [NoOperation EXCEPT !.state = "ended"]
EndedOf(calls) ==
    LET theirs == {caller[c].op : c \in calls}
    IN [o \in Ops |-> IF o \in theirs /\ ops[o].state \notin {"none", "finalized"} THEN Ended(o) ELSE ops[o]]

Fresh == Cardinality({o \in Ops : ops[o].state # "none"}) + 1
Verified == Cardinality({o \in Ops : ops[o].at > 0})

(* evaluatePolicy: which gates are required is the adapter's decision, and *)
(* its receipt is stored only if nothing it is about changed during the    *)
(* call, so that asking and storing are one step.  A refusal is stored too *)
(* and never read.                                                         *)
EvaluatePolicy(needs) ==
    /\ Len(policy) < MaxPolicies
    /\ policy' = Append(policy, [subject |-> Subject, needs |-> needs, valid |-> TRUE])
    /\ UNCHANGED <<world, binding, ops, done, home, caller>>
-----------------------------------------------------------------------------
(* processGate up to the prepare transaction, which repeats the checks of  *)
(* the preflight and judges the policy by the clock of the preflight.      *)
Prepare(c, call, kind, g, r, run) ==
    LET o == Fresh
    IN /\ done = None
       /\ IsCurrent(r) /\ g \in policy[r].needs
       /\ o \in Ops
       /\ ops' = [ops EXCEPT ![o] = [NoOperation EXCEPT !.kind = kind, !.gate = g, !.policy = r, !.state = "pending",
                                                       !.run = IF kind = "run" THEN o ELSE run]]
       /\ Call(c, [call EXCEPT !.pc = "act", !.bound = Bound, !.policy = r, !.op = o])
       /\ UNCHANGED <<world, binding, policy, done, home>>

(* completion.gate.run *)
PrepareRun(c, r, g) ==
    /\ caller[c].pc = "idle"
    /\ Prepare(c, Idle, "run", g, r, 0)

(* completion.gate.inspect and cancel name the run they are about, which   *)
(* resolveGateBinding looks up.                                            *)
PrepareOnRun(c, kind, o) ==
    /\ caller[c].pc = "idle"
    /\ ops[o].kind = "run"
    /\ Prepare(c, Idle, kind, ops[o].gate, ops[o].policy, o)

(* The act transaction: a policy that has run out fails the operation. *)
Act(c) ==
    LET o == caller[c].op
        current == IsCurrent(caller[c].policy)
    IN /\ caller[c].pc = "act"
       /\ ops[o].state = "pending"
       /\ IsBound(c)
       /\ ops' = IF current THEN [ops EXCEPT ![o].state = "executing"] ELSE EndedOf({c})
       /\ IF current THEN Goto(c, "backend") ELSE Done(c)
       /\ UNCHANGED <<world, binding, policy, done, home>>
-----------------------------------------------------------------------------
(* resolve: the worktree has the object of the subject checked out. *)
Resolves(c) == disk = caller[c].bound.head

(* The child of run o, if it is in the table of c's process. *)
IsLive(c, o) == live[o] # "none" /\ \E d \in Callers : caller[d].op = o /\ caller[d].pc = "child" /\ home[d] = home[c]

(* Mutant: any completed gate counts, whatever its verdict. *)
MutantReading(c, o) ==
    IF IsLive(c, o) THEN "unclear"
    ELSE IF leaf[o] \in Verdicts THEN leaf[o]
    ELSE IF leaf[o] = "indeterminate" THEN "pass" ELSE "unclear"

(* readEvidence and receipt: an answer is a verdict only from a published  *)
(* result of a gate that is not live in this process.                      *)
Reading(c, o) == IF ~IsLive(c, o) /\ leaf[o] \in Verdicts THEN leaf[o] ELSE "unclear"

(* runGate up to the spawn: the evidence leaf is claimed first, and a      *)
(* drift of the worktree or a failed spawn leaves it claimed for ever.     *)
Start(c, spawned) ==
    LET o == caller[c].op
    IN /\ caller[c].pc = "backend" /\ ops[o].kind = "run"
       /\ Resolves(c)
       /\ leaf' = [leaf EXCEPT ![o] = IF @ = "absent" THEN "claimed" ELSE @]
       /\ IF leaf[o] = "absent" /\ spawned
          THEN /\ live' = [live EXCEPT ![o] = "running"]
               /\ ran' = [ran EXCEPT ![o].head = disk]
               /\ Goto(c, "child")
          ELSE /\ UNCHANGED <<live, ran>>
               /\ Answer(c, Reading(c, o))
       /\ UNCHANGED <<disk, fresh, binding, policy, ops, done, home>>

(* Mutant: a gate cut short gets a verdict of its own. *)
MutantVerdict(o, exit, cut) ==
    IF live[o] = "cancelled" THEN "cancelled" ELSE IF cut THEN "timed_out" ELSE IF exit = "pass" THEN "pass" ELSE "fail"

(* finish: the verdict is the exit code's only if nothing cut the gate     *)
(* short (a timeout, too much output, no start) and nobody cancelled it.   *)
Verdict(o, exit, cut) ==
    IF live[o] = "cancelled" THEN "cancelled"
    ELSE IF cut THEN "indeterminate"
    ELSE IF exit = "pass" THEN "pass" ELSE "fail"

(* finish and publishEvidence: the child closes, with an exit code or by a *)
(* signal, and its evidence is published unless writing it fails.          *)
Finish(c, exit, cut, published) ==
    LET o == caller[c].op
        verdict == Verdict(o, exit, cut)
    IN /\ caller[c].pc = "child"
       /\ live' = [live EXCEPT ![o] = "none"]
       /\ ran' = [ran EXCEPT ![o].exit = exit]
       /\ leaf' = [leaf EXCEPT ![o] = IF published THEN verdict ELSE @]
       /\ Answer(c, IF published /\ verdict \in Verdicts THEN verdict ELSE "unclear")
       /\ UNCHANGED <<disk, fresh, binding, policy, ops, done, home>>

(* inspectGate *)
Inspect(c) ==
    /\ caller[c].pc = "backend" /\ ops[caller[c].op].kind = "inspect"
    /\ Resolves(c)
    /\ Answer(c, Reading(c, ops[caller[c].op].run))
    /\ UNCHANGED <<world, binding, policy, ops, done, home>>

(* cancelGate: it reaches a child of its own process only. *)
Cancel(c) ==
    LET o == ops[caller[c].op].run
    IN /\ caller[c].pc = "backend" /\ ops[caller[c].op].kind = "cancel"
       /\ Resolves(c)
       /\ live' = [live EXCEPT ![o] = IF IsLive(c, o) THEN "cancelled" ELSE @]
       /\ Answer(c, Reading(c, o))
       /\ UNCHANGED <<disk, leaf, fresh, ran, binding, policy, ops, done, home>>
-----------------------------------------------------------------------------
(* The observe transaction: without a verdict, or once the binding or the  *)
(* policy is no longer current, the operation ends ambiguous.              *)
Observe(c) ==
    LET o == caller[c].op
        determinate == caller[c].result \in Verdicts /\ IsBound(c) /\ IsCurrent(caller[c].policy)
    IN /\ caller[c].pc = "answered"
       /\ ops[o].state = "executing"
       /\ ops' = IF determinate THEN [ops EXCEPT ![o].state = "observed"] ELSE EndedOf({c})
       /\ IF determinate THEN Goto(c, "verify") ELSE Done(c)
       /\ UNCHANGED <<world, binding, policy, done, home>>

(* The verify transaction: a pass that has run out is refused by the       *)
(* validation before the commit.                                           *)
Verify(c) ==
    LET o == caller[c].op
    IN /\ caller[c].pc = "verify"
       /\ ops[o].state = "observed"
       /\ caller[c].result = "pass" => fresh[ops[o].run]
       /\ ops' = [ops EXCEPT ![o].state = "verified", ![o].verdict = caller[c].result, ![o].at = IF ops[o].kind = "inspect" THEN Verified + 1 ELSE 0]
       /\ Goto(c, "finalize")
       /\ UNCHANGED <<world, binding, policy, done, home>>

(* The finalize transaction.  An acceptance goes on with its next gate if  *)
(* the gate has reopened as a pass.                                        *)
Finalize(c) ==
    LET call == caller[c]
        current == IsCurrent(call.policy)
    IN /\ call.pc = "finalize"
       /\ ops[call.op].state = "verified"
       /\ IsBound(c)
       /\ ops' = IF current THEN [ops EXCEPT ![call.op].state = "finalized"] ELSE EndedOf({c})
       /\ IF call.accepting /\ current /\ ops[call.op].verdict = "pass"
          THEN Call(c, [Idle EXCEPT !.pc = "reopen", !.bound = call.bound, !.policy = call.policy,
                                    !.accepting = TRUE, !.todo = call.todo \ {ops[call.op].run},
                                    !.reopened = call.reopened \cup {call.op}])
          ELSE Done(c)
       /\ UNCHANGED <<world, binding, policy, done, home>>
-----------------------------------------------------------------------------
(* The accepted inspections of gate g under policy receipt r whose pass    *)
(* has not run out.                                                        *)
Inspections(r, g) ==
    {o \in Ops : /\ ops[o].kind = "inspect" /\ ops[o].gate = g /\ ops[o].policy = r
                 /\ ops[o].state = "finalized" /\ ops[o].verdict = "pass"
                 /\ fresh[ops[o].run]}

(* gateSetEvidence: for every required gate the inspection verified last;  *)
(* it is complete when there is one for each.                              *)
GateSetComplete(r) == \A g \in policy[r].needs : Inspections(r, g) # {}
GateSet(r) ==
    {o \in Ops : \E g \in policy[r].needs :
        LET seen == Inspections(r, g)
        IN o \in seen /\ \A n \in seen : ops[n].at <= ops[o].at}

(* acceptCompletion up to the confirmation. *)
BeginAccept(c, r) ==
    /\ caller[c].pc = "idle"
    /\ done = None
    /\ IsCurrent(r)
    /\ GateSetComplete(r)
    /\ Call(c, [Idle EXCEPT !.pc = "reopen", !.bound = Bound, !.policy = r, !.accepting = TRUE,
                            !.todo = {ops[o].run : o \in GateSet(r)}])
    /\ UNCHANGED <<world, binding, policy, ops, done, home>>

(* reopenGateSet: the next gate is inspected again, as any inspection.  If *)
(* the binding has changed since the acceptance began it ends in refusal,  *)
(* whatever this inspection finds.                                         *)
Reopen(c, o) ==
    /\ caller[c].pc = "reopen"
    /\ o \in caller[c].todo
    /\ Prepare(c, [caller[c] EXCEPT !.accepting = IsBound(c)], "inspect", ops[o].gate, caller[c].policy, o)

(* The gate set that is current now is the one that was reopened. *)
ReopenedIsCurrent(c) ==
    /\ GateSetComplete(caller[c].policy)
    /\ GateSet(caller[c].policy) = caller[c].reopened

(* acceptCompletion from the last reopened gate: the clock is read and     *)
(* everything checked again, once before and once in the completion        *)
(* transaction.  The Task is completed, which advances its revision.       *)
Accept(c) ==
    /\ caller[c].pc = "reopen" /\ caller[c].todo = {}
    /\ done = None
    /\ IsBound(c)
    /\ IsCurrent(caller[c].policy)
    /\ ReopenedIsCurrent(c)
    /\ done' = [policy |-> caller[c].policy, head |-> head]
    /\ rev' = rev + 1
    /\ Done(c)
    /\ UNCHANGED <<world, rec, head, policy, ops, home>>
-----------------------------------------------------------------------------
(* The world moves on: a worktree gets another object checked out, ... *)
CheckOut(h) ==
    /\ h # disk
    /\ disk' = h
    /\ UNCHANGED <<leaf, live, fresh, ran, binding, policy, ops, done, home, caller>>

(* ... an inspection of the workspace stores a new ready receipt, ... *)
InspectWorkspace ==
    /\ rev + rec < 2 + MaxChanges
    /\ rec' = rec + 1
    /\ head' = disk
    /\ UNCHANGED <<world, rev, policy, ops, done, home, caller>>

(* ... the Task or the workspace generation changes, ... *)
Revise ==
    /\ rev + rec < 2 + MaxChanges
    /\ rev' = rev + 1
    /\ UNCHANGED <<world, rec, head, policy, ops, done, home, caller>>

(* ... and time passes for a policy receipt or for a pass. *)
PolicyLapses(r) ==
    /\ policy[r].valid
    /\ policy' = [policy EXCEPT ![r].valid = FALSE]
    /\ UNCHANGED <<world, binding, ops, done, home, caller>>
PassLapses(o) ==
    /\ leaf[o] = "pass" /\ fresh[o]
    /\ fresh' = [fresh EXCEPT ![o] = FALSE]
    /\ UNCHANGED <<disk, leaf, live, ran, binding, policy, ops, done, home, caller>>

(* A call that does not wait for its child ends where it is. *)
Stop(c) ==
    /\ caller[c].pc \notin {"idle", "child"}
    /\ ops' = EndedOf({c})
    /\ Done(c)
    /\ UNCHANGED <<world, binding, policy, done, home>>

(* A process dies: what its children would have answered is lost. *)
Crash(h) ==
    LET dead == {c \in Callers : home[c] = h}
        lost == {caller[c].op : c \in {d \in dead : caller[d].pc = "child"}}
    IN /\ lost # {}
       /\ live' = [o \in Ops |-> IF o \in lost THEN "none" ELSE live[o]]
       /\ ops' = EndedOf(dead)
       /\ caller' = [c \in Callers |-> IF c \in dead THEN Idle ELSE caller[c]]
       /\ UNCHANGED <<disk, leaf, fresh, ran, binding, policy, done, home>>

Next ==
    \/ \E c \in Callers :
        \/ \E r \in DOMAIN policy : BeginAccept(c, r) \/ \E g \in Gates : PrepareRun(c, r, g)
        \/ \E o \in Ops : Reopen(c, o) \/ \E kind \in {"inspect", "cancel"} : PrepareOnRun(c, kind, o)
        \/ Act(c) \/ Inspect(c) \/ Cancel(c) \/ Observe(c) \/ Verify(c) \/ Finalize(c)
        \/ \E spawned \in BOOLEAN : Start(c, spawned)
        \/ \E exit \in {"pass", "other"}, cut \in BOOLEAN, published \in BOOLEAN :
            Finish(c, exit, cut, published)
        \/ Accept(c) \/ Stop(c)
    \/ \E needs \in SUBSET Gates : EvaluatePolicy(needs)
    \/ \E h \in Heads : CheckOut(h)
    \/ InspectWorkspace \/ Revise
    \/ \E r \in DOMAIN policy : PolicyLapses(r)
    \/ \E o \in Ops : PassLapses(o)
    \/ \E h \in Processes : Crash(h)

Spec == Init /\ [][Next]_vars
-----------------------------------------------------------------------------
(* The variables have their types; only a run has evidence, and a live     *)
(* child has claimed it and has the call that waits for it.                *)
TypeOK ==
    /\ rev \in Nat /\ rec \in Nat /\ head \in Heads /\ disk \in Heads
    /\ policy \in Seq(PolicyReceipts) /\ Len(policy) <= MaxPolicies
    /\ ops \in [Ops -> Operations]
    /\ leaf \in [Ops -> Leaves] /\ fresh \in [Ops -> BOOLEAN]
    /\ live \in [Ops -> {"none", "running", "cancelled"}]
    /\ \A o \in Ops : leaf[o] # "absent" => ops[o].kind = "run"
    /\ \A o \in Ops : live[o] # "none" =>
        leaf[o] = "claimed" /\ \E c \in Callers : caller[c].pc = "child" /\ caller[c].op = o
    /\ done \in {None} \cup [policy : DOMAIN policy, head : Heads]
    /\ home \in [Callers -> Processes]
    /\ caller \in [Callers -> Calls]

(* What a gate operation was finalized with is what the gate did: accepted *)
(* only if the child of the run exited with a passing code on the object   *)
(* of the policy's subject, refused only if it did not pass, through       *)
(* cancellations, timeouts, crashes and lost answers.                      *)
VerdictIsTrue ==
    \A o \in Ops : ops[o].state = "finalized" =>
        /\ ops[o].verdict = "pass" <=> ran[ops[o].run].exit = "pass"
        /\ ran[ops[o].run].head = policy[ops[o].policy].subject.head

(* A Task completed by policy was completed on an object on which every    *)
(* gate that the policy receipt requires has really passed, under that     *)
(* receipt and for the binding the receipt was given for.                  *)
CompletedOnPassingHead ==
    done # None =>
        /\ policy[done.policy].subject.head = done.head
        /\ \A g \in policy[done.policy].needs :
            \E o \in Ops : /\ ops[o].kind = "run" /\ ops[o].gate = g /\ ops[o].policy = done.policy
                           /\ ran[o] = [exit |-> "pass", head |-> done.head]
=============================================================================
