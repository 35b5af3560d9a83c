----------------------------- MODULE Integration -----------------------------
(***************************************************************************)
(* Publication of finished work onto one Git target: the reservation and   *)
(* the apply, push, inspect and recover operations of                      *)
(* src/src/completion-application.ts, the local Git backend                *)
(* (src/src/local-git-integration-backend.ts), and the rules under which   *)
(* an integration transaction may commit.                                  *)
(*                                                                         *)
(* A reservation is named by its fencing token, an intent by its           *)
(* idempotency key.  A repeated key only reads, so an intent is carried on *)
(* by the process that prepared it and by nobody else; what that process   *)
(* remembers is in caller[p].  Stop is its death, and every rolled back    *)
(* transaction and early return after which it does not go on.             *)
(*                                                                         *)
(* Abstractions.                                                           *)
(*  - One target reference and one destination reference.  The source head *)
(*    of execution e is the object e; Base is the object both references   *)
(*    start from, Alien one nobody here produced.                          *)
(*  - Time is what it decides: whether the lease has run out, and whether  *)
(*    the policy receipt of the reservation is still valid.                *)
(*  - A reservation that is released or expired is closed, and of closed   *)
(*    reservations and ended intents only what is read later is kept; the  *)
(*    same for the lease of an ambiguous reservation.                      *)
(*  - The lease revision advances only with the revision, so one of them   *)
(*    is kept.  Project revisions and the actor do not change.             *)
(*  - Integration is required by policy; the other evidence of a           *)
(*    completion is the subject of CompletionGates.  An execution that     *)
(*    ends in another way only takes actions away: nothing is prepared for *)
(*    it any more, and its reservation is never released.                  *)
(***************************************************************************)
EXTENDS Naturals, FiniteSets

CONSTANTS
    Callers,        \* processes, each with its lease owner identity
    Executions,     \* execution attempts with finished work
    Keys,           \* idempotency keys of apply and push
    Base, Alien, None,
    MaxFence,       \* bound of the number of reservations
    MaxRevision,    \* bound up to which leases are renewed and taken over
    MaxObservations \* bound up to which a reservation is inspected; recovery may go two further

ASSUME IntegrationAssumption ==
    /\ MaxFence \in Nat /\ MaxRevision \in Nat /\ MaxObservations \in Nat
    /\ {Base, Alien, None} \cap (Executions \cup Keys \cup Callers) = {}

VARIABLES
    res,            \* res[f]: the reservation with fencing token f
    intent,         \* intent[k]: the apply or push with key k
    exec,           \* exec[e]: "running" or "completed"
    local, remote,  \* the objects the two references name
    reached,        \* history: <<reference, e>> when the reference has named the source of e
    caller          \* caller[p]: where the call of process p is

vars == <<res, intent, exec, local, remote, reached, caller>>

Fences == 1..MaxFence
Objects == {Base, Alien} \cup Executions
Effects == {"apply", "push"}
IntentStates == {"none", "pending", "executing", "observed", "verified", "finalized", "ambiguous", "failed"}
Inspections == {"consistent", "foreign", "unknown"}
EffectResults == {"succeeded", "refused", "unclear"}
Failures == {"plain", "ambiguous"}

Reservations ==
    [exec : Executions \cup {None}, status : {"none", "active", "ambiguous", "closed"},
     rev : Nat, owner : Callers \cup {None}, late : BOOLEAN, policy : BOOLEAN,
     expected : Objects \cup {None}, obs : Nat, inspected : BOOLEAN]
Intents ==
    [op : Effects \cup {"none"}, fence : Fences \cup {0}, state : IntentStates, obs : Nat,
     receipt : BOOLEAN, outcome : {"none", "succeeded", "refused"}]
Calls ==
    [pc : {"idle", "prepare", "act", "look", "effect", "answered", "verify", "finalize", "read", "record"},
     op : Effects \cup {"none", "inspect", "recover"},
     key : Keys \cup {None}, fence : Fences \cup {0}, rev : Nat, obs : Nat, late : BOOLEAN,
     result : EffectResults \cup Failures \cup Inspections \cup {"none"}]

NoReservation ==
    [exec |-> None, status |-> "none", rev |-> 0, owner |-> None, late |-> FALSE, policy |-> FALSE,
     expected |-> None, obs |-> 0, inspected |-> FALSE]
NoIntent ==
    [op |-> "none", fence |-> 0, state |-> "none", obs |-> 0, receipt |-> FALSE, outcome |-> "none"]
Idle ==
    [pc |-> "idle", op |-> "none", key |-> None, fence |-> 0, rev |-> 0, obs |-> 0, late |-> FALSE,
     result |-> "none"]

Init ==
    /\ res = [f \in Fences |-> NoReservation]
    /\ intent = [k \in Keys |-> NoIntent]
    /\ exec = [e \in Executions |-> "running"]
    /\ local = Base /\ remote = Base
    /\ reached = {}
    /\ caller = [p \in Callers |-> Idle]
-----------------------------------------------------------------------------
Exists(f) == res[f].status # "none"
Last == Cardinality({f \in Fences : Exists(f)})
Unfinished(f) ==
    {k \in Keys : intent[k].fence = f /\ intent[k].state \notin {"none", "finalized", "failed"}}

(* validateIntegrationState on the target and its reservations: only the   *)
(* last one is current, it has at most one unfinished intent, and that one *)
(* is ambiguous exactly when the reservation is.                           *)
ReservationIsValid(f) ==
    LET open == Unfinished(f)
    IN /\ f < Last => res[f].status = "closed"
       /\ Cardinality(open) <= 1
       /\ res[f].status = "closed" => open = {}
       /\ res[f].status = "active" => \A k \in open : intent[k].state # "ambiguous"
       /\ res[f].status = "ambiguous" => \A k \in open : intent[k].state = "ambiguous"

(* withApplicationTransaction around the integration tables. *)
Commit(newRes, newIntent) ==
    /\ res' = newRes
    /\ intent' = newIntent
    /\ \A f \in Fences : (Exists(f) => ReservationIsValid(f))'

(* transitionIntegrationReservation, with the status staying active *)
Advance(f) == [res EXCEPT ![f].rev = @ + 1]

(* The same into ambiguous. *)
Suspend(f) ==
    [res EXCEPT ![f].status = "ambiguous", ![f].rev = @ + 1, ![f].late = FALSE, ![f].policy = FALSE,
                ![f].inspected = FALSE]

(* Mutant: a recovered reservation stays active. *)
MutantClose(f) == [res EXCEPT ![f].status = "active", ![f].rev = @ + 1]

(* The same into a final status. *)
Close(f) ==
    [res EXCEPT ![f] = [NoReservation EXCEPT !.exec = res[f].exec, !.status = "closed", !.rev = res[f].rev + 1]]

(* transitionIntegrationIntent into failed, with its finalization. *)
Failed(i) == [NoIntent EXCEPT !.op = i.op, !.fence = i.fence, !.state = "failed"]
SetIntent(k, i) == [intent EXCEPT ![k] = i]

(* reservationFor: the command names the current revision and fence. *)
IsCurrent(p) == res[caller[p].fence].rev = caller[p].rev
Call(p, c) == caller' = [caller EXCEPT ![p] = c]
Goto(p, pc) == caller' = [caller EXCEPT ![p].pc = pc]
Done(p) == caller' = [caller EXCEPT ![p] = Idle]
Answer(p, result) == caller' = [caller EXCEPT ![p].pc = "answered", ![p].result = result]
-----------------------------------------------------------------------------
(* reserveIntegration: the transaction repeats every check of the          *)
(* preflight.  The expected object comes from the configuration.           *)
Reserve(p, e, expected) ==
    LET f == Last + 1
    IN /\ caller[p].pc = "idle"
       /\ f \in Fences
       /\ exec[e] = "running"
       /\ expected # e
       /\ \A g \in Fences : Exists(g) => /\ res[g].status \notin {"active", "ambiguous"}
                                         /\ Unfinished(g) = {}
       /\ Commit([res EXCEPT ![f] = [NoReservation EXCEPT
                    !.exec = e, !.status = "active", !.rev = 1, !.owner = p, !.policy = TRUE,
                    !.expected = expected]], intent)
       /\ UNCHANGED <<exec, local, remote, reached, caller>>

(* mutateReservation reads its clock before the state, and its transaction *)
(* goes on using that time: a lease that has run out since may pass for a  *)
(* live one.  Its transaction names the revision it read, so the rest is   *)
(* as it is at the commit.                                                 *)
SeenLate(f) == {FALSE, res[f].late}

(* mutateReservation with integration.lease.renew *)
Renew(p, f) ==
    /\ caller[p].pc = "idle"
    /\ res[f].status = "active" /\ res[f].rev < MaxRevision
    /\ res[f].owner = p /\ FALSE \in SeenLate(f) /\ res[f].policy
    /\ Commit([Advance(f) EXCEPT ![f].late = FALSE], intent)
    /\ UNCHANGED <<exec, local, remote, reached, caller>>

(* Mutant: takeover does not look for unfinished intents. *)
MutantMayTakeOver(f) == TRUE \in SeenLate(f) /\ res[f].inspected

(* What takeover asks for: an expired lease, nothing unfinished, and an    *)
(* authoritative inspection since the expiry.                              *)
MayTakeOver(f) == TRUE \in SeenLate(f) /\ Unfinished(f) = {} /\ res[f].inspected

(* mutateReservation with integration.lease.takeover: the fencing token    *)
(* stays.                                                                  *)
Takeover(p, f) ==
    /\ caller[p].pc = "idle"
    /\ res[f].status = "active" /\ res[f].rev < MaxRevision
    /\ MayTakeOver(f)
    /\ Commit([Advance(f) EXCEPT ![f].owner = p, ![f].late = FALSE], intent)
    /\ UNCHANGED <<exec, local, remote, reached, caller>>

(* mutateReservation with integration.release *)
Release(p, f) ==
    /\ caller[p].pc = "idle"
    /\ res[f].status = "active"
    /\ exec[res[f].exec] = "completed"
    /\ Unfinished(f) = {}
    /\ Commit(Close(f), intent)
    /\ UNCHANGED <<exec, local, remote, reached, caller>>
-----------------------------------------------------------------------------
(* Who may prepare an effect, apart from the lease not having run out. *)
MayPrepare(p, f) ==
    /\ res[f].status = "active" /\ res[f].owner = p /\ res[f].policy
    /\ exec[res[f].exec] = "running"
    /\ Unfinished(f) = {}

(* integrationEffect up to the confirmation a person gives.  The number of *)
(* the last observation is read here.                                      *)
BeginEffect(p, k, f, op) ==
    /\ caller[p].pc = "idle"
    /\ intent[k].state = "none"
    /\ MayPrepare(p, f) /\ FALSE \in SeenLate(f)
    /\ Call(p, [Idle EXCEPT !.pc = "prepare", !.op = op, !.key = k, !.fence = f, !.rev = res[f].rev,
                            !.obs = res[f].obs])
    /\ UNCHANGED <<res, intent, exec, local, remote, reached>>

(* The prepare transaction. *)
Prepare(p) ==
    LET c == caller[p]
    IN /\ c.pc = "prepare"
       /\ intent[c.key].state = "none"
       /\ IsCurrent(p) /\ MayPrepare(p, c.fence)
       /\ Commit(res, SetIntent(c.key, [NoIntent EXCEPT !.op = c.op, !.fence = c.fence, !.state = "pending",
                                                        !.obs = c.obs]))
       /\ Goto(p, "act")
       /\ UNCHANGED <<exec, local, remote, reached>>

(* What the act transaction checks: not the Task, which may have ended. *)
MayAct(p) ==
    LET r == res[caller[p].fence]
    IN IsCurrent(p) /\ r.status = "active" /\ ~r.late /\ r.owner = p /\ r.policy

(* The act transaction; authorization may be denied at any time. *)
Act(p) ==
    LET c == caller[p]
    IN /\ c.pc = "act"
       /\ \/ /\ MayAct(p)
             /\ Commit(res, SetIntent(c.key, [intent[c.key] EXCEPT !.state = "executing"]))
             /\ Goto(p, "look")
          \/ /\ Commit(res, SetIntent(c.key, Failed(intent[c.key])))
             /\ Done(p)
       /\ UNCHANGED <<exec, local, remote, reached>>
-----------------------------------------------------------------------------
Source(p) == res[caller[p].fence].exec
Expected(p) == res[caller[p].fence].expected
Reach(ref, o) == reached' = reached \cup {<<ref, e>> : e \in Executions \cap {o}}

(* The backend fails before it looks, or throws; drift of the bound        *)
(* directories and a malformed answer are ambiguous.                       *)
EffectFails(p) ==
    /\ caller[p].pc \in {"look", "effect"}
    /\ \E failure \in Failures : Answer(p, failure)
    /\ UNCHANGED <<res, intent, exec, local, remote, reached>>

(* Mutant: an effect found done already is not reported as a success. *)
MutantFound(p, o) ==
    CASE o = Source(p) -> "already"
      [] o = Expected(p) -> "go"
      [] OTHER -> "unclear"

(* What an effect finds when it reads its reference o for the first time.  *)
(* A foreign object is as unclear as one that cannot be read.              *)
Found(p, o) ==
    CASE o = Source(p) -> "succeeded"
      [] o = Expected(p) -> "go"
      [] OTHER -> "unclear"

(* apply and push up to the effect.  A reference that cannot be read is    *)
(* ambiguous; the safety checks may refuse.  push needs the local source.  *)
Look(p) ==
    LET c == caller[p]
        found == Found(p, IF c.op = "apply" THEN local ELSE remote)
    IN /\ c.pc = "look"
       /\ \/ c.op = "push" /\ local # Source(p) /\ Answer(p, "plain")
          \/ /\ c.op = "push" => local = Source(p)
             /\ \/ Answer(p, "unclear")
                \/ found # "go" /\ Answer(p, found)
                \/ found = "go" /\ (Answer(p, "refused") \/ Goto(p, "effect"))
       /\ UNCHANGED <<res, intent, exec, local, remote, reached>>

(* What an effect says after it has read its reference o again. *)
Concluded(p, o) ==
    {"unclear", CASE o = Source(p) -> "succeeded" [] o = Expected(p) -> "refused" [] OTHER -> "unclear"}

(* git update-ref with the expected old value, and the second reading. *)
Apply(p) ==
    /\ caller[p].pc = "effect" /\ caller[p].op = "apply"
    /\ local' \in {local} \cup (IF local = Expected(p) THEN {Source(p)} ELSE {})
    /\ Reach("local", local')
    /\ \E result \in Concluded(p, local') : Answer(p, result)
    /\ UNCHANGED <<res, intent, exec, remote>>

(* An ordinary push: the destination accepts a fast-forward.  Nothing but  *)
(* the expected object is known to be an ancestor of the source.           *)
Push(p) ==
    /\ caller[p].pc = "effect" /\ caller[p].op = "push"
    /\ remote' \in {remote} \cup (IF remote = Expected(p) THEN {Source(p)} ELSE {})
    /\ Reach("remote", remote')
    /\ \E result \in Concluded(p, remote') : Answer(p, result)
    /\ UNCHANGED <<res, intent, exec, local>>
-----------------------------------------------------------------------------
(* The failure transaction.  Its event names the last observation, and an  *)
(* event may not name number 0: without an earlier observation of the      *)
(* reservation it is rolled back.                                          *)
RecordFailure(p) ==
    LET c == caller[p]
        i == intent[c.key]
    IN /\ c.pc = "answered" /\ c.result \in Failures
       /\ i.state = "executing" /\ i.obs > 0
       /\ IF c.result = "ambiguous"
          THEN Commit(IF res[c.fence].status = "active" THEN Suspend(c.fence) ELSE res,
                      SetIntent(c.key, [i EXCEPT !.state = "ambiguous"]))
          ELSE Commit(res, SetIntent(c.key, Failed(i)))
       /\ Done(p)
       /\ UNCHANGED <<exec, local, remote, reached>>

(* The observation transaction.  The number of the observation was fixed   *)
(* before the effect and is unique in the reservation.                     *)
Observe(p) ==
    LET c == caller[p]
        i == [intent[c.key] EXCEPT !.obs = c.obs + 1]
        Numbered(r) == [r EXCEPT ![c.fence].obs = c.obs + 1]
    IN /\ c.pc = "answered" /\ c.result \in EffectResults
       /\ i.state = "executing" /\ res[c.fence].status = "active"
       /\ res[c.fence].obs = c.obs
       /\ \/ /\ c.result = "unclear"
             /\ Commit(Numbered(Suspend(c.fence)), SetIntent(c.key, [i EXCEPT !.state = "ambiguous"]))
             /\ Done(p)
          \/ /\ c.result = "refused"
             /\ Commit(Numbered(Advance(c.fence)), SetIntent(c.key, Failed(i)))
             /\ Done(p)
          \/ /\ c.result = "succeeded"
             /\ Commit(Numbered(Advance(c.fence)), SetIntent(c.key, [i EXCEPT !.state = "observed"]))
             /\ Call(p, [c EXCEPT !.pc = "verify", !.rev = res[c.fence].rev + 1])
       /\ UNCHANGED <<exec, local, remote, reached>>

(* The verification transaction stores the receipt. *)
Verify(p) ==
    LET c == caller[p]
    IN /\ c.pc = "verify" /\ intent[c.key].state = "observed"
       /\ Commit(res, SetIntent(c.key, [intent[c.key] EXCEPT !.state = "verified", !.receipt = TRUE]))
       /\ Goto(p, "finalize")
       /\ UNCHANGED <<exec, local, remote, reached>>

(* The finalization transaction.  A reservation that changed since the     *)
(* observation, a lapsed policy or a denial leave both ambiguous.          *)
Finalize(p) ==
    LET c == caller[p]
        r == res[c.fence]
    IN /\ c.pc = "finalize" /\ intent[c.key].state = "verified"
       /\ \/ /\ IsCurrent(p) /\ r.status = "active" /\ r.policy
             /\ Commit(res, SetIntent(c.key, [intent[c.key] EXCEPT !.state = "finalized", !.obs = 0, !.outcome = "succeeded"]))
          \/ /\ r.status = "active"
             /\ Commit(Suspend(c.fence), SetIntent(c.key, [intent[c.key] EXCEPT !.state = "ambiguous"]))
       /\ Done(p)
       /\ UNCHANGED <<exec, local, remote, reached>>
-----------------------------------------------------------------------------
(* inspectClassification: the source comes first, then the expected object.*)
(* Unchanged, applied and pushed are the consistent states.                *)
Classified(f) ==
    LET State(o) == IF o = res[f].exec THEN "source" ELSE IF o = res[f].expected THEN "expected" ELSE "foreign"
    IN IF <<State(local), State(remote)>> \in
            {<<"expected", "expected">>, <<"source", "expected">>, <<"source", "source">>}
       THEN "consistent" ELSE "foreign"

(* inspectIntegration and recoverIntegration with their read               *)
(* authorization.  recover names an ambiguous intent of an ambiguous       *)
(* reservation.  (Inspecting a closed reservation changes nothing.)        *)
BeginInspection(p, f, op, k) ==
    /\ caller[p].pc = "idle"
    /\ IF op = "recover"
       THEN /\ k \in Keys /\ res[f].obs < MaxObservations + 2
            /\ res[f].status = "ambiguous" /\ intent[k].state = "ambiguous" /\ intent[k].fence = f
       ELSE k = None /\ res[f].status \in {"active", "ambiguous"} /\ res[f].obs < MaxObservations
    /\ Call(p, [Idle EXCEPT !.pc = "read", !.op = op, !.key = k, !.fence = f, !.rev = res[f].rev, !.obs = res[f].obs])
    /\ UNCHANGED <<res, intent, exec, local, remote, reached>>

(* inspect of the backend; a reference may be unreadable. *)
Read(p) ==
    LET c == caller[p]
    IN /\ c.pc = "read"
       /\ \E result \in {Classified(c.fence), "unknown"} :
            Call(p, [c EXCEPT !.pc = "record", !.result = result, !.late = res[c.fence].late])
       /\ UNCHANGED <<res, intent, exec, local, remote, reached>>

(* The observation transaction of inspect. *)
RecordInspection(p) ==
    LET c == caller[p]
        r == res[c.fence]
        Numbered(rs) == [rs EXCEPT ![c.fence].obs = c.obs + 1]
    IN /\ c.pc = "record" /\ c.op = "inspect"
       /\ IsCurrent(p) /\ r.obs = c.obs
       /\ Commit(Numbered(CASE r.status = "ambiguous" -> res
                            [] r.status = "active" /\ c.result = "consistent" -> [res EXCEPT ![c.fence].inspected = c.late]
                            [] r.status = "active" /\ c.result # "consistent" -> Suspend(c.fence)), intent)
       /\ Done(p)
       /\ UNCHANGED <<exec, local, remote, reached>>

(* What recover makes of an intent: the outcome of its receipt is that of  *)
(* the inspection, whatever the intent was to do.                          *)
Recovered(i, result) ==
    [i EXCEPT !.state = "finalized", !.obs = 0, !.receipt = TRUE,
              !.outcome = IF result = "foreign" THEN "refused" ELSE "succeeded"]

(* The transaction of recover.  It stores a receipt of its own, and an     *)
(* intent has room for one.                                                *)
RecordRecovery(p) ==
    LET c == caller[p]
        i == [intent[c.key] EXCEPT !.obs = c.obs + 1]
        Numbered(r) == [r EXCEPT ![c.fence].obs = c.obs + 1]
    IN /\ c.pc = "record" /\ c.op = "recover"
       /\ IsCurrent(p) /\ res[c.fence].status = "ambiguous" /\ i.state = "ambiguous"
       /\ res[c.fence].obs = c.obs
       /\ IF c.result = "unknown" THEN Commit(Numbered(Suspend(c.fence)), SetIntent(c.key, i))
          ELSE /\ ~i.receipt
               /\ Commit(Close(c.fence), SetIntent(c.key, Recovered(i, c.result)))
       /\ Done(p)
       /\ UNCHANGED <<exec, local, remote, reached>>
-----------------------------------------------------------------------------
(* integrationEvidenceSha256: an active reservation of the execution with  *)
(* a finalized, succeeded apply and push.                                  *)
Evidence(e) ==
    \E f \in Fences :
        /\ res[f].exec = e /\ res[f].status = "active"
        /\ \A op \in Effects : \E k \in Keys :
             /\ intent[k].fence = f /\ intent[k].op = op
             /\ intent[k].state = "finalized" /\ intent[k].receipt /\ intent[k].outcome = "succeeded"

(* acceptCompletion, as far as it is about integration. *)
Accept(e) ==
    /\ exec[e] = "running"
    /\ Evidence(e)
    /\ exec' = [exec EXCEPT ![e] = "completed"]
    /\ UNCHANGED <<res, intent, local, remote, reached, caller>>

(* The lease runs out; what was inspected before does not count any more.  *)
(* In any other status the lease does not matter.                          *)
LeaseExpires(f) ==
    /\ res[f].status = "active" /\ ~res[f].late
    /\ res' = [res EXCEPT ![f].late = TRUE, ![f].inspected = FALSE]
    /\ UNCHANGED <<intent, exec, local, remote, reached, caller>>

(* The policy receipt of the reservation is no longer valid. *)
PolicyLapses(f) ==
    /\ res[f].status = "active" /\ res[f].policy
    /\ res' = [res EXCEPT ![f].policy = FALSE]
    /\ UNCHANGED <<intent, exec, local, remote, reached, caller>>

(* Somebody else moves a reference, once. *)
AlienMoves ==
    /\ Alien \notin {local, remote}
    /\ \/ local' = Alien /\ UNCHANGED remote
       \/ remote' = Alien /\ UNCHANGED local
    /\ UNCHANGED <<res, intent, exec, reached, caller>>

Stop(p) ==
    /\ caller[p].pc # "idle"
    /\ Done(p)
    /\ UNCHANGED <<res, intent, exec, local, remote, reached>>

Next ==
    \/ \E p \in Callers :
         \/ \E e \in Executions, o \in {Base} \cup Executions : Reserve(p, e, o)
         \/ \E f \in Fences : Renew(p, f) \/ Takeover(p, f) \/ Release(p, f)
         \/ \E k \in Keys, f \in Fences, op \in Effects : BeginEffect(p, k, f, op)
         \/ Prepare(p) \/ Act(p) \/ EffectFails(p) \/ Look(p) \/ Apply(p) \/ Push(p)
         \/ RecordFailure(p) \/ Observe(p) \/ Verify(p) \/ Finalize(p)
         \/ \E f \in Fences, op \in {"inspect", "recover"}, k \in Keys \cup {None} : BeginInspection(p, f, op, k)
         \/ Read(p) \/ RecordInspection(p) \/ RecordRecovery(p)
         \/ Stop(p)
    \/ \E e \in Executions : Accept(e)
    \/ \E f \in Fences : LeaseExpires(f) \/ PolicyLapses(f)
    \/ AlienMoves

Spec == Init /\ [][Next]_vars
-----------------------------------------------------------------------------
(* Every row, reference and call has its shape. *)
TypeOK ==
    /\ res \in [Fences -> Reservations]
    /\ intent \in [Keys -> Intents]
    /\ exec \in [Executions -> {"running", "completed"}]
    /\ local \in Objects /\ remote \in Objects
    /\ reached \subseteq {"local", "remote"} \X Executions
    /\ caller \in [Callers -> Calls]

(* The fence: while a process may still move a reference, the reservation  *)
(* it acts for is the last one of the target, active, and its own; neither *)
(* takeover, release and recovery by others nor an inspection that finds   *)
(* foreign objects get in between.                                         *)
EffectHolderIsCurrent ==
    \A p \in Callers :
        caller[p].pc \in {"look", "effect"} =>
            LET f == caller[p].fence
            IN f = Last /\ res[f].status = "active" /\ res[f].owner = p

(* acceptCompletion: work is only accepted as completed when its source    *)
(* was on the local and on the remote reference, also if the operations    *)
(* that were to put it there were interrupted and recovered.               *)
CompletedIsIntegrated ==
    \A e \in Executions :
        exec[e] = "completed" => <<"local", e>> \in reached /\ <<"remote", e>> \in reached
=============================================================================
