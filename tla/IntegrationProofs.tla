-------------------------- MODULE IntegrationProofs --------------------------
(***************************************************************************)
(* Proofs about Integration for every number of processes, executions,     *)
(* keys and reservations: types, the fence of an effect, and that accepted *)
(* work is integrated.                                                     *)
(*                                                                         *)
(* The invariant follows an effect from its reservation to its receipt: an *)
(* intent is carried by one process, whose place in the protocol is the    *)
(* state of the intent; a reservation with an unfinished intent keeps its  *)
(* owner; and whatever is recorded as succeeded was seen on its reference. *)
(***************************************************************************)
EXTENDS Integration, FiniteSetTheorems, TLAPS

Ref(op) == IF op = "apply" THEN "local" ELSE "remote"

Holding == {"act", "look", "effect", "answered", "verify", "finalize"}

StateAt(pc) ==
    CASE pc = "act" -> "pending"
      [] pc \in {"look", "effect", "answered"} -> "executing"
      [] pc = "verify" -> "observed"
      [] pc = "finalize" -> "verified"

(* Fencing tokens are given out in order. *)
InOrder == \E n \in 0..MaxFence : \A f \in Fences : Exists(f) <=> f <= n

(* What the rules of every integration transaction establish. *)
AllValid == \A f \in Fences : Exists(f) => ReservationIsValid(f)

RowShape ==
    /\ \A f \in Fences : Exists(f) => res[f].exec \in Executions
    /\ \A k \in Keys : intent[k].state # "none" =>
          intent[k].op \in Effects /\ intent[k].fence \in Fences /\ Exists(intent[k].fence)

(* A process that carries an intent is where the intent is, and owns the   *)
(* reservation while it may move a reference.                              *)
Holder(p) ==
    LET c == caller[p] IN
    /\ c.pc \in Holding =>
          /\ c.key \in Keys /\ c.fence \in Fences
          /\ intent[c.key].op = c.op /\ intent[c.key].fence = c.fence
          /\ intent[c.key].state = StateAt(c.pc)
          /\ c.pc \in {"look", "effect"} => res[c.fence].owner = p
    /\ c.pc = "prepare" =>
          c.key \in Keys /\ c.fence \in Fences /\ Exists(c.fence) /\ c.op \in Effects

(* An inspection names a reservation that was open when it began. *)
Inspector(p) ==
    LET c == caller[p] IN
    c.pc \in {"read", "record"} =>
        /\ c.fence \in Fences /\ Exists(c.fence)
        /\ c.rev <= res[c.fence].rev
        /\ c.rev = res[c.fence].rev => res[c.fence].status \in {"active", "ambiguous"}
        /\ c.op = "recover" =>
              c.key \in Keys /\ intent[c.key].state # "none" /\ intent[c.key].fence = c.fence

OneHolder ==
    \A p, q \in Callers :
        (caller[p].pc \in Holding /\ caller[q].pc \in Holding /\ caller[p].key = caller[q].key) => p = q

(* A reference that names a source has named it. *)
ReferencesReached ==
    /\ local \in Executions => <<"local", local>> \in reached
    /\ remote \in Executions => <<"remote", remote>> \in reached

(* What counts as succeeded has happened. *)
IntentReached(k) ==
    LET i == intent[k] IN
    (\/ i.state \in {"observed", "verified"}
     \/ i.state = "finalized" /\ i.outcome = "succeeded" /\ res[i.fence].status # "closed") =>
        <<Ref(i.op), res[i.fence].exec>> \in reached

AnswerReached(p) ==
    LET c == caller[p] IN
    c.pc = "answered" /\ c.result = "succeeded" => <<Ref(c.op), res[c.fence].exec>> \in reached

IInv ==
    /\ TypeOK /\ InOrder /\ AllValid /\ RowShape
    /\ \A p \in Callers : Holder(p) /\ Inspector(p) /\ AnswerReached(p)
    /\ OneHolder
    /\ ReferencesReached
    /\ \A k \in Keys : IntentReached(k)
    /\ CompletedIsIntegrated
-----------------------------------------------------------------------------
(* The rows of the two tables and the calls, field by field.               *)

LEMMA ReservationFields ==
    ASSUME NEW x \in Reservations
    PROVE  /\ x.exec \in Executions \cup {None} /\ x.status \in {"none", "active", "ambiguous", "closed"}
           /\ x.rev \in Nat /\ x.owner \in Callers \cup {None} /\ x.late \in BOOLEAN /\ x.policy \in BOOLEAN
           /\ x.expected \in Objects \cup {None} /\ x.obs \in Nat
  BY DEF Reservations

LEMMA IntentFields ==
    ASSUME NEW i \in Intents
    PROVE  /\ i.op \in Effects \cup {"none"} /\ i.fence \in Fences \cup {0} /\ i.state \in IntentStates
           /\ i.obs \in Nat /\ i.outcome \in {"none", "succeeded", "refused"}
  BY DEF Intents

LEMMA CallFields ==
    ASSUME NEW c \in Calls
    PROVE  /\ c.pc \in {"idle", "prepare", "act", "look", "effect", "answered", "verify", "finalize", "read", "record"}
           /\ c.op \in Effects \cup {"none", "inspect", "recover"}
           /\ c.key \in Keys \cup {None} /\ c.fence \in Fences \cup {0} /\ c.rev \in Nat /\ c.obs \in Nat
           /\ c.result \in EffectResults \cup Failures \cup Inspections \cup {"none"}
  BY DEF Calls

LEMMA EmptyRows ==
    /\ NoReservation \in Reservations /\ NoReservation.status = "none" /\ NoReservation.owner = None
    /\ NoIntent \in Intents /\ NoIntent.state = "none"
    /\ Idle \in Calls /\ Idle.pc = "idle"
  BY DEF NoReservation, Reservations, NoIntent, Intents, IntentStates, Effects, Idle, Calls

(* One reservation of r is rewritten; exec, status, rev and owner are what *)
(* the proofs look at.                                                     *)
Rewrites(r, s, f) ==
    /\ s \in [Fences -> Reservations]
    /\ \A g \in Fences \ {f} : s[g] = r[g]
    /\ s[f].exec = r[f].exec

LEMMA LeaseRenewed ==
    ASSUME NEW r \in [Fences -> Reservations], NEW f \in Fences, NEW s, s = [r EXCEPT ![f].late = FALSE]
    PROVE  Rewrites(r, s, f) /\ s[f].status = r[f].status /\ s[f].rev = r[f].rev /\ s[f].owner = r[f].owner
  BY DEF Rewrites, Reservations

LEMMA Transitions ==
    ASSUME res \in [Fences -> Reservations], NEW f \in Fences
    PROVE  /\ Rewrites(res, Advance(f), f) /\ Advance(f)[f].status = res[f].status
           /\ Advance(f)[f].rev = res[f].rev + 1 /\ Advance(f)[f].owner = res[f].owner
           /\ Rewrites(res, Suspend(f), f) /\ Suspend(f)[f].status = "ambiguous"
           /\ Suspend(f)[f].rev = res[f].rev + 1 /\ Suspend(f)[f].owner = res[f].owner
           /\ Rewrites(res, Close(f), f) /\ Close(f)[f].status = "closed"
           /\ Close(f)[f].rev = res[f].rev + 1
<1>1. res[f].rev \in Nat /\ res[f].rev + 1 \in Nat /\ res[f].exec \in Executions \cup {None}
  BY ReservationFields
<1>2. /\ Rewrites(res, Advance(f), f) /\ Advance(f)[f].status = res[f].status
      /\ Advance(f)[f].rev = res[f].rev + 1 /\ Advance(f)[f].owner = res[f].owner
  BY <1>1 DEF Advance, Rewrites, Reservations
<1>3. /\ Rewrites(res, Suspend(f), f) /\ Suspend(f)[f].status = "ambiguous"
      /\ Suspend(f)[f].rev = res[f].rev + 1 /\ Suspend(f)[f].owner = res[f].owner
  <2>1. \A g \in Fences \ {f} : Suspend(f)[g] = res[g]
    BY DEF Suspend
  <2>2. /\ Suspend(f)[f].exec = res[f].exec /\ Suspend(f)[f].status = "ambiguous"
        /\ Suspend(f)[f].rev = res[f].rev + 1 /\ Suspend(f)[f].owner = res[f].owner
    BY DEF Suspend, Reservations
  <2>3. Suspend(f)[f] \in Reservations
    <3> DEFINE x == [res[f] EXCEPT !.status = "ambiguous", !.rev = res[f].rev + 1]
               y == [x EXCEPT !.late = FALSE, !.policy = FALSE]
               z == [y EXCEPT !.inspected = FALSE]
    <3>1. Suspend(f)[f] = z
      BY DEF Suspend
    <3>2. x \in Reservations
      BY <1>1 DEF Reservations
    <3> HIDE DEF x
    <3>3. y \in Reservations
      BY <3>2 DEF Reservations
    <3> HIDE DEF y
    <3>4. z \in Reservations
      BY <3>3 DEF Reservations
    <3> QED
      BY <3>1, <3>4
  <2>4. Suspend(f) \in [Fences -> Reservations]
    <3>1. Suspend(f) = [g \in Fences |-> Suspend(f)[g]]
      BY DEF Suspend
    <3> QED
      BY <2>1, <2>3, <3>1
  <2> QED
    BY <2>1, <2>2, <2>4 DEF Rewrites
<1>4. /\ Rewrites(res, Close(f), f) /\ Close(f)[f].status = "closed"
      /\ Close(f)[f].rev = res[f].rev + 1
  <2> DEFINE x == [NoReservation EXCEPT !.exec = res[f].exec, !.status = "closed", !.rev = res[f].rev + 1]
  <2>1. x \in Reservations /\ x.exec = res[f].exec /\ x.status = "closed" /\ x.rev = res[f].rev + 1
    BY <1>1 DEF NoReservation, Reservations
  <2>2. Close(f) = [res EXCEPT ![f] = x]
    BY DEF Close
  <2> HIDE DEF x
  <2> QED
    BY <2>1, <2>2 DEF Rewrites
<1> QED
  BY <1>2, <1>3, <1>4

LEMMA IntentChanges ==
    ASSUME NEW i \in Intents, NEW s \in IntentStates
    PROVE  LET j == [i EXCEPT !.state = s]
           IN j \in Intents /\ j.op = i.op /\ j.fence = i.fence /\ j.state = s /\ j.outcome = i.outcome
  BY DEF Intents

LEMMA FailedIntent ==
    ASSUME NEW i \in Intents
    PROVE  Failed(i) \in Intents /\ Failed(i).op = i.op /\ Failed(i).fence = i.fence /\ Failed(i).state = "failed"
  BY DEF Failed, Intents, NoIntent, IntentStates
-----------------------------------------------------------------------------
(* A step of process p, or of nobody, and what it leaves to the others.    *)

Holds(q, k) == caller[q].pc \in Holding /\ caller[q].key = k

(* Reservations keep their execution, closed ones stay closed, the status  *)
(* changes only with the revision, and the owner only when nothing is left *)
(* unfinished.                                                             *)
ReservationsKept ==
    \A f \in Fences : Exists(f) =>
        /\ Exists(f)'
        /\ res'[f].exec = res[f].exec
        /\ res[f].status = "closed" => res'[f].status = "closed"
        /\ res[f].rev <= res'[f].rev
        /\ res'[f].status # res[f].status => res[f].rev < res'[f].rev
        /\ res'[f].owner # res[f].owner => Unfinished(f)' = {}

(* Only an intent that no other process carries changes. *)
IntentsKept(p) ==
    \A k \in Keys : intent'[k] # intent[k] =>
        /\ intent[k].state # "none" => intent'[k].op = intent[k].op /\ intent'[k].fence = intent[k].fence
        /\ intent'[k].state # "none" /\ intent'[k].op \in Effects
        /\ intent'[k].fence \in Fences /\ Exists(intent'[k].fence)
        /\ \A q \in Callers \ {p} : ~Holds(q, k)
        /\ IntentReached(k)'

StepOf(p) ==
    /\ TypeOK' /\ InOrder' /\ AllValid'
    /\ \A f \in Fences : Exists(f)' => res'[f].exec \in Executions
    /\ ReservationsKept /\ IntentsKept(p)
    /\ \A q \in Callers \ {p} : caller'[q] = caller[q]
    /\ p \in Callers =>
          /\ Holder(p)' /\ Inspector(p)' /\ AnswerReached(p)'
          /\ \A q \in Callers \ {p} : \A k \in Keys : Holds(p, k)' => ~Holds(q, k)
    /\ reached \subseteq reached'
    /\ ReferencesReached'
    /\ CompletedIsIntegrated'

LEMMA InvariantStep ==
    ASSUME IInv, NEW p, StepOf(p)
    PROVE  IInv'
<1> USE DEF IInv
<1>1. RowShape'
  <2>1. ASSUME NEW k \in Keys, intent'[k].state # "none"
        PROVE  intent'[k].op \in Effects /\ intent'[k].fence \in Fences /\ res'[intent'[k].fence].status # "none"
    <3>1. CASE intent'[k] = intent[k]
      BY <2>1, <3>1 DEF RowShape, StepOf, ReservationsKept, Exists
    <3>2. CASE intent'[k] # intent[k]
      BY <2>1, <3>2 DEF StepOf, ReservationsKept, IntentsKept, Exists
    <3> QED
      BY <3>1, <3>2
  <2> QED
    BY <2>1 DEF RowShape, StepOf, Exists
<1>2. ASSUME NEW q \in Callers \ {p}
      PROVE  Holder(q)' /\ Inspector(q)' /\ AnswerReached(q)'
  <2>0. PICK c \in Calls : c = caller[q]
    BY DEF TypeOK
  <2>1. caller'[q] = c
    BY <2>0 DEF StepOf
  <2>2. c.pc \in Holding =>
          /\ c.key \in Keys /\ c.fence \in Fences /\ intent[c.key].state = StateAt(c.pc)
          /\ intent[c.key].op = c.op /\ intent[c.key].fence = c.fence
          /\ c.pc \in {"look", "effect"} => res[c.fence].owner = q
    BY <2>0 DEF Holder
  <2>3. c.pc \in Holding => StateAt(c.pc) \notin {"none", "finalized", "failed"}
    BY DEF Holding, StateAt
  <2>4. c.pc \in Holding => intent'[c.key] = intent[c.key] /\ Exists(c.fence)
    BY <2>0, <2>2, <2>3 DEF StepOf, IntentsKept, Holds, RowShape
  <2>5. Holder(q)'
    <3>1. ASSUME c.pc \in {"look", "effect"}
          PROVE  res'[c.fence].owner = q
      <4>1. c.pc \in Holding
        BY <3>1 DEF Holding
      <4>2. c.key \in Unfinished(c.fence)'
        BY <2>2, <2>3, <2>4, <4>1 DEF Unfinished
      <4> QED
        BY <2>2, <2>4, <3>1, <4>1, <4>2 DEF StepOf, ReservationsKept
    <3>2. c.pc = "prepare" =>
            c.key \in Keys /\ c.fence \in Fences /\ Exists(c.fence)' /\ c.op \in Effects
      BY <2>0 DEF Holder, StepOf, ReservationsKept
    <3> QED
      BY <2>1, <2>2, <2>4, <3>1, <3>2 DEF Holder, Exists
  <2>6. Inspector(q)'
    <3>1. SUFFICES ASSUME c.pc \in {"read", "record"}
                   PROVE  /\ c.fence \in Fences /\ res'[c.fence].status # "none"
                          /\ c.rev <= res'[c.fence].rev
                          /\ c.rev = res'[c.fence].rev => res'[c.fence].status \in {"active", "ambiguous"}
                          /\ c.op = "recover" =>
                               c.key \in Keys /\ intent'[c.key].state # "none" /\ intent'[c.key].fence = c.fence
      BY <2>1 DEF Inspector, Exists
    <3>2. /\ c.fence \in Fences /\ Exists(c.fence) /\ c.rev <= res[c.fence].rev
          /\ c.rev = res[c.fence].rev => res[c.fence].status \in {"active", "ambiguous"}
          /\ c.op = "recover" => c.key \in Keys /\ intent[c.key].state # "none" /\ intent[c.key].fence = c.fence
      BY <2>0, <3>1 DEF Inspector
    <3>3. c.rev \in Nat /\ res[c.fence].rev \in Nat /\ res'[c.fence].rev \in Nat
      BY <3>2, CallFields, ReservationFields DEF StepOf, TypeOK
    <3>4. /\ Exists(c.fence)' /\ res[c.fence].rev <= res'[c.fence].rev
          /\ res'[c.fence].status # res[c.fence].status => res[c.fence].rev < res'[c.fence].rev
      BY <3>2 DEF StepOf, ReservationsKept
    <3>5. c.op = "recover" => intent'[c.key].state # "none" /\ intent'[c.key].fence = c.fence
      BY <3>2 DEF StepOf, IntentsKept
    <3> QED
      BY <3>2, <3>3, <3>4, <3>5 DEF Exists
  <2>7. AnswerReached(q)'
    <3>1. c.pc = "answered" => c.pc \in Holding
      BY DEF Holding
    <3>2. c.pc = "answered" => res'[c.fence].exec = res[c.fence].exec
      BY <2>2, <2>4, <3>1 DEF StepOf, ReservationsKept
    <3> QED
      BY <2>0, <2>1, <3>2 DEF AnswerReached, StepOf
  <2> QED
    BY <2>5, <2>6, <2>7
<1>3. OneHolder'
  <2> SUFFICES ASSUME NEW q \in Callers, NEW r \in Callers, caller'[q].pc \in Holding, caller'[r].pc \in Holding,
                      caller'[q].key = caller'[r].key, q # r
               PROVE  FALSE
    BY DEF OneHolder
  <2>1. CASE q # p /\ r # p
    BY <2>1 DEF StepOf, OneHolder
  <2>2. CASE q = p
    <3>1. caller'[p].key \in Keys
      BY <2>2 DEF StepOf, Holder
    <3> QED
      BY <2>2, <3>1 DEF StepOf, Holds
  <2>3. CASE r = p
    <3>1. caller'[p].key \in Keys
      BY <2>3 DEF StepOf, Holder
    <3> QED
      BY <2>3, <3>1 DEF StepOf, Holds
  <2> QED
    BY <2>1, <2>2, <2>3
<1>4. ASSUME NEW k \in Keys
      PROVE  IntentReached(k)'
  <2>1. CASE intent'[k] # intent[k]
    BY <2>1 DEF StepOf, IntentsKept
  <2>2. CASE intent'[k] = intent[k]
    <3> DEFINE i == intent[k]
    <3>1. i.state # "none" => /\ i.fence \in Fences /\ res'[i.fence].exec = res[i.fence].exec
                              /\ res[i.fence].status = "closed" => res'[i.fence].status = "closed"
      BY DEF RowShape, StepOf, ReservationsKept
    <3> HIDE DEF i
    <3>2. i = intent[k]
      BY DEF i
    <3> QED
      BY <2>2, <3>1, <3>2 DEF IntentReached, StepOf
  <2> QED
    BY <2>1, <2>2
<1>5. \A q \in Callers : Holder(q)' /\ Inspector(q)' /\ AnswerReached(q)'
  BY <1>2 DEF StepOf
<1> QED
  BY <1>1, <1>3, <1>4, <1>5 DEF StepOf
LEMMA Exclusive ==
    ASSUME IInv, NEW p, NEW k \in Keys,
           \/ intent[k].state \in {"none", "ambiguous", "finalized", "failed"}
           \/ p \in Callers /\ Holds(p, k)
    PROVE  \A q \in Callers \ {p} : ~Holds(q, k)
<1> SUFFICES ASSUME NEW q \in Callers \ {p}, Holds(q, k)
             PROVE  FALSE
  OBVIOUS
<1>1. intent[k].state = StateAt(caller[q].pc)
  BY DEF IInv, Holder, Holds
<1>2. StateAt(caller[q].pc) \notin {"none", "ambiguous", "finalized", "failed"}
  BY DEF Holds, Holding, StateAt
<1> QED
  BY <1>1, <1>2 DEF IInv, OneHolder, Holds

LEMMA StillInOrder ==
    ASSUME InOrder, \A f \in Fences : Exists(f)' <=> Exists(f)
    PROVE  InOrder' /\ Last' = Last
<1>1. InOrder'
  BY DEF InOrder
<1>2. {f \in Fences : Exists(f)}' = {f \in Fences : Exists(f)}
  BY DEF Fences
<1> QED
  BY <1>1, <1>2 DEF Last

LEMMA StillReached ==
    ASSUME IInv, UNCHANGED <<exec, local, remote, reached>>
    PROVE  ReferencesReached' /\ CompletedIsIntegrated' /\ reached \subseteq reached'
  BY DEF IInv, ReferencesReached, CompletedIsIntegrated

(* A step of process p that touches no row: the process and perhaps a      *)
(* reference move on.                                                      *)
LEMMA CallStep ==
    ASSUME IInv, NEW p \in Callers, NEW c \in Calls,
           caller' = [caller EXCEPT ![p] = c],
           UNCHANGED <<res, intent, exec>>,
           local' \in Objects, remote' \in Objects,
           reached \subseteq reached', reached' \subseteq {"local", "remote"} \X Executions,
           ReferencesReached',
           c.pc \in Holding =>
              /\ caller[p].pc \in Holding /\ StateAt(c.pc) = StateAt(caller[p].pc)
              /\ c.key = caller[p].key /\ c.op = caller[p].op /\ c.fence = caller[p].fence
              /\ c.pc \in {"look", "effect"} => caller[p].pc \in {"look", "effect"},
           c.pc = "prepare" => c.key \in Keys /\ c.fence \in Fences /\ Exists(c.fence) /\ c.op \in Effects,
           c.pc \in {"read", "record"} =>
              /\ c.fence \in Fences /\ Exists(c.fence) /\ c.rev <= res[c.fence].rev
              /\ c.rev = res[c.fence].rev => res[c.fence].status \in {"active", "ambiguous"}
              /\ c.op = "recover" => c.key \in Keys /\ intent[c.key].state # "none" /\ intent[c.key].fence = c.fence,
           c.pc = "answered" /\ c.result = "succeeded" => <<Ref(c.op), res[c.fence].exec>> \in reached'
    PROVE  IInv'
<1> USE DEF IInv
<1>1. caller'[p] = c /\ \A q \in Callers \ {p} : caller'[q] = caller[q]
  BY DEF TypeOK
<1>2. TypeOK'
  BY DEF TypeOK
<1>3. InOrder' /\ Last' = Last
  BY StillInOrder DEF Exists
<1>4. AllValid'
  BY <1>3 DEF AllValid, ReservationIsValid, Exists, Unfinished
<1>5. ReservationsKept
  <2>1. \A f \in Fences : res[f].rev \in Nat
    BY ReservationFields DEF TypeOK
  <2> QED
    BY <2>1 DEF ReservationsKept, Exists
<1>6. IntentsKept(p)
  BY DEF IntentsKept
<1>7. Holder(p)'
  <2>1. c.pc \in Holding =>
          /\ c.key \in Keys /\ c.fence \in Fences
          /\ intent[c.key].op = c.op /\ intent[c.key].fence = c.fence
          /\ intent[c.key].state = StateAt(c.pc)
          /\ c.pc \in {"look", "effect"} => res[c.fence].owner = p
    BY DEF Holder
  <2> QED
    BY <1>1, <2>1 DEF Holder, Exists
<1>8. Inspector(p)'
  BY <1>1 DEF Inspector, Exists
<1>9. AnswerReached(p)'
  BY <1>1 DEF AnswerReached
<1>10. \A q \in Callers \ {p} : \A k \in Keys : Holds(p, k)' => ~Holds(q, k)
  BY <1>1 DEF Holds, OneHolder
<1>11. CompletedIsIntegrated'
  BY DEF CompletedIsIntegrated
<1>12. \A f \in Fences : Exists(f)' => res'[f].exec \in Executions
  BY DEF RowShape, Exists
<1>13. StepOf(p)
  BY <1>1, <1>2, <1>3, <1>4, <1>5, <1>6, <1>7, <1>8, <1>9, <1>10, <1>11, <1>12 DEF StepOf
<1> QED
  BY <1>13, InvariantStep

(* A step that rewrites reservation f and no intent, after which its       *)
(* process, if it has one, is where it was or has ended its call.          *)
LEMMA ReservationStep ==
    ASSUME IInv, NEW p, NEW f \in Fences,
           Rewrites(res, res', f),
           UNCHANGED <<intent, exec, local, remote, reached>>,
           caller' = caller \/ (p \in Callers /\ caller' = [caller EXCEPT ![p] = Idle]),
           AllValid',
           res[f].status # "none", res'[f].status # "none",
           res[f].status = "closed" => res'[f].status = "closed",
           res[f].rev <= res'[f].rev,
           res'[f].status # res[f].status => res[f].rev < res'[f].rev,
           res'[f].owner # res[f].owner => Unfinished(f) = {}
    PROVE  IInv'
<1> USE DEF IInv
<1>1. res' \in [Fences -> Reservations] /\ res'[f].exec = res[f].exec /\ \A g \in Fences \ {f} : res'[g] = res[g]
  BY DEF Rewrites
<1>2. TypeOK'
  BY <1>1, EmptyRows DEF TypeOK
<1>3. InOrder'
  <2>1. \A g \in Fences : Exists(g)' <=> Exists(g)
    BY <1>1 DEF Exists
  <2> QED
    BY <2>1, StillInOrder
<1>4. Unfinished(f)' = Unfinished(f)
  BY DEF Unfinished
<1>5. ReservationsKept
  <2>1. \A g \in Fences : res[g].rev \in Nat
    BY ReservationFields DEF TypeOK
  <2> QED
    BY <1>1, <1>4, <2>1 DEF ReservationsKept, Exists
<1>6. IntentsKept(p)
  BY DEF IntentsKept
<1>7. \A g \in Fences : Exists(g)' => res'[g].exec \in Executions
  BY <1>1 DEF RowShape, Exists
<1>8. ReferencesReached' /\ CompletedIsIntegrated' /\ reached \subseteq reached'
  BY StillReached
<1>9. CASE p \in Callers /\ caller' = [caller EXCEPT ![p] = Idle]
  <2>1. caller'[p] = Idle /\ \A q \in Callers \ {p} : caller'[q] = caller[q]
    BY <1>9 DEF TypeOK
  <2>2. Holder(p)' /\ Inspector(p)' /\ AnswerReached(p)'
    BY <2>1, EmptyRows DEF Holder, Inspector, AnswerReached, Holding
  <2>3. \A q \in Callers \ {p} : \A k \in Keys : Holds(p, k)' => ~Holds(q, k)
    BY <2>1, EmptyRows DEF Holds, Holding
  <2>4. StepOf(p)
    BY <1>2, <1>3, <1>5, <1>6, <1>7, <1>8, <2>1, <2>2, <2>3 DEF StepOf
  <2> QED
    BY <2>4, InvariantStep
<1>10. CASE caller' = caller
  <2>1. None \notin Callers
    BY IntegrationAssumption
  <2>2. IntentsKept(None)
    BY DEF IntentsKept
  <2>3. StepOf(None)
    BY <1>2, <1>3, <1>5, <1>7, <1>8, <1>10, <2>1, <2>2 DEF StepOf
  <2> QED
    BY <2>3, InvariantStep
<1> QED
  BY <1>9, <1>10
(* A transaction of process p on reservation f and its intent k.           *)
LEMMA IntentStep ==
    ASSUME IInv, NEW p \in Callers, NEW f \in Fences, NEW k \in Keys, NEW i \in Intents, NEW c \in Calls,
           Rewrites(res, res', f),
           intent' = [intent EXCEPT ![k] = i],
           caller' = [caller EXCEPT ![p] = c],
           UNCHANGED <<exec, local, remote, reached>>,
           AllValid',
           res[f].status # "none", res'[f].status # "none",
           res[f].status = "closed" => res'[f].status = "closed",
           res[f].rev <= res'[f].rev,
           res'[f].status # res[f].status => res[f].rev < res'[f].rev,
           res'[f].owner # res[f].owner => res'[f].status = "closed",
           \A q \in Callers \ {p} : ~Holds(q, k),
           i.state # "none", i.op \in Effects, i.fence = f,
           intent[k].state # "none" => intent[k].op = i.op /\ intent[k].fence = f,
           (\/ i.state \in {"observed", "verified"}
            \/ i.state = "finalized" /\ i.outcome = "succeeded" /\ res'[f].status # "closed")
              => <<Ref(i.op), res[f].exec>> \in reached,
           c.pc \in {"idle", "act", "look", "verify", "finalize"},
           c.pc # "idle" => /\ c.key = k /\ c.op = i.op /\ c.fence = f /\ StateAt(c.pc) = i.state
                            /\ c.pc = "look" => res'[f].owner = p
    PROVE  IInv'
<1> USE DEF IInv
<1>1. res' \in [Fences -> Reservations] /\ res'[f].exec = res[f].exec /\ \A g \in Fences \ {f} : res'[g] = res[g]
  BY DEF Rewrites
<1>2. /\ intent'[k] = i /\ \A l \in Keys \ {k} : intent'[l] = intent[l]
      /\ caller'[p] = c /\ \A q \in Callers \ {p} : caller'[q] = caller[q]
  BY DEF TypeOK
<1>3. TypeOK'
  BY <1>1 DEF TypeOK
<1>4. InOrder'
  <2>1. \A g \in Fences : Exists(g)' <=> Exists(g)
    BY <1>1 DEF Exists
  <2> QED
    BY <2>1, StillInOrder
<1>5. ReservationsKept
  <2>1. \A g \in Fences : res[g].rev \in Nat
    BY ReservationFields DEF TypeOK
  <2>2. res'[f].status = "closed" => Unfinished(f)' = {}
    BY DEF AllValid, ReservationIsValid, Exists
  <2> QED
    BY <1>1, <2>1, <2>2 DEF ReservationsKept, Exists
<1>6. IntentsKept(p)
  <2>1. IntentReached(k)'
    BY <1>1, <1>2 DEF IntentReached
  <2> QED
    BY <1>2, <2>1 DEF IntentsKept, Exists
<1>7. \A g \in Fences : Exists(g)' => res'[g].exec \in Executions
  BY <1>1 DEF RowShape, Exists
<1>8. ReferencesReached' /\ CompletedIsIntegrated' /\ reached \subseteq reached'
  BY StillReached
<1>9. Holder(p)'
  BY <1>2 DEF Holder, Holding
<1>10. Inspector(p)' /\ AnswerReached(p)'
  BY <1>2 DEF Inspector, AnswerReached
<1>11. \A q \in Callers \ {p} : \A l \in Keys : Holds(p, l)' => ~Holds(q, l)
  BY <1>2 DEF Holds, Holding
<1>12. StepOf(p)
  BY <1>2, <1>3, <1>4, <1>5, <1>6, <1>7, <1>8, <1>9, <1>10, <1>11 DEF StepOf
<1> QED
  BY <1>12, InvariantStep
-----------------------------------------------------------------------------
(* The actions: reservations.                                              *)

LEMMA NextFence ==
    ASSUME InOrder
    PROVE  Last \in 0..MaxFence /\ \A f \in Fences : Exists(f) <=> f <= Last
<1>1. PICK n \in 0..MaxFence : \A f \in Fences : Exists(f) <=> f <= n
  BY DEF InOrder
<1>2. {f \in Fences : Exists(f)} = 1..n
  BY <1>1, IntegrationAssumption DEF Fences
<1>3. Cardinality(1..n) = n
  BY <1>1, FS_Interval, IntegrationAssumption
<1>4. Last = n
  BY <1>2, <1>3 DEF Last
<1> QED
  BY <1>1, <1>4

LEMMA ReserveStep ==
    ASSUME IInv, NEW p \in Callers, NEW e \in Executions, NEW o \in {Base} \cup Executions, Reserve(p, e, o)
    PROVE  IInv'
<1> USE DEF IInv
<1>1. PICK f \in Fences : f = Last + 1
  BY DEF Reserve
<1> DEFINE x == [NoReservation EXCEPT !.exec = e, !.status = "active", !.rev = 1, !.owner = p, !.policy = TRUE,
                                      !.expected = o]
<1>2. x \in Reservations /\ x.exec = e /\ x.status = "active"
  BY DEF NoReservation, Reservations, Objects
<1>3. res' = [res EXCEPT ![f] = x] /\ UNCHANGED <<intent, exec, local, remote, reached, caller>> /\ AllValid'
  BY <1>1 DEF Reserve, Commit, AllValid
<1> HIDE DEF x
<1>4. res'[f] = x /\ res' \in [Fences -> Reservations] /\ \A g \in Fences \ {f} : res'[g] = res[g]
  BY <1>2, <1>3 DEF TypeOK
<1>5. TypeOK'
  BY <1>3, <1>4 DEF TypeOK
<1>6. PICK n \in 0..MaxFence : n = Last /\ \A g \in Fences : Exists(g) <=> g <= n
  BY NextFence
<1>7. n \in Nat /\ f = n + 1
  BY <1>1, <1>6, IntegrationAssumption
<1>8. ~Exists(f)
  BY <1>6, <1>7
<1>9. InOrder'
  <2>1. \A g \in Fences : Exists(g)' <=> g <= f
    BY <1>2, <1>4, <1>6, <1>7 DEF Fences, Exists
  <2>2. f \in 0..MaxFence
    BY IntegrationAssumption DEF Fences
  <2> QED
    BY <2>1, <2>2 DEF InOrder
<1>10. ReservationsKept
  <2>1. \A g \in Fences : res[g].rev \in Nat
    BY ReservationFields DEF TypeOK
  <2> QED
    BY <1>4, <1>8, <2>1 DEF ReservationsKept, Exists
<1>11. IntentsKept(None) /\ None \notin Callers
  BY <1>3, IntegrationAssumption DEF IntentsKept
<1>12. \A g \in Fences : Exists(g)' => res'[g].exec \in Executions
  BY <1>2, <1>4 DEF RowShape, Exists
<1>13. ReferencesReached' /\ CompletedIsIntegrated' /\ reached \subseteq reached'
  BY <1>3, StillReached
<1>14. StepOf(None)
  BY <1>3, <1>5, <1>9, <1>10, <1>11, <1>12, <1>13 DEF StepOf
<1> QED
  BY <1>14, InvariantStep

LEMMA RenewStep ==
    ASSUME IInv, NEW p \in Callers, NEW f \in Fences, Renew(p, f) \/ Takeover(p, f) \/ Release(p, f)
    PROVE  IInv'
<1> USE DEF IInv
<1>1. res \in [Fences -> Reservations] /\ res[f].rev \in Nat /\ res[f].status = "active"
  BY ReservationFields DEF TypeOK, Renew, Takeover, Release
<1>2. UNCHANGED <<intent, exec, local, remote, reached, caller>> /\ AllValid'
  BY DEF Renew, Takeover, Release, Commit, AllValid
<1>0. PICK a : a = Advance(f)
  OBVIOUS
<1>3. /\ Rewrites(res, a, f) /\ a[f].status = "active" /\ a[f].rev = res[f].rev + 1 /\ a[f].owner = res[f].owner
      /\ a \in [Fences -> Reservations]
  BY <1>0, <1>1, Transitions DEF Rewrites
<1>4. CASE Renew(p, f)
  <2>1. res' = [a EXCEPT ![f].late = FALSE]
    BY <1>0, <1>4 DEF Renew, Commit
  <2>2. Rewrites(a, res', f) /\ res'[f].status = a[f].status /\ res'[f].rev = a[f].rev /\ res'[f].owner = a[f].owner
    BY <1>3, <2>1, LeaseRenewed
  <2>3. Rewrites(res, res', f) /\ res'[f].status = "active" /\ res'[f].rev = res[f].rev + 1 /\ res'[f].owner = res[f].owner
    BY <1>3, <2>2 DEF Rewrites
  <2> QED
    BY <1>1, <1>2, <2>3, ReservationStep
<1>5. CASE Takeover(p, f)
  <2>1. res' = [a EXCEPT ![f].owner = p, ![f].late = FALSE] /\ Unfinished(f) = {}
    BY <1>0, <1>5 DEF Takeover, MayTakeOver, Commit
  <2>2. Rewrites(a, res', f) /\ res'[f].status = a[f].status /\ res'[f].rev = a[f].rev
    <3> DEFINE x == [a[f] EXCEPT !.owner = p, !.late = FALSE]
    <3>1. x \in Reservations /\ x.exec = a[f].exec /\ x.status = a[f].status /\ x.rev = a[f].rev
      BY <1>3 DEF Reservations
    <3>2. res'[f] = x /\ (\A g \in Fences \ {f} : res'[g] = a[g]) /\ res' = [g \in Fences |-> res'[g]]
      BY <1>3, <2>1
    <3>3. a \in [Fences -> Reservations]
      BY <1>3
    <3> HIDE DEF x
    <3>4. \A g \in Fences : res'[g] \in Reservations
      BY <3>1, <3>2, <3>3
    <3>5. res' \in [Fences -> Reservations]
      BY <3>2, <3>4
    <3> QED
      BY <3>1, <3>2, <3>5 DEF Rewrites
  <2>3. Rewrites(res, res', f) /\ res'[f].status = "active" /\ res'[f].rev = res[f].rev + 1
    BY <1>1, <1>3, <2>2 DEF Rewrites
  <2>4. Unfinished(f) = {}
    BY <2>1
  <2> QED
    BY <1>1, <1>2, <2>3, <2>4, ReservationStep
<1>6. CASE Release(p, f)
  <2>1. res' = Close(f) /\ Unfinished(f) = {}
    BY <1>6 DEF Release, Commit
  <2>2. Rewrites(res, res', f) /\ res'[f].status = "closed" /\ res'[f].rev = res[f].rev + 1
    BY <1>1, <2>1, Transitions
  <2> QED
    BY <1>1, <1>2, <2>1, <2>2, ReservationStep
<1> QED
  BY <1>4, <1>5, <1>6

LEMMA TimeStep ==
    ASSUME IInv, NEW f \in Fences, LeaseExpires(f) \/ PolicyLapses(f)
    PROVE  IInv'
<1> USE DEF IInv
<1>1. res \in [Fences -> Reservations] /\ res[f].rev \in Nat /\ res[f].status = "active"
  BY ReservationFields DEF TypeOK, LeaseExpires, PolicyLapses
<1>2. UNCHANGED <<intent, exec, local, remote, reached, caller>>
  BY DEF LeaseExpires, PolicyLapses
<1>3. /\ Rewrites(res, res', f)
      /\ res'[f].status = res[f].status /\ res'[f].rev = res[f].rev /\ res'[f].owner = res[f].owner
  <2>1. CASE LeaseExpires(f)
    BY <1>1, <2>1 DEF LeaseExpires, Rewrites, Reservations
  <2>2. CASE PolicyLapses(f)
    BY <1>1, <2>2 DEF PolicyLapses, Rewrites, Reservations
  <2> QED
    BY <2>1, <2>2
<1>4. \A g \in Fences : res'[g].status = res[g].status
  BY <1>3 DEF Rewrites
<1>5. AllValid'
  <2>1. Last' = Last
    BY <1>4, StillInOrder DEF Exists
  <2>2. \A g \in Fences : Unfinished(g)' = Unfinished(g)
    BY <1>2 DEF Unfinished
  <2>3. ASSUME NEW g \in Fences, Exists(g)'
        PROVE  ReservationIsValid(g)'
    <3>1. ReservationIsValid(g)
      BY <1>4, <2>3 DEF AllValid, Exists
    <3> QED
      BY <1>2, <1>4, <2>1, <2>2, <3>1 DEF ReservationIsValid
  <2> QED
    BY <2>3 DEF AllValid
<1> QED
  BY <1>1, <1>2, <1>3, <1>5, ReservationStep
-----------------------------------------------------------------------------
(* The actions: steps of a process that write no row.                      *)

LEMMA AnswerCall ==
    ASSUME caller \in [Callers -> Calls], NEW p \in Callers,
           NEW result \in EffectResults \cup Failures, Answer(p, result)
    PROVE  \E c \in Calls : /\ caller' = [caller EXCEPT ![p] = c]
                            /\ c.pc = "answered" /\ c.result = result
                            /\ c.op = caller[p].op /\ c.key = caller[p].key /\ c.fence = caller[p].fence
<1> DEFINE c == [caller[p] EXCEPT !.pc = "answered", !.result = result]
<1>1. caller' = [caller EXCEPT ![p] = c]
  BY DEF Answer
<1>2. /\ c \in Calls /\ c.pc = "answered" /\ c.result = result
      /\ c.op = caller[p].op /\ c.key = caller[p].key /\ c.fence = caller[p].fence
  BY DEF Calls
<1> HIDE DEF c
<1> QED
  BY <1>1, <1>2

LEMMA GotoCall ==
    ASSUME caller \in [Callers -> Calls], NEW p \in Callers,
           NEW pc \in {"act", "look", "effect", "finalize"}, Goto(p, pc)
    PROVE  \E c \in Calls : /\ caller' = [caller EXCEPT ![p] = c] /\ c.pc = pc
                            /\ c.op = caller[p].op /\ c.key = caller[p].key /\ c.fence = caller[p].fence
<1> DEFINE c == [caller[p] EXCEPT !.pc = pc]
<1>1. caller' = [caller EXCEPT ![p] = c]
  BY DEF Goto
<1>2. /\ c \in Calls /\ c.pc = pc
      /\ c.op = caller[p].op /\ c.key = caller[p].key /\ c.fence = caller[p].fence
  BY DEF Calls
<1> HIDE DEF c
<1> QED
  BY <1>1, <1>2

(* A backend answer of a process that is before its effect. *)
LEMMA AnswerStep ==
    ASSUME IInv, NEW p \in Callers, caller[p].pc \in {"look", "effect"},
           NEW result \in EffectResults \cup Failures, Answer(p, result),
           UNCHANGED <<res, intent, exec>>,
           local' \in Objects, remote' \in Objects,
           reached \subseteq reached', reached' \subseteq {"local", "remote"} \X Executions,
           ReferencesReached',
           result = "succeeded" => <<Ref(caller[p].op), res[caller[p].fence].exec>> \in reached'
    PROVE  IInv'
<1>1. PICK c \in Calls : /\ caller' = [caller EXCEPT ![p] = c]
                         /\ c.pc = "answered" /\ c.result = result
                         /\ c.op = caller[p].op /\ c.key = caller[p].key /\ c.fence = caller[p].fence
  BY AnswerCall DEF IInv, TypeOK
<1>2. caller[p].pc \in Holding /\ StateAt(c.pc) = StateAt(caller[p].pc)
  BY <1>1 DEF Holding, StateAt
<1> QED
  BY <1>1, <1>2, CallStep

(* What a process at its effect reads of its reservation. *)
LEMMA AtEffect ==
    ASSUME IInv, NEW p \in Callers, caller[p].pc \in {"look", "effect"}
    PROVE  /\ caller[p].fence \in Fences /\ caller[p].op \in Effects
           /\ Source(p) = res[caller[p].fence].exec /\ Source(p) \in Executions
<1>1. caller[p].pc \in Holding /\ StateAt(caller[p].pc) = "executing"
  BY DEF Holding, StateAt
<1>2. /\ caller[p].key \in Keys /\ caller[p].fence \in Fences
      /\ intent[caller[p].key].op = caller[p].op /\ intent[caller[p].key].fence = caller[p].fence
      /\ intent[caller[p].key].state = "executing"
  BY <1>1 DEF IInv, Holder
<1> QED
  BY <1>2 DEF IInv, RowShape, Source

LEMMA EffectFailsStep ==
    ASSUME IInv, NEW p \in Callers, EffectFails(p)
    PROVE  IInv'
<1>1. PICK failure \in Failures : Answer(p, failure)
  BY DEF EffectFails
<1>2. failure # "succeeded" /\ failure \in EffectResults \cup Failures
  BY <1>1 DEF Failures
<1>3. /\ caller[p].pc \in {"look", "effect"} /\ UNCHANGED <<res, intent, exec, local, remote, reached>>
  BY DEF EffectFails
<1>4. /\ ReferencesReached' /\ local' \in Objects /\ remote' \in Objects
      /\ reached \subseteq reached' /\ reached' \subseteq {"local", "remote"} \X Executions
  BY <1>3 DEF IInv, TypeOK, ReferencesReached
<1> QED
  BY <1>1, <1>2, <1>3, <1>4, AnswerStep

LEMMA LookStep ==
    ASSUME IInv, NEW p \in Callers, Look(p)
    PROVE  IInv'
<1>1. caller[p].pc = "look" /\ UNCHANGED <<res, intent, exec, local, remote, reached>>
  BY DEF Look
<1>2. /\ ReferencesReached /\ ReferencesReached' /\ local' \in Objects /\ remote' \in Objects
      /\ reached \subseteq reached' /\ reached' \subseteq {"local", "remote"} \X Executions
  BY <1>1 DEF IInv, TypeOK, ReferencesReached
<1>3. caller[p].fence \in Fences /\ caller[p].op \in Effects
      /\ Source(p) = res[caller[p].fence].exec /\ Source(p) \in Executions
  BY <1>1, AtEffect
<1> DEFINE found == Found(p, IF caller[p].op = "apply" THEN local ELSE remote)
<1>4. /\ found \in {"succeeded", "go", "unclear"}
      /\ found = "succeeded" => <<Ref(caller[p].op), Source(p)>> \in reached
  BY <1>2, <1>3 DEF Found, Ref, ReferencesReached
<1>5. \/ \E result \in EffectResults \cup Failures :
            Answer(p, result) /\ (result = "succeeded" => <<Ref(caller[p].op), Source(p)>> \in reached)
      \/ Goto(p, "effect")
  <2>1. CASE Answer(p, "plain")
    BY <2>1 DEF Failures
  <2>2. CASE Answer(p, "unclear")
    BY <2>2 DEF EffectResults
  <2>3. CASE Answer(p, "refused")
    BY <2>3 DEF EffectResults
  <2>4. CASE found # "go" /\ Answer(p, found)
    <3>1. found \in EffectResults
      BY <1>4, <2>4 DEF EffectResults
    <3> QED
      BY <1>4, <2>4, <3>1
  <2> QED
    BY <2>1, <2>2, <2>3, <2>4 DEF Look
<1>6. ASSUME NEW result \in EffectResults \cup Failures, Answer(p, result),
             result = "succeeded" => <<Ref(caller[p].op), Source(p)>> \in reached
      PROVE  IInv'
  BY <1>1, <1>2, <1>3, <1>6, AnswerStep
<1>7. CASE Goto(p, "effect")
  <2>1. PICK c \in Calls : /\ caller' = [caller EXCEPT ![p] = c] /\ c.pc = "effect"
                           /\ c.op = caller[p].op /\ c.key = caller[p].key /\ c.fence = caller[p].fence
    BY <1>7, GotoCall DEF IInv, TypeOK
  <2>2. caller[p].pc \in Holding /\ StateAt(c.pc) = StateAt(caller[p].pc)
    BY <1>1, <2>1 DEF Holding, StateAt
  <2> QED
    BY <1>1, <1>2, <2>1, <2>2, CallStep
<1> QED
  BY <1>5, <1>6, <1>7

LEMMA ApplyStep ==
    ASSUME IInv, NEW p \in Callers, Apply(p)
    PROVE  IInv'
<1>1. caller[p].pc = "effect" /\ caller[p].op = "apply" /\ UNCHANGED <<res, intent, exec, remote>>
  BY DEF Apply
<1>2. Source(p) = res[caller[p].fence].exec /\ Source(p) \in Executions
  BY <1>1, AtEffect
<1>3. TypeOK /\ ReferencesReached
  BY DEF IInv
<1>4. local' \in Objects
  BY <1>2, <1>3 DEF Apply, TypeOK, Objects
<1>5. /\ reached \subseteq reached' /\ reached' \subseteq {"local", "remote"} \X Executions
      /\ local' \in Executions => <<"local", local'>> \in reached'
  BY <1>3 DEF Apply, Reach, TypeOK
<1>6. ReferencesReached' /\ remote' \in Objects
  BY <1>1, <1>3, <1>5 DEF ReferencesReached, TypeOK
<1>7. PICK result \in Concluded(p, local') : Answer(p, result)
  BY DEF Apply
<1>8. result \in EffectResults /\ (result = "succeeded" => local' = Source(p))
  BY <1>7 DEF Concluded, EffectResults
<1>9. result = "succeeded" => <<Ref(caller[p].op), res[caller[p].fence].exec>> \in reached'
  BY <1>1, <1>2, <1>5, <1>8 DEF Ref
<1> QED
  BY <1>1, <1>4, <1>5, <1>6, <1>7, <1>8, <1>9, AnswerStep

LEMMA PushStep ==
    ASSUME IInv, NEW p \in Callers, Push(p)
    PROVE  IInv'
<1>1. caller[p].pc = "effect" /\ caller[p].op = "push" /\ UNCHANGED <<res, intent, exec, local>>
  BY DEF Push
<1>2. Source(p) = res[caller[p].fence].exec /\ Source(p) \in Executions
  BY <1>1, AtEffect
<1>3. TypeOK /\ ReferencesReached
  BY DEF IInv
<1>4. remote' \in Objects
  BY <1>2, <1>3 DEF Push, TypeOK, Objects
<1>5. /\ reached \subseteq reached' /\ reached' \subseteq {"local", "remote"} \X Executions
      /\ remote' \in Executions => <<"remote", remote'>> \in reached'
  BY <1>3 DEF Push, Reach, TypeOK
<1>6. ReferencesReached' /\ local' \in Objects
  BY <1>1, <1>3, <1>5 DEF ReferencesReached, TypeOK
<1>7. PICK result \in Concluded(p, remote') : Answer(p, result)
  BY DEF Push
<1>8. result \in EffectResults /\ (result = "succeeded" => remote' = Source(p))
  BY <1>7 DEF Concluded, EffectResults
<1>9. result = "succeeded" => <<Ref(caller[p].op), res[caller[p].fence].exec>> \in reached'
  BY <1>1, <1>2, <1>5, <1>8 DEF Ref
<1> QED
  BY <1>1, <1>4, <1>5, <1>6, <1>7, <1>8, <1>9, AnswerStep
Begun(pc, op, k, f, n, o) ==
    [Idle EXCEPT !.pc = pc, !.op = op, !.key = k, !.fence = f, !.rev = n, !.obs = o]

LEMMA NewCall ==
    ASSUME NEW pc \in {"prepare", "read"}, NEW op \in Effects \cup {"inspect", "recover"}, NEW k \in Keys \cup {None},
           NEW f \in Fences, NEW n \in Nat, NEW o \in Nat
    PROVE  LET c == Begun(pc, op, k, f, n, o)
           IN c \in Calls /\ c.pc = pc /\ c.op = op /\ c.key = k /\ c.fence = f /\ c.rev = n
<1> DEFINE b == [Idle EXCEPT !.pc = pc, !.op = op, !.key = k]
           c == [b EXCEPT !.fence = f, !.rev = n, !.obs = o]
<1>1. b \in Calls /\ b.pc = pc /\ b.op = op /\ b.key = k
  BY DEF Calls, Idle
<1>2. c = Begun(pc, op, k, f, n, o)
  BY DEF Begun
<1> HIDE DEF b
<1>3. c \in Calls /\ c.pc = pc /\ c.op = op /\ c.key = k /\ c.fence = f /\ c.rev = n
  BY <1>1 DEF Calls
<1> HIDE DEF c
<1> QED
  BY <1>2, <1>3

LEMMA StillReferences ==
    ASSUME IInv, UNCHANGED <<local, remote, reached>>
    PROVE  /\ ReferencesReached' /\ local' \in Objects /\ remote' \in Objects
           /\ reached \subseteq reached' /\ reached' \subseteq {"local", "remote"} \X Executions
  BY DEF IInv, TypeOK, ReferencesReached

LEMMA BeginEffectStep ==
    ASSUME IInv, NEW p \in Callers, NEW k \in Keys, NEW f \in Fences, NEW op \in Effects, BeginEffect(p, k, f, op)
    PROVE  IInv'
<1>1. res[f].rev \in Nat /\ res[f].obs \in Nat /\ Exists(f)
  BY ReservationFields DEF IInv, TypeOK, BeginEffect, MayPrepare, Exists
<1>2. PICK c \in Calls : /\ caller' = [caller EXCEPT ![p] = c]
                         /\ c.pc = "prepare" /\ c.op = op /\ c.key = k /\ c.fence = f
  <2> DEFINE c == Begun("prepare", op, k, f, res[f].rev, res[f].obs)
  <2>1. c \in Calls /\ c.pc = "prepare" /\ c.op = op /\ c.key = k /\ c.fence = f
    BY <1>1, NewCall
  <2>2. caller' = [caller EXCEPT ![p] = c]
    BY DEF BeginEffect, Call, Begun
  <2> HIDE DEF c
  <2> QED
    BY <2>1, <2>2
<1>3. UNCHANGED <<res, intent, exec, local, remote, reached>>
  BY DEF BeginEffect
<1>4. c.pc \notin Holding
  BY <1>2 DEF Holding
<1> QED
  BY <1>1, <1>2, <1>3, <1>4, StillReferences, CallStep

LEMMA BeginInspectionStep ==
    ASSUME IInv, NEW p \in Callers, NEW f \in Fences, NEW op \in {"inspect", "recover"}, NEW k \in Keys \cup {None},
           BeginInspection(p, f, op, k)
    PROVE  IInv'
<1>1. res[f].rev \in Nat /\ res[f].obs \in Nat
  BY ReservationFields DEF IInv, TypeOK
<1>2. /\ res[f].status \in {"active", "ambiguous"} /\ Exists(f)
      /\ op = "recover" => k \in Keys /\ intent[k].state # "none" /\ intent[k].fence = f
  BY DEF BeginInspection, Exists
<1>3. PICK c \in Calls : /\ caller' = [caller EXCEPT ![p] = c]
                         /\ c.pc = "read" /\ c.op = op /\ c.key = k /\ c.fence = f /\ c.rev = res[f].rev
  <2> DEFINE c == Begun("read", op, k, f, res[f].rev, res[f].obs)
  <2>1. c \in Calls /\ c.pc = "read" /\ c.op = op /\ c.key = k /\ c.fence = f /\ c.rev = res[f].rev
    <3>1. /\ "read" \in {"prepare", "read"} /\ op \in Effects \cup {"inspect", "recover"}
          /\ k \in Keys \cup {None}
      OBVIOUS
    <3> HIDE DEF c
    <3>2. c = Begun("read", op, k, f, res[f].rev, res[f].obs)
      BY DEF c
    <3> QED
      BY <1>1, <3>1, <3>2, NewCall
  <2>2. caller' = [caller EXCEPT ![p] = c]
    BY DEF BeginInspection, Call, Begun
  <2> HIDE DEF c
  <2> QED
    BY <2>1, <2>2
<1>4. UNCHANGED <<res, intent, exec, local, remote, reached>>
  BY DEF BeginInspection
<1>5. c.pc \notin Holding
  BY <1>3 DEF Holding
<1>6. /\ c.fence \in Fences /\ Exists(c.fence) /\ c.rev <= res[c.fence].rev
      /\ res[c.fence].status \in {"active", "ambiguous"}
      /\ c.op = "recover" => c.key \in Keys /\ intent[c.key].state # "none" /\ intent[c.key].fence = c.fence
  BY <1>1, <1>2, <1>3
<1>7. c.pc = "read" /\ caller' = [caller EXCEPT ![p] = c]
  BY <1>3
<1> QED
  BY <1>4, <1>5, <1>6, <1>7, StillReferences, CallStep

LEMMA ReadStep ==
    ASSUME IInv, NEW p \in Callers, Read(p)
    PROVE  IInv'
<1>1. caller[p].pc = "read" /\ UNCHANGED <<res, intent, exec, local, remote, reached>>
  BY DEF Read
<1>2. PICK c \in Calls : /\ caller' = [caller EXCEPT ![p] = c] /\ c.pc = "record" /\ c.op = caller[p].op
                         /\ c.key = caller[p].key /\ c.fence = caller[p].fence /\ c.rev = caller[p].rev
  <2>1. PICK result \in {Classified(caller[p].fence), "unknown"} :
          Call(p, [caller[p] EXCEPT !.pc = "record", !.result = result, !.late = res[caller[p].fence].late])
    BY DEF Read
  <2>2. result \in Inspections
    BY <2>1 DEF Classified, Inspections
  <2>3. res[caller[p].fence].late \in BOOLEAN
    BY <1>1, ReservationFields DEF IInv, TypeOK, Inspector
  <2> DEFINE c == [caller[p] EXCEPT !.pc = "record", !.result = result, !.late = res[caller[p].fence].late]
  <2>4. /\ c \in Calls /\ c.pc = "record" /\ c.op = caller[p].op
        /\ c.key = caller[p].key /\ c.fence = caller[p].fence /\ c.rev = caller[p].rev
    <3> DEFINE b == [caller[p] EXCEPT !.pc = "record", !.result = result]
    <3>1. /\ b \in Calls /\ b.pc = "record" /\ b.op = caller[p].op
          /\ b.key = caller[p].key /\ b.fence = caller[p].fence /\ b.rev = caller[p].rev
      BY <2>2 DEF Calls, IInv, TypeOK
    <3>2. c = [b EXCEPT !.late = res[caller[p].fence].late]
      OBVIOUS
    <3> HIDE DEF b, c
    <3> QED
      BY <2>3, <3>1, <3>2 DEF Calls
  <2>5. caller' = [caller EXCEPT ![p] = c]
    BY <2>1 DEF Call
  <2> HIDE DEF c
  <2> QED
    BY <2>4, <2>5
<1>3. c.pc \notin Holding
  BY <1>2 DEF Holding
<1>4. Inspector(p)
  BY DEF IInv
<1> QED
  BY <1>1, <1>2, <1>3, <1>4, StillReferences, CallStep DEF Inspector

LEMMA StopStep ==
    ASSUME IInv, NEW p \in Callers, Stop(p)
    PROVE  IInv'
<1>1. caller' = [caller EXCEPT ![p] = Idle] /\ UNCHANGED <<res, intent, exec, local, remote, reached>>
  BY DEF Stop, Done
<1>2. Idle \in Calls /\ Idle.pc = "idle" /\ Idle.pc \notin Holding
  BY EmptyRows DEF Holding
<1> QED
  BY <1>1, <1>2, StillReferences, CallStep

LEMMA AcceptStep ==
    ASSUME IInv, NEW e \in Executions, Accept(e)
    PROVE  IInv'
<1> USE DEF IInv
<1>1. exec' = [exec EXCEPT ![e] = "completed"] /\ UNCHANGED <<res, intent, local, remote, reached, caller>> /\ Evidence(e)
  BY DEF Accept
<1>2. PICK f \in Fences :
        /\ res[f].exec = e /\ res[f].status = "active"
        /\ \A op \in Effects : \E k \in Keys :
             /\ intent[k].fence = f /\ intent[k].op = op
             /\ intent[k].state = "finalized" /\ intent[k].receipt /\ intent[k].outcome = "succeeded"
  BY <1>1 DEF Evidence
<1>3. ASSUME NEW op \in Effects
      PROVE  <<Ref(op), e>> \in reached
  <2>1. PICK k \in Keys : /\ intent[k].fence = f /\ intent[k].op = op
                          /\ intent[k].state = "finalized" /\ intent[k].outcome = "succeeded"
    BY <1>2, <1>3
  <2>2. IntentReached(k)
    OBVIOUS
  <2> QED
    BY <1>2, <2>1, <2>2 DEF IntentReached
<1>4. <<"local", e>> \in reached /\ <<"remote", e>> \in reached
  <2>1. "apply" \in Effects /\ Ref("apply") = "local" /\ "push" \in Effects /\ Ref("push") = "remote"
    BY DEF Effects, Ref
  <2>2. <<Ref("apply"), e>> \in reached /\ <<Ref("push"), e>> \in reached
    BY <1>3, <2>1
  <2> QED
    BY <2>1, <2>2
<1>5. TypeOK'
  BY <1>1 DEF TypeOK
<1>6. CompletedIsIntegrated'
  BY <1>1, <1>4 DEF CompletedIsIntegrated, TypeOK
<1>7. /\ InOrder' /\ AllValid' /\ RowShape' /\ OneHolder' /\ ReferencesReached'
      /\ \A p \in Callers : Holder(p)' /\ Inspector(p)' /\ AnswerReached(p)'
      /\ \A k \in Keys : IntentReached(k)'
  <2>1. InOrder' /\ Last' = Last
    BY <1>1, StillInOrder DEF Exists
  <2>2. AllValid'
    BY <1>1, <2>1 DEF AllValid, ReservationIsValid, Exists, Unfinished
  <2>3. RowShape' /\ OneHolder' /\ ReferencesReached'
    BY <1>1 DEF RowShape, OneHolder, ReferencesReached, Exists
  <2>4. \A p \in Callers : Holder(p)' /\ Inspector(p)' /\ AnswerReached(p)'
    BY <1>1 DEF Holder, Inspector, AnswerReached, Exists
  <2>5. \A k \in Keys : IntentReached(k)'
    BY <1>1 DEF IntentReached
  <2> QED
    BY <2>1, <2>2, <2>3, <2>4, <2>5
<1> QED
  BY <1>5, <1>6, <1>7

LEMMA AlienStep ==
    ASSUME IInv, AlienMoves
    PROVE  IInv'
<1> USE DEF IInv
<1>1. UNCHANGED <<res, intent, exec, reached, caller>>
  BY DEF AlienMoves
<1>2. Alien \notin Executions /\ Alien \in Objects
  BY IntegrationAssumption DEF Objects
<1>3. local' \in {local, Alien} /\ remote' \in {remote, Alien}
  BY DEF AlienMoves
<1>4. TypeOK'
  BY <1>1, <1>2, <1>3 DEF TypeOK
<1>5. ReferencesReached' /\ CompletedIsIntegrated'
  BY <1>1, <1>2, <1>3 DEF ReferencesReached, CompletedIsIntegrated
<1>6. InOrder' /\ Last' = Last
  BY <1>1, StillInOrder DEF Exists
<1>7. AllValid'
  BY <1>1, <1>6 DEF AllValid, ReservationIsValid, Exists, Unfinished
<1>8. RowShape' /\ OneHolder'
  BY <1>1 DEF RowShape, OneHolder, Exists
<1>9. \A p \in Callers : Holder(p)' /\ Inspector(p)' /\ AnswerReached(p)'
  BY <1>1 DEF Holder, Inspector, AnswerReached, Exists
<1>10. \A k \in Keys : IntentReached(k)'
  BY <1>1 DEF IntentReached
<1> QED
  BY <1>4, <1>5, <1>6, <1>7, <1>8, <1>9, <1>10
-----------------------------------------------------------------------------
(* The actions: transactions on an intent.                                 *)

LEMMA HolderRow ==
    ASSUME IInv, NEW p \in Callers, caller[p].pc \in Holding
    PROVE  \E f \in Fences, k \in Keys :
              /\ f = caller[p].fence /\ k = caller[p].key
              /\ res[f].status # "none" /\ res[f].rev \in Nat /\ Rewrites(res, res, f)
              /\ intent[k] \in Intents /\ intent[k].op \in Effects /\ intent[k].op = caller[p].op
              /\ intent[k].fence = f /\ intent[k].state = StateAt(caller[p].pc) /\ intent[k].state # "none"
              /\ \A q \in Callers \ {p} : ~Holds(q, k)
<1> USE DEF IInv
<1>1. PICK f \in Fences, k \in Keys :
        /\ f = caller[p].fence /\ k = caller[p].key
        /\ intent[k].op = caller[p].op /\ intent[k].fence = f /\ intent[k].state = StateAt(caller[p].pc)
  BY DEF Holder
<1>2. StateAt(caller[p].pc) # "none"
  BY DEF StateAt, Holding
<1>3. intent[k].op \in Effects /\ res[f].status # "none"
  BY <1>1, <1>2 DEF RowShape, Exists
<1>4. res[f].rev \in Nat /\ intent[k] \in Intents /\ Rewrites(res, res, f)
  BY ReservationFields DEF TypeOK, Rewrites
<1>5. \A q \in Callers \ {p} : ~Holds(q, k)
  <2>1. Holds(p, k)
    BY <1>1 DEF Holds
  <2> QED
    BY <2>1, Exclusive
<1> QED
  BY <1>1, <1>2, <1>3, <1>4, <1>5

LEMMA PrepareStep ==
    ASSUME IInv, NEW p \in Callers, Prepare(p)
    PROVE  IInv'
<1>1. caller[p].pc = "prepare"
  BY DEF Prepare
<1>2. PICK f \in Fences, k \in Keys : f = caller[p].fence /\ k = caller[p].key /\ Exists(f)
  BY <1>1 DEF IInv, Holder
<1>3. /\ caller[p].op \in Effects /\ caller[p].obs \in Nat /\ intent[k].state = "none"
  BY <1>1, <1>2, CallFields DEF IInv, Holder, Prepare, TypeOK
<1> DEFINE i == [NoIntent EXCEPT !.op = caller[p].op, !.fence = caller[p].fence, !.state = "pending",
                                 !.obs = caller[p].obs]
<1>4. i \in Intents /\ i.op = caller[p].op /\ i.fence = f /\ i.state = "pending"
  BY <1>2, <1>3 DEF NoIntent, Intents, IntentStates
<1>5. /\ res' = res /\ intent' = [intent EXCEPT ![k] = i] /\ AllValid' /\ Goto(p, "act")
      /\ UNCHANGED <<exec, local, remote, reached>>
  BY <1>2 DEF Prepare, Commit, SetIntent, AllValid
<1> HIDE DEF i
<1>6. PICK c \in Calls : /\ caller' = [caller EXCEPT ![p] = c] /\ c.pc = "act"
                         /\ c.op = caller[p].op /\ c.key = caller[p].key /\ c.fence = caller[p].fence
  BY <1>5, GotoCall DEF IInv, TypeOK
<1>7. Rewrites(res, res', f) /\ res[f].status # "none" /\ res[f].rev \in Nat
  BY <1>2, <1>5, ReservationFields DEF IInv, Rewrites, TypeOK, Exists
<1>8. \A q \in Callers \ {p} : ~Holds(q, k)
  BY <1>3, Exclusive
<1>9. StateAt(c.pc) = "pending"
  BY <1>6 DEF StateAt
<1>10. c.key = k /\ c.fence = f /\ c.op = i.op /\ i.op \in Effects
  BY <1>2, <1>3, <1>4, <1>6
<1>11. res'[f].status = res[f].status /\ res'[f].rev = res[f].rev /\ res'[f].owner = res[f].owner
  BY <1>5
<1>12. res[f].rev <= res'[f].rev
  BY <1>7, <1>11
<1>13. i.state \notin {"none", "observed", "verified", "finalized"} /\ StateAt(c.pc) = i.state
  BY <1>4, <1>9
<1>14. /\ intent' = [intent EXCEPT ![k] = i] /\ AllValid' /\ UNCHANGED <<exec, local, remote, reached>>
       /\ caller' = [caller EXCEPT ![p] = c] /\ c.pc = "act"
  BY <1>5, <1>6
<1> QED
  BY <1>3, <1>4, <1>7, <1>8, <1>10, <1>11, <1>12, <1>13, <1>14, IntentStep

(* A transaction of the process that carries intent k, after which it has  *)
(* ended its call: the reservation stays, is advanced or is suspended.     *)
LEMMA EndedStep ==
    ASSUME IInv, NEW p \in Callers, caller[p].pc \in Holding, NEW f \in Fences, NEW k \in Keys, NEW i \in Intents,
           f = caller[p].fence, k = caller[p].key,
           Rewrites(res, res', f),
           res'[f].status # "none",
           res'[f].rev \in {res[f].rev, res[f].rev + 1},
           res'[f].status # res[f].status => res[f].status = "active" /\ res'[f].rev = res[f].rev + 1,
           res'[f].owner = res[f].owner,
           intent' = [intent EXCEPT ![k] = i], Done(p), AllValid',
           UNCHANGED <<exec, local, remote, reached>>,
           i.op = intent[k].op, i.fence = intent[k].fence,
           i.state \in {"ambiguous", "failed", "finalized"},
           i.state = "finalized" => <<Ref(i.op), res[f].exec>> \in reached
    PROVE  IInv'
<1>1. /\ res[f].status # "none" /\ res[f].rev \in Nat
      /\ intent[k].op \in Effects /\ intent[k].fence = f
      /\ \A q \in Callers \ {p} : ~Holds(q, k)
  BY HolderRow
<1>2. Idle \in Calls /\ Idle.pc = "idle"
  BY EmptyRows
<1>3. caller' = [caller EXCEPT ![p] = Idle]
  BY DEF Done
<1>4. i.op \in Effects /\ i.fence = f /\ i.state # "none" /\ i.state \notin {"observed", "verified"}
  BY <1>1
<1>5. res[f].rev <= res'[f].rev /\ (res'[f].status # res[f].status => res[f].rev < res'[f].rev)
  BY <1>1
<1>6. /\ res[f].status = "closed" => res'[f].status = "closed"
      /\ res'[f].owner # res[f].owner => res'[f].status = "closed"
  OBVIOUS
<1>7. (\/ i.state \in {"observed", "verified"}
       \/ i.state = "finalized" /\ i.outcome = "succeeded" /\ res'[f].status # "closed")
         => <<Ref(i.op), res[f].exec>> \in reached
  BY <1>4
<1>8. intent[k].state # "none" => intent[k].op = i.op /\ intent[k].fence = f
  BY <1>1
<1> QED
  BY <1>1, <1>2, <1>3, <1>4, <1>5, <1>6, <1>7, <1>8, IntentStep

(* The same, after which the process goes on. *)
LEMMA GoesOnStep ==
    ASSUME IInv, NEW p \in Callers, caller[p].pc \in Holding, NEW f \in Fences, NEW k \in Keys, NEW i \in Intents,
           NEW c \in Calls,
           f = caller[p].fence, k = caller[p].key,
           Rewrites(res, res', f),
           res'[f].status = res[f].status, res'[f].owner = res[f].owner,
           res'[f].rev \in {res[f].rev, res[f].rev + 1},
           intent' = [intent EXCEPT ![k] = i], caller' = [caller EXCEPT ![p] = c], AllValid',
           UNCHANGED <<exec, local, remote, reached>>,
           i.op = intent[k].op, i.fence = intent[k].fence, i.state = StateAt(c.pc),
           c.pc \in {"look", "verify", "finalize"},
           c.op = caller[p].op, c.key = caller[p].key, c.fence = caller[p].fence,
           c.pc = "look" => res[f].owner = p,
           c.pc \in {"verify", "finalize"} => <<Ref(i.op), res[f].exec>> \in reached
    PROVE  IInv'
<1>1. /\ res[f].status # "none" /\ res[f].rev \in Nat
      /\ intent[k].op \in Effects /\ intent[k].fence = f /\ intent[k].op = caller[p].op
      /\ \A q \in Callers \ {p} : ~Holds(q, k)
  BY HolderRow
<1>2. /\ i.op \in Effects /\ i.fence = f /\ i.state \in {"executing", "observed", "verified"}
      /\ i.state \in {"observed", "verified"} => <<Ref(i.op), res[f].exec>> \in reached
  BY <1>1 DEF StateAt
<1>3. res[f].rev <= res'[f].rev
  BY <1>1
<1>4. c.key = k /\ c.op = i.op /\ c.fence = f
  BY <1>1
<1> QED
  BY <1>1, <1>2, <1>3, <1>4, IntentStep

LEMMA ActStep ==
    ASSUME IInv, NEW p \in Callers, Act(p)
    PROVE  IInv'
<1>1. caller[p].pc = "act" /\ caller[p].pc \in Holding /\ UNCHANGED <<exec, local, remote, reached>>
  BY DEF Act, Holding
<1>2. PICK f \in Fences, k \in Keys :
        /\ f = caller[p].fence /\ k = caller[p].key
        /\ res[f].status # "none" /\ res[f].rev \in Nat /\ Rewrites(res, res, f)
        /\ intent[k] \in Intents
  BY <1>1, HolderRow
<1>3. CASE /\ MayAct(p)
           /\ Commit(res, SetIntent(caller[p].key, [intent[caller[p].key] EXCEPT !.state = "executing"]))
           /\ Goto(p, "look")
  <2> DEFINE i == [intent[k] EXCEPT !.state = "executing"]
  <2>1. i \in Intents /\ i.op = intent[k].op /\ i.fence = intent[k].fence /\ i.state = "executing"
    BY <1>2, IntentChanges DEF IntentStates
  <2>2. res' = res /\ intent' = [intent EXCEPT ![k] = i] /\ AllValid'
    BY <1>2, <1>3 DEF Commit, SetIntent, AllValid
  <2> HIDE DEF i
  <2>3. PICK c \in Calls : /\ caller' = [caller EXCEPT ![p] = c] /\ c.pc = "look"
                           /\ c.op = caller[p].op /\ c.key = caller[p].key /\ c.fence = caller[p].fence
    BY <1>3, GotoCall DEF IInv, TypeOK
  <2>4. res[f].owner = p
    BY <1>2, <1>3 DEF MayAct
  <2>5. i.state = StateAt(c.pc)
    BY <2>1, <2>3 DEF StateAt
  <2>6. Rewrites(res, res', f) /\ res'[f] = res[f]
    BY <1>2, <2>2
  <2> QED
    BY <1>1, <1>2, <2>1, <2>2, <2>3, <2>4, <2>5, <2>6, GoesOnStep
<1>4. CASE /\ Commit(res, SetIntent(caller[p].key, Failed(intent[caller[p].key])))
           /\ Done(p)
  <2> DEFINE i == Failed(intent[k])
  <2>1. i \in Intents /\ i.op = intent[k].op /\ i.fence = intent[k].fence /\ i.state = "failed"
    BY <1>2, FailedIntent
  <2>2. res' = res /\ intent' = [intent EXCEPT ![k] = i] /\ AllValid' /\ Done(p)
    BY <1>2, <1>4 DEF Commit, SetIntent, AllValid
  <2> HIDE DEF i
  <2>3. Rewrites(res, res', f) /\ res'[f] = res[f]
    BY <1>2, <2>2
  <2> QED
    BY <1>1, <1>2, <2>1, <2>2, <2>3, EndedStep
<1> QED
  BY <1>3, <1>4 DEF Act

LEMMA VerifyStep ==
    ASSUME IInv, NEW p \in Callers, Verify(p)
    PROVE  IInv'
<1>1. /\ caller[p].pc = "verify" /\ caller[p].pc \in Holding /\ UNCHANGED <<exec, local, remote, reached>>
      /\ intent[caller[p].key].state = "observed"
  BY DEF Verify, Holding
<1>2. PICK f \in Fences, k \in Keys :
        /\ f = caller[p].fence /\ k = caller[p].key
        /\ res[f].rev \in Nat /\ Rewrites(res, res, f) /\ intent[k] \in Intents /\ intent[k].fence = f
  BY <1>1, HolderRow
<1> DEFINE i == [intent[k] EXCEPT !.state = "verified", !.receipt = TRUE]
<1>3. i \in Intents /\ i.op = intent[k].op /\ i.fence = intent[k].fence /\ i.state = "verified"
  BY <1>2 DEF Intents, IntentStates
<1>4. res' = res /\ intent' = [intent EXCEPT ![k] = i] /\ AllValid'
  BY <1>2 DEF Verify, Commit, SetIntent, AllValid
<1> HIDE DEF i
<1>5. PICK c \in Calls : /\ caller' = [caller EXCEPT ![p] = c] /\ c.pc = "finalize"
                         /\ c.op = caller[p].op /\ c.key = caller[p].key /\ c.fence = caller[p].fence
  BY GotoCall DEF IInv, TypeOK, Verify
<1>6. i.state = StateAt(c.pc)
  BY <1>3, <1>5 DEF StateAt
<1>7. <<Ref(i.op), res[f].exec>> \in reached
  BY <1>1, <1>2, <1>3 DEF IInv, IntentReached
<1>8. Rewrites(res, res', f) /\ res'[f] = res[f]
  BY <1>2, <1>4
<1> QED
  BY <1>1, <1>2, <1>3, <1>4, <1>5, <1>6, <1>7, <1>8, GoesOnStep

LEMMA RecordFailureStep ==
    ASSUME IInv, NEW p \in Callers, RecordFailure(p)
    PROVE  IInv'
<1>1. /\ caller[p].pc = "answered" /\ caller[p].pc \in Holding /\ UNCHANGED <<exec, local, remote, reached>>
      /\ Done(p)
  BY DEF RecordFailure, Holding
<1>2. PICK f \in Fences, k \in Keys :
        /\ f = caller[p].fence /\ k = caller[p].key
        /\ res[f].status # "none" /\ res[f].rev \in Nat /\ Rewrites(res, res, f)
        /\ intent[k] \in Intents
  BY <1>1, HolderRow
<1>3. PICK i \in Intents :
        /\ i.op = intent[k].op /\ i.fence = intent[k].fence /\ i.state \in {"ambiguous", "failed"}
        /\ intent' = [intent EXCEPT ![k] = i]
  <2>1. CASE caller[p].result = "ambiguous"
    <3> DEFINE i == [intent[k] EXCEPT !.state = "ambiguous"]
    <3>1. i \in Intents /\ i.op = intent[k].op /\ i.fence = intent[k].fence /\ i.state = "ambiguous"
      BY <1>2, IntentChanges DEF IntentStates
    <3>2. intent' = [intent EXCEPT ![k] = i]
      BY <1>2, <2>1 DEF RecordFailure, Commit, SetIntent
    <3> HIDE DEF i
    <3> QED
      BY <3>1, <3>2
  <2>2. CASE caller[p].result # "ambiguous"
    <3> DEFINE i == Failed(intent[k])
    <3>1. i \in Intents /\ i.op = intent[k].op /\ i.fence = intent[k].fence /\ i.state = "failed"
      BY <1>2, FailedIntent
    <3>2. intent' = [intent EXCEPT ![k] = i]
      BY <1>2, <2>2 DEF RecordFailure, Commit, SetIntent
    <3> HIDE DEF i
    <3> QED
      BY <3>1, <3>2
  <2> QED
    BY <2>1, <2>2
<1>4. res' = res \/ (res[f].status = "active" /\ res' = Suspend(f))
  BY <1>2 DEF RecordFailure, Commit
<1>5. AllValid'
  BY DEF RecordFailure, Commit, AllValid
<1>6. /\ Rewrites(res, res', f) /\ res'[f].status # "none" /\ res'[f].owner = res[f].owner
      /\ res'[f].rev \in {res[f].rev, res[f].rev + 1}
      /\ res'[f].status # res[f].status => res[f].status = "active" /\ res'[f].rev = res[f].rev + 1
  BY <1>2, <1>4, Transitions DEF IInv, TypeOK
<1>7. i.state # "finalized"
  BY <1>3
<1> QED
  BY <1>1, <1>2, <1>3, <1>5, <1>6, <1>7, EndedStep

LEMMA FinalizeStep ==
    ASSUME IInv, NEW p \in Callers, Finalize(p)
    PROVE  IInv'
<1>1. /\ caller[p].pc = "finalize" /\ caller[p].pc \in Holding /\ UNCHANGED <<exec, local, remote, reached>>
      /\ Done(p) /\ intent[caller[p].key].state = "verified"
  BY DEF Finalize, Holding
<1>2. PICK f \in Fences, k \in Keys :
        /\ f = caller[p].fence /\ k = caller[p].key
        /\ res[f].status # "none" /\ res[f].rev \in Nat /\ Rewrites(res, res, f)
        /\ intent[k] \in Intents /\ intent[k].fence = f
  BY <1>1, HolderRow
<1>3. <<Ref(intent[k].op), res[f].exec>> \in reached
  BY <1>1, <1>2 DEF IInv, IntentReached
<1>4. AllValid'
  BY DEF Finalize, Commit, AllValid
<1>5. CASE Commit(res, SetIntent(caller[p].key, [intent[caller[p].key] EXCEPT !.state = "finalized", !.obs = 0,
                                                                       !.outcome = "succeeded"]))
  <2> DEFINE i == [intent[k] EXCEPT !.state = "finalized", !.obs = 0, !.outcome = "succeeded"]
  <2>1. i \in Intents /\ i.op = intent[k].op /\ i.fence = intent[k].fence /\ i.state = "finalized"
    BY <1>2 DEF Intents, IntentStates
  <2>2. res' = res /\ intent' = [intent EXCEPT ![k] = i]
    BY <1>2, <1>5 DEF Commit, SetIntent
  <2> HIDE DEF i
  <2>3. Rewrites(res, res', f) /\ res'[f] = res[f] /\ <<Ref(i.op), res[f].exec>> \in reached
    BY <1>2, <1>3, <2>1, <2>2
  <2> QED
    BY <1>1, <1>2, <1>4, <2>1, <2>2, <2>3, EndedStep
<1>6. CASE /\ res[caller[p].fence].status = "active"
           /\ Commit(Suspend(caller[p].fence), SetIntent(caller[p].key, [intent[caller[p].key] EXCEPT !.state = "ambiguous"]))
  <2> DEFINE i == [intent[k] EXCEPT !.state = "ambiguous"]
  <2>1. i \in Intents /\ i.op = intent[k].op /\ i.fence = intent[k].fence /\ i.state = "ambiguous"
    BY <1>2, IntentChanges DEF IntentStates
  <2>2. res' = Suspend(f) /\ intent' = [intent EXCEPT ![k] = i] /\ res[f].status = "active"
    BY <1>2, <1>6 DEF Commit, SetIntent
  <2> HIDE DEF i
  <2>3. /\ Rewrites(res, res', f) /\ res'[f].status = "ambiguous" /\ res'[f].owner = res[f].owner
        /\ res'[f].rev = res[f].rev + 1
    BY <1>2, <2>2, Transitions DEF IInv, TypeOK
  <2> QED
    BY <1>1, <1>2, <1>4, <2>1, <2>2, <2>3, EndedStep
<1> QED
  BY <1>5, <1>6 DEF Finalize

LEMMA NumberedIntent ==
    ASSUME NEW i \in Intents, NEW n \in Nat
    PROVE  LET j == [i EXCEPT !.obs = n]
           IN j \in Intents /\ j.op = i.op /\ j.fence = i.fence /\ j.state = i.state /\ j.receipt = i.receipt
  BY DEF Intents

LEMMA ObserveStep ==
    ASSUME IInv, NEW p \in Callers, Observe(p)
    PROVE  IInv'
<1>1. /\ caller[p].pc = "answered" /\ caller[p].pc \in Holding /\ UNCHANGED <<exec, local, remote, reached>>
      /\ res[caller[p].fence].status = "active" /\ AllValid'
  BY DEF Observe, Holding, Commit, AllValid
<1>2. PICK f \in Fences, k \in Keys :
        /\ f = caller[p].fence /\ k = caller[p].key
        /\ res[f].rev \in Nat /\ intent[k] \in Intents /\ intent[k].op = caller[p].op
  BY <1>1, HolderRow
<1>3. PICK n \in Nat : n = caller[p].obs + 1
  BY CallFields DEF IInv, TypeOK
<1>4. PICK j \in Intents : /\ j = [intent[k] EXCEPT !.obs = n]
                           /\ j.op = intent[k].op /\ j.fence = intent[k].fence
  BY <1>2, NumberedIntent
<1>5. res \in [Fences -> Reservations] /\ caller \in [Callers -> Calls]
  BY DEF IInv, TypeOK
<1>6. ASSUME NEW a, a \in {Advance(f), Suspend(f)}, res' = [a EXCEPT ![f].obs = n]
      PROVE  /\ Rewrites(res, res', f) /\ res'[f].owner = res[f].owner /\ res'[f].rev = res[f].rev + 1
             /\ res'[f].status = a[f].status
  <2>1. Rewrites(res, a, f) /\ a[f].owner = res[f].owner /\ a[f].rev = res[f].rev + 1
    BY <1>5, <1>6, Transitions
  <2>2. Rewrites(a, res', f) /\ res'[f].status = a[f].status /\ res'[f].rev = a[f].rev /\ res'[f].owner = a[f].owner
    <3>1. a \in [Fences -> Reservations]
      BY <2>1 DEF Rewrites
    <3>2. res' = [a EXCEPT ![f].obs = n]
      BY <1>6
    <3>3. f \in Fences /\ n \in Nat
      BY <1>2, <1>3
    <3> QED
      BY <3>1, <3>2, <3>3 DEF Rewrites, Reservations
  <2> QED
    BY <2>1, <2>2 DEF Rewrites
<1>7. Advance(f)[f].status = "active" /\ Suspend(f)[f].status = "ambiguous"
  BY <1>1, <1>2, <1>5, Transitions
<1>8. CASE caller[p].result = "unclear"
  <2>1. PICK i \in Intents :
          /\ res' = [Suspend(f) EXCEPT ![f].obs = n]
          /\ intent' = [intent EXCEPT ![k] = i] /\ Done(p)
          /\ i.op = intent[k].op /\ i.fence = intent[k].fence /\ i.state = "ambiguous"
    <3> DEFINE i == [j EXCEPT !.state = "ambiguous"]
    <3>1. i \in Intents /\ i.op = j.op /\ i.fence = j.fence /\ i.state = "ambiguous"
      BY IntentChanges DEF IntentStates
    <3>2. /\ res' = [Suspend(f) EXCEPT ![f].obs = n] /\ intent' = [intent EXCEPT ![k] = i] /\ Done(p)
      BY <1>2, <1>3, <1>4, <1>8 DEF Observe, Commit, SetIntent
    <3> HIDE DEF i
    <3> QED
      BY <1>4, <3>1, <3>2
  <2>2. /\ Rewrites(res, res', f) /\ res'[f].owner = res[f].owner /\ res'[f].rev = res[f].rev + 1
        /\ res'[f].status = "ambiguous"
    <3>1. PICK a : a = Suspend(f)
      OBVIOUS
    <3>2. res' = [a EXCEPT ![f].obs = n]
      BY <2>1, <3>1
    <3> QED
      BY <1>6, <1>7, <3>1, <3>2
  <2> QED
    BY <1>1, <1>2, <2>1, <2>2, EndedStep
<1>9. CASE caller[p].result = "refused"
  <2>1. PICK i \in Intents :
          /\ res' = [Advance(f) EXCEPT ![f].obs = n]
          /\ intent' = [intent EXCEPT ![k] = i] /\ Done(p)
          /\ i.op = intent[k].op /\ i.fence = intent[k].fence /\ i.state = "failed"
    <3> DEFINE i == Failed(j)
    <3>1. i \in Intents /\ i.op = j.op /\ i.fence = j.fence /\ i.state = "failed"
      BY FailedIntent
    <3>2. /\ res' = [Advance(f) EXCEPT ![f].obs = n] /\ intent' = [intent EXCEPT ![k] = i] /\ Done(p)
      BY <1>2, <1>3, <1>4, <1>9 DEF Observe, Commit, SetIntent
    <3> HIDE DEF i
    <3> QED
      BY <1>4, <3>1, <3>2
  <2>2. /\ Rewrites(res, res', f) /\ res'[f].owner = res[f].owner /\ res'[f].rev = res[f].rev + 1
        /\ res'[f].status = "active"
    <3>1. PICK a : a = Advance(f)
      OBVIOUS
    <3>2. res' = [a EXCEPT ![f].obs = n]
      BY <2>1, <3>1
    <3> QED
      BY <1>6, <1>7, <3>1, <3>2
  <2> QED
    BY <1>1, <1>2, <2>1, <2>2, EndedStep
<1>10. CASE caller[p].result = "succeeded"
  <2>1. PICK i \in Intents :
          /\ res' = [Advance(f) EXCEPT ![f].obs = n]
          /\ intent' = [intent EXCEPT ![k] = i]
          /\ i.op = intent[k].op /\ i.fence = intent[k].fence /\ i.state = "observed"
    <3> DEFINE i == [j EXCEPT !.state = "observed"]
    <3>1. i \in Intents /\ i.op = j.op /\ i.fence = j.fence /\ i.state = "observed"
      BY IntentChanges DEF IntentStates
    <3>2. /\ res' = [Advance(f) EXCEPT ![f].obs = n] /\ intent' = [intent EXCEPT ![k] = i]
      BY <1>2, <1>3, <1>4, <1>10 DEF Observe, Commit, SetIntent
    <3> HIDE DEF i
    <3> QED
      BY <1>4, <3>1, <3>2
  <2>2. /\ Rewrites(res, res', f) /\ res'[f].owner = res[f].owner /\ res'[f].rev = res[f].rev + 1
        /\ res'[f].status = "active"
    <3>1. PICK a : a = Advance(f)
      OBVIOUS
    <3>2. res' = [a EXCEPT ![f].obs = n]
      BY <2>1, <3>1
    <3> QED
      BY <1>6, <1>7, <3>1, <3>2
  <2>3. PICK c \in Calls : /\ caller' = [caller EXCEPT ![p] = c] /\ c.pc = "verify"
                           /\ c.op = caller[p].op /\ c.key = caller[p].key /\ c.fence = caller[p].fence
    <3> DEFINE c == [caller[p] EXCEPT !.pc = "verify", !.rev = res[f].rev + 1]
    <3>1. /\ c \in Calls /\ c.pc = "verify"
          /\ c.op = caller[p].op /\ c.key = caller[p].key /\ c.fence = caller[p].fence
      <4>1. caller[p] \in Calls /\ res[f].rev + 1 \in Nat
        BY <1>2, <1>5
      <4> QED
        BY <4>1 DEF Calls
    <3>2. caller' = [caller EXCEPT ![p] = c]
      BY <1>2, <1>10 DEF Observe, Call
    <3> HIDE DEF c
    <3> QED
      BY <3>1, <3>2
  <2>4. <<Ref(i.op), res[f].exec>> \in reached
    BY <1>1, <1>2, <1>10, <2>1 DEF IInv, AnswerReached
  <2>5. i.state = StateAt(c.pc)
    BY <2>1, <2>3 DEF StateAt
  <2>6. res'[f].status = res[f].status
    BY <1>1, <1>2, <2>2
  <2> QED
    BY <1>1, <1>2, <2>1, <2>2, <2>3, <2>4, <2>5, <2>6, GoesOnStep
<1> QED
  BY <1>8, <1>9, <1>10 DEF Observe, EffectResults

LEMMA RecordInspectionStep ==
    ASSUME IInv, NEW p \in Callers, RecordInspection(p)
    PROVE  IInv'
<1>1. /\ caller[p].pc = "record" /\ caller[p].op = "inspect" /\ IsCurrent(p) /\ Done(p) /\ intent' = intent
      /\ UNCHANGED <<exec, local, remote, reached>> /\ AllValid'
  BY DEF RecordInspection, Commit, AllValid
<1>2. PICK f \in Fences : f = caller[p].fence /\ res[f].status \in {"active", "ambiguous"}
  BY <1>1 DEF IInv, Inspector, IsCurrent
<1>3. PICK n \in Nat : n = caller[p].obs + 1
  BY CallFields DEF IInv, TypeOK
<1>4. res \in [Fences -> Reservations] /\ res[f].rev \in Nat /\ caller[p].late \in BOOLEAN
  BY ReservationFields DEF IInv, TypeOK, Calls
<1>5. PICK a : /\ res' = [a EXCEPT ![f].obs = n]
               /\ \/ a = res
                  \/ a = [res EXCEPT ![f].inspected = caller[p].late]
                  \/ res[f].status = "active" /\ a = Suspend(f)
  <2>1. CASE res[f].status = "ambiguous"
    <3>1. res' = [res EXCEPT ![f].obs = n]
      BY <1>2, <1>3, <2>1 DEF RecordInspection, Commit
    <3> QED
      BY <3>1
  <2>2. CASE res[f].status = "active" /\ caller[p].result = "consistent"
    <3>1. PICK a : a = [res EXCEPT ![f].inspected = caller[p].late]
      OBVIOUS
    <3>2. res' = [a EXCEPT ![f].obs = n]
      BY <1>2, <1>3, <2>2, <3>1 DEF RecordInspection, Commit
    <3> QED
      BY <3>1, <3>2
  <2>3. CASE res[f].status = "active" /\ caller[p].result # "consistent"
    <3>1. res' = [Suspend(f) EXCEPT ![f].obs = n]
      BY <1>2, <1>3, <2>3 DEF RecordInspection, Commit
    <3> QED
      BY <2>3, <3>1
  <2> QED
    BY <1>2, <2>1, <2>2, <2>3
<1>6. /\ Rewrites(res, a, f) /\ a[f].owner = res[f].owner
      /\ \/ a[f].status = res[f].status /\ a[f].rev = res[f].rev
         \/ a[f].status = "ambiguous" /\ a[f].rev = res[f].rev + 1
  <2>1. CASE a = res
    BY <1>4, <2>1 DEF Rewrites
  <2>2. CASE a = [res EXCEPT ![f].inspected = caller[p].late]
    BY <1>4, <2>2 DEF Rewrites, Reservations
  <2>3. CASE a = Suspend(f)
    BY <1>4, <2>3, Transitions
  <2> QED
    BY <1>5, <2>1, <2>2, <2>3
<1>7. a \in [Fences -> Reservations]
  BY <1>6 DEF Rewrites
<1>8. Rewrites(a, res', f) /\ res'[f].status = a[f].status /\ res'[f].rev = a[f].rev /\ res'[f].owner = a[f].owner
  <2>1. res' = [a EXCEPT ![f].obs = n]
    BY <1>5
  <2> QED
    BY <1>7, <2>1 DEF Rewrites, Reservations
<1>9. /\ Rewrites(res, res', f) /\ res'[f].owner = res[f].owner
      /\ \/ res'[f].status = res[f].status /\ res'[f].rev = res[f].rev
         \/ res'[f].status = "ambiguous" /\ res'[f].rev = res[f].rev + 1
  BY <1>6, <1>8 DEF Rewrites
<1>10. caller' = [caller EXCEPT ![p] = Idle]
  BY <1>1 DEF Done
<1>11. res[f].rev <= res'[f].rev /\ (res'[f].status # res[f].status => res[f].rev < res'[f].rev)
  BY <1>4, <1>9
<1> QED
  BY <1>1, <1>2, <1>9, <1>10, <1>11, ReservationStep

LEMMA RecoveredIntent ==
    ASSUME NEW i \in Intents, NEW result
    PROVE  LET j == Recovered(i, result)
           IN j \in Intents /\ j.op = i.op /\ j.fence = i.fence /\ j.state = "finalized"
<1> DEFINE o == IF result = "foreign" THEN "refused" ELSE "succeeded"
           h == [i EXCEPT !.state = "finalized", !.obs = 0]
           j == [h EXCEPT !.receipt = TRUE, !.outcome = o]
<1>1. o \in {"none", "succeeded", "refused"}
  OBVIOUS
<1>2. Recovered(i, result) = j
  BY DEF Recovered
<1>3. h \in Intents /\ h.op = i.op /\ h.fence = i.fence /\ h.state = "finalized"
  BY DEF Intents, IntentStates
<1> HIDE DEF o, h
<1>4. j \in Intents /\ j.op = i.op /\ j.fence = i.fence /\ j.state = "finalized"
  BY <1>1, <1>3 DEF Intents
<1> HIDE DEF j
<1> QED
  BY <1>2, <1>4

LEMMA RecordRecoveryStep ==
    ASSUME IInv, NEW p \in Callers, RecordRecovery(p)
    PROVE  IInv'
<1>1. /\ caller[p].pc = "record" /\ caller[p].op = "recover" /\ Done(p)
      /\ UNCHANGED <<exec, local, remote, reached>> /\ AllValid'
      /\ res[caller[p].fence].status = "ambiguous"
  BY DEF RecordRecovery, Commit, AllValid
<1>2. PICK f \in Fences, k \in Keys :
        /\ f = caller[p].fence /\ k = caller[p].key /\ intent[k].fence = f
        /\ res[f].status = "ambiguous" /\ intent[k].state # "none"
  BY <1>1 DEF IInv, Inspector
<1>3. PICK n \in Nat : n = caller[p].obs + 1
  BY CallFields DEF IInv, TypeOK
<1>4. /\ res \in [Fences -> Reservations] /\ res[f].rev \in Nat /\ intent[k] \in Intents
      /\ intent[k].op \in Effects
  BY <1>2, ReservationFields DEF IInv, TypeOK, RowShape
<1>5. PICK j \in Intents : /\ j = [intent[k] EXCEPT !.obs = n]
                           /\ j.op = intent[k].op /\ j.fence = f /\ j.state = intent[k].state
  <2> DEFINE j == [intent[k] EXCEPT !.obs = n]
  <2>1. j \in Intents /\ j.op = intent[k].op /\ j.fence = intent[k].fence /\ j.state = intent[k].state
    BY <1>4, NumberedIntent
  <2>2. j = [intent[k] EXCEPT !.obs = n]
    OBVIOUS
  <2> HIDE DEF j
  <2> QED
    BY <1>2, <2>1, <2>2
<1>6. j.state = "ambiguous" /\ \A q \in Callers \ {p} : ~Holds(q, k)
  <2>1. j.state = "ambiguous"
    BY <1>2, <1>3, <1>5 DEF RecordRecovery
  <2> QED
    BY <1>5, <2>1, Exclusive
<1>7. Idle \in Calls /\ Idle.pc = "idle" /\ caller' = [caller EXCEPT ![p] = Idle]
  BY <1>1, EmptyRows DEF Done
<1>8. CASE caller[p].result = "unknown"
  <2>1. PICK a : a = Suspend(f)
    OBVIOUS
  <2>2. res' = [a EXCEPT ![f].obs = n] /\ intent' = [intent EXCEPT ![k] = j]
    BY <1>2, <1>3, <1>5, <1>8, <2>1 DEF RecordRecovery, Commit, SetIntent
  <2>3. /\ Rewrites(res, a, f) /\ a[f].owner = res[f].owner /\ a[f].status = "ambiguous" /\ a[f].rev = res[f].rev + 1
        /\ a \in [Fences -> Reservations]
    BY <1>4, <2>1, Transitions DEF Rewrites
  <2>4. Rewrites(a, res', f) /\ res'[f].status = a[f].status /\ res'[f].rev = a[f].rev /\ res'[f].owner = a[f].owner
    <3>1. res' = [a EXCEPT ![f].obs = n] /\ a \in [Fences -> Reservations]
      BY <2>2, <2>3
    <3> QED
      BY <3>1 DEF Rewrites, Reservations
  <2>5. /\ Rewrites(res, res', f) /\ res'[f].owner = res[f].owner /\ res'[f].status = "ambiguous"
        /\ res[f].rev <= res'[f].rev
    BY <1>4, <2>3, <2>4 DEF Rewrites
  <2> QED
    BY <1>1, <1>2, <1>4, <1>5, <1>6, <1>7, <2>2, <2>5, IntentStep
<1>9. CASE caller[p].result # "unknown"
  <2>1. PICK i \in Intents :
          /\ intent' = [intent EXCEPT ![k] = i] /\ i.op = j.op /\ i.fence = j.fence /\ i.state = "finalized"
    <3> DEFINE i == Recovered(j, caller[p].result)
    <3>1. i \in Intents /\ i.op = j.op /\ i.fence = j.fence /\ i.state = "finalized"
      BY RecoveredIntent
    <3>2. intent' = [intent EXCEPT ![k] = i]
      BY <1>2, <1>3, <1>5, <1>9 DEF RecordRecovery, Commit, SetIntent
    <3> HIDE DEF i
    <3> QED
      BY <3>1, <3>2
  <2>2. res' = Close(f)
    BY <1>2, <1>9 DEF RecordRecovery, Commit
  <2>3. Rewrites(res, res', f) /\ res'[f].status = "closed" /\ res'[f].rev = res[f].rev + 1
    BY <1>4, <2>2, Transitions
  <2>4. res[f].rev < res'[f].rev /\ res[f].rev <= res'[f].rev
    BY <1>4, <2>3
  <2>5. i.op \in Effects /\ i.fence = f /\ intent[k].op = i.op /\ i.state \notin {"none", "observed", "verified"}
    BY <1>4, <1>5, <2>1
  <2>6. intent' = [intent EXCEPT ![k] = i]
    BY <2>1
  <2> QED
    BY <1>1, <1>2, <1>6, <1>7, <2>3, <2>4, <2>5, <2>6, IntentStep
<1> QED
  BY <1>8, <1>9
-----------------------------------------------------------------------------
(* The theorems.                                                           *)

LEMMA InitHolds ==
    ASSUME Init
    PROVE  IInv
<1>1. TypeOK
  BY EmptyRows DEF Init, TypeOK, Objects
<1>2. (\A f \in Fences : ~Exists(f)) /\ (\A k \in Keys : intent[k].state = "none") /\ (\A p \in Callers : caller[p].pc = "idle")
  BY EmptyRows DEF Init, Exists
<1>3. InOrder
  <2>1. 0 \in 0..MaxFence /\ \A f \in Fences : ~(f <= 0)
    BY IntegrationAssumption DEF Fences
  <2> QED
    BY <1>2, <2>1 DEF InOrder
<1>4. AllValid /\ RowShape
  BY <1>2 DEF AllValid, RowShape
<1>5. \A p \in Callers : Holder(p) /\ Inspector(p) /\ AnswerReached(p)
  BY <1>2 DEF Holder, Inspector, AnswerReached, Holding
<1>6. OneHolder
  BY <1>2 DEF OneHolder, Holding
<1>7. \A k \in Keys : IntentReached(k)
  BY <1>2 DEF IntentReached
<1>8. ReferencesReached /\ CompletedIsIntegrated
  BY IntegrationAssumption DEF Init, ReferencesReached, CompletedIsIntegrated
<1> QED
  BY <1>1, <1>3, <1>4, <1>5, <1>6, <1>7, <1>8 DEF IInv

LEMMA NextHolds ==
    ASSUME IInv, Next
    PROVE  IInv'
<1>1. ASSUME NEW p \in Callers, \E e \in Executions, o \in {Base} \cup Executions : Reserve(p, e, o)
      PROVE  IInv'
  BY <1>1, ReserveStep
<1>2. ASSUME NEW p \in Callers, \E f \in Fences : Renew(p, f) \/ Takeover(p, f) \/ Release(p, f)
      PROVE  IInv'
  BY <1>2, RenewStep
<1>3. ASSUME NEW p \in Callers, \E k \in Keys, f \in Fences, op \in Effects : BeginEffect(p, k, f, op)
      PROVE  IInv'
  BY <1>3, BeginEffectStep
<1>4. ASSUME NEW p \in Callers, Prepare(p) \/ Act(p) \/ EffectFails(p) \/ Look(p) \/ Apply(p) \/ Push(p)
      PROVE  IInv'
  BY <1>4, PrepareStep, ActStep, EffectFailsStep, LookStep, ApplyStep, PushStep
<1>5. ASSUME NEW p \in Callers, RecordFailure(p) \/ Observe(p) \/ Verify(p) \/ Finalize(p)
      PROVE  IInv'
  BY <1>5, RecordFailureStep, ObserveStep, VerifyStep, FinalizeStep
<1>6. ASSUME NEW p \in Callers,
             \E f \in Fences, op \in {"inspect", "recover"}, k \in Keys \cup {None} : BeginInspection(p, f, op, k)
      PROVE  IInv'
  BY <1>6, BeginInspectionStep
<1>7. ASSUME NEW p \in Callers, Read(p) \/ RecordInspection(p) \/ RecordRecovery(p) \/ Stop(p)
      PROVE  IInv'
  BY <1>7, ReadStep, RecordInspectionStep, RecordRecoveryStep, StopStep
<1>8. ASSUME NEW e \in Executions, Accept(e)
      PROVE  IInv'
  BY <1>8, AcceptStep
<1>9. ASSUME NEW f \in Fences, LeaseExpires(f) \/ PolicyLapses(f)
      PROVE  IInv'
  BY <1>9, TimeStep
<1>10. ASSUME AlienMoves
       PROVE  IInv'
  BY <1>10, AlienStep
<1> QED
  BY <1>1, <1>2, <1>3, <1>4, <1>5, <1>6, <1>7, <1>8, <1>9, <1>10 DEF Next

LEMMA StutterHolds ==
    ASSUME IInv, UNCHANGED vars
    PROVE  IInv'
<1> USE DEF IInv, vars
<1>1. TypeOK' /\ ReferencesReached' /\ CompletedIsIntegrated'
  BY DEF TypeOK, ReferencesReached, CompletedIsIntegrated
<1>2. InOrder' /\ Last' = Last
  BY StillInOrder DEF Exists
<1>3. AllValid'
  BY <1>2 DEF AllValid, ReservationIsValid, Exists, Unfinished
<1>4. RowShape' /\ OneHolder'
  BY DEF RowShape, OneHolder, Exists
<1>5. \A p \in Callers : Holder(p)' /\ Inspector(p)' /\ AnswerReached(p)'
  BY DEF Holder, Inspector, AnswerReached, Exists
<1>6. \A k \in Keys : IntentReached(k)'
  BY DEF IntentReached
<1> QED
  BY <1>1, <1>2, <1>3, <1>4, <1>5, <1>6

(* The invariant holds in every state the specification reaches. *)
THEOREM IntegrationInvariant == Spec => []IInv
<1>1. Init => IInv
  BY InitHolds
<1>2. IInv /\ [Next]_vars => IInv'
  BY NextHolds, StutterHolds
<1> QED
  BY <1>1, <1>2, PTL DEF Spec

(* Every reservation, intent, execution, reference and call of             *)
(* completion-application.ts keeps its shape.                              *)
THEOREM IntegrationTypeOK == Spec => []TypeOK
<1>1. IInv => TypeOK
  BY DEF IInv
<1> QED
  BY <1>1, IntegrationInvariant, PTL

LEMMA HolderIsCurrent ==
    ASSUME IInv
    PROVE  EffectHolderIsCurrent
<1> SUFFICES ASSUME NEW p \in Callers, caller[p].pc \in {"look", "effect"}
             PROVE  /\ caller[p].fence = Last /\ res[caller[p].fence].status = "active"
                    /\ res[caller[p].fence].owner = p
  BY DEF EffectHolderIsCurrent
<1>1. caller[p].pc \in Holding /\ StateAt(caller[p].pc) = "executing"
  BY DEF Holding, StateAt
<1>2. PICK f \in Fences, k \in Keys :
        /\ f = caller[p].fence /\ k = caller[p].key
        /\ res[f].status # "none" /\ intent[k].fence = f /\ intent[k].state = "executing"
  BY <1>1, HolderRow
<1>3. k \in Unfinished(f)
  BY <1>2 DEF Unfinished
<1>4. ReservationIsValid(f)
  BY <1>2 DEF IInv, AllValid, Exists
<1>5. res[f].status \in {"none", "active", "ambiguous", "closed"}
  BY ReservationFields DEF IInv, TypeOK
<1>6. res[f].status = "active" /\ ~(f < Last)
  BY <1>2, <1>3, <1>4, <1>5 DEF ReservationIsValid
<1>7. f <= Last /\ Last \in 0..MaxFence
  BY <1>2, NextFence DEF IInv, Exists
<1>8. f = Last
  BY <1>6, <1>7, IntegrationAssumption DEF Fences
<1>9. res[f].owner = p
  BY <1>1, <1>2 DEF IInv, Holder
<1> QED
  BY <1>2, <1>6, <1>8, <1>9

(* While a process may still move a Git reference, its reservation is the  *)
(* last of the target, active and its own, for every number of processes,  *)
(* keys and reservations: takeover, release, inspection and recovery wait  *)
(* for its intent.                                                         *)
THEOREM IntegrationHolderIsCurrent == Spec => []EffectHolderIsCurrent
<1>1. IInv => EffectHolderIsCurrent
  BY HolderIsCurrent
<1> QED
  BY <1>1, IntegrationInvariant, PTL

(* acceptCompletion: what is accepted as completed was on the local and on *)
(* the remote reference, through every interruption, inspection and        *)
(* recovery.                                                               *)
THEOREM IntegrationCompleted == Spec => []CompletedIsIntegrated
<1>1. IInv => CompletedIsIntegrated
  BY DEF IInv
<1> QED
  BY <1>1, IntegrationInvariant, PTL
=============================================================================
