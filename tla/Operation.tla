------------------------------ MODULE Operation ------------------------------
(***************************************************************************)
(* What the intent protocol of the application layer promises of an        *)
(* operation with an external effect, whatever the component: it is        *)
(* prepared once, a permit to touch the world is issued once and only by   *)
(* the authorization at the point of use, the permit is used at most once, *)
(* and a settled operation stays settled.  A permit may be lost with the   *)
(* process that holds it, and may be used late, after someone else settled *)
(* the operation.                                                          *)
(***************************************************************************)
EXTENDS Naturals

CONSTANT Ops

VARIABLES stage, permits, effects

vars == <<stage, permits, effects>>

Stages == {"none", "prepared", "acted", "settled"}

Init ==
    /\ stage = [o \in Ops |-> "none"]
    /\ permits = {}
    /\ effects = [o \in Ops |-> 0]

Prepare(o) ==
    /\ stage[o] = "none"
    /\ stage' = [stage EXCEPT ![o] = "prepared"]
    /\ UNCHANGED <<permits, effects>>

Refuse(o) ==
    /\ stage[o] = "prepared"
    /\ stage' = [stage EXCEPT ![o] = "settled"]
    /\ UNCHANGED <<permits, effects>>

Act(o) ==
    /\ stage[o] = "prepared"
    /\ stage' = [stage EXCEPT ![o] = "acted"]
    /\ permits' = permits \cup {o}
    /\ UNCHANGED effects

Effect(o) ==
    /\ o \in permits
    /\ permits' = permits \ {o}
    /\ effects' = [effects EXCEPT ![o] = @ + 1]
    /\ UNCHANGED stage

Lose(o) ==
    /\ o \in permits
    /\ permits' = permits \ {o}
    /\ UNCHANGED <<stage, effects>>

Settle(o) ==
    /\ stage[o] = "acted"
    /\ stage' = [stage EXCEPT ![o] = "settled"]
    /\ UNCHANGED <<permits, effects>>

Next ==
    \E o \in Ops :
        Prepare(o) \/ Refuse(o) \/ Act(o) \/ Effect(o) \/ Lose(o) \/ Settle(o)

Spec == Init /\ [][Next]_vars
==============================================================================
