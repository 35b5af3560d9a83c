------------------------ MODULE SchedulerRegistration ------------------------
(***************************************************************************)
(* Registration of the configuration revisions of one schedule with an     *)
(* external scheduler: register, remove and reconcile of                   *)
(* src/src/scheduler-application.ts over the port of                       *)
(* src/src/scheduler-port.ts.                                              *)
(*                                                                         *)
(* A register or remove is named by its idempotency key.  Each of its      *)
(* transactions is an action, the call of the backend is another, and      *)
(* between two of them any other call may run or the process may die       *)
(* (Stop, which is also every refused transaction and early return after   *)
(* which a call does not go on).                                           *)
(*                                                                         *)
(* Abstractions.                                                           *)
(*  - A registration is its status: its revision moves with the state and  *)
(*    the observation count of the intent that owns it, and the external   *)
(*    identity is never substituted.                                       *)
(*  - The revision of an intent is its state and its number of             *)
(*    observations, and that is what a compare-and-set compares.           *)
(*  - Authorization and the Project binding are a choice: the act is       *)
(*    allowed or denied; a denied prepare or inspection writes no intent.  *)
(*  - scheduler.inspect is left out: it adds an observation of its own     *)
(*    that no other operation reads.                                       *)
(*  - A refused or still_present receipt of the backend is a Stop: the     *)
(*    rules for a failed intent admit an adapter failure and no receipt,   *)
(*    so its transaction is rolled back.                                   *)
(***************************************************************************)
EXTENDS Naturals, FiniteSets

CONSTANTS
    Keys,            \* idempotency keys of register and remove commands
    Callers,         \* calls that can be under way at the same time
    MaxConfig,       \* bound of the configuration revisions of the schedule
    MaxObservations, \* bound of the observations of one intent
    None

ASSUME SchedulerAssumption ==
    /\ MaxConfig \in Nat /\ MaxObservations \in Nat \ {0}
    /\ None \notin Keys

VARIABLES
    registration, \* registration[v]: status of configuration revision v
    intent,       \* intent[k]: the operation prepared under key k
    external,     \* external[v]: what the external scheduler has for revision v
    caller,       \* caller[c]: where call c is
    calls,        \* history: how often the backend was called for key k
    early         \* history: keys reconciled by a look taken before their own call was made

vars == <<registration, intent, external, caller, calls, early>>

Configs == 1..MaxConfig
Operations == {"register", "remove"}
IntentStates ==
    {"none", "pending", "executing", "observed", "verified", "finalized", "ambiguous", "failed"}
Statuses == {"none", "pending_register", "active", "pending_remove", "ambiguous", "removed"}
ExternalStates == {"present", "absent"}
Answers == ExternalStates \cup {"ambiguous", "failure", "none"}

Intents ==
    [operation : Operations \cup {"none"}, config : 0..MaxConfig, state : IntentStates,
     observations : 0..MaxObservations, proven : ExternalStates \cup {"none"}]
Calls ==
    [pc : {"idle", "act", "call", "settle", "verify", "finalize", "look", "conclude"},
     key : Keys \cup {None}, was : IntentStates, count : 0..MaxObservations, answer : Answers]

NoIntent ==
    [operation |-> "none", config |-> 0, state |-> "none", observations |-> 0, proven |-> "none"]
Idle ==
    [pc |-> "idle", key |-> None, was |-> "none", count |-> 0, answer |-> "none"]

At(k, pc) == [Idle EXCEPT !.pc = pc, !.key = k]

(* Every registration, intent and call has the shape that the readers and  *)
(* the port decode.                                                        *)
TypeOK ==
    /\ registration \in [Configs -> Statuses]
    /\ intent \in [Keys -> Intents]
    /\ external \in [Configs -> ExternalStates]
    /\ caller \in [Callers -> Calls]
    /\ calls \in [Keys -> Nat]
    /\ early \subseteq Keys

Init ==
    /\ registration = [v \in Configs |-> "none"]
    /\ intent = [k \in Keys |-> NoIntent]
    /\ external = [v \in Configs |-> "absent"]
    /\ caller = [c \in Callers |-> Idle]
    /\ calls = [k \in Keys |-> 0]
    /\ early = {}

------------------------------------------------------------------------------

\* Intents that own their registration: the commit rules admit one of them per registration.
ActiveStates == {"pending", "executing", "observed", "verified", "ambiguous"}
ActiveIntents(v) == {k \in Keys : intent[k].config = v /\ intent[k].state \in ActiveStates}

MutantUndone(op) == IF op \in Operations THEN "removed" ELSE "active"

\* The registration of an operation that did not take effect goes back.
Undone(op) == IF op = "register" THEN "removed" ELSE "active"
Done(op) == IF op = "register" THEN "active" ELSE "removed"
Wanted(op) == IF op = "register" THEN "present" ELSE "absent"

Moved(k, state) == intent' = [intent EXCEPT ![k].state = state]
Become(v, status) == registration' = [registration EXCEPT ![v] = status]

Prepare(c, k, op, v) ==
    /\ caller[c].pc = "idle" /\ intent[k].state = "none"
    /\ CASE op = "register" ->
              /\ v = Cardinality({w \in Configs : registration[w] # "none"}) + 1
              /\ Become(v, "pending_register")
         [] op = "remove" ->
              /\ registration[v] = "active" /\ ActiveIntents(v) = {}
              /\ UNCHANGED registration
    /\ intent' = [intent EXCEPT ![k] =
                    [NoIntent EXCEPT !.operation = op, !.config = v, !.state = "pending"]]
    /\ caller' = [caller EXCEPT ![c] = At(k, "act")]
    /\ UNCHANGED <<external, calls, early>>

\* A repeated key continues where the stored intent allows it.
Continue(c, k) ==
    /\ caller[c].pc = "idle"
    /\ \E s \in {<<"pending", "act">>, <<"observed", "verify">>, <<"verified", "finalize">>} :
        /\ intent[k].state = s[1]
        /\ caller' = [caller EXCEPT ![c] = At(k, s[2])]
    /\ UNCHANGED <<registration, intent, external, calls, early>>

ActDenied(c) ==
    LET k == caller[c].key  i == intent[k] IN
    /\ caller[c].pc = "act" /\ i.state = "pending"
    /\ Moved(k, "failed")
    /\ IF i.operation = "register" THEN Become(i.config, "removed") ELSE UNCHANGED registration
    /\ caller' = [caller EXCEPT ![c] = Idle]
    /\ UNCHANGED <<external, calls, early>>

MutantActAllowed(c) ==
    LET k == caller[c].key  i == intent[k] IN
    /\ caller[c].pc = "act" /\ i.state \in {"pending", "executing"}
    /\ Moved(k, "executing")
    /\ IF i.operation = "remove" THEN Become(i.config, "pending_remove") ELSE UNCHANGED registration
    /\ caller' = [caller EXCEPT ![c] = At(k, "call")]
    /\ UNCHANGED <<external, calls, early>>

ActAllowed(c) ==
    LET k == caller[c].key  i == intent[k] IN
    /\ caller[c].pc = "act" /\ i.state = "pending"
    /\ Moved(k, "executing")
    /\ IF i.operation = "remove" THEN Become(i.config, "pending_remove") ELSE UNCHANGED registration
    /\ caller' = [caller EXCEPT ![c] = At(k, "call")]
    /\ UNCHANGED <<external, calls, early>>

\* What the backend may answer once it has done, or not done, what it was asked for: an
\* ambiguous answer (a lost response, a thrown error, a malformed result) says nothing.
BackendOutcomes(op, before) ==
    {<<Wanted(op), Wanted(op)>>, <<Wanted(op), "ambiguous">>, <<before, "ambiguous">>,
     <<before, "failure">>}

CallBackend(c) ==
    LET k == caller[c].key  v == intent[k].config IN
    /\ caller[c].pc = "call"
    /\ \E o \in BackendOutcomes(intent[k].operation, external[v]) :
        /\ external' = [external EXCEPT ![v] = o[1]]
        /\ caller' = [caller EXCEPT ![c].pc = "settle", ![c].answer = o[2]]
    /\ calls' = [calls EXCEPT ![k] = @ + 1]
    /\ UNCHANGED <<registration, intent, early>>

Observed(k, proven) ==
    intent' = [intent EXCEPT ![k].state = "observed", ![k].proven = proven,
                             ![k].observations = @ + 1]

SettleSucceeded(c) ==
    LET k == caller[c].key IN
    /\ caller[c].pc = "settle" /\ caller[c].answer \in ExternalStates
    /\ intent[k].state = "executing"
    /\ Observed(k, caller[c].answer)
    /\ caller' = [caller EXCEPT ![c] = At(k, "verify")]
    /\ UNCHANGED <<registration, external, calls, early>>

SettleUnsuccessful(c) ==
    LET k == caller[c].key
        i == intent[k]
        ambiguous == caller[c].answer = "ambiguous" IN
    /\ caller[c].pc = "settle" /\ caller[c].answer \in {"ambiguous", "failure"}
    /\ i.state = "executing"
    /\ Become(i.config, IF ambiguous THEN "ambiguous" ELSE Undone(i.operation))
    /\ intent' = [intent EXCEPT ![k].state = IF ambiguous THEN "ambiguous" ELSE "failed",
                                ![k].observations = @ + 1]
    /\ caller' = [caller EXCEPT ![c] = Idle]
    /\ UNCHANGED <<external, calls, early>>

Verify(c) ==
    LET k == caller[c].key IN
    /\ caller[c].pc = "verify" /\ intent[k].state = "observed"
    /\ Moved(k, "verified")
    /\ caller' = [caller EXCEPT ![c].pc = "finalize"]
    /\ UNCHANGED <<registration, external, calls, early>>

Finalize(c) ==
    LET k == caller[c].key  i == intent[k] IN
    /\ caller[c].pc = "finalize" /\ i.state = "verified"
    /\ Moved(k, "finalized")
    /\ Become(i.config, IF i.proven = Wanted(i.operation) THEN Done(i.operation)
                                                         ELSE Undone(i.operation))
    /\ caller' = [caller EXCEPT ![c] = Idle]
    /\ UNCHANGED <<external, calls, early>>

------------------------------------------------------------------------------

\* Reconcile: an inspection of an intent whose effect is in doubt.
BeginReconcile(c, k) ==
    /\ caller[c].pc = "idle" /\ intent[k].state \in {"executing", "ambiguous"}
    /\ intent[k].observations < MaxObservations
    /\ caller' = [caller EXCEPT ![c] =
                    [At(k, "look") EXCEPT !.was = intent[k].state, !.count = intent[k].observations]]
    /\ UNCHANGED <<registration, intent, external, calls, early>>

CallInFlight(k) == \E d \in Callers : caller[d].pc = "call" /\ caller[d].key = k

Look(c) ==
    LET k == caller[c].key IN
    /\ caller[c].pc = "look"
    /\ \E answer \in {external[intent[k].config], "ambiguous"} :
        caller' = [caller EXCEPT ![c].pc = "conclude", ![c].answer = answer]
    /\ early' = IF CallInFlight(k) THEN early \cup {k} ELSE early
    /\ UNCHANGED <<registration, intent, external, calls>>

MutantIsUnchanged(c) == intent[caller[c].key].state \in {caller[c].was, "observed"}

\* The compare-and-set of a reconciliation on the intent it read.
IsUnchanged(c) ==
    /\ intent[caller[c].key].state = caller[c].was
    /\ intent[caller[c].key].observations = caller[c].count

ConcludeProven(c) ==
    LET k == caller[c].key IN
    /\ caller[c].pc = "conclude" /\ caller[c].answer \in ExternalStates /\ IsUnchanged(c)
    /\ Observed(k, caller[c].answer)
    /\ caller' = [caller EXCEPT ![c] = At(k, "verify")]
    /\ UNCHANGED <<registration, external, calls, early>>

ConcludeUnproven(c) ==
    LET k == caller[c].key IN
    /\ caller[c].pc = "conclude" /\ caller[c].answer = "ambiguous" /\ IsUnchanged(c)
    /\ intent' = [intent EXCEPT ![k].state = "ambiguous", ![k].observations = @ + 1]
    /\ Become(intent[k].config, "ambiguous")
    /\ caller' = [caller EXCEPT ![c] = Idle]
    /\ UNCHANGED <<external, calls, early>>

Stop(c) ==
    /\ caller[c].pc # "idle"
    /\ caller' = [caller EXCEPT ![c] = Idle]
    /\ UNCHANGED <<registration, intent, external, calls, early>>

Next ==
    \E c \in Callers :
        \/ \E k \in Keys, op \in Operations, v \in Configs : Prepare(c, k, op, v)
        \/ \E k \in Keys : Continue(c, k) \/ BeginReconcile(c, k)
        \/ ActDenied(c) \/ ActAllowed(c) \/ CallBackend(c)
        \/ SettleSucceeded(c) \/ SettleUnsuccessful(c) \/ Verify(c) \/ Finalize(c)
        \/ Look(c) \/ ConcludeProven(c) \/ ConcludeUnproven(c)
        \/ Stop(c)

Spec == Init /\ [][Next]_vars

------------------------------------------------------------------------------

(***************************************************************************)
(* A registration at rest says what the external scheduler has: active is  *)
(* present and removed is absent, however replays, lost answers, crashes   *)
(* and reconciliations interleave.  One case is excluded, because the code *)
(* breaks it: reconcile() accepts an intent that is executing, so it may   *)
(* look before the backend was called, settle the intent on what it sees,  *)
(* and the call is made afterwards (scheduler-contract.md:89-91 lets only  *)
(* a later inspection prove the state).  Until that late call is made the  *)
(* registration is still true.                                             *)
(***************************************************************************)
RegistrationIsTrue ==
    \A v \in Configs :
        (\A k \in early : intent[k].config = v => calls[k] = 0) =>
            /\ registration[v] = "active" => external[v] = "present"
            /\ registration[v] = "removed" => external[v] = "absent"

(***************************************************************************)
(* A register or remove is an operation in the sense of module Operation:  *)
(* though keys are repeated by several processes at once and reconciled    *)
(* meanwhile, executePending calls the backend at most once for a key and  *)
(* only after its act was allowed, and a final outcome is never revised.   *)
(***************************************************************************)
StageOf(state) ==
    CASE state = "none" -> "none"
      [] state = "pending" -> "prepared"
      [] state \in {"executing", "observed", "verified", "ambiguous"} -> "acted"
      [] state \in {"finalized", "failed"} -> "settled"

Abstract ==
    INSTANCE Operation WITH
        Ops <- Keys,
        stage <- [k \in Keys |-> StageOf(intent[k].state)],
        permits <- {k \in Keys : CallInFlight(k)},
        effects <- calls

ImplementsOperation == Abstract!Spec

==============================================================================
