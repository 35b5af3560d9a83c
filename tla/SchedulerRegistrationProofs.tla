--------------------- MODULE SchedulerRegistrationProofs ---------------------
(***************************************************************************)
(* Proofs about SchedulerRegistration for every set of keys and callers    *)
(* and every bound: its types, that it implements Operation, and that a    *)
(* registration at rest is true.                                           *)
(***************************************************************************)
EXTENDS SchedulerRegistration, FiniteSetTheorems, TLAPS

(* A prepared intent names an operation and a registered revision, and     *)
(* nothing was observed of it before its backend was called.               *)
IntentShape ==
    \A k \in Keys :
        LET i == intent[k] IN
        /\ i.state # "none" => /\ i.operation \in Operations /\ i.config \in Configs
                               /\ registration[i.config] # "none"
        /\ i.state = "none" => k \notin early
        /\ i.state \in {"none", "pending", "executing"} => i.observations = 0

(* A call under way has a prepared intent; past its act that intent is no  *)
(* longer pending; and an inspection read an intent that was in doubt and  *)
(* has been observed no less often since.                                  *)
CallerShape ==
    \A c \in Callers :
        LET r == caller[c] IN
        r.pc # "idle" =>
            /\ r.key \in Keys
            /\ intent[r.key].state # "none"
            /\ r.pc # "act" => intent[r.key].state # "pending"
            /\ r.pc \in {"look", "conclude"} =>
                  /\ r.was \in {"executing", "ambiguous"}
                  /\ r.count < MaxObservations /\ r.count <= intent[r.key].observations

(* At most one call per key is at its backend or has its answer. *)
OneCall ==
    \A c, d \in Callers :
        ( /\ caller[c].pc \in {"call", "settle"} /\ caller[d].pc \in {"call", "settle"}
          /\ caller[c].key = caller[d].key ) => c = d

Structure == TypeOK /\ IntentShape /\ CallerShape /\ OneCall

(* The commit rules: one intent at a time owns a registration. *)
OneOwner ==
    \A k, l \in Keys :
        ( /\ intent[k].state \in ActiveStates /\ intent[l].state \in ActiveStates
          /\ intent[k].config = intent[l].config ) => k = l

(* The revisions are registered in order. *)
InOrder ==
    \E n \in 0..MaxConfig :
        \A v \in Configs : registration[v] # "none" <=> v <= n

(* No operation on v made its call after an inspection had looked for it.  *)
Clean(v) == \A k \in early : intent[k].config = v => calls[k] = 0

IntentIsTrue(k, v) ==
    LET i == intent[k] IN
    /\ i.state = "pending" =>
          /\ registration[v] = IF i.operation = "register" THEN "pending_register" ELSE "active"
          /\ external[v] # Wanted(i.operation)
    /\ i.state \in {"executing", "observed", "verified", "ambiguous"} =>
          registration[v] \in {"pending_register", "pending_remove", "ambiguous"}
    /\ i.state \in {"observed", "verified"} => i.proven = external[v]

CallIsTrue(c, v) ==
    LET r == caller[c]
        i == intent[r.key]
    IN /\ r.pc = "call" /\ r.key \notin early =>
             i.state = "executing" /\ external[v] # Wanted(i.operation)
       /\ r.pc = "settle" /\ i.state = "executing" =>
             /\ r.answer \in ExternalStates => external[v] = r.answer
             /\ r.answer = "failure" => external[v] # Wanted(i.operation)
       /\ r.pc = "conclude" =>
             /\ CallInFlight(r.key) => r.key \in early
             /\ IsUnchanged(c) /\ r.answer \in ExternalStates => external[v] = r.answer

(* What is known of revision v, of its intents and of the calls about it.  *)
RevisionIsTrue(v) ==
    /\ registration[v] \in {"none", "removed"} => external[v] = "absent"
    /\ registration[v] = "active" => external[v] = "present"
    /\ \A k \in Keys : intent[k].config = v => IntentIsTrue(k, v)
    /\ \A c \in Callers :
          (caller[c].pc # "idle" /\ intent[caller[c].key].config = v) => CallIsTrue(c, v)

EverythingIsTrue == \A v \in Configs : Clean(v) => RevisionIsTrue(v)

IInv == Structure /\ OneOwner /\ InOrder /\ EverythingIsTrue

-----------------------------------------------------------------------------
(* One step of call c on the intent of key k.                              *)

LEMMA IntentFields ==
    ASSUME NEW i \in Intents
    PROVE  /\ i.operation \in Operations \cup {"none"} /\ i.config \in 0..MaxConfig
           /\ i.state \in IntentStates /\ i.observations \in 0..MaxObservations
           /\ i.observations \in Nat /\ i.proven \in ExternalStates \cup {"none"}
  BY SchedulerAssumption DEF Intents

LEMMA CallFields ==
    ASSUME NEW r \in Calls
    PROVE  /\ r.pc \in {"idle", "act", "call", "settle", "verify", "finalize", "look", "conclude"}
           /\ r.key \in Keys \cup {None} /\ r.was \in IntentStates
           /\ r.count \in 0..MaxObservations /\ r.count \in Nat /\ r.answer \in Answers
  BY SchedulerAssumption DEF Calls

(* The parts of a step: the call goes to r, the intent to i. *)
StepOf(c, k, r, i) ==
    /\ r \in Calls /\ i \in Intents
    /\ caller' = [caller EXCEPT ![c] = r]
    /\ intent' = [intent EXCEPT ![k] = i]
    /\ registration' \in [Configs -> Statuses]
    /\ \A v \in Configs : registration[v] # "none" => registration'[v] # "none"
    /\ external' \in [Configs -> ExternalStates]
    /\ calls' \in [Keys -> Nat]
    /\ early' \subseteq early \cup {k}
    /\ i.state # "none" => /\ i.operation \in Operations /\ i.config \in Configs
                           /\ registration'[i.config] # "none"
    /\ i.state = "none" => k \notin early'
    /\ i.state \in {"none", "pending", "executing"} => i.observations = 0
    /\ intent[k].state # "none" => i.state # "none"
    /\ intent[k].state \notin {"none", "pending"} => i.state # "pending"
    /\ intent[k].observations <= i.observations
    /\ r.pc # "idle" =>
          /\ r.key = k /\ i.state # "none"
          /\ r.pc # "act" => i.state # "pending"
          /\ r.pc \in {"look", "conclude"} =>
                /\ r.was \in {"executing", "ambiguous"}
                /\ r.count < MaxObservations /\ r.count <= i.observations
    /\ r.pc \in {"call", "settle"} =>
          (caller[c].pc \in {"call", "settle"} /\ caller[c].key = k) \/ intent[k].state = "pending"

LEMMA StepFrame ==
    ASSUME TypeOK, NEW c \in Callers, NEW k \in Keys, NEW r, NEW i, StepOf(c, k, r, i)
    PROVE  /\ caller'[c] = r /\ \A d \in Callers \ {c} : caller'[d] = caller[d]
           /\ intent'[k] = i /\ \A l \in Keys \ {k} : intent'[l] = intent[l]
  BY DEF StepOf, TypeOK

LEMMA StructureStep ==
    ASSUME Structure, NEW c \in Callers, NEW k \in Keys, NEW r, NEW i, StepOf(c, k, r, i)
    PROVE  Structure'
<1> USE DEF Structure
<1>1. /\ caller'[c] = r /\ \A d \in Callers \ {c} : caller'[d] = caller[d]
      /\ intent'[k] = i /\ \A l \in Keys \ {k} : intent'[l] = intent[l]
  BY StepFrame
<1>2. TypeOK'
  BY DEF TypeOK, StepOf
<1>3. IntentShape'
  <2> SUFFICES ASSUME NEW l \in Keys
               PROVE  LET j == intent'[l] IN
                      /\ j.state # "none" => /\ j.operation \in Operations /\ j.config \in Configs
                                             /\ registration'[j.config] # "none"
                      /\ j.state = "none" => l \notin early'
                      /\ j.state \in {"none", "pending", "executing"} => j.observations = 0
    BY DEF IntentShape
  <2>1. CASE l = k
    BY <1>1, <2>1 DEF StepOf
  <2>2. CASE l # k
    BY <1>1, <2>2 DEF StepOf, IntentShape
  <2> QED
    BY <2>1, <2>2
<1>4. CallerShape'
  <2> SUFFICES ASSUME NEW d \in Callers, caller'[d].pc # "idle"
               PROVE  LET q == caller'[d] IN
                      /\ q.key \in Keys
                      /\ intent'[q.key].state # "none"
                      /\ q.pc # "act" => intent'[q.key].state # "pending"
                      /\ q.pc \in {"look", "conclude"} =>
                            /\ q.was \in {"executing", "ambiguous"}
                            /\ q.count < MaxObservations /\ q.count <= intent'[q.key].observations
    BY DEF CallerShape
  <2>1. CASE d = c
    BY <1>1, <2>1 DEF StepOf
  <2>2. CASE d # c
    <3> DEFINE q == caller[d]
    <3>1. /\ caller'[d] = q /\ q.pc # "idle" /\ q.key \in Keys /\ intent[q.key].state # "none"
          /\ q.pc # "act" => intent[q.key].state # "pending"
          /\ q.pc \in {"look", "conclude"} =>
                /\ q.was \in {"executing", "ambiguous"}
                /\ q.count < MaxObservations /\ q.count <= intent[q.key].observations
      BY <1>1, <2>2 DEF CallerShape
    <3>2. CASE q.key # k
      BY <1>1, <3>1, <3>2
    <3>3. CASE q.key = k
      <4>1. q.count \in Nat /\ intent[k].observations \in Nat /\ i.observations \in Nat
        BY IntentFields, CallFields DEF TypeOK, StepOf
      <4> QED
        BY <1>1, <3>1, <3>3, <4>1 DEF StepOf
    <3> QED
      BY <3>2, <3>3
  <2> QED
    BY <2>1, <2>2
<1>5. OneCall'
  <2> SUFFICES ASSUME NEW d \in Callers, NEW e \in Callers, d # e,
                      caller'[d].pc \in {"call", "settle"}, caller'[e].pc \in {"call", "settle"},
                      caller'[d].key = caller'[e].key
               PROVE  FALSE
    BY DEF OneCall
  <2>1. ASSUME NEW x \in Callers \ {c}, caller[x].pc \in {"call", "settle"}, caller[x].key = k,
               r.pc \in {"call", "settle"}
        PROVE  FALSE
    <3>1. intent[k].state # "pending"
      BY <2>1 DEF CallerShape
    <3> QED
      BY <2>1, <3>1 DEF StepOf, OneCall
  <2>2. CASE d # c /\ e # c
    BY <1>1, <2>2 DEF OneCall
  <2>3. CASE d = c
    BY <1>1, <2>1, <2>3 DEF StepOf
  <2>4. CASE e = c
    BY <1>1, <2>1, <2>4 DEF StepOf
  <2> QED
    BY <2>2, <2>3, <2>4
<1> QED
  BY <1>2, <1>3, <1>4, <1>5

-----------------------------------------------------------------------------
(* Every action is such a step.                                            *)

LEMMA KnownCall ==
    ASSUME Structure, NEW c \in Callers, caller[c].pc # "idle"
    PROVE  LET k == caller[c].key IN
           /\ k \in Keys /\ intent[k] \in Intents /\ caller[c] \in Calls
           /\ intent[k].state # "none" /\ intent[k].operation \in Operations
           /\ intent[k].config \in Configs /\ registration[intent[k].config] # "none"
           /\ registration[intent[k].config] \in Statuses
           /\ external[intent[k].config] \in ExternalStates
  BY DEF Structure, TypeOK, CallerShape, IntentShape

LEMMA AtFields ==
    ASSUME NEW k \in Keys, NEW pc \in {"act", "call", "settle", "verify", "finalize", "look"}
    PROVE  At(k, pc) \in Calls /\ At(k, pc).pc = pc /\ At(k, pc).key = k
<1>1. Idle \in Calls
  BY SchedulerAssumption DEF Idle, Calls, IntentStates, Answers
<1> QED
  BY <1>1 DEF At, Calls

LEMMA IdleFields == Idle \in Calls /\ Idle.pc = "idle"
  BY SchedulerAssumption DEF Idle, Calls, IntentStates, Answers

LEMMA BecomeType ==
    ASSUME TypeOK, NEW v \in Configs, NEW s \in Statuses \ {"none"}, Become(v, s)
    PROVE  /\ registration' \in [Configs -> Statuses]
           /\ registration'[v] = s
           /\ \A w \in Configs \ {v} : registration'[w] = registration[w]
           /\ \A w \in Configs : registration[w] # "none" => registration'[w] # "none"
  BY DEF TypeOK, Become

(* The intent after it moved to a state, and after one more observation. *)
MovedTo(k, state) == [intent[k] EXCEPT !.state = state]

LEMMA MovedFields ==
    ASSUME TypeOK, NEW k \in Keys, NEW s \in IntentStates, Moved(k, s)
    PROVE  /\ intent' = [intent EXCEPT ![k] = MovedTo(k, s)]
           /\ MovedTo(k, s) \in Intents /\ MovedTo(k, s).state = s
           /\ MovedTo(k, s).operation = intent[k].operation
           /\ MovedTo(k, s).config = intent[k].config
           /\ MovedTo(k, s).observations = intent[k].observations
           /\ MovedTo(k, s).proven = intent[k].proven
<1>1. intent[k] \in Intents
  BY DEF TypeOK
<1> QED
  BY <1>1 DEF Moved, MovedTo, Intents, TypeOK

SeenAs(k, state, proven) ==
    [intent[k] EXCEPT !.state = state, !.proven = proven, !.observations = @ + 1]

LEMMA SeenFields ==
    ASSUME TypeOK, NEW k \in Keys, NEW s \in IntentStates, NEW p \in ExternalStates \cup {"none"},
           intent[k].observations < MaxObservations
    PROVE  /\ SeenAs(k, s, p) \in Intents /\ SeenAs(k, s, p).state = s
           /\ SeenAs(k, s, p).operation = intent[k].operation
           /\ SeenAs(k, s, p).config = intent[k].config
           /\ SeenAs(k, s, p).observations = intent[k].observations + 1
           /\ intent[k].observations \in Nat
           /\ SeenAs(k, s, p).proven = p
<1>1. intent[k] \in Intents
  BY DEF TypeOK
<1>2. intent[k].observations + 1 \in 0..MaxObservations /\ intent[k].observations \in Nat
  BY <1>1, IntentFields, SchedulerAssumption
<1> QED
  BY <1>1, <1>2 DEF SeenAs, Intents

(* The intent a prepare writes. *)
Prepared(op, v) == [NoIntent EXCEPT !.operation = op, !.config = v, !.state = "pending"]

LEMMA PreparedFields ==
    ASSUME NEW op \in Operations, NEW v \in Configs
    PROVE  /\ Prepared(op, v) \in Intents /\ Prepared(op, v).state = "pending"
           /\ Prepared(op, v).operation = op /\ Prepared(op, v).config = v
           /\ Prepared(op, v).observations = 0
<1>1. NoIntent \in Intents /\ NoIntent.observations = 0
  BY SchedulerAssumption DEF NoIntent, Intents, IntentStates, ExternalStates
<1>2. v \in 0..MaxConfig /\ "pending" \in IntentStates
  BY SchedulerAssumption DEF Configs, IntentStates
<1> QED
  BY <1>1, <1>2 DEF Prepared, Intents

LEMMA PrepareStep ==
    ASSUME Structure, NEW c \in Callers, NEW k \in Keys, NEW op \in Operations, NEW v \in Configs,
           Prepare(c, k, op, v)
    PROVE  StepOf(c, k, At(k, "act"), Prepared(op, v))
<1>1. /\ registration' \in [Configs -> Statuses] /\ registration'[v] # "none"
      /\ \A w \in Configs : registration[w] # "none" => registration'[w] # "none"
  <2>1. CASE op = "register"
    BY <2>1, BecomeType DEF Prepare, Structure, Statuses
  <2>2. CASE op = "remove"
    BY <2>2 DEF Prepare, Structure, TypeOK
  <2> QED
    BY <2>1, <2>2 DEF Operations
<1>2. intent[k].state = "none" /\ intent[k].observations = 0 /\ k \notin early
  BY DEF Prepare, Structure, IntentShape
<1>3. /\ caller' = [caller EXCEPT ![c] = At(k, "act")]
      /\ intent' = [intent EXCEPT ![k] = Prepared(op, v)]
      /\ UNCHANGED <<external, calls, early>>
  BY DEF Prepare, Prepared
<1>4. external' \in [Configs -> ExternalStates] /\ calls' \in [Keys -> Nat]
  BY <1>3 DEF Structure, TypeOK
<1>5. At(k, "act") \in Calls /\ At(k, "act").pc = "act" /\ At(k, "act").key = k
  BY AtFields
<1> QED
  BY <1>1, <1>2, <1>3, <1>4, <1>5, PreparedFields DEF StepOf

(* The steps that leave every intent alone. *)
LEMMA QuietIntent ==
    ASSUME Structure, NEW c \in Callers, NEW k \in Keys, intent[k].state # "none", NEW r \in Calls,
           caller' = [caller EXCEPT ![c] = r], UNCHANGED <<registration, intent, external, calls>>,
           early' \subseteq early \cup {k},
           r.pc # "idle" =>
              /\ r.key = k
              /\ r.pc # "act" => intent[k].state # "pending"
              /\ r.pc \in {"look", "conclude"} =>
                    /\ r.was \in {"executing", "ambiguous"}
                    /\ r.count < MaxObservations /\ r.count <= intent[k].observations,
           r.pc \notin {"call", "settle"}
    PROVE  StepOf(c, k, r, intent[k])
<1>1. intent' = [intent EXCEPT ![k] = intent[k]] /\ intent[k] \in Intents
  BY DEF Structure, TypeOK
<1>2. /\ registration' \in [Configs -> Statuses] /\ external' \in [Configs -> ExternalStates]
      /\ calls' \in [Keys -> Nat]
  BY DEF Structure, TypeOK
<1>3. /\ intent[k].operation \in Operations /\ intent[k].config \in Configs
      /\ registration'[intent[k].config] # "none"
      /\ intent[k].state \in {"none", "pending", "executing"} => intent[k].observations = 0
  BY DEF Structure, IntentShape
<1>4. intent[k].observations <= intent[k].observations
  BY <1>1, IntentFields
<1> QED
  BY <1>1, <1>2, <1>3, <1>4 DEF StepOf

LEMMA ContinueStep ==
    ASSUME Structure, NEW c \in Callers, NEW k \in Keys, Continue(c, k)
    PROVE  \E pc \in {"act", "verify", "finalize"} :
             /\ StepOf(c, k, At(k, pc), intent[k])
             /\ pc # "act" => intent[k].state # "pending"
<1>1. \/ intent[k].state = "pending" /\ caller' = [caller EXCEPT ![c] = At(k, "act")]
      \/ intent[k].state = "observed" /\ caller' = [caller EXCEPT ![c] = At(k, "verify")]
      \/ intent[k].state = "verified" /\ caller' = [caller EXCEPT ![c] = At(k, "finalize")]
  <2>1. PICK s \in {<<"pending", "act">>, <<"observed", "verify">>, <<"verified", "finalize">>} :
           intent[k].state = s[1] /\ caller' = [caller EXCEPT ![c] = At(k, s[2])]
    BY DEF Continue
  <2>2. CASE s = <<"pending", "act">>
    BY <2>1, <2>2
  <2>3. CASE s = <<"observed", "verify">>
    BY <2>1, <2>3
  <2>4. CASE s = <<"verified", "finalize">>
    BY <2>1, <2>4
  <2> QED
    BY <2>2, <2>3, <2>4
<1>2. PICK pc \in {"act", "verify", "finalize"} :
         /\ caller' = [caller EXCEPT ![c] = At(k, pc)]
         /\ pc # "act" => intent[k].state # "pending"
         /\ intent[k].state # "none"
  BY <1>1
<1>3. /\ At(k, pc) \in Calls /\ At(k, pc).pc = pc /\ At(k, pc).key = k
  BY AtFields
<1>4. UNCHANGED <<registration, intent, external, calls, early>>
  BY DEF Continue
<1>5. StepOf(c, k, At(k, pc), intent[k])
  BY <1>2, <1>3, <1>4, QuietIntent
<1> QED
  BY <1>2, <1>5

LEMMA ReconcileStep ==
    ASSUME Structure, NEW c \in Callers, NEW k \in Keys, BeginReconcile(c, k)
    PROVE  /\ caller'[c].pc = "look"
           /\ StepOf(c, k, caller'[c], intent[k])
<1> DEFINE r == [At(k, "look") EXCEPT !.was = intent[k].state, !.count = intent[k].observations]
<1>1. caller' = [caller EXCEPT ![c] = r] /\ UNCHANGED <<registration, intent, external, calls, early>>
  BY DEF BeginReconcile
<1>2. intent[k].state \in IntentStates /\ intent[k].observations \in 0..MaxObservations
  BY IntentFields DEF Structure, TypeOK
<1>3. /\ r \in Calls /\ r.pc = "look" /\ r.key = k /\ r.was = intent[k].state
      /\ r.count = intent[k].observations
  <2>1. At(k, "look") \in Calls /\ At(k, "look").pc = "look" /\ At(k, "look").key = k
    BY AtFields
  <2> QED
    BY <1>2, <2>1 DEF Calls
<1>4. /\ intent[k].state \in {"executing", "ambiguous"} /\ intent[k].observations < MaxObservations
      /\ intent[k].observations <= intent[k].observations
  BY <1>2, SchedulerAssumption DEF BeginReconcile
<1> HIDE DEF r
<1>5. caller'[c] = r
  BY <1>1 DEF Structure, TypeOK
<1>6. StepOf(c, k, r, intent[k])
  BY <1>1, <1>3, <1>4, QuietIntent
<1> QED
  BY <1>3, <1>5, <1>6

LEMMA StopStep ==
    ASSUME Structure, NEW c \in Callers, Stop(c)
    PROVE  StepOf(c, caller[c].key, Idle, intent[caller[c].key])
<1> DEFINE k == caller[c].key
<1>1. k \in Keys /\ intent[k] \in Intents /\ intent[k].state # "none"
  BY KnownCall DEF Stop
<1>2. UNCHANGED <<registration, intent, external, calls, early>>
  BY DEF Stop
<1>4. caller' = [caller EXCEPT ![c] = Idle]
  BY DEF Stop
<1> HIDE DEF k
<1>5. StepOf(c, k, Idle, intent[k])
  BY <1>1, <1>2, <1>4, IdleFields, QuietIntent
<1> QED
  BY <1>5 DEF k

LEMMA LookStep ==
    ASSUME Structure, NEW c \in Callers, Look(c)
    PROVE  LET k == caller[c].key
               r == caller'[c]
           IN /\ StepOf(c, k, r, intent[k]) /\ caller[c].pc = "look" /\ r.pc = "conclude" /\ k \in Keys
              /\ r.answer \in {external[intent[k].config], "ambiguous"}
              /\ early' = IF CallInFlight(k) THEN early \cup {k} ELSE early
<1> DEFINE k == caller[c].key
<1>1. PICK answer \in {external[intent[k].config], "ambiguous"} :
         caller' = [caller EXCEPT ![c].pc = "conclude", ![c].answer = answer]
  BY DEF Look
<1> DEFINE r == [caller[c] EXCEPT !.pc = "conclude", !.answer = answer]
<1>2. caller[c].pc = "look"
  BY DEF Look
<1>3. caller[c] \in Calls /\ answer \in Answers /\ k \in Keys /\ intent[k].state # "none"
  BY <1>2, KnownCall DEF Answers
<1>4. /\ r \in Calls /\ r.pc = "conclude" /\ r.key = k /\ r.was = caller[c].was
      /\ r.count = caller[c].count /\ r.answer = answer
  BY <1>3 DEF Calls
<1>5. caller' = [caller EXCEPT ![c] = r] /\ caller'[c] = r
  BY <1>1 DEF Structure, TypeOK
<1>6. /\ UNCHANGED <<registration, intent, external, calls>>
      /\ early' = IF CallInFlight(k) THEN early \cup {k} ELSE early
  BY DEF Look
<1>7. /\ intent[k].state # "pending" /\ r.was \in {"executing", "ambiguous"}
      /\ r.count < MaxObservations /\ r.count <= intent[k].observations
  BY <1>2, <1>4 DEF Structure, CallerShape
<1> HIDE DEF k, r
<1>8. StepOf(c, k, r, intent[k])
  BY <1>3, <1>4, <1>5, <1>6, <1>7, QuietIntent
<1> QED
  BY <1>1, <1>2, <1>3, <1>4, <1>5, <1>6, <1>8 DEF k

(* ActDenied, ActAllowed, Verify and Finalize: the state of the intent     *)
(* moves, and with it the registration of its revision.                    *)
LEMMA MoveStep ==
    ASSUME Structure, NEW c \in Callers, caller[c].pc # "idle",
           NEW s \in IntentStates \ {"none", "pending"}, NEW r \in Calls,
           Moved(caller[c].key, s), caller' = [caller EXCEPT ![c] = r],
           registration' \in [Configs -> Statuses],
           \A v \in Configs : registration[v] # "none" => registration'[v] # "none",
           UNCHANGED <<external, calls, early>>,
           s = "executing" => intent[caller[c].key].state = "pending",
           r.pc # "idle" => r.key = caller[c].key, r.pc \notin {"act", "look", "conclude", "settle"},
           r.pc = "call" => intent[caller[c].key].state = "pending"
    PROVE  StepOf(c, caller[c].key, r, MovedTo(caller[c].key, s))
<1> DEFINE k == caller[c].key
<1>1. /\ k \in Keys /\ intent[k] \in Intents /\ intent[k].state # "none"
      /\ intent[k].operation \in Operations /\ intent[k].config \in Configs
      /\ registration[intent[k].config] # "none"
  BY KnownCall
<1> HIDE DEF k
<1>2. /\ intent' = [intent EXCEPT ![k] = MovedTo(k, s)]
      /\ MovedTo(k, s) \in Intents /\ MovedTo(k, s).state = s
      /\ MovedTo(k, s).operation = intent[k].operation
      /\ MovedTo(k, s).config = intent[k].config
      /\ MovedTo(k, s).observations = intent[k].observations
  BY <1>1, MovedFields DEF k, Structure
<1>3. external' \in [Configs -> ExternalStates] /\ calls' \in [Keys -> Nat]
  BY DEF Structure, TypeOK
<1>4. s = "executing" => intent[k].observations = 0
  BY <1>1 DEF Structure, IntentShape, k
<1>5. intent[k].observations <= intent[k].observations
  BY <1>1, IntentFields
<1>6. StepOf(c, k, r, MovedTo(k, s))
  BY <1>1, <1>2, <1>3, <1>4, <1>5 DEF StepOf, k
<1> QED
  BY <1>6 DEF k

(* The four settlements: one more observation. *)
LEMMA SeeStep ==
    ASSUME Structure, NEW c \in Callers, caller[c].pc # "idle",
           intent[caller[c].key].state # "pending",
           intent[caller[c].key].observations < MaxObservations,
           NEW s \in {"observed", "ambiguous", "failed"}, NEW p \in ExternalStates \cup {"none"},
           NEW r \in Calls,
           intent' = [intent EXCEPT ![caller[c].key] = SeenAs(caller[c].key, s, p)],
           caller' = [caller EXCEPT ![c] = r],
           registration' \in [Configs -> Statuses],
           \A v \in Configs : registration[v] # "none" => registration'[v] # "none",
           UNCHANGED <<external, calls, early>>,
           r.pc # "idle" => r.key = caller[c].key, r.pc \in {"idle", "verify"}
    PROVE  StepOf(c, caller[c].key, r, SeenAs(caller[c].key, s, p))
<1> DEFINE k == caller[c].key
<1>1. /\ k \in Keys /\ intent[k] \in Intents /\ intent[k].state # "none"
      /\ intent[k].operation \in Operations /\ intent[k].config \in Configs
      /\ registration[intent[k].config] # "none" /\ s \in IntentStates
  BY KnownCall DEF IntentStates
<1> HIDE DEF k
<1>2. /\ SeenAs(k, s, p) \in Intents /\ SeenAs(k, s, p).state = s
      /\ SeenAs(k, s, p).operation = intent[k].operation
      /\ SeenAs(k, s, p).config = intent[k].config
      /\ SeenAs(k, s, p).observations = intent[k].observations + 1
      /\ intent[k].observations \in Nat
  BY <1>1, SeenFields DEF k, Structure
<1>3. external' \in [Configs -> ExternalStates] /\ calls' \in [Keys -> Nat]
  BY DEF Structure, TypeOK
<1>4. intent[k].observations <= intent[k].observations + 1
  BY <1>2
<1>5. StepOf(c, k, r, SeenAs(k, s, p))
  BY <1>1, <1>2, <1>3, <1>4 DEF StepOf, k
<1> QED
  BY <1>5 DEF k

(* What a call of the backend leaves: a success is what it says, and a     *)
(* failure changed nothing.                                                *)
LEMMA CallStep ==
    ASSUME Structure, NEW c \in Callers, CallBackend(c)
    PROVE  LET k == caller[c].key
               v == intent[k].config
               r == caller'[c]
           IN /\ StepOf(c, k, r, intent[k]) /\ k \in Keys /\ caller[c].pc = "call" /\ r.pc = "settle"
              /\ registration' = registration /\ intent' = intent /\ early' = early
              /\ calls' = [calls EXCEPT ![k] = @ + 1]
              /\ \A w \in Configs \ {v} : external'[w] = external[w]
              /\ r.answer \in ExternalStates => external'[v] = r.answer
              /\ r.answer = "failure" => external'[v] = external[v]
<1> DEFINE k == caller[c].key
           v == intent[k].config
           Outcome(x, y) == /\ external' = [external EXCEPT ![v] = x]
                            /\ caller' = [caller EXCEPT ![c].pc = "settle", ![c].answer = y]
<1>1. caller[c].pc = "call"
  BY DEF CallBackend
<1>2. /\ k \in Keys /\ intent[k] \in Intents /\ caller[c] \in Calls
      /\ intent[k].state # "none" /\ intent[k].operation \in Operations
      /\ v \in Configs /\ registration[v] # "none" /\ external[v] \in ExternalStates
  BY <1>1, KnownCall
<1>3. \E x \in ExternalStates, y \in Answers :
         /\ Outcome(x, y)
         /\ y \in ExternalStates => x = y
         /\ y = "failure" => x = external[v]
  <2> DEFINE want == Wanted(intent[k].operation)
  <2>1. want \in ExternalStates
    BY DEF Wanted, ExternalStates
  <2>2. PICK o \in {<<want, want>>, <<want, "ambiguous">>, <<external[v], "ambiguous">>,
                    <<external[v], "failure">>} :
           /\ external' = [external EXCEPT ![v] = o[1]]
           /\ caller' = [caller EXCEPT ![c].pc = "settle", ![c].answer = o[2]]
    BY DEF CallBackend, BackendOutcomes
  <2> HIDE DEF want
  <2>3. "ambiguous" \in Answers \ ExternalStates /\ "failure" \in Answers \ ExternalStates
        /\ ExternalStates \subseteq Answers /\ "ambiguous" # "failure"
        /\ \A x \in ExternalStates : x # "failure"
    BY DEF Answers, ExternalStates
  <2>4. CASE o = <<want, want>>
    <3>1. Outcome(want, want)
      BY <2>2, <2>4
    <3> QED
      BY <2>1, <2>3, <3>1
  <2>5. CASE o = <<want, "ambiguous">>
    <3>1. Outcome(want, "ambiguous")
      BY <2>2, <2>5
    <3> QED
      BY <2>1, <2>3, <3>1
  <2>6. CASE o = <<external[v], "ambiguous">>
    <3>1. Outcome(external[v], "ambiguous")
      BY <2>2, <2>6
    <3> QED
      BY <1>2, <2>3, <3>1
  <2>7. CASE o = <<external[v], "failure">>
    <3>1. Outcome(external[v], "failure")
      BY <2>2, <2>7
    <3> QED
      BY <1>2, <2>3, <3>1
  <2> QED
    BY <2>4, <2>5, <2>6, <2>7
<1>4. PICK x \in ExternalStates, y \in Answers :
         /\ Outcome(x, y)
         /\ y \in ExternalStates => x = y
         /\ y = "failure" => x = external[v]
  BY <1>3
<1> DEFINE r == [caller[c] EXCEPT !.pc = "settle", !.answer = y]
<1>5. /\ r \in Calls /\ r.pc = "settle" /\ r.key = k /\ r.answer = y
  BY <1>2 DEF Calls
<1>6. caller' = [caller EXCEPT ![c] = r] /\ caller'[c] = r
  BY <1>4 DEF Structure, TypeOK
<1>7. /\ external' \in [Configs -> ExternalStates] /\ external'[v] = x
      /\ \A w \in Configs \ {v} : external'[w] = external[w]
  BY <1>2, <1>4 DEF Structure, TypeOK
<1>8. /\ calls' = [calls EXCEPT ![k] = @ + 1] /\ UNCHANGED <<registration, intent, early>>
  BY DEF CallBackend
<1>9. calls' \in [Keys -> Nat]
  BY <1>2, <1>8 DEF Structure, TypeOK
<1>10. /\ intent[k].state # "pending" /\ k = caller[c].key
       /\ intent[k].state \in {"none", "pending", "executing"} => intent[k].observations = 0
       /\ intent[k].observations <= intent[k].observations
  BY <1>1, <1>2, IntentFields DEF Structure, CallerShape, IntentShape
<1>11. intent' = [intent EXCEPT ![k] = intent[k]] /\ registration' \in [Configs -> Statuses]
  BY <1>8 DEF Structure, TypeOK
<1>12. /\ intent[k].config \in Configs /\ registration[intent[k].config] # "none"
  BY <1>2
<1> HIDE DEF k, r
<1>13. StepOf(c, k, r, intent[k])
  BY <1>1, <1>2, <1>5, <1>6, <1>7, <1>8, <1>9, <1>10, <1>11, <1>12 DEF StepOf
<1> QED
  BY <1>1, <1>2, <1>4, <1>5, <1>6, <1>7, <1>8, <1>13 DEF k

LEMMA ActStep ==
    ASSUME Structure, NEW c \in Callers, ActDenied(c) \/ ActAllowed(c)
    PROVE  LET k == caller[c].key IN
           /\ k \in Keys /\ intent[k].state = "pending"
           /\ ActDenied(c) => StepOf(c, k, Idle, MovedTo(k, "failed"))
           /\ ActAllowed(c) => StepOf(c, k, At(k, "call"), MovedTo(k, "executing"))
           /\ \A w \in Configs \ {intent[k].config} : registration'[w] = registration[w]
           /\ UNCHANGED <<external, calls, early>>
<1> DEFINE k == caller[c].key
<1>1. caller[c].pc # "idle" /\ intent[k].state = "pending" /\ UNCHANGED <<external, calls, early>>
  BY DEF ActDenied, ActAllowed
<1>2. k \in Keys /\ intent[k].config \in Configs /\ TypeOK
  BY <1>1, KnownCall DEF Structure
<1>3. /\ registration' \in [Configs -> Statuses]
      /\ \A v \in Configs : registration[v] # "none" => registration'[v] # "none"
      /\ \A w \in Configs \ {intent[k].config} : registration'[w] = registration[w]
  <2>1. registration' = registration \/ Become(intent[k].config, "removed")
        \/ Become(intent[k].config, "pending_remove")
    BY DEF ActDenied, ActAllowed
  <2>2. {"removed", "pending_remove"} \subseteq Statuses \ {"none"}
    BY DEF Statuses
  <2> QED
    BY <1>2, <2>1, <2>2, BecomeType DEF TypeOK
<1>4. {"failed", "executing"} \subseteq IntentStates \ {"none", "pending"}
  BY DEF IntentStates
<1>5. ASSUME ActDenied(c) PROVE StepOf(c, k, Idle, MovedTo(k, "failed"))
  <2>1. Moved(k, "failed") /\ caller' = [caller EXCEPT ![c] = Idle]
    BY <1>5 DEF ActDenied
  <2> QED
    BY <1>1, <1>3, <1>4, <2>1, IdleFields, MoveStep
<1>6. ASSUME ActAllowed(c) PROVE StepOf(c, k, At(k, "call"), MovedTo(k, "executing"))
  <2>1. Moved(k, "executing") /\ caller' = [caller EXCEPT ![c] = At(k, "call")]
    BY <1>6 DEF ActAllowed
  <2>2. At(k, "call") \in Calls /\ At(k, "call").pc = "call" /\ At(k, "call").key = k
    BY <1>2, AtFields
  <2> QED
    BY <1>1, <1>3, <1>4, <2>1, <2>2, MoveStep
<1> QED
  BY <1>1, <1>2, <1>3, <1>5, <1>6

LEMMA VerifyStep ==
    ASSUME Structure, NEW c \in Callers, Verify(c)
    PROVE  LET k == caller[c].key IN
           /\ k \in Keys /\ intent[k].state = "observed" /\ caller'[c].pc = "finalize"
           /\ StepOf(c, k, caller'[c], MovedTo(k, "verified"))
           /\ UNCHANGED <<registration, external, calls, early>>
<1> DEFINE k == caller[c].key
           r == [caller[c] EXCEPT !.pc = "finalize"]
<1>1. /\ caller[c].pc # "idle" /\ intent[k].state = "observed" /\ Moved(k, "verified")
      /\ caller' = [caller EXCEPT ![c].pc = "finalize"]
      /\ UNCHANGED <<registration, external, calls, early>>
  BY DEF Verify
<1>2. k \in Keys /\ caller[c] \in Calls /\ TypeOK
  BY <1>1, KnownCall DEF Structure
<1>3. r \in Calls /\ r.pc = "finalize" /\ r.key = k
  BY <1>2 DEF Calls
<1>4. caller' = [caller EXCEPT ![c] = r] /\ caller'[c] = r
  BY <1>1, <1>2 DEF TypeOK
<1>5. registration' \in [Configs -> Statuses] /\ "verified" \in IntentStates \ {"none", "pending"}
  BY <1>1, <1>2 DEF TypeOK, IntentStates
<1> HIDE DEF r
<1>6. StepOf(c, k, r, MovedTo(k, "verified"))
  BY <1>1, <1>3, <1>4, <1>5, MoveStep
<1> QED
  BY <1>1, <1>2, <1>3, <1>4, <1>6

LEMMA FinalizeStep ==
    ASSUME Structure, NEW c \in Callers, Finalize(c)
    PROVE  LET k == caller[c].key
               i == intent[k]
           IN /\ k \in Keys /\ i.state = "verified" /\ i.config \in Configs
              /\ StepOf(c, k, Idle, MovedTo(k, "finalized"))
              /\ registration'[i.config] = IF i.proven = Wanted(i.operation) THEN Done(i.operation)
                                           ELSE Undone(i.operation)
              /\ \A w \in Configs \ {i.config} : registration'[w] = registration[w]
              /\ UNCHANGED <<external, calls, early>>
<1> DEFINE k == caller[c].key
           i == intent[k]
           s == IF i.proven = Wanted(i.operation) THEN Done(i.operation) ELSE Undone(i.operation)
<1>1. /\ caller[c].pc # "idle" /\ i.state = "verified" /\ Moved(k, "finalized")
      /\ Become(i.config, s) /\ caller' = [caller EXCEPT ![c] = Idle]
      /\ UNCHANGED <<external, calls, early>>
  BY DEF Finalize
<1>2. k \in Keys /\ i.config \in Configs /\ TypeOK
  BY <1>1, KnownCall DEF Structure
<1>3. s \in Statuses \ {"none"}
  BY DEF Done, Undone, Statuses
<1> HIDE DEF s
<1>4. /\ registration' \in [Configs -> Statuses] /\ registration'[i.config] = s
      /\ \A w \in Configs \ {i.config} : registration'[w] = registration[w]
      /\ \A w \in Configs : registration[w] # "none" => registration'[w] # "none"
  BY <1>1, <1>2, <1>3, BecomeType
<1>5. "finalized" \in IntentStates \ {"none", "pending"}
  BY DEF IntentStates
<1>6. StepOf(c, k, Idle, MovedTo(k, "finalized"))
  BY <1>1, <1>4, <1>5, IdleFields, MoveStep
<1> QED
  BY <1>1, <1>2, <1>4, <1>6 DEF s

(* A settlement by the call itself or by a reconciliation, with what it    *)
(* proved, if anything.                                                    *)
LEMMA ProvenStep ==
    ASSUME Structure, NEW c \in Callers, SettleSucceeded(c) \/ ConcludeProven(c)
    PROVE  LET k == caller[c].key
               a == caller[c].answer
           IN /\ k \in Keys /\ intent[k].state # "pending" /\ a \in ExternalStates
              /\ intent[k].observations < MaxObservations
              /\ StepOf(c, k, At(k, "verify"), SeenAs(k, "observed", a))
              /\ UNCHANGED <<registration, external, calls, early>>
<1> DEFINE k == caller[c].key
           a == caller[c].answer
<1>1. /\ caller[c].pc # "idle" /\ caller[c].pc # "act" /\ a \in ExternalStates /\ Observed(k, a)
      /\ caller' = [caller EXCEPT ![c] = At(k, "verify")]
      /\ UNCHANGED <<registration, external, calls, early>>
  BY DEF SettleSucceeded, ConcludeProven
<1>2. k \in Keys /\ TypeOK /\ intent[k].state # "pending" /\ intent[k] \in Intents
  BY <1>1, KnownCall DEF Structure, CallerShape
<1>3. intent[k].observations < MaxObservations
  <2>1. CASE SettleSucceeded(c)
    BY <1>2, <2>1, SchedulerAssumption DEF SettleSucceeded, Structure, IntentShape
  <2>2. CASE ConcludeProven(c)
    BY <1>2, <2>2 DEF ConcludeProven, IsUnchanged, Structure, CallerShape
  <2> QED
    BY <2>1, <2>2
<1>4. intent' = [intent EXCEPT ![k] = SeenAs(k, "observed", a)]
  BY <1>1, <1>2 DEF Observed, SeenAs, TypeOK, Intents
<1>5. registration' \in [Configs -> Statuses]
  BY <1>1, <1>2 DEF TypeOK
<1>6. At(k, "verify") \in Calls /\ At(k, "verify").pc = "verify" /\ At(k, "verify").key = k
  BY <1>2, AtFields
<1>7. StepOf(c, k, At(k, "verify"), SeenAs(k, "observed", a))
  BY <1>1, <1>2, <1>3, <1>4, <1>5, <1>6, SeeStep
<1> QED
  BY <1>1, <1>2, <1>3, <1>7

LEMMA UnprovenStep ==
    ASSUME Structure, NEW c \in Callers, SettleUnsuccessful(c) \/ ConcludeUnproven(c)
    PROVE  LET k == caller[c].key
               i == intent[k]
           IN \E s \in {"ambiguous", "failed"} :
                /\ k \in Keys /\ i.state # "pending" /\ i.config \in Configs
                /\ i.operation \in Operations /\ i.proven \in ExternalStates \cup {"none"}
                /\ i.observations < MaxObservations
                /\ s = "failed" => SettleUnsuccessful(c) /\ caller[c].answer = "failure"
                /\ StepOf(c, k, Idle, SeenAs(k, s, i.proven))
                /\ registration'[i.config] = IF s = "ambiguous" THEN "ambiguous" ELSE Undone(i.operation)
                /\ \A w \in Configs \ {i.config} : registration'[w] = registration[w]
                /\ UNCHANGED <<external, calls, early>>
<1> DEFINE k == caller[c].key
           i == intent[k]
<1>1. /\ caller[c].pc # "idle" /\ caller[c].pc # "act" /\ caller' = [caller EXCEPT ![c] = Idle]
      /\ UNCHANGED <<external, calls, early>>
  BY DEF SettleUnsuccessful, ConcludeUnproven
<1>2. /\ k \in Keys /\ TypeOK /\ i.state # "pending" /\ i \in Intents /\ i.config \in Configs
      /\ i.operation \in Operations /\ i.proven \in ExternalStates \cup {"none"}
  BY <1>1, KnownCall, IntentFields DEF Structure, CallerShape
<1>3. i.observations < MaxObservations
  <2>1. CASE SettleUnsuccessful(c)
    BY <1>2, <2>1, SchedulerAssumption DEF SettleUnsuccessful, Structure, IntentShape
  <2>2. CASE ConcludeUnproven(c)
    BY <1>2, <2>2 DEF ConcludeUnproven, IsUnchanged, Structure, CallerShape
  <2> QED
    BY <2>1, <2>2
<1>4. PICK s \in {"ambiguous", "failed"} :
         /\ intent' = [intent EXCEPT ![k].state = s, ![k].observations = @ + 1]
         /\ Become(i.config, IF s = "ambiguous" THEN "ambiguous" ELSE Undone(i.operation))
         /\ s = "failed" => SettleUnsuccessful(c) /\ caller[c].answer = "failure"
  BY DEF SettleUnsuccessful, ConcludeUnproven
<1>5. intent' = [intent EXCEPT ![k] = SeenAs(k, s, i.proven)]
  BY <1>2, <1>4 DEF SeenAs, TypeOK, Intents
<1>6. (IF s = "ambiguous" THEN "ambiguous" ELSE Undone(i.operation)) \in Statuses \ {"none"}
  BY DEF Undone, Statuses
<1>7. /\ registration' \in [Configs -> Statuses]
      /\ registration'[i.config] = IF s = "ambiguous" THEN "ambiguous" ELSE Undone(i.operation)
      /\ \A w \in Configs \ {i.config} : registration'[w] = registration[w]
      /\ \A w \in Configs : registration[w] # "none" => registration'[w] # "none"
  BY <1>2, <1>4, <1>6, BecomeType
<1>8. StepOf(c, k, Idle, SeenAs(k, s, i.proven))
  BY <1>1, <1>2, <1>3, <1>5, <1>7, IdleFields, SeeStep
<1> QED
  BY <1>1, <1>2, <1>3, <1>4, <1>7, <1>8

-----------------------------------------------------------------------------
LEMMA StructureInit == Init => Structure
<1> SUFFICES ASSUME Init PROVE Structure
  OBVIOUS
<1>1. NoIntent \in Intents /\ NoIntent.state = "none" /\ NoIntent.observations = 0
  BY SchedulerAssumption DEF NoIntent, Intents, IntentStates, ExternalStates
<1>2. TypeOK
  BY <1>1, IdleFields DEF Init, TypeOK, Statuses, ExternalStates
<1>3. IntentShape
  BY <1>1 DEF Init, IntentShape
<1>4. CallerShape /\ OneCall
  BY IdleFields DEF Init, CallerShape, OneCall
<1> QED
  BY <1>2, <1>3, <1>4 DEF Structure

LEMMA StructurePreserved == Structure /\ [Next]_vars => Structure'
<1> SUFFICES ASSUME Structure, [Next]_vars PROVE Structure'
  OBVIOUS
<1>1. CASE UNCHANGED vars
  BY <1>1 DEF vars, Structure, TypeOK, IntentShape, CallerShape, OneCall
<1>2. CASE Next
  <2>1. PICK c \in Callers :
          \/ \E k \in Keys, op \in Operations, v \in Configs : Prepare(c, k, op, v)
          \/ \E k \in Keys : Continue(c, k) \/ BeginReconcile(c, k)
          \/ ActDenied(c) \/ ActAllowed(c) \/ CallBackend(c)
          \/ SettleSucceeded(c) \/ SettleUnsuccessful(c) \/ Verify(c) \/ Finalize(c)
          \/ Look(c) \/ ConcludeProven(c) \/ ConcludeUnproven(c)
          \/ Stop(c)
    BY <1>2 DEF Next
  <2>2. CASE \E k \in Keys, op \in Operations, v \in Configs : Prepare(c, k, op, v)
    BY <2>2, PrepareStep, StructureStep
  <2>3. CASE \E k \in Keys : Continue(c, k)
    BY <2>3, ContinueStep, StructureStep
  <2>4. CASE \E k \in Keys : BeginReconcile(c, k)
    BY <2>4, ReconcileStep, StructureStep
  <2>5. CASE ActDenied(c) \/ ActAllowed(c)
    BY <2>5, ActStep, StructureStep
  <2>6. CASE CallBackend(c)
    BY <2>6, CallStep, StructureStep
  <2>7. CASE SettleSucceeded(c) \/ ConcludeProven(c)
    BY <2>7, ProvenStep, StructureStep
  <2>8. CASE SettleUnsuccessful(c) \/ ConcludeUnproven(c)
    BY <2>8, UnprovenStep, StructureStep
  <2>9. CASE Verify(c)
    BY <2>9, VerifyStep, StructureStep
  <2>10. CASE Finalize(c)
    BY <2>10, FinalizeStep, StructureStep
  <2>11. CASE Look(c)
    BY <2>11, LookStep, StructureStep
  <2>12. CASE Stop(c)
    <3>1. caller[c].key \in Keys
      BY <2>12, KnownCall DEF Stop
    <3> QED
      BY <2>12, <3>1, StopStep, StructureStep
  <2> QED
    BY <2>1, <2>2, <2>3, <2>4, <2>5, <2>6, <2>7, <2>8, <2>9, <2>10, <2>11, <2>12
<1> QED
  BY <1>1, <1>2

LEMMA StructureInductive == Spec => []Structure
  BY StructureInit, StructurePreserved, PTL DEF Spec

(* Every reachable intent, registration and call has its type; the bound   *)
(* on observations is never exceeded, because the call itself observes its *)
(* intent at most once and a reconciliation re-reads the count it saw.     *)
THEOREM SchedulerTypeOK == Spec => []TypeOK
<1>1. Structure => TypeOK
  BY DEF Structure
<1> QED
  BY <1>1, StructureInductive, PTL

-----------------------------------------------------------------------------
(* The refinement of Operation.                                            *)

StageMap == [k \in Keys |-> StageOf(intent[k].state)]
Permits == {k \in Keys : CallInFlight(k)}

LEMMA Stages ==
    /\ StageOf("none") = "none" /\ StageOf("pending") = "prepared"
    /\ StageOf("executing") = "acted" /\ StageOf("observed") = "acted"
    /\ StageOf("verified") = "acted" /\ StageOf("ambiguous") = "acted"
    /\ StageOf("finalized") = "settled" /\ StageOf("failed") = "settled"
  BY DEF StageOf

LEMMA StageStep ==
    ASSUME Structure, NEW c \in Callers, NEW k \in Keys, NEW r, NEW i, StepOf(c, k, r, i)
    PROVE  /\ StageMap' = [StageMap EXCEPT ![k] = StageOf(i.state)]
           /\ StageMap[k] = StageOf(intent[k].state)
           /\ StageOf(i.state) = StageOf(intent[k].state) => StageMap' = StageMap
<1>1. intent'[k] = i /\ \A l \in Keys \ {k} : intent'[l] = intent[l]
  BY StepFrame DEF Structure
<1> QED
  BY <1>1 DEF StageMap

LEMMA PermitStep ==
    ASSUME Structure, NEW c \in Callers, NEW k \in Keys, NEW r, NEW i, StepOf(c, k, r, i),
           caller[c].pc = "call" => caller[c].key = k
    PROVE  Permits' = IF r.pc = "call" THEN Permits \cup {k}
                      ELSE IF caller[c].pc = "call" THEN Permits \ {k} ELSE Permits
<1>1. caller'[c] = r /\ \A d \in Callers \ {c} : caller'[d] = caller[d]
  BY StepFrame DEF Structure
<1>2. r.pc = "call" => r.key = k
  BY DEF StepOf
<1>3. \A l \in Keys \ {k} : l \in Permits' <=> l \in Permits
  BY <1>1, <1>2 DEF Permits, CallInFlight
<1>4. CASE r.pc = "call"
  BY <1>1, <1>2, <1>3, <1>4 DEF Permits, CallInFlight
<1>5. CASE r.pc # "call" /\ caller[c].pc = "call"
  <2>1. k \notin Permits'
    BY <1>1, <1>5 DEF Permits, CallInFlight, Structure, OneCall
  <2>2. Permits \subseteq Keys /\ Permits' \subseteq Keys
    BY DEF Permits
  <2> QED
    BY <1>3, <1>5, <2>1, <2>2
<1>6. CASE r.pc # "call" /\ caller[c].pc # "call"
  <2>1. k \in Permits' <=> k \in Permits
    BY <1>1, <1>6 DEF Permits, CallInFlight
  <2>2. Permits \subseteq Keys /\ Permits' \subseteq Keys
    BY DEF Permits
  <2> QED
    BY <1>3, <1>6, <2>1, <2>2
<1> QED
  BY <1>4, <1>5, <1>6

(* The actions of Operation under the mapping. *)
LEMMA AbstractActions ==
    ASSUME NEW k \in Keys
    PROVE  /\ StageMap[k] = "none" /\ StageMap' = [StageMap EXCEPT ![k] = "prepared"]
                 /\ Permits' = Permits /\ calls' = calls => Abstract!Next
           /\ StageMap[k] = "prepared" /\ StageMap' = [StageMap EXCEPT ![k] = "settled"]
                 /\ Permits' = Permits /\ calls' = calls => Abstract!Next
           /\ StageMap[k] = "prepared" /\ StageMap' = [StageMap EXCEPT ![k] = "acted"]
                 /\ Permits' = Permits \cup {k} /\ calls' = calls => Abstract!Next
           /\ k \in Permits /\ Permits' = Permits \ {k}
                 /\ calls' = [calls EXCEPT ![k] = @ + 1] /\ StageMap' = StageMap => Abstract!Next
           /\ k \in Permits /\ Permits' = Permits \ {k}
                 /\ calls' = calls /\ StageMap' = StageMap => Abstract!Next
           /\ StageMap[k] = "acted" /\ StageMap' = [StageMap EXCEPT ![k] = "settled"]
                 /\ Permits' = Permits /\ calls' = calls => Abstract!Next
  BY DEF StageMap, Permits, Abstract!Next, Abstract!Prepare, Abstract!Refuse, Abstract!Act,
         Abstract!Effect, Abstract!Lose, Abstract!Settle

LEMMA AbstractStutter ==
    ASSUME StageMap' = StageMap, Permits' = Permits, calls' = calls
    PROVE  UNCHANGED Abstract!vars
  BY DEF StageMap, Permits, Abstract!vars

LEMMA RefinesNext == Structure /\ [Next]_vars => [Abstract!Next]_(Abstract!vars)
<1> SUFFICES ASSUME Structure, [Next]_vars PROVE [Abstract!Next]_(Abstract!vars)
  OBVIOUS
<1>1. CASE UNCHANGED vars
  <2>1. StageMap' = StageMap /\ Permits' = Permits /\ calls' = calls
    BY <1>1 DEF vars, StageMap, Permits, CallInFlight
  <2> QED
    BY <2>1, AbstractStutter
<1>2. ASSUME NEW c \in Callers, NEW k \in Keys, NEW op \in Operations, NEW v \in Configs,
             Prepare(c, k, op, v)
      PROVE  Abstract!Next
  <2>1. StepOf(c, k, At(k, "act"), Prepared(op, v)) /\ caller[c].pc # "call"
        /\ intent[k].state = "none" /\ calls' = calls
    BY <1>2, PrepareStep DEF Prepare
  <2>2. At(k, "act").pc = "act" /\ Prepared(op, v).state = "pending"
    BY AtFields, PreparedFields
  <2>3. Permits' = Permits
    BY <2>1, <2>2, PermitStep
  <2>4. StageMap[k] = "none" /\ StageMap' = [StageMap EXCEPT ![k] = "prepared"]
    BY <2>1, <2>2, StageStep, Stages
  <2> QED
    BY <2>1, <2>3, <2>4, AbstractActions
<1>3. ASSUME NEW c \in Callers, NEW k \in Keys, NEW r, StepOf(c, k, r, intent[k]),
             r.pc # "call", caller[c].pc # "call", calls' = calls
      PROVE  UNCHANGED Abstract!vars
  <2>1. Permits' = Permits
    BY <1>3, PermitStep
  <2>2. StageMap' = StageMap
    BY <1>3, StageStep
  <2> QED
    BY <1>3, <2>1, <2>2, AbstractStutter
<1>4. ASSUME NEW c \in Callers, NEW k \in Keys, Continue(c, k) \/ BeginReconcile(c, k)
      PROVE  UNCHANGED Abstract!vars
  <2>1. caller[c].pc = "idle" /\ calls' = calls
    BY <1>4 DEF Continue, BeginReconcile
  <2>2. CASE Continue(c, k)
    <3>1. PICK pc \in {"act", "verify", "finalize"} : StepOf(c, k, At(k, pc), intent[k])
      BY <2>2, ContinueStep
    <3>2. At(k, pc).pc = pc
      BY AtFields
    <3> QED
      BY <1>3, <2>1, <3>1, <3>2
  <2>3. CASE BeginReconcile(c, k)
    BY <1>3, <2>1, <2>3, ReconcileStep
  <2> QED
    BY <1>4, <2>2, <2>3
<1>5. ASSUME NEW c \in Callers, Look(c)
      PROVE  UNCHANGED Abstract!vars
  BY <1>3, <1>5, LookStep DEF Look
<1>6. ASSUME NEW c \in Callers, ActDenied(c) PROVE Abstract!Next
  <2> DEFINE k == caller[c].key
  <2>1. /\ k \in Keys /\ intent[k].state = "pending" /\ calls' = calls /\ caller[c].pc # "call"
        /\ StepOf(c, k, Idle, MovedTo(k, "failed")) /\ Moved(k, "failed")
    BY <1>6, ActStep DEF ActDenied
  <2>2. MovedTo(k, "failed").state = "failed"
    BY <2>1, MovedFields DEF Structure, IntentStates
  <2> HIDE DEF k
  <2>3. Permits' = Permits
    BY <2>1, PermitStep, IdleFields
  <2>4. StageMap[k] = "prepared" /\ StageMap' = [StageMap EXCEPT ![k] = "settled"]
    BY <2>1, <2>2, StageStep, Stages
  <2> QED
    BY <2>1, <2>3, <2>4, AbstractActions
<1>7. ASSUME NEW c \in Callers, ActAllowed(c) PROVE Abstract!Next
  <2> DEFINE k == caller[c].key
  <2>1. /\ k \in Keys /\ intent[k].state = "pending" /\ calls' = calls /\ caller[c].pc # "call"
        /\ StepOf(c, k, At(k, "call"), MovedTo(k, "executing")) /\ Moved(k, "executing")
    BY <1>7, ActStep DEF ActAllowed
  <2>2. MovedTo(k, "executing").state = "executing" /\ At(k, "call").pc = "call"
    BY <2>1, MovedFields, AtFields DEF Structure, IntentStates
  <2> HIDE DEF k
  <2>3. Permits' = Permits \cup {k}
    BY <2>1, <2>2, PermitStep
  <2>4. StageMap[k] = "prepared" /\ StageMap' = [StageMap EXCEPT ![k] = "acted"]
    BY <2>1, <2>2, StageStep, Stages
  <2> QED
    BY <2>1, <2>3, <2>4, AbstractActions
<1>8. ASSUME NEW c \in Callers, CallBackend(c) PROVE Abstract!Next
  <2> DEFINE k == caller[c].key
  <2>1. /\ k \in Keys /\ caller[c].pc = "call" /\ StepOf(c, k, caller'[c], intent[k])
        /\ caller'[c].pc = "settle" /\ calls' = [calls EXCEPT ![k] = @ + 1]
    BY <1>8, CallStep
  <2>2. k \in Permits
    BY <2>1 DEF Permits, CallInFlight
  <2>3. Permits' = Permits \ {k}
    BY <2>1, PermitStep
  <2>4. StageMap' = StageMap
    BY <2>1, StageStep
  <2> QED
    BY <2>1, <2>2, <2>3, <2>4, AbstractActions
<1>9. ASSUME NEW c \in Callers, Stop(c) PROVE [Abstract!Next]_(Abstract!vars)
  <2> DEFINE k == caller[c].key
  <2>1. /\ k \in Keys /\ StepOf(c, k, Idle, intent[k]) /\ calls' = calls
    BY <1>9, StopStep, KnownCall DEF Stop
  <2>2. CASE caller[c].pc = "call"
    <3>1. k \in Permits
      BY <2>1, <2>2 DEF Permits, CallInFlight
    <3>2. Permits' = Permits \ {k}
      BY <2>1, <2>2, IdleFields, PermitStep
    <3>3. StageMap' = StageMap
      BY <2>1, StageStep
    <3> QED
      BY <2>1, <3>1, <3>2, <3>3, AbstractActions
  <2>3. CASE caller[c].pc # "call"
    BY <1>3, <2>1, <2>3, IdleFields
  <2> QED
    BY <2>2, <2>3
<1>10. ASSUME NEW c \in Callers, SettleSucceeded(c) \/ ConcludeProven(c)
       PROVE  UNCHANGED Abstract!vars
  <2> DEFINE k == caller[c].key
             i == SeenAs(k, "observed", caller[c].answer)
  <2>1. /\ k \in Keys /\ StepOf(c, k, At(k, "verify"), i) /\ calls' = calls
        /\ i.state = "observed" /\ caller[c].pc # "call"
    <3>1. /\ k \in Keys /\ StepOf(c, k, At(k, "verify"), i) /\ calls' = calls
          /\ caller[c].answer \in ExternalStates /\ intent[k].observations < MaxObservations
      BY <1>10, ProvenStep
    <3>2. i.state = "observed"
      BY <3>1, SeenFields DEF Structure, IntentStates
    <3> QED
      BY <1>10, <3>1, <3>2 DEF SettleSucceeded, ConcludeProven
  <2>2. intent[k].state \in {"executing", "ambiguous"}
    BY <1>10 DEF SettleSucceeded, ConcludeProven, IsUnchanged, Structure, CallerShape
  <2>3. At(k, "verify").pc = "verify"
    BY <2>1, AtFields
  <2> HIDE DEF k, i
  <2>4. Permits' = Permits
    BY <2>1, <2>3, PermitStep
  <2>5. StageMap' = StageMap
    BY <2>1, <2>2, StageStep, Stages
  <2> QED
    BY <2>1, <2>4, <2>5, AbstractStutter
<1>11. ASSUME NEW c \in Callers, SettleUnsuccessful(c) \/ ConcludeUnproven(c)
       PROVE  [Abstract!Next]_(Abstract!vars)
  <2> DEFINE k == caller[c].key
  <2>1. PICK s \in {"ambiguous", "failed"} :
          /\ k \in Keys /\ intent[k].proven \in ExternalStates \cup {"none"}
          /\ intent[k].observations < MaxObservations
          /\ StepOf(c, k, Idle, SeenAs(k, s, intent[k].proven)) /\ calls' = calls
    BY <1>11, UnprovenStep
  <2>2. SeenAs(k, s, intent[k].proven).state = s
    BY <2>1, SeenFields DEF Structure, IntentStates
  <2>3. intent[k].state \in {"executing", "ambiguous"} /\ caller[c].pc # "call"
    BY <1>11 DEF SettleUnsuccessful, ConcludeUnproven, IsUnchanged, Structure, CallerShape
  <2> HIDE DEF k
  <2>4. Permits' = Permits
    BY <2>1, <2>3, IdleFields, PermitStep
  <2>5. CASE s = "ambiguous"
    <3>1. StageMap' = StageMap
      BY <2>1, <2>2, <2>3, <2>5, StageStep, Stages
    <3> QED
      BY <2>1, <2>4, <3>1, AbstractStutter
  <2>6. CASE s = "failed"
    <3>1. StageMap[k] = "acted" /\ StageMap' = [StageMap EXCEPT ![k] = "settled"]
      BY <2>1, <2>2, <2>3, <2>6, StageStep, Stages
    <3> QED
      BY <2>1, <2>4, <3>1, AbstractActions
  <2> QED
    BY <2>5, <2>6
<1>12. ASSUME NEW c \in Callers, Verify(c) PROVE UNCHANGED Abstract!vars
  <2> DEFINE k == caller[c].key
  <2>1. /\ k \in Keys /\ StepOf(c, k, caller'[c], MovedTo(k, "verified")) /\ calls' = calls
        /\ intent[k].state = "observed" /\ caller[c].pc # "call" /\ caller'[c].pc = "finalize"
        /\ Moved(k, "verified")
    BY <1>12, VerifyStep DEF Verify
  <2>2. MovedTo(k, "verified").state = "verified"
    BY <2>1, MovedFields DEF Structure, IntentStates
  <2> HIDE DEF k
  <2>3. Permits' = Permits
    BY <2>1, PermitStep
  <2>4. StageMap' = StageMap
    BY <2>1, <2>2, StageStep, Stages
  <2> QED
    BY <2>1, <2>3, <2>4, AbstractStutter
<1>13. ASSUME NEW c \in Callers, Finalize(c) PROVE Abstract!Next
  <2> DEFINE k == caller[c].key
  <2>1. /\ k \in Keys /\ StepOf(c, k, Idle, MovedTo(k, "finalized")) /\ calls' = calls
        /\ intent[k].state = "verified" /\ caller[c].pc # "call" /\ Moved(k, "finalized")
    BY <1>13, FinalizeStep DEF Finalize
  <2>2. MovedTo(k, "finalized").state = "finalized"
    BY <2>1, MovedFields DEF Structure, IntentStates
  <2> HIDE DEF k
  <2>3. Permits' = Permits
    BY <2>1, IdleFields, PermitStep
  <2>4. StageMap[k] = "acted" /\ StageMap' = [StageMap EXCEPT ![k] = "settled"]
    BY <2>1, <2>2, StageStep, Stages
  <2> QED
    BY <2>1, <2>3, <2>4, AbstractActions
<1> QED
  BY <1>1, <1>2, <1>4, <1>5, <1>6, <1>7, <1>8, <1>9, <1>10, <1>11, <1>12, <1>13 DEF Next

LEMMA RefinesInit == Init => Abstract!Init
<1>1. NoIntent.state = "none" /\ Idle.pc = "idle"
  BY IdleFields DEF NoIntent
<1>2. ASSUME Init PROVE StageMap = [k \in Keys |-> "none"] /\ Permits = {} /\ calls = [k \in Keys |-> 0]
  BY <1>1, <1>2, Stages DEF Init, StageMap, Permits, CallInFlight
<1> QED
  BY <1>2 DEF Abstract!Init, StageMap, Permits

(* Register and remove implement Operation: for any number of keys and     *)
(* concurrent calls, the backend is called at most once for a key, only    *)
(* under the permit that one allowed act issued, and a settled operation   *)
(* is never reopened.                                                      *)
THEOREM SchedulerImplementsOperation == Spec => ImplementsOperation
<1>1. Spec => Abstract!Init /\ [][Abstract!Next]_(Abstract!vars)
  BY RefinesInit, RefinesNext, StructureInductive, PTL DEF Spec
<1> QED
  BY <1>1 DEF ImplementsOperation, Abstract!Spec

-----------------------------------------------------------------------------
(* The truth of registrations.                                             *)

(* The steps that write no row: only the call and, for Look, the history   *)
(* variable change.                                                        *)
LEMMA QuietTruth ==
    ASSUME IInv, NEW c \in Callers, NEW k \in Keys, NEW r, StepOf(c, k, r, intent[k]), Structure',
           UNCHANGED <<registration, intent, external, calls>>, early \subseteq early', r.pc # "call",
           ASSUME NEW v \in Configs, v = intent[k].config, r.pc # "idle", Clean(v)', RevisionIsTrue(v)
           PROVE  CallIsTrue(c, v)'
    PROVE  IInv'
<1>1. caller'[c] = r /\ \A d \in Callers \ {c} : caller'[d] = caller[d]
  BY StepFrame DEF IInv, Structure
<1>2. r.pc # "idle" => r.key = k
  BY DEF StepOf
<1>3. OneOwner' /\ InOrder'
  BY DEF IInv, OneOwner, InOrder
<1>4. ASSUME NEW v \in Configs, Clean(v)' PROVE RevisionIsTrue(v)'
  <2>1. RevisionIsTrue(v)
    BY <1>4 DEF IInv, EverythingIsTrue, Clean
  <2>2. ASSUME NEW l \in Keys, intent'[l].config = v PROVE IntentIsTrue(l, v)'
    BY <2>1, <2>2 DEF RevisionIsTrue, IntentIsTrue
  <2>3. ASSUME NEW d \in Callers, caller'[d].pc # "idle", intent'[caller'[d].key].config = v
        PROVE  CallIsTrue(d, v)'
    <3>1. CASE d = c
      <4>1. r.pc # "idle" /\ intent[k].config = v
        BY <1>1, <1>2, <2>3, <3>1
      <4> QED
        BY <1>4, <2>1, <3>1, <4>1
    <3>2. CASE d # c
      <4>1. caller'[d] = caller[d] /\ CallIsTrue(d, v)
        BY <1>1, <2>1, <2>3, <3>2 DEF RevisionIsTrue
      <4>2. ~CallInFlight(caller[d].key) => ~CallInFlight(caller[d].key)'
        BY <1>1, <4>1 DEF CallInFlight
      <4> QED
        BY <4>1, <4>2 DEF CallIsTrue, IsUnchanged
    <3> QED
      BY <3>1, <3>2
  <2> QED
    BY <2>1, <2>2, <2>3 DEF RevisionIsTrue
<1> QED
  BY <1>3, <1>4 DEF IInv, EverythingIsTrue

LEMMA QuietStepsTrue ==
    ASSUME IInv, NEW c \in Callers, NEW k \in Keys, Continue(c, k) \/ BeginReconcile(c, k), Structure'
    PROVE  IInv'
<1>1. UNCHANGED <<registration, intent, external, calls, early>>
  BY DEF Continue, BeginReconcile
<1>2. PICK r : StepOf(c, k, r, intent[k]) /\ r.pc \in {"act", "verify", "finalize", "look"}
  BY ContinueStep, ReconcileStep, AtFields DEF IInv
<1>3. caller'[c] = r
  BY <1>2, StepFrame DEF IInv, Structure
<1>4. \A v : CallIsTrue(c, v)'
  BY <1>2, <1>3 DEF CallIsTrue
<1> QED
  BY <1>1, <1>2, <1>4, QuietTruth

LEMMA StopTrue ==
    ASSUME IInv, NEW c \in Callers, Stop(c), Structure'
    PROVE  IInv'
<1>1. UNCHANGED <<registration, intent, external, calls, early>> /\ caller[c].key \in Keys
  BY KnownCall DEF Stop, IInv
<1> QED
  BY <1>1, StopStep, IdleFields, QuietTruth DEF IInv

(* A look sees the truth, and either no call of its key is in flight, and  *)
(* then none will be made again, or the look is early.                     *)
LEMMA LookTrue ==
    ASSUME IInv, NEW c \in Callers, Look(c), Structure'
    PROVE  IInv'
<1> DEFINE k == caller[c].key
           r == caller'[c]
<1>1. /\ StepOf(c, k, r, intent[k]) /\ caller[c].pc = "look" /\ r.pc = "conclude" /\ k \in Keys
      /\ r.answer \in {external[intent[k].config], "ambiguous"}
      /\ early' = IF CallInFlight(k) THEN early \cup {k} ELSE early
  BY LookStep DEF IInv
<1>2. UNCHANGED <<registration, intent, external, calls>>
  BY DEF Look
<1>3. r.key = k /\ \A d \in Callers \ {c} : caller'[d] = caller[d]
  BY <1>1, StepFrame DEF StepOf, IInv, Structure
<1>4. ASSUME NEW v \in Configs, v = intent[k].config, Clean(v)' PROVE CallIsTrue(c, v)'
  <2>1. CallInFlight(k)' => CallInFlight(k)
    BY <1>1, <1>3 DEF CallInFlight
  <2>2. CallInFlight(k)' => k \in early'
    BY <1>1, <2>1
  <2>3. r.answer \in ExternalStates => external'[v] = r.answer
    BY <1>1, <1>2, <1>4 DEF ExternalStates
  <2> QED
    BY <1>1, <1>3, <2>2, <2>3 DEF CallIsTrue
<1>5. early \subseteq early'
  BY <1>1
<1> HIDE DEF k, r
<1> QED
  BY <1>1, <1>2, <1>4, <1>5, QuietTruth

(* The steps that write the intent of k or the world of its revision.  k   *)
(* owns the revision, or no intent does, so every other intent and every   *)
(* call of another key is out of the way.                                  *)
LEMMA OwnerTruth ==
    ASSUME IInv, NEW c \in Callers, NEW k \in Keys, NEW r, NEW i, StepOf(c, k, r, i), Structure',
           early' = early, i.config \in Configs, i.state # "none",
           \A l \in Keys : calls'[l] = 0 => calls[l] = 0,
           Clean(i.config)' \/ i.state \in ActiveStates => intent[k].state \in ActiveStates \cup {"none"},
           Clean(i.config)' /\ caller[c].pc = "call" => k \notin early,
           intent[k].state # "none" => /\ i.config = intent[k].config
                                       /\ i.operation = intent[k].operation,
           intent[k].state = "none" => ActiveIntents(i.config) = {},
           \A w \in Configs \ {i.config} : /\ registration'[w] = registration[w]
                                           /\ external'[w] = external[w],
           caller[c].pc = "call" => caller[c].key = k, r.pc = "call" => intent[k].state = "pending",
           InOrder',
           i.state = "executing" => intent[k].state = "pending" \/ caller[c].pc = "call",
           Clean(i.config)' /\ i.state = "ambiguous" => intent[k].observations < i.observations,
           ASSUME Clean(i.config)', RevisionIsTrue(i.config)
           PROVE  LET v == i.config IN
                  /\ registration'[v] \in {"none", "removed"} => external'[v] = "absent"
                  /\ registration'[v] = "active" => external'[v] = "present"
                  /\ IntentIsTrue(k, v)'
                  /\ r.pc # "idle" => CallIsTrue(c, v)'
                  /\ k \notin early => \A d \in Callers \ {c} : caller[d].pc = "call" => caller[d].key # k
    PROVE  IInv'
<1>1. /\ caller'[c] = r /\ \A d \in Callers \ {c} : caller'[d] = caller[d]
      /\ intent'[k] = i /\ \A l \in Keys \ {k} : intent'[l] = intent[l]
  BY StepFrame DEF IInv, Structure
<1>2. r.pc # "idle" => r.key = k
  BY DEF StepOf
<1>3. Clean(i.config)' \/ i.state \in ActiveStates =>
        \A l \in Keys \ {k} : intent[l].config = i.config => intent[l].state \notin ActiveStates
  BY DEF IInv, OneOwner, ActiveIntents
<1>4. OneOwner'
  BY <1>1, <1>3 DEF IInv, OneOwner
<1>5. \A w \in Configs : Clean(w)' => Clean(w)
  <2>1. \A l \in early : intent[l].state # "none" /\ l \in Keys
    BY DEF IInv, Structure, IntentShape, TypeOK
  <2> QED
    BY <1>1, <2>1 DEF Clean
<1>6. ASSUME NEW l \in Keys \ {k}, ~CallInFlight(l) PROVE ~CallInFlight(l)'
  BY <1>1, <1>2, <1>6 DEF CallInFlight
<1>7. ASSUME NEW v \in Configs, Clean(v)', v # i.config PROVE RevisionIsTrue(v)'
  <2>1. RevisionIsTrue(v) /\ registration'[v] = registration[v] /\ external'[v] = external[v]
    BY <1>5, <1>7 DEF IInv, EverythingIsTrue
  <2>2. ASSUME NEW l \in Keys, intent'[l].config = v PROVE IntentIsTrue(l, v)'
    <3>1. l # k /\ intent'[l] = intent[l]
      BY <1>1, <1>7, <2>2
    <3> QED
      BY <2>1, <2>2, <3>1 DEF RevisionIsTrue, IntentIsTrue
  <2>3. ASSUME NEW d \in Callers, caller'[d].pc # "idle", intent'[caller'[d].key].config = v
        PROVE  CallIsTrue(d, v)'
    <3>1. d # c /\ caller'[d] = caller[d] /\ caller[d].key # k
      BY <1>1, <1>2, <1>7, <2>3
    <3>2. caller[d].key \in Keys
      BY <2>3, <3>1 DEF IInv, Structure, CallerShape
    <3>3. intent'[caller[d].key] = intent[caller[d].key]
      BY <1>1, <3>1, <3>2
    <3>4. CallIsTrue(d, v)
      BY <2>1, <2>3, <3>1, <3>3 DEF RevisionIsTrue
    <3> QED
      BY <1>6, <2>1, <3>1, <3>2, <3>3, <3>4 DEF CallIsTrue, IsUnchanged
  <2> QED
    BY <2>1, <2>2, <2>3 DEF RevisionIsTrue
<1>8. ASSUME NEW v \in Configs, Clean(v)', v = i.config PROVE RevisionIsTrue(v)'
  <2>1. RevisionIsTrue(v) /\ Clean(v)
    BY <1>5, <1>8 DEF IInv, EverythingIsTrue
  <2>2. /\ registration'[v] \in {"none", "removed"} => external'[v] = "absent"
        /\ registration'[v] = "active" => external'[v] = "present"
        /\ IntentIsTrue(k, v)'
        /\ r.pc # "idle" => CallIsTrue(c, v)'
        /\ k \notin early => \A d \in Callers \ {c} : caller[d].pc = "call" => caller[d].key # k
    BY <1>8, <2>1
  <2>3. ASSUME NEW l \in Keys, intent'[l].config = v PROVE IntentIsTrue(l, v)'
    <3>1. CASE l = k
      BY <2>2, <3>1
    <3>2. CASE l # k
      <4>1. intent'[l].state \notin ActiveStates
        BY <1>1, <1>3, <1>8, <2>1, <2>3, <3>2
      <4> QED
        BY <4>1 DEF IntentIsTrue, ActiveStates
    <3> QED
      BY <3>1, <3>2
  <2>4. ASSUME NEW d \in Callers, caller'[d].pc # "idle", intent'[caller'[d].key].config = v, d # c
        PROVE  CallIsTrue(d, v)'
    <3>1. caller'[d] = caller[d]
      BY <1>1, <2>4
    <3>2. /\ caller[d].key \in Keys
          /\ caller[d].pc # "act" => intent[caller[d].key].state \notin {"none", "pending"}
          /\ caller[d].pc = "conclude" =>
                /\ caller[d].was \in {"executing", "ambiguous"}
                /\ caller[d].count <= intent[caller[d].key].observations
                /\ caller[d].count \in Nat /\ intent[caller[d].key].observations \in Nat
      BY <2>4, <3>1, CallFields, IntentFields DEF IInv, Structure, CallerShape, TypeOK
    <3>3. CASE caller[d].key # k
      <4>1. intent'[caller[d].key] = intent[caller[d].key] /\ intent[caller[d].key].config = v
        BY <1>1, <2>4, <3>1, <3>2, <3>3
      <4>2. CallIsTrue(d, v) /\ intent[caller[d].key].state \notin {"executing", "ambiguous"}
        BY <1>3, <1>8, <2>1, <2>4, <3>1, <3>2, <3>3, <4>1 DEF RevisionIsTrue, ActiveStates
      <4> QED
        BY <1>6, <3>1, <3>2, <3>3, <4>1, <4>2 DEF CallIsTrue, IsUnchanged
    <3>4. CASE caller[d].key = k
      <4>1. CASE caller[d].pc = "call"
        <5>1. k \in early'
          BY <2>2, <2>4, <3>4, <4>1
        <5> QED
          BY <3>1, <3>4, <4>1, <5>1 DEF CallIsTrue
      <4>2. CASE caller[d].pc = "settle"
        <5>1. i.state # "executing"
          <6>1. intent[k].state # "pending"
            BY <3>2, <3>4, <4>2
          <6>2. caller[c].pc # "call"
            BY <2>4, <3>4, <4>2 DEF IInv, Structure, OneCall
          <6> QED
            BY <6>1, <6>2
        <5> QED
          BY <1>1, <3>1, <3>4, <4>2, <5>1 DEF CallIsTrue
      <4>3. CASE caller[d].pc = "conclude"
        <5>1. intent[k].state \notin {"none", "pending"} /\ intent[k].config = v
          BY <1>8, <3>2, <3>4, <4>3
        <5>2. CallIsTrue(d, v)
          BY <2>1, <3>4, <4>3, <5>1 DEF RevisionIsTrue
        <5>3. CallInFlight(k) => k \in early
          BY <3>4, <4>3, <5>2 DEF CallIsTrue
        <5>4. caller[c].pc # "call"
          BY <1>8, <5>3 DEF CallInFlight
        <5>5. r.pc # "call"
          BY <5>1
        <5>6. CallInFlight(k)' => k \in early'
          BY <1>1, <5>3, <5>5 DEF CallInFlight
        <5>7. ~(i.state = caller[d].was /\ i.observations = caller[d].count)
          BY <1>8, <2>1, <3>2, <3>4, <4>3, <5>1, <5>4
        <5> QED
          BY <1>1, <3>1, <3>4, <4>3, <5>6, <5>7 DEF CallIsTrue, IsUnchanged
      <4>4. CASE caller[d].pc \notin {"call", "settle", "conclude"}
        BY <3>1, <4>4 DEF CallIsTrue
      <4> QED
        BY <4>1, <4>2, <4>3, <4>4
    <3> QED
      BY <3>3, <3>4
  <2>5. ASSUME caller'[c].pc # "idle" PROVE CallIsTrue(c, v)'
    BY <1>1, <2>2, <2>5
  <2> QED
    BY <2>2, <2>3, <2>4, <2>5 DEF RevisionIsTrue
<1> QED
  BY <1>4, <1>7, <1>8 DEF IInv, EverythingIsTrue

(* The revision a registration takes is the first one that has none. *)
LEMMA NextRevision ==
    ASSUME InOrder, NEW v \in Configs,
           v = Cardinality({w \in Configs : registration[w] # "none"}) + 1
    PROVE  \A w \in Configs : registration[w] # "none" <=> w < v
<1>1. PICK n \in 0..MaxConfig : \A w \in Configs : registration[w] # "none" <=> w <= n
  BY DEF InOrder
<1>2. {w \in Configs : registration[w] # "none"} = 1..n
  BY <1>1, SchedulerAssumption DEF Configs
<1>3. Cardinality(1..n) = n
  BY <1>1, FS_Interval, SchedulerAssumption
<1>4. v = n + 1
  BY <1>2, <1>3
<1> QED
  BY <1>1, <1>4, SchedulerAssumption DEF Configs

LEMMA PrepareTrue ==
    ASSUME IInv, NEW c \in Callers, NEW k \in Keys, NEW op \in Operations, NEW v \in Configs,
           Prepare(c, k, op, v), Structure'
    PROVE  IInv'
<1> DEFINE i == Prepared(op, v)
           r == At(k, "act")
<1>1. StepOf(c, k, r, i) /\ r.pc = "act"
  BY PrepareStep, AtFields DEF IInv
<1>2. i.state = "pending" /\ i.operation = op /\ i.config = v
  BY PreparedFields
<1>3. intent[k].state = "none" /\ caller[c].pc = "idle" /\ UNCHANGED <<external, calls, early>>
  BY DEF Prepare
<1> HIDE DEF i, r
<1>4. intent'[k] = i /\ caller'[c] = r
  BY <1>1, StepFrame DEF IInv, Structure
<1>5. /\ ActiveIntents(v) = {} /\ InOrder'
      /\ \A w \in Configs \ {v} : registration'[w] = registration[w]
      /\ registration'[v] = IF op = "register" THEN "pending_register" ELSE "active"
      /\ registration[v] = IF op = "register" THEN "none" ELSE "active"
  <2>1. CASE op = "register"
    <3>1. /\ v = Cardinality({w \in Configs : registration[w] # "none"}) + 1
          /\ Become(v, "pending_register")
      BY <2>1 DEF Prepare
    <3>2. \A w \in Configs : registration[w] # "none" <=> w < v
      BY <3>1, NextRevision DEF IInv
    <3>3. /\ registration'[v] = "pending_register"
          /\ \A w \in Configs \ {v} : registration'[w] = registration[w]
      BY <3>1, BecomeType DEF IInv, Structure, Statuses
    <3>4. registration[v] = "none"
      BY <3>2, SchedulerAssumption DEF Configs
    <3>5. ActiveIntents(v) = {}
      BY <3>4 DEF IInv, Structure, IntentShape, ActiveIntents, ActiveStates
    <3>6. v \in 0..MaxConfig /\ \A w \in Configs : registration'[w] # "none" <=> w <= v
      BY <3>2, <3>3, SchedulerAssumption DEF Configs
    <3> QED
      BY <2>1, <3>3, <3>4, <3>5, <3>6 DEF InOrder
  <2>2. CASE op = "remove"
    BY <2>2 DEF Prepare, IInv, InOrder
  <2> QED
    BY <2>1, <2>2 DEF Operations
<1>6. ASSUME Clean(v)', RevisionIsTrue(v)
      PROVE  /\ registration'[v] \in {"none", "removed"} => external'[v] = "absent"
             /\ registration'[v] = "active" => external'[v] = "present"
             /\ IntentIsTrue(k, v)'
             /\ r.pc # "idle" => CallIsTrue(c, v)'
             /\ k \notin early => \A d \in Callers \ {c} : caller[d].pc = "call" => caller[d].key # k
  <2>1. external[v] # Wanted(op) /\ (op = "remove" => external[v] = "present")
    BY <1>5, <1>6 DEF RevisionIsTrue, Wanted, Operations
  <2>2. /\ registration'[v] \in {"none", "removed"} => external'[v] = "absent"
        /\ registration'[v] = "active" => external'[v] = "present"
    BY <1>3, <1>5, <2>1 DEF Operations
  <2>3. IntentIsTrue(k, v)'
    BY <1>2, <1>3, <1>4, <1>5, <2>1 DEF IntentIsTrue
  <2>4. CallIsTrue(c, v)'
    BY <1>1, <1>4 DEF CallIsTrue
  <2>5. \A d \in Callers : caller[d].pc = "call" => caller[d].key # k
    BY <1>3 DEF IInv, Structure, CallerShape
  <2> QED
    BY <2>2, <2>3, <2>4, <2>5
<1> QED
  BY <1>1, <1>2, <1>3, <1>5, <1>6, OwnerTruth

LEMMA InOrderKept ==
    ASSUME InOrder, NEW v \in Configs, registration[v] # "none", registration'[v] # "none",
           \A w \in Configs \ {v} : registration'[w] = registration[w]
    PROVE  InOrder'
  BY DEF InOrder

LEMMA ActTrue ==
    ASSUME IInv, NEW c \in Callers, ActDenied(c) \/ ActAllowed(c), Structure'
    PROVE  IInv'
<1>0. caller[c].pc = "act" /\ caller[c].key \in Keys /\ intent[caller[c].key].config \in Configs
  BY KnownCall DEF IInv, ActDenied, ActAllowed
<1> PICK k \in Keys : k = caller[c].key
  BY <1>0
<1> PICK v \in Configs : v = intent[k].config
  BY <1>0
<1> DEFINE op == intent[k].operation
<1>1. /\ intent[k].state = "pending" /\ UNCHANGED <<external, calls, early>>
      /\ ActDenied(c) => StepOf(c, k, Idle, MovedTo(k, "failed"))
      /\ ActAllowed(c) => StepOf(c, k, At(k, "call"), MovedTo(k, "executing"))
      /\ \A w \in Configs \ {v} : registration'[w] = registration[w]
  BY ActStep DEF IInv
<1>2. op \in Operations /\ registration[v] # "none" /\ external[v] \in ExternalStates
  BY <1>0, KnownCall DEF IInv
<1>3. \A d \in Callers : caller[d].pc \in {"call", "conclude", "settle"} => caller[d].key # k
  BY <1>1 DEF IInv, Structure, CallerShape
<1>4. ASSUME Clean(v)', RevisionIsTrue(v)
      PROVE  /\ registration[v] = IF op = "register" THEN "pending_register" ELSE "active"
             /\ external[v] # Wanted(op)
  BY <1>1, <1>4 DEF RevisionIsTrue, IntentIsTrue
<1>5. CASE ActDenied(c)
  <2> PICK i : i = MovedTo(k, "failed")
    OBVIOUS
  <2>1. Moved(k, "failed") /\ (IF op = "register" THEN Become(v, "removed") ELSE UNCHANGED registration)
    BY <1>5 DEF ActDenied
  <2>2. i.state = "failed" /\ i.config = v /\ i.operation = op
    BY <2>1, MovedFields DEF IInv, Structure, IntentStates
  <2>3. registration'[v] = (IF op = "register" THEN "removed" ELSE registration[v])
    BY <2>1, BecomeType DEF IInv, Structure, Statuses
  <2>4. InOrder'
    BY <1>1, <1>2, <2>3, InOrderKept DEF IInv
  <2>5. StepOf(c, k, Idle, i)
    BY <1>1, <1>5
  <2>6. intent'[k] = i
    BY <2>5, StepFrame DEF IInv, Structure
  <2>7. ASSUME Clean(v)', RevisionIsTrue(v)
        PROVE  /\ registration'[v] \in {"none", "removed"} => external'[v] = "absent"
               /\ registration'[v] = "active" => external'[v] = "present"
               /\ IntentIsTrue(k, v)'
    <3>1. external[v] = IF op = "register" THEN "absent" ELSE "present"
      BY <1>2, <1>4, <2>7 DEF Wanted, ExternalStates, Operations
    <3>2. IntentIsTrue(k, v)'
      BY <2>2, <2>6 DEF IntentIsTrue
    <3>3. registration[v] = IF op = "register" THEN "pending_register" ELSE "active"
      BY <1>4, <2>7
    <3> QED
      BY <1>1, <1>2, <2>3, <3>1, <3>2, <3>3 DEF Operations
  <2>8. \A d \in Callers \ {c} : caller[d].pc = "call" => caller[d].key # k
    BY <1>3
  <2>9. intent[k].state \in ActiveStates
    BY <1>1 DEF ActiveStates
  <2> QED
    BY <1>0, <1>1, <2>2, <2>4, <2>5, <2>7, <2>8, <2>9, IdleFields, OwnerTruth
<1>6. CASE ActAllowed(c)
  <2> PICK i : i = MovedTo(k, "executing")
    OBVIOUS
  <2> PICK r : r = At(k, "call")
    OBVIOUS
  <2>1. /\ Moved(k, "executing")
        /\ IF op = "remove" THEN Become(v, "pending_remove") ELSE UNCHANGED registration
    BY <1>6 DEF ActAllowed
  <2>2. i.state = "executing" /\ i.config = v /\ i.operation = op /\ r.pc = "call" /\ r.key = k
    BY <2>1, MovedFields, AtFields DEF IInv, Structure, IntentStates
  <2>3. registration'[v] = (IF op = "remove" THEN "pending_remove" ELSE registration[v])
    BY <2>1, BecomeType DEF IInv, Structure, Statuses
  <2>4. InOrder'
    BY <1>1, <1>2, <2>3, InOrderKept DEF IInv
  <2>5. StepOf(c, k, r, i)
    BY <1>1, <1>6
  <2>6. intent'[k] = i /\ caller'[c] = r
    BY <2>5, StepFrame DEF IInv, Structure
  <2>7. ASSUME Clean(v)', RevisionIsTrue(v)
        PROVE  /\ registration'[v] \in {"pending_register", "pending_remove"}
               /\ IntentIsTrue(k, v)' /\ CallIsTrue(c, v)'
    <3>1. registration'[v] \in {"pending_register", "pending_remove"}
      BY <1>2, <1>4, <2>3, <2>7 DEF Operations
    <3>2. IntentIsTrue(k, v)'
      BY <2>2, <2>6, <3>1 DEF IntentIsTrue
    <3>3. CallIsTrue(c, v)'
      BY <1>1, <1>4, <2>2, <2>6, <2>7 DEF CallIsTrue, Wanted
    <3> QED
      BY <3>1, <3>2, <3>3
  <2>8. \A d \in Callers \ {c} : caller[d].pc = "call" => caller[d].key # k
    BY <1>3
  <2>9. intent[k].state \in ActiveStates
    BY <1>1 DEF ActiveStates
  <2> QED
    BY <1>0, <1>1, <2>2, <2>4, <2>5, <2>7, <2>8, <2>9, OwnerTruth
<1> QED
  BY <1>5, <1>6

(* The call of a revision that is not clean may be late: it changes only   *)
(* the world of that revision.                                             *)
LEMMA CallTrue ==
    ASSUME IInv, NEW c \in Callers, CallBackend(c), Structure'
    PROVE  IInv'
<1>0. caller[c].pc = "call" /\ caller[c].key \in Keys /\ intent[caller[c].key].config \in Configs
  BY KnownCall DEF IInv, CallBackend
<1> PICK k \in Keys : k = caller[c].key
  BY <1>0
<1> PICK v \in Configs : v = intent[k].config
  BY <1>0
<1> PICK i : i = intent[k]
  OBVIOUS
<1> PICK r : r = caller'[c]
  OBVIOUS
<1>1. /\ StepOf(c, k, r, i) /\ r.pc = "settle"
      /\ registration' = registration /\ intent' = intent /\ early' = early
      /\ \A w \in Configs \ {v} : external'[w] = external[w]
      /\ r.answer \in ExternalStates => external'[v] = r.answer
      /\ r.answer = "failure" => external'[v] = external[v]
  BY CallStep DEF IInv
<1>2. InOrder' /\ i.config = v /\ i.state # "none"
  BY <1>0, <1>1, KnownCall DEF IInv, InOrder
<1>3. r.key = k
  BY <1>1 DEF StepOf
<1>4. \A l \in Keys : (calls'[l] = 0 => calls[l] = 0) /\ calls'[k] # 0
  <2>1. calls' = [calls EXCEPT ![k] = @ + 1] /\ calls \in [Keys -> Nat]
    BY <1>0, CallStep DEF IInv, Structure, TypeOK
  <2>2. \A l \in Keys : calls[l] \in Nat /\ (l # k => calls'[l] = calls[l])
    BY <2>1
  <2>3. calls'[k] = calls[k] + 1
    BY <2>1
  <2> QED
    BY <2>2, <2>3
<1>5. Clean(v)' => Clean(v) /\ k \notin early
  BY <1>1, <1>2, <1>4 DEF Clean, IInv, Structure, TypeOK
<1>6. ASSUME Clean(v)'
      PROVE  /\ RevisionIsTrue(v) /\ i.state = "executing" /\ external[v] # Wanted(i.operation)
             /\ registration[v] \in {"pending_register", "pending_remove", "ambiguous"}
  <2>1. RevisionIsTrue(v)
    BY <1>5, <1>6 DEF IInv, EverythingIsTrue
  <2>2. CallIsTrue(c, v) /\ IntentIsTrue(k, v)
    BY <1>0, <2>1 DEF RevisionIsTrue
  <2> QED
    BY <1>0, <1>5, <1>6, <2>1, <2>2 DEF CallIsTrue, IntentIsTrue
<1>7. ASSUME Clean(v)', RevisionIsTrue(v)
      PROVE  /\ registration'[v] \in {"none", "removed"} => external'[v] = "absent"
             /\ registration'[v] = "active" => external'[v] = "present"
             /\ IntentIsTrue(k, v)'
             /\ r.pc # "idle" => CallIsTrue(c, v)'
             /\ k \notin early => \A d \in Callers \ {c} : caller[d].pc = "call" => caller[d].key # k
  <2>1. i.state = "executing" /\ intent'[k] = i
    BY <1>1, <1>6, <1>7
  <2>2. IntentIsTrue(k, v)'
    BY <1>1, <1>6, <1>7, <2>1 DEF IntentIsTrue
  <2>3. CallIsTrue(c, v)'
    BY <1>1, <1>3, <1>6, <1>7, <2>1 DEF CallIsTrue, Wanted
  <2>4. \A d \in Callers \ {c} : caller[d].pc = "call" => caller[d].key # k
    BY <1>0 DEF IInv, Structure, OneCall
  <2> QED
    BY <1>1, <1>6, <1>7, <2>2, <2>3, <2>4
<1>8. "executing" \in ActiveStates
  BY DEF ActiveStates
<1> QED
  BY <1>0, <1>1, <1>2, <1>4, <1>5, <1>6, <1>7, <1>8, OwnerTruth

(* Verify, Finalize and the settlements: the key has an owner's intent and *)
(* no call of it is in flight.                                             *)
LEMMA VerifyTrue ==
    ASSUME IInv, NEW c \in Callers, Verify(c), Structure'
    PROVE  IInv'
<1>0. caller[c].pc = "verify" /\ caller[c].key \in Keys /\ intent[caller[c].key].config \in Configs
  BY KnownCall DEF IInv, Verify
<1> PICK k \in Keys : k = caller[c].key
  BY <1>0
<1> PICK v \in Configs : v = intent[k].config
  BY <1>0
<1> PICK i : i = MovedTo(k, "verified")
  OBVIOUS
<1> PICK r : r = caller'[c]
  OBVIOUS
<1>1. /\ intent[k].state = "observed" /\ r.pc = "finalize" /\ StepOf(c, k, r, i)
      /\ UNCHANGED <<registration, external, calls, early>> /\ Moved(k, "verified")
  BY VerifyStep DEF IInv, Verify
<1>2. i.state = "verified" /\ i.config = v /\ i.operation = intent[k].operation /\ i.proven = intent[k].proven
  BY <1>1, MovedFields DEF IInv, Structure, IntentStates
<1>3. intent'[k] = i /\ InOrder' /\ intent[k].state \in ActiveStates
  BY <1>1, StepFrame DEF IInv, Structure, InOrder, ActiveStates
<1>4. ASSUME Clean(v)', RevisionIsTrue(v)
      PROVE  /\ registration'[v] \in {"none", "removed"} => external'[v] = "absent"
             /\ registration'[v] = "active" => external'[v] = "present"
             /\ IntentIsTrue(k, v)'
             /\ r.pc # "idle" => CallIsTrue(c, v)'
             /\ k \notin early => \A d \in Callers \ {c} : caller[d].pc = "call" => caller[d].key # k
  <2>1. IntentIsTrue(k, v)
    BY <1>4 DEF RevisionIsTrue
  <2>2. IntentIsTrue(k, v)'
    BY <1>1, <1>2, <1>3, <2>1 DEF IntentIsTrue
  <2>3. CallIsTrue(c, v)'
    BY <1>1 DEF CallIsTrue
  <2>4. k \notin early => \A d \in Callers \ {c} : caller[d].pc = "call" => caller[d].key # k
    BY <1>1, <1>4 DEF RevisionIsTrue, CallIsTrue
  <2> QED
    BY <1>1, <1>4, <2>2, <2>3, <2>4 DEF RevisionIsTrue
<1> QED
  BY <1>0, <1>1, <1>2, <1>3, <1>4, OwnerTruth

LEMMA FinalizeTrue ==
    ASSUME IInv, NEW c \in Callers, Finalize(c), Structure'
    PROVE  IInv'
<1>0. caller[c].pc = "finalize" /\ caller[c].key \in Keys /\ intent[caller[c].key].config \in Configs
  BY KnownCall DEF IInv, Finalize
<1> PICK k \in Keys : k = caller[c].key
  BY <1>0
<1> PICK v \in Configs : v = intent[k].config
  BY <1>0
<1> PICK op \in Operations : op = intent[k].operation
  BY <1>0, KnownCall DEF IInv
<1> PICK i : i = MovedTo(k, "finalized")
  OBVIOUS
<1>1. /\ intent[k].state = "verified" /\ StepOf(c, k, Idle, i) /\ Moved(k, "finalized")
      /\ registration'[v] = IF intent[k].proven = Wanted(op) THEN Done(op) ELSE Undone(op)
      /\ \A w \in Configs \ {v} : registration'[w] = registration[w]
      /\ UNCHANGED <<external, calls, early>>
  BY FinalizeStep DEF IInv, Finalize
<1>2. i.state = "finalized" /\ i.config = v /\ i.operation = op
  BY <1>1, MovedFields DEF IInv, Structure, IntentStates
<1>3. registration[v] # "none" /\ registration'[v] # "none" /\ external[v] \in ExternalStates
  BY <1>0, <1>1, KnownCall DEF IInv, Done, Undone
<1>4. intent'[k] = i /\ InOrder' /\ intent[k].state \in ActiveStates /\ i.state \notin ActiveStates
  BY <1>1, <1>2, <1>3, StepFrame, InOrderKept DEF IInv, Structure, ActiveStates
<1>5. ASSUME Clean(v)', RevisionIsTrue(v)
      PROVE  /\ registration'[v] \in {"none", "removed"} => external'[v] = "absent"
             /\ registration'[v] = "active" => external'[v] = "present"
             /\ IntentIsTrue(k, v)'
             /\ k \notin early => \A d \in Callers \ {c} : caller[d].pc = "call" => caller[d].key # k
  <2>1. intent[k].proven = external[v]
    BY <1>1, <1>5 DEF RevisionIsTrue, IntentIsTrue
  <2>2. IntentIsTrue(k, v)'
    BY <1>2, <1>4 DEF IntentIsTrue
  <2>3. k \notin early => \A d \in Callers \ {c} : caller[d].pc = "call" => caller[d].key # k
    BY <1>1, <1>5 DEF RevisionIsTrue, CallIsTrue
  <2>4. external'[v] = IF registration'[v] = "active" THEN "present" ELSE "absent"
    BY <1>1, <1>3, <2>1 DEF Done, Undone, Wanted, ExternalStates, Operations
  <2> QED
    BY <2>2, <2>3, <2>4
<1> QED
  BY <1>0, <1>1, <1>2, <1>4, <1>5, IdleFields, OwnerTruth

(* What a call or an inspection may conclude about its own key. *)
LEMMA ConclusionIsTrue ==
    ASSUME IInv, NEW c \in Callers, NEW k \in Keys, k = caller[c].key, NEW v \in Configs,
           v = intent[k].config, RevisionIsTrue(v),
           caller[c].pc = "settle" \/ (caller[c].pc = "conclude" /\ IsUnchanged(c)),
           intent[k].state \in {"executing", "ambiguous"},
           caller[c].pc = "settle" => intent[k].state = "executing"
    PROVE  /\ caller[c].answer \in ExternalStates => external[v] = caller[c].answer
           /\ caller[c].pc = "settle" /\ caller[c].answer = "failure" =>
                 external[v] # Wanted(intent[k].operation)
           /\ k \notin early => \A d \in Callers \ {c} : caller[d].pc = "call" => caller[d].key # k
           /\ registration[v] \in {"pending_register", "pending_remove", "ambiguous"}
<1>1. CallIsTrue(c, v) /\ IntentIsTrue(k, v)
  BY DEF RevisionIsTrue
<1>2. CASE caller[c].pc = "settle"
  BY <1>1, <1>2 DEF CallIsTrue, IntentIsTrue, IInv, Structure, OneCall
<1>3. CASE caller[c].pc = "conclude" /\ IsUnchanged(c)
  BY <1>1, <1>3 DEF CallIsTrue, IntentIsTrue, CallInFlight
<1> QED
  BY <1>2, <1>3

LEMMA ProvenTrue ==
    ASSUME IInv, NEW c \in Callers, SettleSucceeded(c) \/ ConcludeProven(c), Structure'
    PROVE  IInv'
<1>0. /\ caller[c].pc \in {"settle", "conclude"} /\ caller[c].key \in Keys
      /\ intent[caller[c].key].config \in Configs
  BY KnownCall DEF IInv, SettleSucceeded, ConcludeProven
<1> PICK k \in Keys : k = caller[c].key
  BY <1>0
<1> PICK v \in Configs : v = intent[k].config
  BY <1>0
<1> PICK a : a = caller[c].answer
  OBVIOUS
<1> PICK i : i = SeenAs(k, "observed", a)
  OBVIOUS
<1> PICK r : r = At(k, "verify")
  OBVIOUS
<1>1. /\ a \in ExternalStates /\ intent[k].observations < MaxObservations /\ StepOf(c, k, r, i)
      /\ UNCHANGED <<registration, external, calls, early>>
  BY ProvenStep DEF IInv
<1>2. i.state = "observed" /\ i.config = v /\ i.operation = intent[k].operation /\ i.proven = a
  BY <1>1, SeenFields DEF IInv, Structure, IntentStates
<1>3. /\ intent[k].state \in {"executing", "ambiguous"}
      /\ caller[c].pc = "settle" => intent[k].state = "executing"
      /\ caller[c].pc = "conclude" => IsUnchanged(c)
  BY DEF SettleSucceeded, ConcludeProven, IsUnchanged, IInv, Structure, CallerShape
<1>4. r.pc = "verify" /\ intent'[k] = i /\ caller'[c] = r
  BY <1>1, AtFields, StepFrame DEF IInv, Structure
<1>5. intent[k].state \in ActiveStates /\ InOrder'
  BY <1>1, <1>3 DEF ActiveStates, IInv, InOrder
<1>6. ASSUME Clean(v)', RevisionIsTrue(v)
      PROVE  /\ registration'[v] \in {"none", "removed"} => external'[v] = "absent"
             /\ registration'[v] = "active" => external'[v] = "present"
             /\ IntentIsTrue(k, v)'
             /\ r.pc # "idle" => CallIsTrue(c, v)'
             /\ k \notin early => \A d \in Callers \ {c} : caller[d].pc = "call" => caller[d].key # k
  <2>1. /\ external[v] = a /\ registration[v] \in {"pending_register", "pending_remove", "ambiguous"}
        /\ k \notin early => \A d \in Callers \ {c} : caller[d].pc = "call" => caller[d].key # k
    BY <1>0, <1>1, <1>3, <1>6, ConclusionIsTrue
  <2>2. IntentIsTrue(k, v)'
    BY <1>1, <1>2, <1>4, <2>1 DEF IntentIsTrue
  <2>3. CallIsTrue(c, v)'
    BY <1>4 DEF CallIsTrue
  <2> QED
    BY <1>1, <2>1, <2>2, <2>3
<1>7. caller[c].pc # "call"
  BY <1>0
<1> QED
  BY <1>1, <1>2, <1>3, <1>4, <1>5, <1>6, <1>7, OwnerTruth

LEMMA UnprovenTrue ==
    ASSUME IInv, NEW c \in Callers, SettleUnsuccessful(c) \/ ConcludeUnproven(c), Structure'
    PROVE  IInv'
<1>0. /\ caller[c].pc \in {"settle", "conclude"} /\ caller[c].key \in Keys
      /\ intent[caller[c].key].config \in Configs
  BY KnownCall DEF IInv, SettleUnsuccessful, ConcludeUnproven
<1> PICK k \in Keys : k = caller[c].key
  BY <1>0
<1> PICK v \in Configs : v = intent[k].config
  BY <1>0
<1> PICK op \in Operations : op = intent[k].operation
  BY <1>0, KnownCall DEF IInv
<1>1. PICK s \in {"ambiguous", "failed"} :
        /\ intent[k].observations < MaxObservations
        /\ intent[k].proven \in ExternalStates \cup {"none"}
        /\ s = "failed" => SettleUnsuccessful(c) /\ caller[c].answer = "failure"
        /\ StepOf(c, k, Idle, SeenAs(k, s, intent[k].proven))
        /\ registration'[v] = IF s = "ambiguous" THEN "ambiguous" ELSE Undone(op)
        /\ \A w \in Configs \ {v} : registration'[w] = registration[w]
        /\ UNCHANGED <<external, calls, early>>
  BY UnprovenStep DEF IInv
<1> PICK i : i = SeenAs(k, s, intent[k].proven)
  OBVIOUS
<1>2. /\ i.state = s /\ i.config = v /\ i.operation = op
      /\ i.observations = intent[k].observations + 1
  BY <1>1, SeenFields DEF IInv, Structure, IntentStates
<1>3. /\ intent[k].state \in {"executing", "ambiguous"}
      /\ caller[c].pc = "settle" => intent[k].state = "executing"
      /\ caller[c].pc = "conclude" => IsUnchanged(c)
      /\ s = "failed" => caller[c].pc = "settle"
  BY <1>1 DEF SettleUnsuccessful, ConcludeUnproven, IsUnchanged, IInv, Structure, CallerShape
<1>4. intent'[k] = i
  BY <1>1, StepFrame DEF IInv, Structure
<1>5. registration[v] # "none" /\ registration'[v] # "none" /\ external[v] \in ExternalStates
  BY <1>0, <1>1, KnownCall DEF IInv, Undone
<1>6. intent[k].state \in ActiveStates /\ InOrder'
  BY <1>1, <1>3, <1>5, InOrderKept DEF ActiveStates, IInv
<1>7. ASSUME Clean(v)', RevisionIsTrue(v)
      PROVE  /\ registration'[v] \in {"none", "removed"} => external'[v] = "absent"
             /\ registration'[v] = "active" => external'[v] = "present"
             /\ IntentIsTrue(k, v)'
             /\ k \notin early => \A d \in Callers \ {c} : caller[d].pc = "call" => caller[d].key # k
  <2>1. /\ s = "failed" => external[v] # Wanted(op)
        /\ k \notin early => \A d \in Callers \ {c} : caller[d].pc = "call" => caller[d].key # k
    BY <1>0, <1>1, <1>3, <1>7, ConclusionIsTrue
  <2>2. IntentIsTrue(k, v)'
    BY <1>1, <1>2, <1>4 DEF IntentIsTrue
  <2>3. s = "failed" => external'[v] = IF registration'[v] = "active" THEN "present" ELSE "absent"
    BY <1>1, <1>5, <2>1 DEF Undone, Wanted, ExternalStates, Operations
  <2> QED
    BY <1>1, <2>1, <2>2, <2>3
<1>8. caller[c].pc # "call" /\ i.state # "none" /\ i.state # "executing"
  BY <1>0, <1>2
<1>9. StepOf(c, k, Idle, i) /\ UNCHANGED <<early, external, calls>>
  BY <1>1
<1>10. /\ \A w \in Configs \ {v} : registration'[w] = registration[w] /\ external'[w] = external[w]
       /\ intent[k].state # "none" /\ i.config = v /\ i.operation = intent[k].operation
       /\ intent[k].observations < i.observations
  BY <1>1, <1>2, <1>3, SeenFields DEF IInv, Structure, IntentStates
<1> QED
  BY <1>6, <1>7, <1>8, <1>9, <1>10, IdleFields, OwnerTruth

-----------------------------------------------------------------------------
LEMMA TruthInit == Init => IInv
<1> SUFFICES ASSUME Init PROVE IInv
  OBVIOUS
<1>1. NoIntent.state = "none" /\ NoIntent.config = 0 /\ Idle.pc = "idle"
  BY IdleFields DEF NoIntent
<1>2. Structure
  BY StructureInit
<1>3. OneOwner /\ InOrder
  <2>1. OneOwner
    BY <1>1 DEF Init, OneOwner, ActiveStates
  <2>2. 0 \in 0..MaxConfig /\ \A v \in Configs : registration[v] # "none" <=> v <= 0
    BY SchedulerAssumption DEF Init, Configs
  <2> QED
    BY <2>1, <2>2 DEF InOrder
<1>4. EverythingIsTrue
  BY <1>1 DEF Init, EverythingIsTrue, RevisionIsTrue, IntentIsTrue
<1> QED
  BY <1>2, <1>3, <1>4 DEF IInv

LEMMA TruthPreserved == IInv /\ [Next]_vars => IInv'
<1> SUFFICES ASSUME IInv, [Next]_vars PROVE IInv'
  OBVIOUS
<1>0. Structure'
  BY StructurePreserved DEF IInv
<1>1. CASE UNCHANGED vars
  BY <1>0, <1>1 DEF vars, IInv, OneOwner, InOrder, EverythingIsTrue, Clean, RevisionIsTrue,
                    IntentIsTrue, CallIsTrue, CallInFlight, IsUnchanged
<1>2. ASSUME NEW c \in Callers, NEW k \in Keys, Continue(c, k) \/ BeginReconcile(c, k)
      PROVE  IInv'
  BY <1>0, <1>2, QuietStepsTrue
<1>3. ASSUME NEW c \in Callers, NEW k \in Keys, NEW op \in Operations, NEW v \in Configs,
             Prepare(c, k, op, v)
      PROVE  IInv'
  BY <1>0, <1>3, PrepareTrue
<1>4. ASSUME NEW c \in Callers, ActDenied(c) \/ ActAllowed(c) \/ CallBackend(c) PROVE IInv'
  BY <1>0, <1>4, ActTrue, CallTrue
<1>5. ASSUME NEW c \in Callers, SettleSucceeded(c) \/ SettleUnsuccessful(c)
                                \/ ConcludeProven(c) \/ ConcludeUnproven(c)
      PROVE  IInv'
  BY <1>0, <1>5, ProvenTrue, UnprovenTrue
<1>6. ASSUME NEW c \in Callers, Verify(c) \/ Finalize(c) \/ Look(c) \/ Stop(c) PROVE IInv'
  BY <1>0, <1>6, VerifyTrue, FinalizeTrue, LookTrue, StopTrue
<1> QED
  BY <1>1, <1>2, <1>3, <1>4, <1>5, <1>6 DEF Next

LEMMA TruthInductive == Spec => []IInv
  BY TruthInit, TruthPreserved, PTL DEF Spec

(* Whatever the number of revisions, keys and concurrent calls, and        *)
(* however they crash and retry, a registration at rest says what the      *)
(* external scheduler has.  A revision is excluded once the call of an     *)
(* operation on it was made after an inspection had looked for its effect: *)
(* there reconcile() lets the two disagree.                                *)
THEOREM SchedulerRegistrationIsTrue == Spec => []RegistrationIsTrue
<1>1. IInv => RegistrationIsTrue
  BY DEF IInv, EverythingIsTrue, RevisionIsTrue, RegistrationIsTrue, Clean
<1> QED
  BY <1>1, TruthInductive, PTL
=============================================================================
