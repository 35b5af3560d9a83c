------------------------ MODULE ExecutionClaimsProofs ------------------------
(***************************************************************************)
(* Proofs about ExecutionClaims for every set of Tasks, clients,           *)
(* executions, keys and durations and every bound.                         *)
(*                                                                         *)
(* The invariants need two more facts.  A command that is under way names  *)
(* an attempt that exists and has the Task the command says (the row of an *)
(* attempt never changes its Task, owner or key), and the time a preflight *)
(* read is not ahead of the clock.                                         *)
(*                                                                         *)
(* The second part proves CodexProduct, whose product operations each own  *)
(* one such execution.                                                     *)
(***************************************************************************)
EXTENDS ExecutionClaims, CodexProduct, TLAPS

(* What a stored command refers to. *)
CommandIsBound ==
    \A c \in Clients :
        /\ phase[c] # "idle" => command[c] # None
        /\ command[c] # None =>
              /\ command[c].op # "renew" => command[c].key \in Keys
              /\ command[c].op # "claim" =>
                    /\ command[c].execution \in Executions
                    /\ Exists(command[c].execution)
                    /\ attempt[command[c].execution].task = command[c].task

(* An answer that names an execution names a stored one. *)
AnswerIsBound ==
    \A c \in Clients :
        answer[c] # None =>
            /\ command[c] # None
            /\ answer[c].result = "ok" => Exists(answer[c].execution)

TrustedIsPast == \A c \in Clients : trusted[c] <= clock

IInv ==
    /\ TypeOK /\ OneCurrentAttempt /\ KeyNamesOneExecution
    /\ CommandIsBound /\ AnswerIsBound /\ TrustedIsPast
-----------------------------------------------------------------------------
(* Rows, commands and answers that the actions build have their types.     *)

LEMMA ExistingRow ==
    ASSUME TypeOK, NEW e \in Executions
    PROVE  /\ Exists(e) => attempt[e] \in Attempts
           /\ attempt[e] \in Attempts => Exists(e)
  BY AbsentAssumption DEF TypeOK, Exists

LEMMA StoredCommand ==
    ASSUME TypeOK, NEW c \in Clients
    PROVE  command[c] # None <=> command[c] \in Commands
  BY AbsentAssumption DEF TypeOK

LEMMA CommandFields ==
    ASSUME NEW m \in Commands
    PROVE  /\ m.op \in {"claim", "renew", "takeover"} /\ m.key \in Keys \cup {None}
           /\ m.task \in Tasks /\ m.execution \in Executions \cup {None}
           /\ m.projectRevision \in Nat /\ m.taskRevision \in Nat
           /\ m.executionRevision \in Nat /\ m.leaseRevision \in Nat
           /\ m.fence \in Nat /\ m.duration \in Durations /\ m.duration \in Nat
  BY ClaimsAssumption DEF Commands

LEMMA RowFields ==
    ASSUME NEW a \in Attempts
    PROVE  /\ a.task \in Tasks /\ a.status \in {"active", "superseded"}
           /\ a.key \in Keys /\ a.owner \in Clients /\ a.fence \in Nat /\ a.expires \in Nat
           /\ a.revision \in Nat /\ a.leaseRevision \in Nat /\ a.postTaskRevision \in Nat
           /\ a.updatedAt \in Nat
  BY DEF Attempts

LEMMA ClaimCommandType ==
    ASSUME TypeOK, NEW t \in Tasks, NEW k \in Keys, NEW d \in Durations
    PROVE  ClaimCommand(t, k, d) \in Commands
  BY DEF ClaimCommand, Commands, TypeOK

LEMMA AttemptCommandType ==
    ASSUME TypeOK, NEW kind \in {"renew", "takeover"}, NEW e \in Executions, Exists(e),
           NEW k \in Keys \cup {None}, NEW d \in Durations
    PROVE  AttemptCommand(kind, e, k, d) \in Commands
<1>1. attempt[e] \in Attempts
  BY ExistingRow
<1>2. /\ attempt[e].task \in Tasks /\ attempt[e].revision \in Nat
      /\ attempt[e].leaseRevision \in Nat /\ attempt[e].fence \in Nat
  BY <1>1, RowFields
<1>3. project.revision \in Nat /\ taskRevision[attempt[e].task] \in Nat
  BY <1>2 DEF TypeOK
<1> QED
  BY <1>2, <1>3 DEF AttemptCommand, Commands

LEMMA NewAttemptType ==
    ASSUME TypeOK, NEW c \in Clients, NEW m \in Commands, m.op \in {"claim", "takeover"}, m.key \in Keys,
           NEW fence \in Nat, NEW post \in Nat
    PROVE  /\ NewAttempt(m, c, fence, post) \in Attempts
           /\ NewAttempt(m, c, fence, post) # None
           /\ NewAttempt(m, c, fence, post).task = m.task
           /\ NewAttempt(m, c, fence, post).key = m.key
           /\ NewAttempt(m, c, fence, post).owner = c
           /\ NewAttempt(m, c, fence, post).status = "active"
           /\ NewAttempt(m, c, fence, post).fence = fence
<1>1. trusted[c] \in Nat
  BY DEF TypeOK
<1>2. trusted[c] + m.duration \in Nat
  BY <1>1, CommandFields
<1>3. <<m.executionRevision, m.leaseRevision, m.fence>> \in Nat \X Nat \X Nat
  BY CommandFields
<1>4. NewAttempt(m, c, fence, post) \in Attempts
  BY <1>1, <1>2, <1>3, CommandFields DEF NewAttempt, Attempts
<1> QED
  BY <1>4, AbsentAssumption DEF NewAttempt

-----------------------------------------------------------------------------
(* The steps that change no attempt, fence or Task state.                  *)

Answers ==
    [result : {"ok"}, execution : Executions] \cup {None} \cup
    [result : {"conflict", "refused", "denied"}, execution : {None}]

(* An answer r to client c is good: it may be stored beside the command.   *)
Good(c, r) ==
    /\ r \in Answers
    /\ r # None =>
          /\ command[c] # None
          /\ r.result = "ok" =>
                LET a == attempt[r.execution] IN
                /\ Exists(r.execution) /\ a.owner = c /\ a.task = command[c].task
                /\ command[c].op # "renew" => a.key = command[c].key

LEMMA GoodAnswers ==
    ASSUME TypeOK, KeyNamesOneExecution, AnswerIsBound, NEW c \in Clients
    PROVE  Good(c, answer[c])
  BY DEF TypeOK, KeyNamesOneExecution, AnswerIsBound, Good, Answers

LEMMA PlainAnswersGood ==
    ASSUME NEW c \in Clients, command[c] # None
    PROVE  Good(c, Refused) /\ Good(c, Denied) /\ Good(c, None)
  BY DEF Good, Answers, Refused, Denied

(* A replayed key answers with the execution that this very command made. *)
LEMMA ReplayIsGood ==
    ASSUME TypeOK, NEW c \in Clients, command[c] # None, command[c].op # "renew",
           NEW e \in UnderKey(command[c])
    PROVE  Good(c, Replayed(c, e))
<1>1. e \in Executions /\ Exists(e) /\ attempt[e].key = command[c].key
  BY DEF UnderKey
<1>2. CASE TupleMatches(e, command[c], c)
  <2>1. attempt[e].owner = c /\ attempt[e].task = command[c].task
    BY <1>2 DEF TupleMatches
  <2>2. Replayed(c, e) = [result |-> "ok", execution |-> e]
    BY <1>2 DEF Replayed
  <2> QED
    BY <1>1, <2>1, <2>2 DEF Good, Answers
<1>3. CASE ~TupleMatches(e, command[c], c)
  BY <1>3 DEF Replayed, Good, Answers
<1> QED
  BY <1>2, <1>3

(* The step of one client that leaves every row alone. *)
LEMMA ClientStep ==
    ASSUME IInv, NEW c \in Clients,
           UNCHANGED <<clock, sequence, attempt>>, UNCHANGED envVars,
           phase' \in [Clients -> {"idle", "submitted", "transaction", "answered"}],
           NEW m, command' = [command EXCEPT ![c] = m],
           NEW r, answer' = [answer EXCEPT ![c] = r],
           NEW time \in Nat, trusted' = [trusted EXCEPT ![c] = time], time <= clock,
           \A d \in Clients \ {c} : phase'[d] = phase[d],
           m \in Commands \cup {None},
           phase'[c] # "idle" => m # None,
           m # None =>
              /\ m.op # "renew" => m.key \in Keys
              /\ m.op # "claim" => /\ m.execution \in Executions /\ Exists(m.execution)
                                   /\ attempt[m.execution].task = m.task,
           r = None \/ (m = command[c] /\ Good(c, r))
    PROVE  IInv'
<1> USE DEF IInv
<1>1. /\ command'[c] = m /\ \A d \in Clients \ {c} : command'[d] = command[d]
      /\ answer'[c] = r /\ \A d \in Clients \ {c} : answer'[d] = answer[d]
      /\ trusted'[c] = time /\ \A d \in Clients \ {c} : trusted'[d] = trusted[d]
  BY DEF TypeOK
<1>2. r \in Answers
  BY DEF Good, Answers
<1>3. TypeOK'
  BY <1>2 DEF TypeOK, Answers, envVars
<1>4. OneCurrentAttempt'
  BY DEF OneCurrentAttempt, Exists, Active, envVars
<1>5. CommandIsBound'
  BY <1>1 DEF CommandIsBound, Exists
<1>6. AnswerIsBound'
  BY <1>1 DEF AnswerIsBound, Exists, Good
<1>7. KeyNamesOneExecution'
  <2>1. ASSUME NEW d \in Clients, answer'[d] # None, answer'[d].result = "ok"
        PROVE  LET a == attempt[answer'[d].execution] IN
               /\ a.owner = d
               /\ a.task = command'[d].task
               /\ command'[d].op # "renew" => a.key = command'[d].key
    <3>1. CASE d = c
      BY <1>1, <2>1, <3>1 DEF Good
    <3>2. CASE d # c
      BY <1>1, <2>1, <3>2 DEF KeyNamesOneExecution
    <3> QED
      BY <3>1, <3>2
  <2> QED
    BY <2>1 DEF KeyNamesOneExecution, Exists
<1>8. TrustedIsPast'
  BY <1>1 DEF TrustedIsPast
<1> QED
  BY <1>3, <1>4, <1>5, <1>6, <1>7, <1>8

LEMMA SubmitPreserves ==
    ASSUME IInv, NEW c \in Clients, NEW m \in Commands, Submit(c, m),
           m.op # "renew" => m.key \in Keys,
           m.op # "claim" => /\ m.execution \in Executions /\ Exists(m.execution)
                             /\ attempt[m.execution].task = m.task
    PROVE  IInv'
<1>1. m # None
  BY AbsentAssumption
<1>2. trusted' = [trusted EXCEPT ![c] = trusted[c]] /\ trusted[c] \in Nat /\ trusted[c] <= clock
  BY DEF Submit, IInv, TypeOK, TrustedIsPast
<1>3. phase' \in [Clients -> {"idle", "submitted", "transaction", "answered"}]
  BY DEF Submit, IInv, TypeOK
<1>4. \A d \in Clients \ {c} : phase'[d] = phase[d]
  BY DEF Submit, IInv, TypeOK
<1> QED
  BY <1>1, <1>2, <1>3, <1>4, ClientStep DEF Submit, envVars

LEMMA ResubmitPreserves ==
    ASSUME IInv, NEW c \in Clients, Resubmit(c)
    PROVE  IInv'
<1>1. command' = [command EXCEPT ![c] = command[c]] /\ command[c] \in Commands \cup {None}
  BY DEF Resubmit, IInv, TypeOK
<1>2. command[c] # None
  BY DEF Resubmit, IInv, CommandIsBound
<1>3. phase' \in [Clients -> {"idle", "submitted", "transaction", "answered"}]
  BY DEF Resubmit, IInv, TypeOK
<1>4. \A d \in Clients \ {c} : phase'[d] = phase[d]
  BY DEF Resubmit, IInv, TypeOK
<1>5. 0 \in Nat /\ 0 <= clock
  BY DEF IInv, TypeOK
<1>6. command[c] # None =>
        /\ command[c].op # "renew" => command[c].key \in Keys
        /\ command[c].op # "claim" =>
              /\ command[c].execution \in Executions /\ Exists(command[c].execution)
              /\ attempt[command[c].execution].task = command[c].task
  BY DEF IInv, CommandIsBound
<1> QED
  BY <1>1, <1>2, <1>3, <1>4, <1>5, <1>6, ClientStep DEF Resubmit, envVars

(* The service answers and writes no row. *)
LEMMA AnswerPreserves ==
    ASSUME IInv, NEW c \in Clients, phase[c] # "idle", NEW r, Good(c, r), Answer(c, r),
           UNCHANGED <<clock, sequence, attempt>>, UNCHANGED envVars
    PROVE  IInv'
<1>1. command' = [command EXCEPT ![c] = command[c]] /\ command[c] \in Commands \cup {None}
  BY DEF Answer, IInv, TypeOK
<1>2. command[c] # None
  BY DEF IInv, CommandIsBound
<1>3. phase' \in [Clients -> {"idle", "submitted", "transaction", "answered"}]
  BY DEF Answer, IInv, TypeOK
<1>4. \A d \in Clients \ {c} : phase'[d] = phase[d]
  BY DEF Answer, IInv, TypeOK
<1>5. 0 \in Nat /\ 0 <= clock
  BY DEF IInv, TypeOK
<1>6. command[c] # None =>
        /\ command[c].op # "renew" => command[c].key \in Keys
        /\ command[c].op # "claim" =>
              /\ command[c].execution \in Executions /\ Exists(command[c].execution)
              /\ attempt[command[c].execution].task = command[c].task
  BY DEF IInv, CommandIsBound
<1>7. answer' = [answer EXCEPT ![c] = r] /\ trusted' = [trusted EXCEPT ![c] = 0]
  BY DEF Answer
<1> QED
  BY <1>1, <1>2, <1>3, <1>4, <1>5, <1>6, <1>7, ClientStep

LEMMA PreflightPreserves ==
    ASSUME IInv, NEW c \in Clients, Preflight(c)
    PROVE  IInv'
<1>1. command[c] # None /\ phase[c] # "idle"
  BY DEF Preflight, IInv, CommandIsBound
<1>2. UNCHANGED <<clock, sequence, attempt>> /\ UNCHANGED envVars
  BY DEF Preflight
<1>3. CASE \E e \in UnderKey(command[c]) : command[c].op # "renew" /\ Answer(c, Replayed(c, e))
  BY <1>1, <1>2, <1>3, ReplayIsGood, AnswerPreserves DEF IInv
<1>4. CASE Answer(c, Refused)
  BY <1>1, <1>2, <1>4, PlainAnswersGood, AnswerPreserves
<1>5. CASE /\ phase' = [phase EXCEPT ![c] = "transaction"]
           /\ trusted' = [trusted EXCEPT ![c] = clock]
           /\ UNCHANGED <<command, answer>>
  <2>1. command' = [command EXCEPT ![c] = command[c]] /\ command[c] \in Commands \cup {None}
    BY <1>5 DEF IInv, TypeOK
  <2>2. answer' = [answer EXCEPT ![c] = answer[c]] /\ Good(c, answer[c])
    BY <1>5, GoodAnswers DEF IInv, TypeOK
  <2>3. phase' \in [Clients -> {"idle", "submitted", "transaction", "answered"}]
    BY <1>5 DEF IInv, TypeOK
  <2>4. \A d \in Clients \ {c} : phase'[d] = phase[d]
    BY <1>5 DEF IInv, TypeOK
  <2>5. clock \in Nat /\ clock <= clock
    BY DEF IInv, TypeOK
  <2>6. command[c] # None =>
          /\ command[c].op # "renew" => command[c].key \in Keys
          /\ command[c].op # "claim" =>
                /\ command[c].execution \in Executions /\ Exists(command[c].execution)
                /\ attempt[command[c].execution].task = command[c].task
    BY DEF IInv, CommandIsBound
  <2> QED
    BY <1>1, <1>2, <1>5, <2>1, <2>2, <2>3, <2>4, <2>5, <2>6, ClientStep
<1> QED
  BY <1>3, <1>4, <1>5 DEF Preflight

LEMMA ReturnPreserves ==
    ASSUME IInv, NEW c \in Clients, TransactionReturns(c) \/ ClaimNotEligible(c)
    PROVE  IInv'
<1>1. command[c] # None /\ phase[c] # "idle"
  BY DEF TransactionReturns, ClaimNotEligible, IInv, CommandIsBound
<1>2. UNCHANGED <<clock, sequence, attempt>> /\ UNCHANGED envVars
  BY DEF TransactionReturns, ClaimNotEligible
<1>3. CASE \E e \in UnderKey(command[c]) : command[c].op # "renew" /\ Answer(c, Replayed(c, e))
  BY <1>1, <1>2, <1>3, ReplayIsGood, AnswerPreserves DEF IInv
<1>4. CASE Answer(c, Refused) \/ Answer(c, Denied)
  BY <1>1, <1>2, <1>4, PlainAnswersGood, AnswerPreserves
<1> QED
  BY <1>3, <1>4 DEF TransactionReturns, ClaimNotEligible

-----------------------------------------------------------------------------
(* The steps that write rows.  No step ever changes the Task, the owner or *)
(* the key of a row, or removes one.                                       *)

RowsKept ==
    \A f \in Executions :
        Exists(f) => /\ attempt'[f] # None
                     /\ attempt'[f].task = attempt[f].task
                     /\ attempt'[f].owner = attempt[f].owner
                     /\ attempt'[f].key = attempt[f].key

(* What a client of "ok" is told. *)
OkIsOwned ==
    \A c \in Clients :
        (answer[c] # None /\ answer[c].result = "ok") =>
           LET a == attempt[answer[c].execution] IN
           /\ a.owner = c
           /\ a.task = command[c].task
           /\ command[c].op # "renew" => a.key = command[c].key

ClientTypes ==
    /\ phase \in [Clients -> {"idle", "submitted", "transaction", "answered"}]
    /\ command \in [Clients -> Commands \cup {None}]
    /\ trusted \in [Clients -> Nat]
    /\ answer \in [Clients -> Answers]

LEMMA OkAnswer ==
    ASSUME IInv, NEW c \in Clients, phase[c] # "idle", NEW e \in Executions,
           Answer(c, [result |-> "ok", execution |-> e]),
           clock' = clock, RowsKept,
           attempt'[e] # None, attempt'[e].owner = c, attempt'[e].task = command[c].task,
           command[c].op # "renew" => attempt'[e].key = command[c].key
    PROVE  ClientTypes' /\ OkIsOwned' /\ CommandIsBound' /\ AnswerIsBound' /\ TrustedIsPast'
<1> DEFINE ok == [result |-> "ok", execution |-> e]
<1>1. command[c] # None
  BY DEF IInv, CommandIsBound
<1>2. ok \in Answers /\ ok.result = "ok" /\ ok.execution = e
  <2>1. ok \in [result : {"ok"}, execution : Executions]
    OBVIOUS
  <2> QED
    BY <2>1 DEF Answers
<1> HIDE DEF ok
<1>3. /\ phase' = [phase EXCEPT ![c] = "answered"] /\ answer' = [answer EXCEPT ![c] = ok]
      /\ trusted' = [trusted EXCEPT ![c] = 0] /\ command' = command
  BY DEF Answer, ok
<1>4. /\ answer'[c] = ok /\ \A d \in Clients \ {c} : answer'[d] = answer[d]
      /\ trusted'[c] = 0 /\ \A d \in Clients \ {c} : trusted'[d] = trusted[d]
      /\ phase'[c] = "answered" /\ \A d \in Clients \ {c} : phase'[d] = phase[d]
  BY <1>3 DEF IInv, TypeOK
<1>5. ClientTypes'
  BY <1>2, <1>3 DEF IInv, TypeOK, ClientTypes, Answers
<1>6. OkIsOwned'
  <2> SUFFICES ASSUME NEW d \in Clients, answer'[d] # None, answer'[d].result = "ok"
               PROVE  LET a == attempt'[answer'[d].execution] IN
                      /\ a.owner = d
                      /\ a.task = command'[d].task
                      /\ command'[d].op # "renew" => a.key = command'[d].key
    BY DEF OkIsOwned
  <2>1. CASE d = c
    BY <1>2, <1>3, <1>4, <2>1
  <2>2. CASE d # c
    <3>1. answer[d] # None /\ answer[d].result = "ok" /\ answer'[d] = answer[d]
      BY <1>4, <2>2
    <3>2. answer[d].execution \in Executions /\ Exists(answer[d].execution)
      BY <3>1 DEF IInv, AnswerIsBound, TypeOK
    <3>3. LET a == attempt[answer[d].execution] IN
          /\ a.owner = d /\ a.task = command[d].task
          /\ command[d].op # "renew" => a.key = command[d].key
      BY <3>1 DEF IInv, KeyNamesOneExecution
    <3> QED
      BY <1>3, <3>1, <3>2, <3>3 DEF RowsKept
  <2> QED
    BY <2>1, <2>2
<1>7. CommandIsBound'
  BY <1>1, <1>3, <1>4 DEF IInv, CommandIsBound, RowsKept, Exists
<1>8. AnswerIsBound'
  <2> SUFFICES ASSUME NEW d \in Clients, answer'[d] # None
               PROVE  /\ command[d] # None
                      /\ answer'[d].result = "ok" => attempt'[answer'[d].execution] # None
    BY <1>3 DEF AnswerIsBound, Exists
  <2>1. CASE d = c
    BY <1>1, <1>2, <1>4, <2>1
  <2>2. CASE d # c
    <3>1. answer'[d] = answer[d]
      BY <1>4, <2>2
    <3>2. answer[d].result = "ok" => answer[d].execution \in Executions /\ Exists(answer[d].execution)
      BY <3>1 DEF IInv, AnswerIsBound, TypeOK
    <3> QED
      BY <3>1, <3>2 DEF IInv, AnswerIsBound, RowsKept
  <2> QED
    BY <2>1, <2>2
<1>9. TrustedIsPast'
  BY <1>4 DEF IInv, TrustedIsPast, TypeOK
<1> QED
  BY <1>5, <1>6, <1>7, <1>8, <1>9

(* A new row under an unused key keeps the keys apart. *)
LEMMA NewKey ==
    ASSUME IInv, NEW c \in Clients, NEW m, m.key \in Keys, UnderKey(m) = {}, RowsKept,
           NEW e \in Executions, ~Exists(e), attempt'[e].key = m.key,
           \A f \in Executions \ {e} : attempt'[f] # None => Exists(f)
    PROVE  \A f, g \in Executions :
             (attempt'[f] # None /\ attempt'[g] # None /\ f # g) => attempt'[f].key # attempt'[g].key
  BY DEF IInv, KeyNamesOneExecution, UnderKey, RowsKept

LEMMA ClaimPreserves ==
    ASSUME IInv, NEW c \in Clients, NEW e \in Executions, Claim(c, e)
    PROVE  IInv'
<1> DEFINE m == command[c]
           row == NewAttempt(m, c, 1, m.taskRevision + 1)
<1>1. /\ phase[c] # "idle" /\ m \in Commands /\ m.op = "claim" /\ m.key \in Keys /\ m.task \in Tasks
      /\ m.taskRevision \in Nat /\ UnderKey(m) = {} /\ ~Exists(e)
      /\ taskState[m.task] = "ready" /\ sequence[m.task] = 0
  <2>1. phase[c] # "idle" /\ m.op = "claim" /\ m # None /\ m.op # "renew"
    BY DEF Claim, IInv, CommandIsBound
  <2>2. m.key \in Keys
    BY <2>1 DEF IInv, CommandIsBound
  <2>3. m \in Commands
    BY <2>1, StoredCommand DEF IInv
  <2> QED
    BY <2>1, <2>2, <2>3, CommandFields DEF Claim, ClaimAdmissible
<1>2. /\ row \in Attempts /\ row # None /\ row.task = m.task /\ row.key = m.key
      /\ row.owner = c /\ row.status = "active" /\ row.fence = 1
  <2>1. m.taskRevision + 1 \in Nat /\ 1 \in Nat
    BY <1>1
  <2> QED
    BY <1>1, <2>1, NewAttemptType DEF IInv
<1>3. /\ sequence' = [sequence EXCEPT ![m.task] = 1]
      /\ attempt' = [attempt EXCEPT ![e] = row]
      /\ taskState' = [taskState EXCEPT ![m.task] = "running"]
      /\ taskRevision' = [taskRevision EXCEPT ![m.task] = @ + 1]
      /\ Answer(c, [result |-> "ok", execution |-> e])
      /\ UNCHANGED <<clock, project, unfinished, journal>>
  BY DEF Claim
<1> HIDE DEF m, row
<1>4. attempt'[e] = row /\ \A f \in Executions \ {e} : attempt'[f] = attempt[f]
  BY <1>3 DEF IInv, TypeOK
<1>5. sequence'[m.task] = 1 /\ \A t \in Tasks \ {m.task} : sequence'[t] = sequence[t]
  BY <1>1, <1>3 DEF IInv, TypeOK
<1>6. RowsKept
  BY <1>1, <1>4 DEF RowsKept, Exists
<1>7. ClientTypes' /\ OkIsOwned' /\ CommandIsBound' /\ AnswerIsBound' /\ TrustedIsPast'
  <2>1. attempt'[e] # None /\ attempt'[e].owner = c /\ attempt'[e].task = command[c].task
        /\ attempt'[e].key = command[c].key
    BY <1>2, <1>4 DEF m
  <2> QED
    BY <1>1, <1>3, <1>6, <2>1, OkAnswer
<1>8. TypeOK'
  <2>1. sequence' \in [Tasks -> Nat] /\ taskRevision' \in [Tasks -> Nat]
    BY <1>1, <1>3 DEF IInv, TypeOK
  <2>2. taskState' \in [Tasks -> {"ready", "running", "waiting", "completed"}]
    BY <1>1, <1>3 DEF IInv, TypeOK
  <2>3. attempt' \in [Executions -> Attempts \cup {None}]
    BY <1>2, <1>3 DEF IInv, TypeOK
  <2> QED
    BY <1>3, <1>7, <2>1, <2>2, <2>3 DEF IInv, TypeOK, ClientTypes, Answers
<1>9. \A f \in Executions : Exists(f) => attempt[f] \in Attempts /\ attempt[f].task \in Tasks \ {m.task}
  <2> SUFFICES ASSUME NEW f \in Executions, Exists(f)
               PROVE  attempt[f] \in Attempts /\ attempt[f].task \in Tasks \ {m.task}
    OBVIOUS
  <2>1. attempt[f] \in Attempts
    BY ExistingRow DEF IInv
  <2>2. attempt[f].fence \in 1..sequence[attempt[f].task] /\ attempt[f].task \in Tasks
    BY <2>1, RowFields DEF IInv, OneCurrentAttempt
  <2>3. attempt[f].task # m.task
    BY <1>1, <2>2
  <2> QED
    BY <2>1, <2>2, <2>3
<1>10. OneCurrentAttempt'
  <2>1. ASSUME NEW f \in Executions, NEW g \in Executions,
               attempt'[f] # None, attempt'[g] # None, f # g, attempt'[f].task = attempt'[g].task
        PROVE  attempt'[f].fence # attempt'[g].fence
    BY <1>2, <1>4, <1>9, <2>1 DEF IInv, OneCurrentAttempt, Exists
  <2>2. ASSUME NEW f \in Executions, attempt'[f] # None
        PROVE  /\ attempt'[f].fence \in 1..sequence'[attempt'[f].task]
               /\ (attempt'[f].status = "active")
                     <=> (attempt'[f].fence = sequence'[attempt'[f].task])
    <3>1. CASE f = e
      BY <1>2, <1>4, <1>5, <3>1
    <3>2. CASE f # e
      <4>1. attempt'[f] = attempt[f] /\ Exists(f)
        BY <1>4, <2>2, <3>2 DEF Exists
      <4>2. sequence'[attempt[f].task] = sequence[attempt[f].task]
        BY <1>5, <1>9, <4>1
      <4> QED
        BY <4>1, <4>2 DEF IInv, OneCurrentAttempt
    <3> QED
      BY <3>1, <3>2
  <2>3. ASSUME NEW t \in Tasks, taskState'[t] # "ready"
        PROVE  \E f \in Executions :
                 attempt'[f] # None /\ attempt'[f].status = "active" /\ attempt'[f].task = t
    <3>1. CASE t = m.task
      BY <1>2, <1>4, <3>1
    <3>2. CASE t # m.task
      <4>1. taskState[t] # "ready"
        BY <1>3, <2>3, <3>2 DEF IInv, TypeOK
      <4>2. PICK f \in Executions : Active(f) /\ attempt[f].task = t
        BY <4>1 DEF IInv, OneCurrentAttempt
      <4>3. f # e
        BY <1>1, <4>2 DEF Active
      <4> QED
        BY <1>4, <4>2, <4>3 DEF Active, Exists
    <3> QED
      BY <3>1, <3>2
  <2> QED
    BY <2>1, <2>2, <2>3 DEF OneCurrentAttempt, Exists, Active
<1>11. KeyNamesOneExecution'
  <2>1. attempt'[e].key = m.key /\ \A f \in Executions \ {e} : attempt'[f] # None => Exists(f)
    BY <1>2, <1>4 DEF Exists
  <2>2. \A f, g \in Executions :
          (attempt'[f] # None /\ attempt'[g] # None /\ f # g) => attempt'[f].key # attempt'[g].key
    BY <1>1, <1>6, <2>1, NewKey
  <2> QED
    BY <1>7, <2>2 DEF KeyNamesOneExecution, OkIsOwned, Exists
<1> QED
  BY <1>7, <1>8, <1>10, <1>11 DEF IInv

LEMMA TakeoverPreserves ==
    ASSUME IInv, NEW c \in Clients, NEW e \in Executions, Takeover(c, e)
    PROVE  IInv'
<1> DEFINE m == command[c]
           p == m.execution
           old == [attempt[p] EXCEPT !.status = "superseded", !.supersededBy = e,
                                     !.revision = @ + 1, !.updatedAt = trusted[c]]
           row == NewAttempt(m, c, sequence[m.task] + 1, m.taskRevision)
<1>1. /\ phase[c] # "idle" /\ m \in Commands /\ m # None /\ m.op = "takeover" /\ m.key \in Keys
      /\ m.task \in Tasks /\ m.taskRevision \in Nat /\ UnderKey(m) = {} /\ ~Exists(e)
  <2>1. phase[c] # "idle" /\ m.op = "takeover" /\ m # None /\ m.op # "renew"
    BY DEF Takeover, IInv, CommandIsBound
  <2>2. m.key \in Keys
    BY <2>1 DEF IInv, CommandIsBound
  <2>3. m \in Commands
    BY <2>1, StoredCommand DEF IInv
  <2> QED
    BY <2>1, <2>2, <2>3, CommandFields DEF Takeover
<1>2. CASE attempt[p].postTaskRevision # m.taskRevision
  <2>1. Answer(c, Refused) /\ UNCHANGED <<clock, sequence, attempt>> /\ UNCHANGED envVars
    BY <1>2 DEF Takeover
  <2> QED
    BY <1>1, <2>1, PlainAnswersGood, AnswerPreserves
<1>3. CASE attempt[p].postTaskRevision = m.taskRevision
  <2>1. /\ sequence' = [sequence EXCEPT ![m.task] = @ + 1]
        /\ attempt' = [attempt EXCEPT ![p] = old, ![e] = row]
        /\ Answer(c, [result |-> "ok", execution |-> e])
        /\ clock' = clock /\ UNCHANGED envVars
    BY <1>3 DEF Takeover
  <2>2. /\ p \in Executions /\ Exists(p) /\ attempt[p].task = m.task /\ p # e
        /\ attempt[p] \in Attempts
    <3>1. p \in Executions /\ Exists(p) /\ attempt[p].task = m.task
      BY <1>1 DEF IInv, CommandIsBound
    <3> QED
      BY <1>1, <3>1, ExistingRow DEF IInv
  <2>3. attempt[p].status = "active" /\ attempt[p].fence = sequence[m.task]
    BY DEF Takeover, TakeoverAdmissible
  <2>4. /\ old \in Attempts /\ old # None /\ old.status = "superseded" /\ old.task = m.task
        /\ old.fence = attempt[p].fence /\ old.owner = attempt[p].owner /\ old.key = attempt[p].key
    <3>1. trusted[c] \in Nat /\ attempt[p].revision + 1 \in Nat
      BY <2>2, RowFields DEF IInv, TypeOK
    <3>2. old \in Attempts
      BY <2>2, <3>1 DEF Attempts
    <3> QED
      BY <2>2, <3>2, AbsentAssumption DEF Attempts
  <2>5. /\ row \in Attempts /\ row # None /\ row.task = m.task /\ row.key = m.key
        /\ row.owner = c /\ row.status = "active" /\ row.fence = sequence[m.task] + 1
    <3>1. sequence[m.task] + 1 \in Nat
      BY <1>1 DEF IInv, TypeOK
    <3> QED
      BY <1>1, <3>1, NewAttemptType DEF IInv
  <2> HIDE DEF m, p, old, row
  <2>6. /\ attempt'[e] = row /\ attempt'[p] = old
        /\ \A f \in Executions \ {e, p} : attempt'[f] = attempt[f]
    BY <2>1, <2>2 DEF IInv, TypeOK
  <2>7. /\ sequence[m.task] \in Nat /\ sequence'[m.task] = sequence[m.task] + 1
        /\ \A t \in Tasks \ {m.task} : sequence'[t] = sequence[t]
    BY <1>1, <2>1 DEF IInv, TypeOK
  <2>8. RowsKept
    BY <1>1, <2>2, <2>4, <2>6 DEF RowsKept, Exists
  <2>9. ClientTypes' /\ OkIsOwned' /\ CommandIsBound' /\ AnswerIsBound' /\ TrustedIsPast'
    <3>1. attempt'[e] # None /\ attempt'[e].owner = c /\ attempt'[e].task = command[c].task
          /\ attempt'[e].key = command[c].key
      BY <2>5, <2>6 DEF m
    <3> QED
      BY <1>1, <2>1, <2>8, <3>1, OkAnswer
  <2>10. TypeOK'
    <3>1. sequence' \in [Tasks -> Nat]
      BY <1>1, <2>1 DEF IInv, TypeOK
    <3>2. attempt' \in [Executions -> Attempts \cup {None}]
      BY <2>1, <2>4, <2>5 DEF IInv, TypeOK
    <3> QED
      BY <2>1, <2>9, <3>1, <3>2 DEF IInv, TypeOK, ClientTypes, Answers, envVars
  <2>11. \A f \in Executions : Exists(f) =>
            /\ attempt[f].fence \in Nat /\ attempt[f].task \in Tasks
            /\ attempt[f].task = m.task => attempt[f].fence <= sequence[m.task]
            /\ attempt[f].task = m.task /\ f # p => attempt[f].fence # sequence[m.task]
    <3> SUFFICES ASSUME NEW f \in Executions, Exists(f)
                 PROVE  /\ attempt[f].fence \in Nat /\ attempt[f].task \in Tasks
                        /\ attempt[f].task = m.task => attempt[f].fence <= sequence[m.task]
                        /\ attempt[f].task = m.task /\ f # p => attempt[f].fence # sequence[m.task]
      OBVIOUS
    <3>1. attempt[f].fence \in Nat /\ attempt[f].task \in Tasks
      BY ExistingRow, RowFields DEF IInv
    <3>2. attempt[f].task = m.task => attempt[f].fence <= sequence[m.task]
      BY <2>7, <3>1 DEF IInv, OneCurrentAttempt
    <3>3. attempt[f].task = m.task /\ f # p => attempt[f].fence # sequence[m.task]
      BY <2>2, <2>3, <3>1 DEF IInv, OneCurrentAttempt
    <3> QED
      BY <3>1, <3>2, <3>3
  <2>12. OneCurrentAttempt'
    <3>1. ASSUME NEW f \in Executions, NEW g \in Executions,
                 attempt'[f] # None, attempt'[g] # None, f # g, attempt'[f].task = attempt'[g].task
          PROVE  attempt'[f].fence # attempt'[g].fence
      <4>1. \A x \in Executions \ {e} : attempt'[x] # None =>
               Exists(x) /\ attempt'[x].task = attempt[x].task /\ attempt'[x].fence = attempt[x].fence
        BY <2>2, <2>4, <2>6 DEF Exists
      <4>2. CASE f # e /\ g # e
        BY <3>1, <4>1, <4>2 DEF IInv, OneCurrentAttempt
      <4>3. CASE f = e
        BY <2>5, <2>6, <2>7, <2>11, <3>1, <4>1, <4>3
      <4>4. CASE g = e
        BY <2>5, <2>6, <2>7, <2>11, <3>1, <4>1, <4>4
      <4> QED
        BY <4>2, <4>3, <4>4
    <3>2. ASSUME NEW f \in Executions, attempt'[f] # None
          PROVE  /\ attempt'[f].fence \in 1..sequence'[attempt'[f].task]
                 /\ (attempt'[f].status = "active")
                       <=> (attempt'[f].fence = sequence'[attempt'[f].task])
      <4>1. CASE f = e
        BY <2>5, <2>6, <2>7, <4>1
      <4>2. CASE f = p
        <5>1. attempt[p].fence \in 1..sequence[m.task]
          BY <2>2 DEF IInv, OneCurrentAttempt
        <5> QED
          BY <2>3, <2>4, <2>6, <2>7, <4>2, <5>1
      <4>3. CASE f # e /\ f # p
        <5>1. attempt'[f] = attempt[f] /\ Exists(f)
          BY <2>6, <3>2, <4>3 DEF Exists
        <5>2. /\ attempt[f].fence \in 1..sequence[attempt[f].task]
              /\ (attempt[f].status = "active") <=> (attempt[f].fence = sequence[attempt[f].task])
          BY <5>1 DEF IInv, OneCurrentAttempt
        <5>3. CASE attempt[f].task = m.task
          BY <2>7, <2>11, <4>3, <5>1, <5>2, <5>3
        <5>4. CASE attempt[f].task # m.task
          BY <2>7, <2>11, <5>1, <5>2, <5>4
        <5> QED
          BY <5>3, <5>4
      <4> QED
        BY <4>1, <4>2, <4>3
    <3>3. ASSUME NEW t \in Tasks, taskState'[t] # "ready"
          PROVE  \E f \in Executions :
                   attempt'[f] # None /\ attempt'[f].status = "active" /\ attempt'[f].task = t
      <4>1. CASE t = m.task
        BY <2>5, <2>6, <4>1
      <4>2. CASE t # m.task
        <5>1. taskState[t] # "ready"
          BY <2>1, <3>3 DEF envVars
        <5>2. PICK f \in Executions : Active(f) /\ attempt[f].task = t
          BY <5>1 DEF IInv, OneCurrentAttempt
        <5>3. f # e /\ f # p
          BY <1>1, <2>2, <4>2, <5>2 DEF Active
        <5> QED
          BY <2>6, <5>2, <5>3 DEF Active, Exists
      <4> QED
        BY <4>1, <4>2
    <3> QED
      BY <3>1, <3>2, <3>3 DEF OneCurrentAttempt, Exists, Active
  <2>13. KeyNamesOneExecution'
    <3>1. attempt'[e].key = m.key /\ \A f \in Executions \ {e} : attempt'[f] # None => Exists(f)
      BY <2>2, <2>5, <2>6 DEF Exists
    <3>2. \A f, g \in Executions :
            (attempt'[f] # None /\ attempt'[g] # None /\ f # g) => attempt'[f].key # attempt'[g].key
      BY <1>1, <2>8, <3>1, NewKey
    <3> QED
      BY <2>9, <3>2 DEF KeyNamesOneExecution, OkIsOwned, Exists
  <2> QED
    BY <2>9, <2>10, <2>12, <2>13 DEF IInv
<1> QED
  BY <1>2, <1>3

LEMMA RenewPreserves ==
    ASSUME IInv, NEW c \in Clients, Renew(c)
    PROVE  IInv'
<1> DEFINE m == command[c]
           e == m.execution
           row == [attempt[e] EXCEPT !.leaseRevision = @ + 1, !.revision = @ + 1,
                                     !.expires = trusted[c] + m.duration,
                                     !.updatedAt = trusted[c]]
<1>1. /\ phase[c] # "idle" /\ m \in Commands /\ m # None /\ m.op = "renew" /\ m.duration \in Nat
      /\ e \in Executions /\ Exists(e) /\ attempt[e] \in Attempts /\ attempt[e].task = m.task
      /\ attempt[e].owner = c
  <2>1. phase[c] # "idle" /\ m.op = "renew" /\ m # None
    BY DEF Renew, IInv, CommandIsBound
  <2>2. m \in Commands
    BY <2>1, StoredCommand DEF IInv
  <2>3. e \in Executions /\ Exists(e) /\ attempt[e].task = m.task
    BY <2>1 DEF IInv, CommandIsBound
  <2>4. attempt[e] \in Attempts
    BY <2>3, ExistingRow DEF IInv
  <2> QED
    BY <2>1, <2>2, <2>3, <2>4, CommandFields DEF Renew, RenewAdmissible
<1>2. CASE attempt[e].postTaskRevision # m.taskRevision
  <2>1. Answer(c, Refused) /\ UNCHANGED <<clock, sequence, attempt>> /\ UNCHANGED envVars
    BY <1>2 DEF Renew
  <2> QED
    BY <1>1, <2>1, PlainAnswersGood, AnswerPreserves
<1>3. CASE attempt[e].postTaskRevision = m.taskRevision
  <2>1. /\ attempt' = [attempt EXCEPT ![e] = row]
        /\ Answer(c, [result |-> "ok", execution |-> e])
        /\ clock' = clock /\ sequence' = sequence /\ UNCHANGED envVars
    BY <1>3 DEF Renew
  <2>2. /\ row \in Attempts /\ row # None /\ row.task = attempt[e].task /\ row.key = attempt[e].key
        /\ row.owner = c /\ row.status = attempt[e].status /\ row.fence = attempt[e].fence
    <3>1. /\ trusted[c] \in Nat /\ trusted[c] + m.duration \in Nat
          /\ attempt[e].revision + 1 \in Nat /\ attempt[e].leaseRevision + 1 \in Nat
      BY <1>1, RowFields DEF IInv, TypeOK
    <3>2. row \in Attempts
      BY <1>1, <3>1 DEF Attempts
    <3> QED
      BY <1>1, <3>2, AbsentAssumption DEF Attempts
  <2> HIDE DEF m, e, row
  <2>3. attempt'[e] = row /\ \A f \in Executions \ {e} : attempt'[f] = attempt[f]
    BY <1>1, <2>1 DEF IInv, TypeOK
  <2>4. \A f \in Executions :
          /\ attempt'[f] # None <=> Exists(f)
          /\ Exists(f) => /\ attempt'[f].task = attempt[f].task /\ attempt'[f].key = attempt[f].key
                          /\ attempt'[f].owner = attempt[f].owner
                          /\ attempt'[f].status = attempt[f].status
                          /\ attempt'[f].fence = attempt[f].fence
    BY <1>1, <2>2, <2>3 DEF Exists
  <2>5. RowsKept
    BY <2>4 DEF RowsKept
  <2>6. ClientTypes' /\ OkIsOwned' /\ CommandIsBound' /\ AnswerIsBound' /\ TrustedIsPast'
    <3>1. attempt'[e] # None /\ attempt'[e].owner = c /\ attempt'[e].task = command[c].task
          /\ command[c].op = "renew"
      BY <1>1, <2>2, <2>3 DEF m
    <3> QED
      BY <1>1, <2>1, <2>5, <3>1, OkAnswer
  <2>7. TypeOK'
    <3>1. attempt' \in [Executions -> Attempts \cup {None}]
      BY <2>1, <2>2 DEF IInv, TypeOK
    <3> QED
      BY <2>1, <2>6, <3>1 DEF IInv, TypeOK, ClientTypes, Answers, envVars
  <2>8. OneCurrentAttempt'
    BY <2>1, <2>4 DEF IInv, OneCurrentAttempt, Exists, Active, envVars
  <2>9. KeyNamesOneExecution'
    BY <2>4, <2>6 DEF IInv, KeyNamesOneExecution, OkIsOwned, Exists
  <2> QED
    BY <2>6, <2>7, <2>8, <2>9 DEF IInv
<1> QED
  BY <1>2, <1>3

LEMMA SubmitsPreserve ==
    ASSUME IInv, NEW c \in Clients, SubmitClaim(c) \/ SubmitRenew(c) \/ SubmitTakeover(c)
    PROVE  IInv'
<1>1. CASE SubmitClaim(c)
  <2>1. PICK t \in Tasks, k \in Keys, d \in Durations : Submit(c, ClaimCommand(t, k, d))
    BY <1>1 DEF SubmitClaim
  <2>2. ClaimCommand(t, k, d) \in Commands
    BY ClaimCommandType DEF IInv
  <2>3. ClaimCommand(t, k, d).key \in Keys /\ ClaimCommand(t, k, d).op = "claim"
    BY DEF ClaimCommand
  <2> QED
    BY <2>1, <2>2, <2>3, SubmitPreserves
<1>2. ASSUME NEW kind \in {"renew", "takeover"}, NEW e \in Executions, Exists(e),
             NEW k \in Keys \cup {None}, NEW d \in Durations, kind = "takeover" => k \in Keys,
             Submit(c, AttemptCommand(kind, e, k, d))
      PROVE  IInv'
  <2>1. AttemptCommand(kind, e, k, d) \in Commands
    BY <1>2, AttemptCommandType DEF IInv
  <2>2. LET m == AttemptCommand(kind, e, k, d) IN
        m.key = k /\ m.op = kind /\ m.execution = e /\ m.task = attempt[e].task
    BY DEF AttemptCommand
  <2> QED
    BY <1>2, <2>1, <2>2, SubmitPreserves
<1>3. CASE SubmitRenew(c)
  BY <1>2, <1>3 DEF SubmitRenew
<1>4. CASE SubmitTakeover(c)
  BY <1>2, <1>4 DEF SubmitTakeover
<1> QED
  BY <1>1, <1>3, <1>4

-----------------------------------------------------------------------------
(* What happens around the service: no row and no client changes, and only *)
(* a Task that is not ready changes its state.                             *)

LEMMA SurroundingPreserves ==
    ASSUME IInv, UNCHANGED <<sequence, attempt>>, UNCHANGED clientVars,
           clock' \in Nat, clock <= clock',
           project' \in [enabled : BOOLEAN, revision : Nat],
           taskState' \in [Tasks -> {"ready", "running", "waiting", "completed"}],
           taskRevision' \in [Tasks -> Nat],
           unfinished' \subseteq Executions, journal' \in [Executions -> SUBSET Backends],
           \A t \in Tasks : taskState'[t] # "ready" => taskState[t] # "ready"
    PROVE  IInv'
<1> USE DEF IInv
<1>1. TypeOK'
  BY DEF TypeOK, clientVars
<1>2. OneCurrentAttempt'
  BY DEF OneCurrentAttempt, Exists, Active
<1>3. KeyNamesOneExecution' /\ CommandIsBound' /\ AnswerIsBound'
  BY DEF KeyNamesOneExecution, CommandIsBound, AnswerIsBound, Exists, clientVars
<1>4. TrustedIsPast'
  BY DEF TrustedIsPast, TypeOK, clientVars
<1> QED
  BY <1>1, <1>2, <1>3, <1>4

LEMMA EnvironmentPreserves ==
    ASSUME IInv,
           \/ Tick \/ ChangeProject \/ UNCHANGED vars
           \/ \E t \in Tasks : UpdateTaskBody(t)
           \/ \E e \in Executions : LoopPrepare(e) \/ LoopComplete(e)
           \/ \E e \in Executions, b \in Backends, w \in BOOLEAN : LoopFinalize(e, b, w)
    PROVE  IInv'
<1>0. TypeOK
  BY DEF IInv
<1>1. CASE Tick
  <2>1. clock' \in Nat /\ clock <= clock'
    BY <1>0, <1>1 DEF Tick, TypeOK
  <2> QED
    BY <1>0, <1>1, <2>1, SurroundingPreserves DEF Tick, TypeOK
<1>2. CASE ChangeProject
  <2>1. project' \in [enabled : BOOLEAN, revision : Nat]
    <3>1. project.revision + 1 \in Nat
      BY <1>0 DEF TypeOK
    <3> QED
      BY <1>2, <3>1 DEF ChangeProject
  <2> QED
    BY <1>0, <1>2, <2>1, SurroundingPreserves DEF ChangeProject, TypeOK
<1>3. CASE UNCHANGED vars
  BY <1>0, <1>3, SurroundingPreserves DEF vars, clientVars, TypeOK
<1>4. ASSUME NEW t \in Tasks, UpdateTaskBody(t) PROVE IInv'
  <2>1. taskRevision' \in [Tasks -> Nat]
    BY <1>0, <1>4 DEF UpdateTaskBody, TypeOK
  <2> QED
    BY <1>0, <1>4, <2>1, SurroundingPreserves DEF UpdateTaskBody, TypeOK
<1>5. ASSUME NEW e \in Executions, LoopPrepare(e) PROVE IInv'
  BY <1>0, <1>5, SurroundingPreserves DEF LoopPrepare, TypeOK
<1>6. ASSUME NEW e \in Executions, Exists(e) PROVE attempt[e].task \in Tasks
  BY <1>0, <1>6, ExistingRow, RowFields
<1>7. ASSUME NEW e \in Executions, LoopComplete(e) PROVE IInv'
  <2> DEFINE t == attempt[e].task
  <2>1. t \in Tasks /\ taskState[t] = "running"
    BY <1>6, <1>7 DEF LoopComplete, Bound, Active
  <2>2. taskRevision' = [taskRevision EXCEPT ![t] = @ + 1]
        /\ taskState' = [taskState EXCEPT ![t] = "completed"]
    BY <1>7 DEF LoopComplete
  <2> HIDE DEF t
  <2>3. taskRevision' \in [Tasks -> Nat]
    BY <1>0, <2>1, <2>2 DEF TypeOK
  <2>4. taskState' \in [Tasks -> {"ready", "running", "waiting", "completed"}]
        /\ \A u \in Tasks : taskState'[u] # "ready" => taskState[u] # "ready"
    BY <1>0, <2>1, <2>2 DEF TypeOK
  <2> QED
    BY <1>0, <1>7, <2>3, <2>4, SurroundingPreserves DEF LoopComplete, TypeOK
<1>8. ASSUME NEW e \in Executions, NEW b \in Backends, NEW w \in BOOLEAN, LoopFinalize(e, b, w)
      PROVE  IInv'
  <2> DEFINE t == attempt[e].task
  <2>1. t \in Tasks /\ taskState[t] = "running"
    BY <1>6, <1>8 DEF LoopFinalize, Active
  <2>2. /\ taskRevision' = [taskRevision EXCEPT ![t] = IF w THEN @ + 1 ELSE @]
        /\ taskState' = [taskState EXCEPT ![t] = IF w THEN "waiting" ELSE "running"]
        /\ journal' = [journal EXCEPT ![e] = @ \cup {b}]
    BY <1>8 DEF LoopFinalize
  <2> HIDE DEF t
  <2>3. taskRevision' \in [Tasks -> Nat]
    BY <1>0, <2>1, <2>2 DEF TypeOK
  <2>4. taskState' \in [Tasks -> {"ready", "running", "waiting", "completed"}]
        /\ \A u \in Tasks : taskState'[u] # "ready" => taskState[u] # "ready"
    BY <1>0, <2>1, <2>2 DEF TypeOK
  <2>5. journal' \in [Executions -> SUBSET Backends]
    BY <1>0, <2>2 DEF TypeOK
  <2>6. UNCHANGED <<clock, project, sequence, attempt>> /\ UNCHANGED clientVars
        /\ unfinished' \subseteq Executions
    BY <1>0, <1>8 DEF LoopFinalize, TypeOK
  <2> QED
    BY <1>0, <2>3, <2>4, <2>5, <2>6, SurroundingPreserves DEF TypeOK
<1> QED
  BY <1>1, <1>2, <1>3, <1>4, <1>5, <1>7, <1>8

-----------------------------------------------------------------------------
LEMMA InitEstablishes == Init => IInv
<1> SUFFICES ASSUME Init PROVE IInv
  OBVIOUS
<1>1. TypeOK
  BY DEF Init, TypeOK
<1>2. OneCurrentAttempt /\ KeyNamesOneExecution
  BY DEF Init, OneCurrentAttempt, KeyNamesOneExecution, Exists, Active
<1>3. CommandIsBound /\ AnswerIsBound /\ TrustedIsPast
  BY DEF Init, CommandIsBound, AnswerIsBound, TrustedIsPast
<1> QED
  BY <1>1, <1>2, <1>3 DEF IInv

LEMMA NextPreserves == IInv /\ [Next]_vars => IInv'
<1> SUFFICES ASSUME IInv, [Next]_vars PROVE IInv'
  OBVIOUS
<1>1. ASSUME NEW c \in Clients,
             \/ SubmitClaim(c) \/ SubmitRenew(c) \/ SubmitTakeover(c) \/ Resubmit(c)
             \/ Preflight(c) \/ TransactionReturns(c) \/ ClaimNotEligible(c)
             \/ Renew(c)
             \/ \E e \in Executions : Claim(c, e) \/ Takeover(c, e)
      PROVE  IInv'
  BY <1>1, SubmitsPreserve, ResubmitPreserves, PreflightPreserves, ReturnPreserves,
     RenewPreserves, ClaimPreserves, TakeoverPreserves
<1> QED
  BY <1>1, EnvironmentPreserves DEF Next

LEMMA ClaimsInductive == Spec => []IInv
  BY InitEstablishes, NextPreserves, PTL DEF Spec

(* Every reachable state is well formed, whatever the number of Tasks,     *)
(* clients, executions and keys: the rows and the answers have the shapes  *)
(* the execution tables and the service declare, and only an "ok" answer   *)
(* names an execution.                                                     *)
THEOREM ClaimsTypeOK == Spec => []TypeOK
<1>1. IInv => TypeOK
  BY DEF IInv
<1> QED
  BY <1>1, ClaimsInductive, PTL

(* However many clients race to claim a Task or to take one execution      *)
(* over, a claimed Task has exactly one active attempt, that attempt has   *)
(* the last fencing token, and no two attempts of the Task share one.      *)
THEOREM ClaimsOneCurrent == Spec => []OneCurrentAttempt
<1>1. IInv => OneCurrentAttempt
  BY DEF IInv
<1> QED
  BY <1>1, ClaimsInductive, PTL

(* An idempotency key never names two executions, and a client that was    *)
(* told "ok" owns the execution it was told of, however often it retried.  *)
THEOREM ClaimsKeyNamesOne == Spec => []KeyNamesOneExecution
<1>1. IInv => KeyNamesOneExecution
  BY DEF IInv
<1> QED
  BY <1>1, ClaimsInductive, PTL

-----------------------------------------------------------------------------
(* The action property of takeover.                                        *)

(* What a step may do to one row: TakeoverIsSafe's body. *)
SafeStep ==
    \A e \in Executions :
        /\ (Active(e) /\ attempt'[e].status = "superseded") =>
              /\ attempt[e].expires <= clock
              /\ e \notin unfinished /\ "manual" \notin journal[e]
        /\ (Exists(e) /\ attempt[e].status = "superseded") => attempt'[e] = attempt[e]

LEMMA UnchangedRowsSafe ==
    ASSUME attempt' = attempt
    PROVE  SafeStep
  BY DEF SafeStep, Active

LEMMA ClaimStepSafe ==
    ASSUME IInv, NEW c \in Clients, NEW e \in Executions, Claim(c, e)
    PROVE  SafeStep
<1>1. \A f \in Executions : Exists(f) => attempt'[f] = attempt[f]
  BY DEF Claim, IInv, TypeOK
<1> QED
  BY <1>1 DEF SafeStep, Active

(* Renewal needs an active row and leaves its status alone. *)
LEMMA RenewStepSafe ==
    ASSUME IInv, NEW c \in Clients, Renew(c)
    PROVE  SafeStep
<1> DEFINE e == command[c].execution
<1>1. /\ command[c] # None /\ e \in Executions /\ Exists(e) /\ attempt[e].status = "active"
  BY DEF Renew, RenewAdmissible, IInv, CommandIsBound
<1>2. attempt[e] \in Attempts
  BY <1>1, ExistingRow DEF IInv
<1>3. /\ attempt'[e].status = attempt[e].status
      /\ \A f \in Executions \ {e} : attempt'[f] = attempt[f]
  <2> DEFINE row == [attempt[e] EXCEPT !.leaseRevision = @ + 1, !.revision = @ + 1,
                                       !.expires = trusted[c] + command[c].duration,
                                       !.updatedAt = trusted[c]]
  <2>1. attempt' = attempt \/ attempt' = [attempt EXCEPT ![e] = row]
    BY DEF Renew
  <2>2. row.status = attempt[e].status
    BY <1>2 DEF Attempts
  <2> HIDE DEF e, row
  <2> QED
    BY <1>1, <2>1, <2>2 DEF IInv, TypeOK
<1> QED
  BY <1>1, <1>3 DEF SafeStep, Active

(* The lease was expired at the preflight's time, so it is expired now;    *)
(* the reconciliation check rules out an intent and a Manual journal.      *)
LEMMA TakeoverStepSafe ==
    ASSUME IInv, NEW c \in Clients, NEW e \in Executions, Takeover(c, e)
    PROVE  SafeStep
<1> DEFINE p == command[c].execution
<1>1. /\ command[c] # None /\ p \in Executions /\ Exists(p) /\ attempt[p].status = "active"
      /\ ~Exists(e) /\ attempt[p].expires <= trusted[c] /\ ~RequiresReconciliation(p)
  BY DEF Takeover, TakeoverAdmissible, IInv, CommandIsBound
<1>2. \A f \in Executions \ {p} : Exists(f) => attempt'[f] = attempt[f]
  BY <1>1 DEF Takeover, IInv, TypeOK
<1>3. attempt[p].expires <= clock
  <2>1. attempt[p].expires \in Nat
    BY <1>1, ExistingRow, RowFields DEF IInv
  <2> QED
    BY <1>1, <2>1 DEF IInv, TrustedIsPast, TypeOK
<1>4. p \notin unfinished /\ "manual" \notin journal[p]
  BY <1>1 DEF RequiresReconciliation
<1> HIDE DEF p
<1> QED
  BY <1>1, <1>2, <1>3, <1>4 DEF SafeStep, Active

LEMMA StepSafe ==
    ASSUME IInv, [Next]_vars
    PROVE  SafeStep
<1>1. ASSUME NEW c \in Clients,
             \/ SubmitClaim(c) \/ SubmitRenew(c) \/ SubmitTakeover(c) \/ Resubmit(c)
             \/ Preflight(c) \/ TransactionReturns(c) \/ ClaimNotEligible(c)
      PROVE  attempt' = attempt
  BY <1>1 DEF SubmitClaim, SubmitRenew, SubmitTakeover, Submit, Resubmit, Preflight,
              TransactionReturns, ClaimNotEligible
<1>2. ASSUME \/ Tick \/ ChangeProject \/ UNCHANGED vars
             \/ \E t \in Tasks : UpdateTaskBody(t)
             \/ \E e \in Executions : LoopPrepare(e) \/ LoopComplete(e)
             \/ \E e \in Executions, b \in Backends, w \in BOOLEAN : LoopFinalize(e, b, w)
      PROVE  attempt' = attempt
  BY <1>2 DEF Tick, ChangeProject, vars, UpdateTaskBody, LoopPrepare, LoopComplete, LoopFinalize
<1> QED
  BY <1>1, <1>2, UnchangedRowsSafe, ClaimStepSafe, RenewStepSafe, TakeoverStepSafe DEF Next

(* Whatever backends keep a journal, and however late the transaction of   *)
(* a takeover runs, it supersedes no live lease, no execution with an      *)
(* unfinished intent and none with a Manual turn, and a superseded attempt *)
(* is never written again.                                                 *)
THEOREM TakeoverSafe == Spec => TakeoverIsSafe
<1>1. IInv /\ [Next]_vars => [SafeStep]_vars
  BY StepSafe
<1>2. Spec => [][SafeStep]_vars
  BY <1>1, ClaimsInductive, PTL DEF Spec
<1> QED
  BY <1>2 DEF TakeoverIsSafe, SafeStep

-----------------------------------------------------------------------------
(***************************************************************************)
(* CodexProduct, for any number of calls, operations and Act               *)
(* authorizations.                                                         *)
(*                                                                         *)
(* One turn is journalled for an operation, by one call, which is then the *)
(* only one that drives the SDK for it (Drives); a turn that has ended has *)
(* no driver left, so its end is final, and with it what an intent         *)
(* observes of it, the result of the operation and the source of every     *)
(* continuation.  The rows are written by any number of calls that hold    *)
(* stale stages; it is the validation of the transaction (Valid) that      *)
(* keeps the stage of an operation whose Act was authorized.               *)
(***************************************************************************)

(* The inductive invariant.                                                *)

(* Call c is the one that runs the SDK for operation i. *)
Drives(c, i) == caller[c].op = i /\ caller[c].pc \in {"driver", "sdk", "record"}

(* The turn of i is journalled, but the SDK was not run and no call is about to run it. *)
NeverRun(i) ==
    /\ turn[i].lifecycle # "none" /\ runs[i] = 0
    /\ \A c \in Callers : ~(caller[c].op = i /\ caller[c].pc = "driver")

(* A call that is under way executes an operation that exists. *)
CallsOwn ==
    \A c \in Callers : caller[c].pc # "idle" =>
        caller[c].op \in Ops /\ op[caller[c].op].kind # "none"

(* One call at a time drives the SDK, from a journalled turn that has not ended. *)
TurnIsHonest(i) ==
    /\ runs[i] <= 1
    /\ turn[i].lifecycle = "none" => runs[i] = 0
    /\ turn[i].lifecycle # "none" => intent[i].acts > 0
    /\ turn[i].lifecycle \in Terminal => sdk[i] = turn[i].lifecycle
    /\ turn[i].lifecycle \in Terminal \cup {"none"} => \A c \in Callers : ~Drives(c, i)
    /\ \A c, d \in Callers : Drives(c, i) /\ Drives(d, i) => c = d

(* What a call knows of its operation at the step it has reached. *)
CallIsHonest(c, i) ==
    caller[c].op = i =>
        /\ caller[c].pc = "driver" => runs[i] = 0
        /\ caller[c].pc = "record" => sdk[i] \in Terminal
        /\ caller[c].pc = "observe" => turn[i].lifecycle \in Terminal
        /\ caller[c].answer = "preparation" => NeverRun(i)

BackendIsHonest ==
    \A i \in Ops : TurnIsHonest(i) /\ \A c \in Callers : CallIsHonest(c, i)

(* What the intent and the row of operation i say is what the journal says. *)
RowIsHonest(i) ==
    /\ op[i].kind = "none" => intent[i].acts = 0
    /\ StageIndex[op[i].stage] < 5 => intent[i].acts = 0
    /\ intent[i].state = "executing" => intent[i].acts > 0
    /\ intent[i].state \in {"observed", "verified"} => intent[i].observed # "none"
    /\ intent[i].observed # "none" => turn[i].lifecycle = intent[i].observed
    /\ intent[i].outcome = "accepted" => intent[i].observed = "turn_succeeded"
    /\ intent[i].error # "none" => intent[i].state \in {"ambiguous", "failed", "finalized"}
    /\ intent[i].error = "preparation" => NeverRun(i)
    /\ op[i].result \in Terminal => intent[i].observed = op[i].result
    /\ op[i].result = "preparation_failed" => intent[i].error = "preparation"

SourceIsKnown(i) ==
    op[i].source # 0 =>
        /\ turn[op[i].source].lifecycle \in Terminal
        /\ op[i].kind = "retry" => turn[op[i].source].lifecycle = "failed"

RowsAreHonest == \A i \in Ops : RowIsHonest(i) /\ SourceIsKnown(i)

CodexInv == ProductTypeOK /\ CallsOwn /\ BackendIsHonest /\ RowsAreHonest

-----------------------------------------------------------------------------
(* Frames: what a step may change and keep the parts of the invariant.     *)

(* No call begins to drive, to observe or to answer that the SDK was never run. *)
CallsAreQuiet ==
    \A c \in Callers, i \in Ops :
        /\ Drives(c, i)' => Drives(c, i) /\ caller'[c].pc = caller[c].pc
        /\ caller'[c].op = i /\ caller'[c].pc = "observe" =>
               turn[i].lifecycle \in Terminal
        /\ caller'[c].op = i /\ caller'[c].answer = "preparation" =>
               caller[c].op = i /\ caller[c].answer = "preparation"

(* Outside the backend a turn only changes from active to unknown. *)
TurnsAreQuiet ==
    \A i \in Ops :
        \/ turn'[i] = turn[i]
        \/ turn[i].lifecycle = "active" /\ turn'[i].lifecycle = "unknown"

TurnsAreKept ==
    \A i \in Ops :
        /\ turn[i].lifecycle \in Terminal => turn'[i].lifecycle = turn[i].lifecycle
        /\ NeverRun(i) => NeverRun(i)'

LEMMA CodexConstants ==
    /\ MaxOps \in Nat /\ MaxProfile \in Nat
    /\ NoHead \notin Nat /\ Unclear \notin Nat
    /\ 0 \notin Ops /\ Ops \subseteq Nat /\ Heads \subseteq Nat
    /\ Committing \subseteq Ops /\ Ops \subseteq Heads /\ 0 \in Heads
  BY CodexAssumption DEF Ops, Heads

(* The fields that the arguments below depend on. *)
LEMMA RowTypes ==
    ASSUME ProductTypeOK, NEW i \in Ops
    PROVE  /\ op[i] \in ProductOperations /\ op[i].source \in {0} \cup Ops
           /\ op[i].stage \in DOMAIN StageIndex
           /\ intent[i] \in Intents /\ intent[i].acts \in Nat
           /\ intent[i].observed \in Terminal \cup {"none"}
           /\ turn[i] \in Turns /\ run[i] \in Runs /\ exec[i] \in ExecutionRows
           /\ space[i] \in Workspaces /\ runs[i] \in Nat
  <1>1. /\ op[i] \in ProductOperations /\ intent[i] \in Intents
        /\ turn[i] \in Turns /\ run[i] \in Runs /\ exec[i] \in ExecutionRows
        /\ space[i] \in Workspaces /\ runs[i] \in Nat
    BY DEF ProductTypeOK
  <1>2. op[i].source \in 0..MaxOps /\ op[i].stage \in DOMAIN StageIndex
    BY <1>1 DEF ProductOperations
  <1>3. intent[i].acts \in Nat
    BY <1>1 DEF Intents
  <1>4. intent[i].observed \in Terminal \cup {"none"}
    BY <1>1 DEF Intents
  <1> QED
    BY <1>1, <1>2, <1>3, <1>4, CodexConstants DEF Ops

(* A step outside the backend keeps what the invariant says of turns and calls. *)
LEMMA QuietBackend ==
    ASSUME BackendIsHonest, CallsAreQuiet, TurnsAreQuiet, UNCHANGED <<sdk, runs>>,
           \A i \in Ops : intent[i].acts > 0 => intent'[i].acts > 0
    PROVE  BackendIsHonest' /\ TurnsAreKept
  <1> USE DEF BackendIsHonest, CallsAreQuiet, TurnsAreQuiet, Terminal
  <1>1. ASSUME NEW i \in Ops PROVE NeverRun(i) => NeverRun(i)'
    BY <1>1 DEF NeverRun, Drives
  <1>2. ASSUME NEW i \in Ops PROVE TurnIsHonest(i)'
    BY <1>2 DEF TurnIsHonest
  <1>3. ASSUME NEW i \in Ops, NEW c \in Callers PROVE CallIsHonest(c, i)'
    <2> SUFFICES ASSUME caller'[c].op = i
                 PROVE  /\ caller'[c].pc = "driver" => runs'[i] = 0
                        /\ caller'[c].pc = "record" => sdk'[i] \in Terminal
                        /\ caller'[c].pc = "observe" => turn'[i].lifecycle \in Terminal
                        /\ caller'[c].answer = "preparation" => NeverRun(i)'
      BY <1>3 DEF CallIsHonest
    <2>1. CallIsHonest(c, i)
      BY <1>3
    <2>2. caller'[c].pc \in {"driver", "record"} =>
              caller[c].op = i /\ caller[c].pc = caller'[c].pc
      BY <1>3 DEF Drives
    <2>3. caller'[c].pc = "observe" => turn'[i].lifecycle \in Terminal
      BY <1>3
    <2>4. caller'[c].answer = "preparation" => NeverRun(i)'
      BY <2>1, <1>3, <1>1 DEF CallIsHonest
    <2> QED
      BY <2>1, <2>2, <2>3, <2>4 DEF CallIsHonest
  <1>4. TurnsAreKept
    BY <1>1 DEF TurnsAreKept
  <1> QED
    BY <1>2, <1>3, <1>4

(* A step of the backend keeps what the rows say, since it only learns more. *)
LEMMA CodexRowsKept ==
    ASSUME ProductTypeOK, RowsAreHonest, TurnsAreKept, UNCHANGED <<op, intent>>
    PROVE  RowsAreHonest'
  <1> SUFFICES ASSUME NEW i \in Ops PROVE RowIsHonest(i)' /\ SourceIsKnown(i)'
    BY DEF RowsAreHonest
  <1>0. RowIsHonest(i) /\ SourceIsKnown(i) /\ (NeverRun(i) => NeverRun(i)')
    BY DEF RowsAreHonest, TurnsAreKept
  <1>1. intent[i].observed \in Terminal \cup {"none"} /\ op[i].source \in {0} \cup Ops
    BY RowTypes
  <1>2. RowIsHonest(i)'
    BY <1>0, <1>1 DEF RowIsHonest, TurnsAreKept
  <1>3. SourceIsKnown(i)'
    BY <1>0, <1>1, CodexConstants DEF SourceIsKnown, TurnsAreKept
  <1> QED
    BY <1>2, <1>3

(* A step that writes one row leaves the other rows as they are. *)
LEMMA OneRow ==
    ASSUME ProductTypeOK, RowsAreHonest, TurnsAreKept, NEW i \in Ops,
           \A j \in Ops \ {i} : op'[j] = op[j] /\ intent'[j] = intent[j],
           RowIsHonest(i)', SourceIsKnown(i)'
    PROVE  RowsAreHonest'
  <1> SUFFICES ASSUME NEW j \in Ops \ {i} PROVE RowIsHonest(j)' /\ SourceIsKnown(j)'
    BY DEF RowsAreHonest
  <1>0. RowIsHonest(j) /\ SourceIsKnown(j) /\ (NeverRun(j) => NeverRun(j)')
    BY DEF RowsAreHonest, TurnsAreKept
  <1>1. intent[j].observed \in Terminal \cup {"none"} /\ op[j].source \in {0} \cup Ops
    BY RowTypes
  <1>2. RowIsHonest(j)'
    BY <1>0, <1>1 DEF RowIsHonest, TurnsAreKept
  <1>3. SourceIsKnown(j)'
    BY <1>0, <1>1, CodexConstants DEF SourceIsKnown, TurnsAreKept
  <1> QED
    BY <1>2, <1>3

(* Every row, turn and counter is typed, whatever the calls are. *)
TypedRows ==
    /\ task \in [state : {"ready", "running", "waiting"}, revision : Nat]
    /\ profile \in [status : {"none", "active", "deactivated"}, revision : 0..MaxProfile]
    /\ op \in [Ops -> ProductOperations]
    /\ run \in [Ops -> Runs]
    /\ exec \in [Ops -> ExecutionRows]
    /\ space \in [Ops -> Workspaces]
    /\ intent \in [Ops -> Intents]
    /\ turn \in [Ops -> Turns]
    /\ sdk \in [Ops -> SdkStates]
    /\ runs \in [Ops -> Nat]

KindsAreKept == \A i \in Ops : op[i].kind # "none" => op'[i].kind # "none"

(* Call c moves, or returns, without a claim about the turn that it did not have. *)
Quietly(c) ==
    \E k \in Calls :
        /\ caller' = [caller EXCEPT ![c] = k]
        /\ k.pc \notin {"driver", "sdk", "record"}
        /\ k.pc # "idle" => k.op \in Ops /\ op'[k.op].kind # "none"
        /\ k.pc = "observe" => turn[k.op].lifecycle \in Terminal
        /\ k.answer = "preparation" =>
               k.op = caller[c].op /\ caller[c].answer = "preparation"

LEMMA QuietCall ==
    ASSUME CodexInv, NEW c \in Callers, Quietly(c), KindsAreKept
    PROVE  caller' \in [Callers -> Calls] /\ CallsOwn' /\ CallsAreQuiet
  <1>0. caller \in [Callers -> Calls]
    BY DEF CodexInv, ProductTypeOK
  <1>1. PICK k \in Calls :
          /\ caller' = [caller EXCEPT ![c] = k]
          /\ k.pc \notin {"driver", "sdk", "record"}
          /\ k.pc # "idle" => k.op \in Ops /\ op'[k.op].kind # "none"
          /\ k.pc = "observe" => turn[k.op].lifecycle \in Terminal
          /\ k.answer = "preparation" =>
                 k.op = caller[c].op /\ caller[c].answer = "preparation"
    BY DEF Quietly
  <1>2. caller'[c] = k /\ \A d \in Callers \ {c} : caller'[d] = caller[d]
    BY <1>0, <1>1
  <1>3. caller' \in [Callers -> Calls]
    BY <1>0, <1>1
  <1>4. CallsOwn'
    BY <1>1, <1>2 DEF CodexInv, CallsOwn, KindsAreKept
  <1>5. CallsAreQuiet
    <2> SUFFICES ASSUME NEW d \in Callers, NEW i \in Ops
                 PROVE  /\ Drives(d, i)' => Drives(d, i) /\ caller'[d].pc = caller[d].pc
                        /\ caller'[d].op = i /\ caller'[d].pc = "observe" =>
                               turn[i].lifecycle \in Terminal
                        /\ caller'[d].op = i /\ caller'[d].answer = "preparation" =>
                               caller[d].op = i /\ caller[d].answer = "preparation"
      BY DEF CallsAreQuiet
    <2>1. CASE d = c
      BY <2>1, <1>1, <1>2 DEF Drives
    <2>2. CASE d # c
      <3>1. caller'[d] = caller[d] /\ CallIsHonest(d, i)
        BY <2>2, <1>2 DEF CodexInv, BackendIsHonest
      <3> QED
        BY <3>1 DEF Drives, CallIsHonest
    <2> QED
      BY <2>1, <2>2
  <1> QED
    BY <1>3, <1>4, <1>5

(* A quiet step that writes neither the row of an operation nor its intent. *)
LEMMA QuietStep ==
    ASSUME CodexInv, NEW c \in Callers, Quietly(c), TypedRows',
           TurnsAreQuiet, UNCHANGED <<op, intent, sdk, runs>>
    PROVE  CodexInv'
  <1>1. caller' \in [Callers -> Calls] /\ CallsOwn' /\ CallsAreQuiet
    BY QuietCall DEF KindsAreKept
  <1>2. BackendIsHonest' /\ TurnsAreKept
    BY <1>1, QuietBackend DEF CodexInv
  <1>3. RowsAreHonest'
    BY <1>2, CodexRowsKept DEF CodexInv
  <1> QED
    BY <1>1, <1>2, <1>3 DEF CodexInv, ProductTypeOK, TypedRows

(* A quiet step that writes the row of operation i or its intent. *)
LEMMA QuietWrite ==
    ASSUME CodexInv, NEW c \in Callers, Quietly(c), TypedRows',
           TurnsAreQuiet, UNCHANGED <<sdk, runs>>, NEW i \in Ops,
           \A j \in Ops \ {i} : op'[j] = op[j] /\ intent'[j] = intent[j],
           op[i].kind # "none" => op'[i].kind # "none",
           intent[i].acts > 0 => intent'[i].acts > 0,
           TurnsAreKept => RowIsHonest(i)' /\ SourceIsKnown(i)'
    PROVE  CodexInv'
  <1>1. caller' \in [Callers -> Calls] /\ CallsOwn' /\ CallsAreQuiet
    BY QuietCall DEF KindsAreKept
  <1>2. BackendIsHonest' /\ TurnsAreKept
    BY <1>1, QuietBackend DEF CodexInv
  <1>3. RowsAreHonest'
    BY <1>2, OneRow DEF CodexInv
  <1> QED
    BY <1>1, <1>2, <1>3 DEF CodexInv, ProductTypeOK, TypedRows

Places ==
    {"idle", "run", "claim", "refuse_run", "refuse", "workspace", "mark_ready", "prepare",
     "mark_prepared", "act", "reread", "journal", "driver", "sdk", "record", "inspect",
     "observe", "verify", "finalize", "fail", "fail_final", "reconcile", "terminal",
     "refresh", "mark_refreshed", "close", "finish"}

QuietPlaces == Places \ {"driver", "sdk", "record", "observe"}

LEMMA CallFields ==
    /\ Idle \in Calls /\ Idle.pc = "idle" /\ Idle.answer = "none"
    /\ \A k \in Calls :
          /\ k.pc \in Places /\ k.op \in 0..MaxOps /\ k.act \in Nat
          /\ k.answer \in {"none", "ok", "plain", "preparation", "ambiguous"}
          /\ k.expired \in BOOLEAN
  <1>1. Idle \in Calls /\ Idle.pc = "idle" /\ Idle.answer = "none"
    BY CodexConstants DEF Idle, Calls
  <1>2. ASSUME NEW k \in Calls
        PROVE  /\ k.pc \in Places /\ k.op \in 0..MaxOps /\ k.act \in Nat
               /\ k.answer \in {"none", "ok", "plain", "preparation", "ambiguous"}
               /\ k.expired \in BOOLEAN
    BY <1>2 DEF Calls, Places
  <1> QED
    BY <1>1, <1>2

(* The call under way of a step, and its operation. *)
LEMMA CallerFields ==
    ASSUME CodexInv, NEW c \in Callers
    PROVE  /\ caller[c] \in Calls
           /\ caller[c].pc # "idle" => caller[c].op \in Ops /\ op[caller[c].op].kind # "none"
  BY DEF CodexInv, ProductTypeOK, CallsOwn

LEMMA GotoQuietly ==
    ASSUME CodexInv, NEW c \in Callers, NEW pc \in QuietPlaces,
           caller[c].pc # "idle", KindsAreKept, Goto(c, pc)
    PROVE  Quietly(c)
  <1>1. PICK k : k = [Idle EXCEPT !.pc = pc, !.op = caller[c].op]
    OBVIOUS
  <1>2. caller[c].op \in Ops /\ op[caller[c].op].kind # "none" /\ caller[c].op \in 0..MaxOps
    BY CallerFields, CodexConstants DEF Heads
  <1>3. /\ k \in Calls /\ k.pc = pc /\ k.op = caller[c].op /\ k.answer = "none"
    BY <1>1, <1>2, CodexConstants DEF Idle, Calls, QuietPlaces, Places
  <1>4. k.pc \notin {"driver", "sdk", "record", "observe"}
    BY <1>3 DEF QuietPlaces
  <1>5. caller' = [caller EXCEPT ![c] = k]
    BY <1>1 DEF Goto
  <1> QED
    BY <1>2, <1>3, <1>4, <1>5 DEF Quietly, KindsAreKept

LEMMA ReturnQuietly ==
    ASSUME NEW c \in Callers, Return(c)
    PROVE  Quietly(c)
  BY CallFields DEF Return, Quietly

LEMMA StepQuietly ==
    ASSUME CodexInv, NEW c \in Callers, NEW pc \in QuietPlaces,
           caller[c].pc # "idle", KindsAreKept, Step(c, pc)
    PROVE  Quietly(c)
  <1>1. PICK k : k = [caller[c] EXCEPT !.pc = pc]
    OBVIOUS
  <1>2. /\ caller[c] \in Calls /\ caller[c].op \in Ops /\ op[caller[c].op].kind # "none"
        /\ pc \in Places /\ pc \notin {"driver", "sdk", "record", "observe"}
    BY CallerFields DEF QuietPlaces
  <1>3. k \in Calls /\ k.pc = pc /\ k.op = caller[c].op /\ k.answer = caller[c].answer
    BY <1>1, <1>2 DEF Calls, Places
  <1>5. caller' = [caller EXCEPT ![c] = k]
    BY <1>1 DEF Step
  <1> QED
    BY <1>2, <1>3, <1>5 DEF Quietly, KindsAreKept

LEMMA AnswerQuietly ==
    ASSUME CodexInv, NEW c \in Callers, caller[c].pc # "idle", KindsAreKept,
           NEW reply \in {"ok", "plain", "ambiguous"}, BackendAnswer(c, reply)
    PROVE  Quietly(c)
  <1>1. PICK k : k = [caller[c] EXCEPT !.pc = "inspect", !.act = 0, !.answer = reply]
    OBVIOUS
  <1>2. /\ caller[c] \in Calls /\ caller[c].op \in Ops /\ op[caller[c].op].kind # "none"
    BY CallerFields
  <1>3. k \in Calls /\ k.pc = "inspect" /\ k.op = caller[c].op /\ k.answer = reply
    BY <1>1, <1>2 DEF Calls
  <1>4. caller' = [caller EXCEPT ![c] = k]
    BY <1>1 DEF BackendAnswer
  <1> QED
    BY <1>2, <1>3, <1>4 DEF Quietly, KindsAreKept

(* A call that only moves. *)
LEMMA OnlyMoves ==
    ASSUME CodexInv, NEW c \in Callers, Quietly(c), UNCHANGED <<rows, sdk, runs>>
    PROVE  CodexInv'
  <1>1. TypedRows'
    BY DEF CodexInv, ProductTypeOK, TypedRows, rows
  <1>2. TurnsAreQuiet /\ UNCHANGED <<op, intent>>
    BY DEF TurnsAreQuiet, rows
  <1> QED
    BY <1>1, <1>2, QuietStep

LEMMA SameKinds ==
    ASSUME UNCHANGED op
    PROVE  KindsAreKept
  BY DEF KindsAreKept

-----------------------------------------------------------------------------
(* The profile, time, and the calls that only move.                        *)

LEMMA ProfileStep ==
    ASSUME CodexInv, ActivateProfile \/ DeactivateProfile
    PROVE  CodexInv'
  <1>1. profile.revision \in 0..MaxProfile /\ profile.revision < MaxProfile
    BY DEF CodexInv, ProductTypeOK, ActivateProfile, DeactivateProfile
  <1>2. profile.revision + 1 \in 0..MaxProfile
    BY <1>1, CodexConstants
  <1>3. /\ profile' \in [status : {"none", "active", "deactivated"}, revision : 0..MaxProfile]
        /\ UNCHANGED <<task, op, run, exec, space, intent, turn, sdk, runs, caller>>
    BY <1>2 DEF ActivateProfile, DeactivateProfile
  <1> QED
    BY <1>3 DEF CodexInv, ProductTypeOK, CallsOwn, BackendIsHonest, TurnIsHonest, CallIsHonest, Drives,
                NeverRun, RowsAreHonest, RowIsHonest, SourceIsKnown

LEMMA LeaseLapsesStep ==
    ASSUME CodexInv, NEW i \in Ops, LeaseLapses(i)
    PROVE  CodexInv'
  <1>1. PICK e : e = [exec[i] EXCEPT !.lapsed = TRUE]
    OBVIOUS
  <1>0. exec[i] \in ExecutionRows
    BY RowTypes DEF CodexInv
  <1>2. e \in ExecutionRows
    BY <1>0, <1>1 DEF ExecutionRows
  <1>3. /\ exec' \in [Ops -> ExecutionRows]
        /\ UNCHANGED <<task, profile, op, run, space, intent, turn, sdk, runs, caller>>
    BY <1>1, <1>2 DEF LeaseLapses, CodexInv, ProductTypeOK
  <1> QED
    BY <1>3 DEF CodexInv, ProductTypeOK, CallsOwn, BackendIsHonest, TurnIsHonest, CallIsHonest, Drives,
                NeverRun, RowsAreHonest, RowIsHonest, SourceIsKnown

LEMMA EntryPlace ==
    ASSUME NEW i \in Ops
    PROVE  EntryPoint(i) \in QuietPlaces
  BY Zenon DEF EntryPoint, QuietPlaces, Places

LEMMA EnterQuietly ==
    ASSUME CodexInv, NEW c \in Callers, NEW i \in Ops,
           op[i].kind # "none", UNCHANGED op, Enter(c, i)
    PROVE  Quietly(c)
  <1>0. PICK pc : pc = EntryPoint(i)
    OBVIOUS
  <1>1. PICK k : k = IF pc = "idle" THEN Idle ELSE [Idle EXCEPT !.pc = pc, !.op = i]
    OBVIOUS
  <1>2. i \in 0..MaxOps /\ pc \in QuietPlaces
    BY <1>0, EntryPlace, CodexConstants DEF Heads
  <1>3. k \in Calls /\ k.pc = pc /\ k.answer = "none" /\ (k.pc # "idle" => k.op = i)
    <2>1. CASE pc = "idle"
      BY <2>1, <1>1, CallFields
    <2>2. CASE pc # "idle"
      BY <2>2, <1>1, <1>2, CodexConstants DEF Idle, Calls, QuietPlaces, Places
    <2> QED
      BY <2>1, <2>2
  <1>4. k.pc \notin {"driver", "sdk", "record", "observe"}
    BY <1>2, <1>3 DEF QuietPlaces
  <1>5. caller' = [caller EXCEPT ![c] = k]
    BY <1>0, <1>1 DEF Enter
  <1> QED
    BY <1>3, <1>4, <1>5 DEF Quietly

LEMMA ReplayStep ==
    ASSUME CodexInv, NEW c \in Callers, NEW i \in Ops, Replay(c, i)
    PROVE  CodexInv'
  <1>1. op[i].kind # "none" /\ Enter(c, i) /\ UNCHANGED <<rows, sdk, runs>> /\ UNCHANGED op
    BY DEF Replay, rows
  <1> QED
    BY <1>1, EnterQuietly, OnlyMoves

LEMMA ReplayMemberStep ==
    ASSUME CodexInv, NEW c \in Callers, ReplayMember(c)
    PROVE  CodexInv'
  <1>1. /\ caller[c].pc # "idle" /\ UNCHANGED <<rows, sdk, runs>> /\ UNCHANGED op
        /\ Goto(c, "refuse_run") \/ Enter(c, caller[c].op)
    BY DEF ReplayMember, rows
  <1>2. caller[c].op \in Ops /\ op[caller[c].op].kind # "none"
    BY <1>1, CallerFields
  <1>3. Quietly(c)
    BY <1>1, <1>2, EnterQuietly, GotoQuietly, SameKinds DEF QuietPlaces, Places
  <1> QED
    BY <1>1, <1>3, OnlyMoves

LEMMA RereadStep ==
    ASSUME CodexInv, NEW c \in Callers, Reread(c)
    PROVE  CodexInv'
  <1>1. PICK k : k = [caller[c] EXCEPT !.pc = "journal", !.act = intent[caller[c].op].acts]
    OBVIOUS
  <1>2. /\ caller[c] \in Calls /\ caller[c].op \in Ops /\ op[caller[c].op].kind # "none"
    BY CallerFields DEF Reread
  <1>3. intent[caller[c].op].acts \in Nat
    BY <1>2, RowTypes DEF CodexInv
  <1>4. k \in Calls /\ k.pc = "journal" /\ k.op = caller[c].op /\ k.answer = caller[c].answer
    BY <1>1, <1>2, <1>3 DEF Calls
  <1>5. caller' = [caller EXCEPT ![c] = k] /\ UNCHANGED <<rows, sdk, runs>> /\ UNCHANGED op
    BY <1>1 DEF Reread, rows
  <1>6. Quietly(c)
    BY <1>2, <1>4, <1>5 DEF Quietly
  <1> QED
    BY <1>5, <1>6, OnlyMoves

LEMMA BackendAnswers ==
    ASSUME CodexInv, NEW c \in Callers, ReplayTurn(c) \/ BackendRefuses(c)
    PROVE  CodexInv'
  <1>1. /\ caller[c].pc # "idle" /\ UNCHANGED <<rows, sdk, runs>> /\ UNCHANGED op
        /\ \E reply \in {"ok", "plain", "ambiguous"} : BackendAnswer(c, reply)
    BY DEF ReplayTurn, BackendRefuses, rows
  <1> QED
    BY <1>1, AnswerQuietly, SameKinds, OnlyMoves

LEMMA InspectProvenStep ==
    ASSUME CodexInv, NEW c \in Callers, InspectProven(c)
    PROVE  CodexInv'
  <1>1. PICK k : k = [Idle EXCEPT !.pc = "observe", !.op = caller[c].op]
    OBVIOUS
  <1>2. caller[c].op \in Ops /\ op[caller[c].op].kind # "none" /\ caller[c].op \in 0..MaxOps
    BY CallerFields, CodexConstants DEF Heads, InspectProven
  <1>3. k \in Calls /\ k.pc = "observe" /\ k.op = caller[c].op /\ k.answer = "none"
    BY <1>1, <1>2, CodexConstants DEF Idle, Calls
  <1>4. /\ caller' = [caller EXCEPT ![c] = k] /\ UNCHANGED <<rows, sdk, runs>> /\ UNCHANGED op
        /\ turn[caller[c].op].lifecycle \in Terminal
    BY <1>1 DEF InspectProven, Goto, Proven, rows
  <1>5. Quietly(c)
    BY <1>2, <1>3, <1>4 DEF Quietly
  <1> QED
    BY <1>4, <1>5, OnlyMoves

LEMMA RejoinStep ==
    ASSUME CodexInv, NEW c \in Callers, Rejoin(c)
    PROVE  CodexInv'
  <1>1. PICK pc : pc = CASE intent[caller[c].op].state = "observed" -> "verify"
                         [] intent[caller[c].op].state = "verified" -> "finalize"
                         [] intent[caller[c].op].state = "finalized" -> "terminal"
                         [] OTHER -> "fail_final"
    OBVIOUS
  <1>2. pc \in {"verify", "finalize", "terminal", "fail_final"}
    BY <1>1, Zenon
  <1>3. PICK expired : expired = (caller[c].pc = "reconcile")
    OBVIOUS
  <1>4. expired \in BOOLEAN
    BY <1>3
  <1>5. PICK k : k = [caller[c] EXCEPT !.expired = expired, !.pc = pc]
    OBVIOUS
  <1>6. /\ caller[c] \in Calls /\ caller[c].op \in Ops /\ op[caller[c].op].kind # "none"
    BY CallerFields DEF Rejoin
  <1>7. k \in Calls /\ k.pc = pc /\ k.op = caller[c].op /\ k.answer = caller[c].answer
    BY <1>5, <1>6, <1>2, <1>4 DEF Calls
  <1>8. caller' = [caller EXCEPT ![c] = k] /\ UNCHANGED <<rows, sdk, runs>> /\ UNCHANGED op
    BY <1>1, <1>3, <1>5 DEF Rejoin, rows
  <1>9. Quietly(c)
    BY <1>2, <1>6, <1>7, <1>8 DEF Quietly
  <1> QED
    BY <1>8, <1>9, OnlyMoves

LEMMA AlreadyFinalizedStep ==
    ASSUME CodexInv, NEW c \in Callers, AlreadyFinalized(c)
    PROVE  CodexInv'
  <1>1. /\ caller[c].pc # "idle" /\ UNCHANGED <<rows, sdk, runs>> /\ UNCHANGED op
        /\ Goto(c, "terminal")
    BY DEF AlreadyFinalized, rows
  <1> QED
    BY <1>1, GotoQuietly, SameKinds, OnlyMoves DEF QuietPlaces, Places

-----------------------------------------------------------------------------
(* Operations are created, and their rows written.                         *)

(* Row n replaces the row of operation i. *)
Wrote(i, n) == op' = [op EXCEPT ![i] = n]

LEMMA RowAfterWrite ==
    ASSUME CodexInv, NEW i \in Ops, NEW n \in ProductOperations,
           Wrote(i, n), UNCHANGED <<intent, turn>>
    PROVE  /\ op'[i] = n /\ op' \in [Ops -> ProductOperations] /\ TurnsAreQuiet
           /\ \A j \in Ops \ {i} : op'[j] = op[j] /\ intent'[j] = intent[j]
           /\ RowIsHonest(i) /\ SourceIsKnown(i) /\ op[i].source \in {0} \cup Ops
  <1>1. op \in [Ops -> ProductOperations] /\ RowIsHonest(i) /\ SourceIsKnown(i)
    BY DEF CodexInv, ProductTypeOK, RowsAreHonest
  <1>2. /\ op'[i] = n /\ op' \in [Ops -> ProductOperations]
        /\ \A j \in Ops \ {i} : op'[j] = op[j] /\ intent'[j] = intent[j]
    BY <1>1 DEF Wrote
  <1>3. TurnsAreQuiet
    BY DEF TurnsAreQuiet
  <1>4. op[i].source \in {0} \cup Ops
    BY RowTypes DEF CodexInv
  <1> QED
    BY <1>1, <1>2, <1>3, <1>4

LEMMA CreatedStep ==
    ASSUME CodexInv, NEW c \in Callers, NEW i \in Ops,
           NEW kind \in {"start", "resume", "retry"}, NEW s \in {0} \cup Ops,
           s # 0 => /\ turn[s].lifecycle \in Terminal
                    /\ kind = "retry" => turn[s].lifecycle = "failed",
           Created(c, i, kind, s)
    PROVE  CodexInv'
  <1>0. PICK n : n = [NoOp EXCEPT !.kind = kind, !.source = s,
           !.taskRevision = task.revision, !.profileRevision = profile.revision]
    OBVIOUS
  <1>1. task.revision \in Nat /\ profile.revision \in 0..MaxProfile /\ s \in 0..MaxOps
    BY CodexConstants DEF CodexInv, ProductTypeOK, Heads
  <1>2. /\ n \in ProductOperations /\ n.kind = kind /\ n.source = s
        /\ n.stage = "prepared" /\ n.result = "none"
    BY <1>0, <1>1, CodexConstants DEF NoOp, ProductOperations, StageIndex, Results, Unfinished
  <1>3. /\ Wrote(i, n) /\ op[i].kind = "none"
        /\ UNCHANGED <<task, profile, run, exec, space, intent, turn, sdk, runs>>
    BY <1>0 DEF Created, Wrote
  <1>4. /\ op'[i] = n /\ op' \in [Ops -> ProductOperations] /\ TurnsAreQuiet
        /\ \A j \in Ops \ {i} : op'[j] = op[j] /\ intent'[j] = intent[j]
        /\ RowIsHonest(i)
    BY <1>2, <1>3, RowAfterWrite
  <1>5. TypedRows'
    BY <1>3, <1>4 DEF CodexInv, ProductTypeOK, TypedRows
  <1>6. PICK k : k = [Idle EXCEPT !.pc = "run", !.op = i]
    OBVIOUS
  <1>7. k \in Calls /\ k.pc = "run" /\ k.op = i /\ k.answer = "none"
    BY <1>6, CodexConstants DEF Idle, Calls, Heads
  <1>8. caller' = [caller EXCEPT ![c] = k]
    BY <1>6 DEF Created
  <1>9. Quietly(c)
    BY <1>2, <1>4, <1>7, <1>8 DEF Quietly
  <1>10. ASSUME TurnsAreKept PROVE RowIsHonest(i)' /\ SourceIsKnown(i)'
    <2>1. NeverRun(i) => NeverRun(i)'
      BY <1>10 DEF TurnsAreKept
    <2>2. RowIsHonest(i)'
      BY <1>2, <1>3, <1>4, <2>1 DEF RowIsHonest, Terminal
    <2>3. SourceIsKnown(i)'
      BY <1>2, <1>3, <1>4 DEF SourceIsKnown
    <2> QED
      BY <2>2, <2>3
  <1>11. op'[i].kind # "none" /\ UNCHANGED <<sdk, runs>>
         /\ (intent[i].acts > 0 => intent'[i].acts > 0)
    BY <1>2, <1>3, <1>4
  <1> QED
    BY <1>4, <1>5, <1>9, <1>10, <1>11, QuietWrite

(* A row that is written keeps its kind and its source, and stores no result but a true one;
   that its stage fits the intent is what the validation of every transaction demands. *)
LEMMA RowWrite ==
    ASSUME CodexInv, NEW c \in Callers, Quietly(c), TypedRows',
           NEW i \in Ops, op[i].kind # "none", NEW n \in ProductOperations,
           Wrote(i, n), n.kind = op[i].kind, n.source = op[i].source,
           \/ n.result = op[i].result
           \/ /\ n.result \in Terminal => intent[i].observed = n.result
              /\ n.result = "preparation_failed" => intent[i].error = "preparation",
           UNCHANGED <<intent, turn, sdk, runs>>, Valid'
    PROVE  CodexInv'
  <1>1. /\ op'[i] = n /\ TurnsAreQuiet
        /\ \A j \in Ops \ {i} : op'[j] = op[j] /\ intent'[j] = intent[j]
        /\ RowIsHonest(i) /\ SourceIsKnown(i) /\ op[i].source \in {0} \cup Ops
    BY RowAfterWrite
  <1>2. LineageIsValid(i)'
    BY <1>1 DEF Valid
  <1>3. StageIndex[n.stage] < 5 => intent[i].acts = 0
    BY <1>1, <1>2 DEF LineageIsValid
  <1>4. ASSUME TurnsAreKept PROVE RowIsHonest(i)' /\ SourceIsKnown(i)'
    <2>1. NeverRun(i) => NeverRun(i)'
      BY <1>4 DEF TurnsAreKept
    <2>2. RowIsHonest(i)'
      BY <1>1, <1>3, <2>1 DEF RowIsHonest
    <2>3. SourceIsKnown(i)'
      BY <1>1 DEF SourceIsKnown
    <2> QED
      BY <2>2, <2>3
  <1>5. UNCHANGED <<sdk, runs>> /\ op'[i].kind # "none"
        /\ (intent[i].acts > 0 => intent'[i].acts > 0)
    BY <1>1
  <1> QED
    BY <1>1, <1>4, <1>5, QuietWrite

LEMMA CreateStartStep ==
    ASSUME CodexInv, NEW c \in Callers, NEW i \in Ops, CreateStart(c, i)
    PROVE  CodexInv'
  BY CreatedStep DEF CreateStart

LEMMA CreateContinuationStep ==
    ASSUME CodexInv, NEW c \in Callers, NEW i \in Ops, NEW s \in Ops,
           NEW kind \in {"resume", "retry"}, CreateContinuation(c, i, s, kind)
    PROVE  CodexInv'
  <1>1. /\ turn[s].lifecycle \in Terminal
        /\ kind = "retry" => turn[s].lifecycle = "failed"
        /\ Created(c, i, kind, s)
    BY DEF CreateContinuation, CanContinue, TurnIsKnown
  <1> QED
    BY <1>1, CreatedStep

LEMMA RefuseStep ==
    ASSUME CodexInv, NEW c \in Callers, RefuseRun(c) \/ Refuse(c)
    PROVE  CodexInv'
  <1>0. PICK i : i = caller[c].op
    OBVIOUS
  <1>1. i \in Ops /\ op[i].kind # "none"
    BY <1>0, CallerFields DEF RefuseRun, Refuse
  <1>2. PICK n : n = [op[i] EXCEPT !.lifecycle = "refused", !.result = "refused"]
    OBVIOUS
  <1>3. op[i] \in ProductOperations
    BY <1>1, RowTypes DEF CodexInv
  <1>4. /\ n \in ProductOperations /\ n.kind = op[i].kind /\ n.source = op[i].source
        /\ n.result = "refused"
    BY <1>2, <1>3 DEF ProductOperations, Results
  <1>5. /\ Wrote(i, n) /\ Return(c) /\ Valid'
        /\ UNCHANGED <<task, profile, run, exec, space, intent, turn, sdk, runs>>
    BY <1>0, <1>2 DEF RefuseRun, Refuse, Update, Wrote
  <1>6. TypedRows'
    BY <1>1, <1>4, <1>5, RowAfterWrite DEF CodexInv, ProductTypeOK, TypedRows
  <1>7. Quietly(c)
    BY <1>5, ReturnQuietly
  <1>8. n.result \notin Terminal /\ n.result # "preparation_failed"
    BY <1>4 DEF Terminal
  <1> QED
    BY <1>1, <1>4, <1>5, <1>6, <1>7, <1>8, RowWrite

(* The steps that store a later stage. *)
LEMMA StageWrite ==
    ASSUME CodexInv, NEW c \in Callers, caller[c].pc # "idle",
           NEW i, i = caller[c].op, NEW n \in ProductOperations,
           Wrote(i, n), n.kind = op[i].kind, n.source = op[i].source,
           n.result = op[i].result, NEW pc \in QuietPlaces, Goto(c, pc) \/ Return(c),
           UNCHANGED <<task, profile, run, exec, space, intent, turn, sdk, runs>>, Valid'
    PROVE  CodexInv'
  <1>1. i \in Ops /\ op[i].kind # "none"
    BY CallerFields
  <1>2. op'[i] = n /\ op' \in [Ops -> ProductOperations]
        /\ \A j \in Ops \ {i} : op'[j] = op[j]
    BY <1>1, RowAfterWrite
  <1>3. TypedRows'
    BY <1>2 DEF CodexInv, ProductTypeOK, TypedRows
  <1>4. KindsAreKept
    BY <1>1, <1>2 DEF KindsAreKept
  <1>5. Quietly(c)
    BY <1>4, GotoQuietly, ReturnQuietly
  <1> QED
    BY <1>1, <1>3, <1>5, RowWrite

LEMMA MarkReadyStep ==
    ASSUME CodexInv, NEW c \in Callers, MarkReady(c)
    PROVE  CodexInv'
  <1>0. PICK i : i = caller[c].op
    OBVIOUS
  <1>1. i \in Ops /\ caller[c].pc # "idle"
    BY <1>0, CallerFields DEF MarkReady
  <1>2. PICK n : n = [op[i] EXCEPT !.stage = "workspace_ready", !.head = space[i].found]
    OBVIOUS
  <1>3. op[i] \in ProductOperations /\ space[i].found \in Heads \cup {NoHead}
    BY <1>1, RowTypes DEF CodexInv, Workspaces
  <1>4. /\ n \in ProductOperations /\ n.kind = op[i].kind /\ n.source = op[i].source
        /\ n.result = op[i].result
    BY <1>2, <1>3 DEF ProductOperations, StageIndex
  <1>5. /\ Wrote(i, n) /\ Goto(c, "prepare") /\ Valid'
        /\ UNCHANGED <<task, profile, run, exec, space, intent, turn, sdk, runs>>
    BY <1>0, <1>2 DEF MarkReady, Update, Wrote
  <1>6. "prepare" \in QuietPlaces
    BY DEF QuietPlaces, Places
  <1> QED
    BY <1>0, <1>1, <1>4, <1>5, <1>6, StageWrite

LEMMA MarkPreparedStep ==
    ASSUME CodexInv, NEW c \in Callers, MarkPrepared(c)
    PROVE  CodexInv'
  <1>0. PICK i : i = caller[c].op
    OBVIOUS
  <1>1. i \in Ops /\ caller[c].pc # "idle"
    BY <1>0, CallerFields DEF MarkPrepared
  <1>2. PICK n : n = [op[i] EXCEPT !.stage = "intent_prepared"]
    OBVIOUS
  <1>3. op[i] \in ProductOperations
    BY <1>1, RowTypes DEF CodexInv
  <1>4. /\ n \in ProductOperations /\ n.kind = op[i].kind /\ n.source = op[i].source
        /\ n.result = op[i].result
    BY <1>2, <1>3 DEF ProductOperations, StageIndex
  <1>5. /\ Wrote(i, n) /\ Goto(c, "act") /\ Valid'
        /\ UNCHANGED <<task, profile, run, exec, space, intent, turn, sdk, runs>>
    BY <1>0, <1>2 DEF MarkPrepared, Update, Wrote
  <1>6. "act" \in QuietPlaces
    BY DEF QuietPlaces, Places
  <1> QED
    BY <1>0, <1>1, <1>4, <1>5, <1>6, StageWrite

LEMMA DenyActStep ==
    ASSUME CodexInv, NEW c \in Callers, DenyAct(c)
    PROVE  CodexInv'
  <1>0. PICK i : i = caller[c].op
    OBVIOUS
  <1>1. i \in Ops /\ caller[c].pc # "idle"
    BY <1>0, CallerFields DEF DenyAct
  <1>2. PICK n : n = [op[i] EXCEPT !.lifecycle = "recovery_required"]
    OBVIOUS
  <1>3. op[i] \in ProductOperations
    BY <1>1, RowTypes DEF CodexInv
  <1>4. /\ n \in ProductOperations /\ n.kind = op[i].kind /\ n.source = op[i].source
        /\ n.result = op[i].result
    BY <1>2, <1>3 DEF ProductOperations, Unfinished
  <1>5. /\ Wrote(i, n) /\ Return(c) /\ Valid'
        /\ UNCHANGED <<task, profile, run, exec, space, intent, turn, sdk, runs>>
    BY <1>0, <1>2 DEF DenyAct, Wrote
  <1>6. "idle" \in QuietPlaces
    BY DEF QuietPlaces, Places
  <1> QED
    BY <1>0, <1>1, <1>4, <1>5, <1>6, StageWrite

LEMMA MarkTerminalStep ==
    ASSUME CodexInv, NEW c \in Callers, MarkTerminal(c)
    PROVE  CodexInv'
  <1>0. PICK i : i = caller[c].op
    OBVIOUS
  <1>1. i \in Ops /\ caller[c].pc # "idle"
    BY <1>0, CallerFields DEF MarkTerminal
  <1>2. PICK n : n = [op[i] EXCEPT !.stage = "effect_terminal", !.lifecycle = "active"]
    OBVIOUS
  <1>3. op[i] \in ProductOperations
    BY <1>1, RowTypes DEF CodexInv
  <1>4. /\ n \in ProductOperations /\ n.kind = op[i].kind /\ n.source = op[i].source
        /\ n.result = op[i].result
    BY <1>2, <1>3 DEF ProductOperations, StageIndex, Unfinished
  <1>5. /\ Wrote(i, n) /\ Goto(c, "refresh") /\ Valid'
        /\ UNCHANGED <<task, profile, run, exec, space, intent, turn, sdk, runs>>
    BY <1>0, <1>2 DEF MarkTerminal, Update, Wrote
  <1>6. "refresh" \in QuietPlaces
    BY DEF QuietPlaces, Places
  <1> QED
    BY <1>0, <1>1, <1>4, <1>5, <1>6, StageWrite

LEMMA MarkRefreshedStep ==
    ASSUME CodexInv, NEW c \in Callers, MarkRefreshed(c)
    PROVE  CodexInv'
  <1>0. PICK i : i = caller[c].op
    OBVIOUS
  <1>1. i \in Ops /\ caller[c].pc # "idle"
    BY <1>0, CallerFields DEF MarkRefreshed
  <1>2. PICK n : n = [op[i] EXCEPT !.stage = "workspace_refreshed", !.lifecycle = "active",
                          !.head = space[i].found]
    OBVIOUS
  <1>3. op[i] \in ProductOperations /\ space[i].found \in Heads \cup {NoHead}
    BY <1>1, RowTypes DEF CodexInv, Workspaces
  <1>4. /\ n \in ProductOperations /\ n.kind = op[i].kind /\ n.source = op[i].source
        /\ n.result = op[i].result
    BY <1>2, <1>3 DEF ProductOperations, StageIndex, Unfinished
  <1>5. /\ Wrote(i, n) /\ Goto(c, "close") /\ Valid'
        /\ UNCHANGED <<task, profile, run, exec, space, intent, turn, sdk, runs>>
    BY <1>0, <1>2 DEF MarkRefreshed, Update, Wrote
  <1>6. "close" \in QuietPlaces
    BY DEF QuietPlaces, Places
  <1> QED
    BY <1>0, <1>1, <1>4, <1>5, <1>6, StageWrite

(* The stored result is the one that the intent proves. *)
LEMMA FinishStep ==
    ASSUME CodexInv, NEW c \in Callers, Finish(c)
    PROVE  CodexInv'
  <1>0. PICK i : i = caller[c].op
    OBVIOUS
  <1>1. i \in Ops /\ op[i].kind # "none"
    BY <1>0, CallerFields DEF Finish
  <1>2. PICK r : r = ResultCode(i)
    OBVIOUS
  <1>3. /\ r \in Results
        /\ r \in Terminal => intent[i].observed = r
        /\ r = "preparation_failed" => intent[i].error = "preparation"
    BY <1>1, <1>2, RowTypes DEF CodexInv, ResultCode, Results, Terminal
  <1>4. PICK n : n = [op[i] EXCEPT !.lifecycle = "finalized", !.result = r]
    OBVIOUS
  <1>5. op[i] \in ProductOperations
    BY <1>1, RowTypes DEF CodexInv
  <1>6. /\ n \in ProductOperations /\ n.kind = op[i].kind /\ n.source = op[i].source
        /\ n.result = r
    BY <1>3, <1>4, <1>5 DEF ProductOperations
  <1>7. /\ Wrote(i, n) /\ Return(c) /\ Valid'
        /\ UNCHANGED <<task, profile, run, exec, space, intent, turn, sdk, runs>>
    BY <1>0, <1>2, <1>4 DEF Finish, Update, Wrote
  <1>8. TypedRows'
    BY <1>1, <1>6, <1>7, RowAfterWrite DEF CodexInv, ProductTypeOK, TypedRows
  <1>9. Quietly(c)
    BY <1>7, ReturnQuietly
  <1> QED
    BY <1>1, <1>3, <1>6, <1>7, <1>8, <1>9, RowWrite

-----------------------------------------------------------------------------
(* The run, its member and the workspace.                                  *)

LEMMA RunWrite ==
    ASSUME CodexInv, NEW c \in Callers, caller[c].pc # "idle",
           NEW r \in Runs, run' = [run EXCEPT ![caller[c].op] = r],
           NEW pc \in QuietPlaces, Goto(c, pc),
           UNCHANGED <<task, profile, op, exec, space, intent, turn, sdk, runs>>
    PROVE  CodexInv'
  <1>1. caller[c].op \in Ops
    BY CallerFields
  <1>2. TypedRows'
    BY <1>1 DEF CodexInv, ProductTypeOK, TypedRows
  <1>3. TurnsAreQuiet
    BY DEF TurnsAreQuiet
  <1>4. Quietly(c)
    BY GotoQuietly, SameKinds
  <1> QED
    BY <1>2, <1>3, <1>4, QuietStep

LEMMA RunStep ==
    ASSUME CodexInv, NEW c \in Callers,
           CreateRun(c) \/ ResolveMember(c) \/ FinalizeRun(c)
    PROVE  CodexInv'
  <1>0. PICK i : i = caller[c].op
    OBVIOUS
  <1>1. i \in Ops /\ caller[c].pc # "idle"
    BY <1>0, CallerFields DEF CreateRun, ResolveMember, FinalizeRun
  <1>2. run[i] \in Runs
    BY <1>1, RowTypes DEF CodexInv
  <1>3. {"claim", "refuse_run", "finish", "refuse"} \subseteq QuietPlaces
    BY DEF QuietPlaces, Places
  <1>4. CASE CreateRun(c)
    <2>1. PICK r : r = [run[i] EXCEPT !.member = IF @ = "none" THEN "pending" ELSE @]
      OBVIOUS
    <2>2. r \in Runs
      BY <2>1, <1>2 DEF Runs
    <2>3. /\ run' = [run EXCEPT ![caller[c].op] = r] /\ Goto(c, "claim")
          /\ UNCHANGED <<task, profile, op, exec, space, intent, turn, sdk, runs>>
      BY <2>1, <1>0, <1>4 DEF CreateRun
    <2> QED
      BY <1>1, <1>3, <2>2, <2>3, RunWrite
  <1>5. CASE ResolveMember(c)
    <2>1. PICK r : r = [run[i] EXCEPT !.member = "refused"]
      OBVIOUS
    <2>2. r \in Runs
      BY <2>1, <1>2 DEF Runs
    <2>3. /\ run' = [run EXCEPT ![caller[c].op] = r] /\ Goto(c, "refuse_run")
          /\ UNCHANGED <<task, profile, op, exec, space, intent, turn, sdk, runs>>
      BY <2>1, <1>0, <1>5 DEF ResolveMember
    <2> QED
      BY <1>1, <1>3, <2>2, <2>3, RunWrite
  <1>6. CASE FinalizeRun(c)
    <2>1. PICK r : r = [run[i] EXCEPT !.closed = TRUE]
      OBVIOUS
    <2>2. r \in Runs
      BY <2>1, <1>2 DEF Runs
    <2>3. /\ run' = [run EXCEPT ![caller[c].op] = r]
          /\ Goto(c, "finish") \/ Goto(c, "refuse")
          /\ UNCHANGED <<task, profile, op, exec, space, intent, turn, sdk, runs>>
      BY <2>1, <1>0, <1>6 DEF FinalizeRun
    <2> QED
      BY <1>1, <1>3, <2>2, <2>3, RunWrite
  <1> QED
    BY <1>4, <1>5, <1>6

LEMMA ClaimedStep ==
    ASSUME CodexInv, NEW c \in Callers, NEW superseded,
           Claimed(c, caller[c].op, superseded)
    PROVE  CodexInv'
  <1>0. PICK i : i = caller[c].op
    OBVIOUS
  <1>1. i \in Ops /\ caller[c].pc # "idle" /\ op[i].kind # "none"
    BY <1>0, CallerFields DEF Claimed
  <1>2. op[i] \in ProductOperations /\ run[i] \in Runs /\ task.revision \in Nat
    BY <1>1, RowTypes DEF CodexInv, ProductTypeOK
  <1>3. PICK n : n = [op[i] EXCEPT !.stage = "member_bound"]
    OBVIOUS
  <1>4. /\ n \in ProductOperations /\ n.kind = op[i].kind /\ n.source = op[i].source
        /\ n.result = op[i].result
    BY <1>2, <1>3 DEF ProductOperations, StageIndex
  <1>5. PICK r : r = [run[i] EXCEPT !.member = "claimed"]
    OBVIOUS
  <1>6. r \in Runs
    BY <1>2, <1>5 DEF Runs
  <1>7. /\ Wrote(i, n) /\ Goto(c, "workspace") /\ Valid'
        /\ UNCHANGED <<profile, space, intent, turn, sdk, runs>>
        /\ UNCHANGED <<intent, turn>>
    BY <1>0, <1>3 DEF Claimed, Wrote
  <1>8. op'[i] = n /\ op' \in [Ops -> ProductOperations]
        /\ \A j \in Ops \ {i} : op'[j] = op[j]
    BY <1>1, <1>4, <1>7, RowAfterWrite
  <1>9. run' \in [Ops -> Runs]
    BY <1>0, <1>5, <1>6 DEF Claimed, CodexInv, ProductTypeOK
  <1>10. task' \in [state : {"ready", "running", "waiting"}, revision : Nat]
    BY <1>2 DEF Claimed
  <1>11. exec' \in [Ops -> ExecutionRows]
    <2>1. \A j \in Ops : exec[j] \in ExecutionRows
      BY RowTypes DEF CodexInv
    <2>2. \A s \in {"active", "superseded"} : [status |-> s, lapsed |-> FALSE] \in ExecutionRows
      BY DEF ExecutionRows
    <2> QED
      BY <1>0, <2>1, <2>2 DEF Claimed
  <1>12. TypedRows'
    BY <1>7, <1>8, <1>9, <1>10, <1>11 DEF CodexInv, ProductTypeOK, TypedRows
  <1>13. KindsAreKept
    BY <1>1, <1>4, <1>8 DEF KindsAreKept
  <1>14. Quietly(c)
    BY <1>1, <1>7, <1>13, GotoQuietly DEF QuietPlaces, Places
  <1>15. UNCHANGED <<intent, turn, sdk, runs>>
    BY <1>7
  <1> QED
    BY <1>1, <1>4, <1>7, <1>12, <1>14, <1>15, RowWrite

LEMMA ClaimStep ==
    ASSUME CodexInv, NEW c \in Callers, ClaimStart(c) \/ ClaimContinuation(c)
    PROVE  CodexInv'
  BY ClaimedStep DEF ClaimStart, ClaimContinuation

LEMMA SpaceWrite ==
    ASSUME CodexInv, NEW c \in Callers, caller[c].pc # "idle",
           space' \in [Ops -> Workspaces], NEW pc \in QuietPlaces, Goto(c, pc),
           UNCHANGED <<task, profile, op, run, exec, intent, turn, sdk, runs>>
    PROVE  CodexInv'
  <1>2. TypedRows'
    BY DEF CodexInv, ProductTypeOK, TypedRows
  <1>3. TurnsAreQuiet
    BY DEF TurnsAreQuiet
  <1>4. Quietly(c)
    BY GotoQuietly, SameKinds
  <1> QED
    BY <1>2, <1>3, <1>4, QuietStep

LEMMA SpaceFields ==
    ASSUME CodexInv, NEW i \in Ops
    PROVE  /\ space[i] \in Workspaces
           /\ space[i].head \in Heads \cup {NoHead} /\ space[i].created \in Heads \cup {NoHead}
           /\ space[i].found \in Heads \cup {NoHead}
           /\ BaseReference(i) \in Heads \cup {NoHead}
  <1>1. \A j \in Ops : /\ space[j] \in Workspaces /\ space[j].head \in Heads \cup {NoHead}
                       /\ space[j].created \in Heads \cup {NoHead}
                       /\ space[j].found \in Heads \cup {NoHead}
    BY RowTypes DEF CodexInv, Workspaces
  <1>2. op[i].source \in {0} \cup Ops
    BY RowTypes DEF CodexInv
  <1> QED
    BY <1>1, <1>2, CodexConstants DEF BaseReference

LEMMA CreateWorkspaceStep ==
    ASSUME CodexInv, NEW c \in Callers, CreateWorkspace(c)
    PROVE  CodexInv'
  <1>0. PICK i : i = caller[c].op
    OBVIOUS
  <1>1. i \in Ops /\ caller[c].pc # "idle"
    BY <1>0, CallerFields DEF CreateWorkspace
  <1>2. PICK w : w = [space[i] EXCEPT !.head = BaseReference(i), !.created = BaseReference(i),
                          !.found = BaseReference(i)]
    OBVIOUS
  <1>3. w \in Workspaces
    BY <1>1, <1>2, SpaceFields DEF Workspaces
  <1>4. space' = space \/ space' = [space EXCEPT ![i] = w]
    BY <1>0, <1>2 DEF CreateWorkspace
  <1>5. space' \in [Ops -> Workspaces]
    BY <1>3, <1>4 DEF CodexInv, ProductTypeOK
  <1>6. Goto(c, "mark_ready") /\ "mark_ready" \in QuietPlaces
        /\ UNCHANGED <<task, profile, op, run, exec, intent, turn, sdk, runs>>
    BY DEF CreateWorkspace, QuietPlaces, Places
  <1> QED
    BY <1>1, <1>5, <1>6, SpaceWrite

LEMMA InspectWorkspaceStep ==
    ASSUME CodexInv, NEW c \in Callers, InspectWorkspace(c)
    PROVE  CodexInv'
  <1>0. PICK i : i = caller[c].op
    OBVIOUS
  <1>1. i \in Ops /\ caller[c].pc # "idle"
    BY <1>0, CallerFields DEF InspectWorkspace
  <1>2. space' \in [Ops -> Workspaces]
    <2>0. space \in [Ops -> Workspaces] /\ space[i] \in Workspaces
      BY <1>1, SpaceFields DEF CodexInv, ProductTypeOK
    <2>1. CASE UNCHANGED space
      BY <2>1, <2>0
    <2>2. CASE \E h \in {space[i].created, space[i].head} :
                 space' = [space EXCEPT ![i].inspected = space[i].head, ![i].found = h]
      <3>1. PICK h \in {space[i].created, space[i].head} :
                 space' = [space EXCEPT ![i].inspected = space[i].head, ![i].found = h]
        BY <2>2
      <3>2. PICK w : w = [space[i] EXCEPT !.inspected = space[i].head, !.found = h]
        OBVIOUS
      <3>3. h \in Heads \cup {NoHead} /\ space[i].head \in Heads \cup {NoHead}
        BY <1>1, SpaceFields
      <3>4. w \in Workspaces
        BY <2>0, <3>2, <3>3 DEF Workspaces
      <3>5. space' = [space EXCEPT ![i] = w]
        BY <3>1, <3>2
      <3> QED
        BY <2>0, <3>4, <3>5
    <2>3. CASE space' = [space EXCEPT ![i].inspected = Unclear]
      <3>1. PICK w : w = [space[i] EXCEPT !.inspected = Unclear]
        OBVIOUS
      <3>2. w \in Workspaces
        BY <2>0, <3>1 DEF Workspaces
      <3>3. space' = [space EXCEPT ![i] = w]
        BY <2>3, <3>1
      <3> QED
        BY <2>0, <3>2, <3>3
    <2> QED
      BY <1>0, <2>1, <2>2, <2>3 DEF InspectWorkspace
  <1>3. Goto(c, "mark_refreshed") /\ "mark_refreshed" \in QuietPlaces
        /\ UNCHANGED <<task, profile, op, run, exec, intent, turn, sdk, runs>>
    BY DEF InspectWorkspace, QuietPlaces, Places
  <1> QED
    BY <1>1, <1>2, <1>3, SpaceWrite

-----------------------------------------------------------------------------
(* The intent.                                                             *)

(* Intent m replaces the intent of operation i. *)
IntentWrote(i, m) == intent' = [intent EXCEPT ![i] = m]

(* What intent m may say, given the journal and the row of operation i. *)
IntentIsSound(i, m) ==
    /\ m.acts = intent[i].acts
    /\ m.state = "executing" => m.acts > 0
    /\ m.state \in {"observed", "verified"} => m.observed # "none"
    /\ m.observed # "none" => turn[i].lifecycle = m.observed
    /\ m.outcome = "accepted" => m.observed = "turn_succeeded"
    /\ m.error # "none" => m.state \in {"ambiguous", "failed", "finalized"}
    /\ m.error = "preparation" => NeverRun(i)
    /\ op[i].result \in Terminal => m.observed = op[i].result
    /\ op[i].result = "preparation_failed" => m.error = "preparation"

LEMMA IntentWrite ==
    ASSUME CodexInv, NEW c \in Callers, Quietly(c), NEW i \in Ops,
           NEW m \in Intents, IntentWrote(i, m), IntentIsSound(i, m),
           task' \in [state : {"ready", "running", "waiting"}, revision : Nat],
           UNCHANGED <<profile, op, run, exec, space, turn, sdk, runs>>
    PROVE  CodexInv'
  <1>1. intent \in [Ops -> Intents] /\ RowIsHonest(i) /\ SourceIsKnown(i)
        /\ op[i].source \in {0} \cup Ops
    BY RowTypes DEF CodexInv, ProductTypeOK, RowsAreHonest
  <1>2. /\ intent' \in [Ops -> Intents] /\ intent'[i] = m
        /\ \A j \in Ops \ {i} : op'[j] = op[j] /\ intent'[j] = intent[j]
    BY <1>1 DEF IntentWrote
  <1>3. TypedRows'
    BY <1>2 DEF CodexInv, ProductTypeOK, TypedRows
  <1>4. TurnsAreQuiet
    BY DEF TurnsAreQuiet
  <1>5. ASSUME TurnsAreKept PROVE RowIsHonest(i)' /\ SourceIsKnown(i)'
    <2>1. NeverRun(i) => NeverRun(i)'
      BY <1>5 DEF TurnsAreKept
    <2>2. RowIsHonest(i)'
      BY <1>1, <1>2, <2>1 DEF RowIsHonest, IntentIsSound
    <2>3. SourceIsKnown(i)'
      BY <1>1 DEF SourceIsKnown
    <2> QED
      BY <2>2, <2>3
  <1>6. /\ UNCHANGED <<sdk, runs>>
        /\ op[i].kind # "none" => op'[i].kind # "none"
        /\ intent[i].acts > 0 => intent'[i].acts > 0
    BY <1>2 DEF IntentIsSound
  <1> QED
    BY <1>2, <1>3, <1>4, <1>5, <1>6, QuietWrite

LEMMA PreparedIntentStep ==
    ASSUME CodexInv, NEW c \in Callers, PreparedIntent(c, caller[c].op)
    PROVE  CodexInv'
  <1>0. PICK i : i = caller[c].op
    OBVIOUS
  <1>1. i \in Ops /\ caller[c].pc # "idle"
    BY <1>0, CallerFields DEF PreparedIntent
  <1>2. intent[i] \in Intents /\ RowIsHonest(i)
    BY <1>1, RowTypes DEF CodexInv, RowsAreHonest
  <1>3. PICK m : m = [intent[i] EXCEPT !.state = IF @ = "none" THEN "pending" ELSE @]
    OBVIOUS
  <1>4. /\ m \in Intents /\ m.acts = intent[i].acts /\ m.observed = intent[i].observed
        /\ m.outcome = intent[i].outcome /\ m.error = intent[i].error
        /\ m.state = intent[i].state \/ (m.state = "pending" /\ intent[i].state = "none")
    BY <1>2, <1>3 DEF Intents
  <1>5. IntentIsSound(i, m)
    BY <1>2, <1>4 DEF IntentIsSound, RowIsHonest
  <1>6. /\ IntentWrote(i, m) /\ Goto(c, "mark_prepared")
        /\ UNCHANGED <<task, profile, op, run, exec, space, turn, sdk, runs>>
    BY <1>0, <1>3 DEF PreparedIntent, IntentWrote
  <1>7. Quietly(c)
    BY <1>1, <1>6, GotoQuietly, SameKinds DEF QuietPlaces, Places
  <1>8. task' \in [state : {"ready", "running", "waiting"}, revision : Nat]
        /\ UNCHANGED <<profile, op, run, exec, space, turn, sdk, runs>>
    BY <1>6 DEF CodexInv, ProductTypeOK
  <1> QED
    BY <1>1, <1>4, <1>5, <1>6, <1>7, <1>8, IntentWrite

LEMMA PrepareIntentStep ==
    ASSUME CodexInv, NEW c \in Callers,
           PrepareStartIntent(c) \/ PrepareContinuationIntent(c)
    PROVE  CodexInv'
  BY PreparedIntentStep DEF PrepareStartIntent, PrepareContinuationIntent

LEMMA PersistObservationStep ==
    ASSUME CodexInv, NEW c \in Callers, PersistObservation(c)
    PROVE  CodexInv'
  <1>0. PICK i : i = caller[c].op
    OBVIOUS
  <1>1. i \in Ops /\ caller[c].pc # "idle"
    BY <1>0, CallerFields DEF PersistObservation
  <1>2. intent[i] \in Intents /\ RowIsHonest(i) /\ CallIsHonest(c, i)
    BY <1>1, RowTypes DEF CodexInv, RowsAreHonest, BackendIsHonest
  <1>3. turn[i].lifecycle \in Terminal /\ turn[i].lifecycle # "none"
    BY <1>0, <1>2 DEF CallIsHonest, PersistObservation, Terminal
  <1>4. PICK m : m = [intent[i] EXCEPT !.state = "observed", !.observed = turn[i].lifecycle]
    OBVIOUS
  <1>5. /\ m \in Intents /\ m.acts = intent[i].acts /\ m.observed = turn[i].lifecycle
        /\ m.outcome = intent[i].outcome /\ m.error = intent[i].error /\ m.state = "observed"
    BY <1>2, <1>3, <1>4 DEF Intents
  <1>6. intent[i].state = "executing"
    BY <1>0 DEF PersistObservation
  <1>7. IntentIsSound(i, m)
    BY <1>2, <1>3, <1>5, <1>6 DEF IntentIsSound, RowIsHonest, Terminal
  <1>8. /\ IntentWrote(i, m) /\ Step(c, "verify")
        /\ UNCHANGED <<task, profile, op, run, exec, space, turn, sdk, runs>>
    BY <1>0, <1>4 DEF PersistObservation, IntentWrote
  <1>9. Quietly(c)
    BY <1>1, <1>8, StepQuietly, SameKinds DEF QuietPlaces, Places
  <1>10. task' \in [state : {"ready", "running", "waiting"}, revision : Nat]
         /\ UNCHANGED <<profile, op, run, exec, space, turn, sdk, runs>>
    BY <1>8 DEF CodexInv, ProductTypeOK
  <1> QED
    BY <1>1, <1>5, <1>7, <1>8, <1>9, <1>10, IntentWrite

LEMMA VerifyObservationStep ==
    ASSUME CodexInv, NEW c \in Callers, VerifyObservation(c)
    PROVE  CodexInv'
  <1>0. PICK i : i = caller[c].op
    OBVIOUS
  <1>1. i \in Ops /\ caller[c].pc # "idle"
    BY <1>0, CallerFields DEF VerifyObservation
  <1>2. intent[i] \in Intents /\ RowIsHonest(i)
    BY <1>1, RowTypes DEF CodexInv, RowsAreHonest
  <1>3. PICK m : m = [intent[i] EXCEPT !.state = "verified"]
    OBVIOUS
  <1>4. /\ m \in Intents /\ m.acts = intent[i].acts /\ m.observed = intent[i].observed
        /\ m.outcome = intent[i].outcome /\ m.error = intent[i].error /\ m.state = "verified"
    BY <1>2, <1>3 DEF Intents
  <1>5. intent[i].state = "observed"
    BY <1>0 DEF VerifyObservation
  <1>6. IntentIsSound(i, m)
    BY <1>2, <1>4, <1>5 DEF IntentIsSound, RowIsHonest
  <1>7. /\ IntentWrote(i, m) /\ Step(c, "finalize")
        /\ UNCHANGED <<task, profile, op, run, exec, space, turn, sdk, runs>>
    BY <1>0, <1>3 DEF VerifyObservation, IntentWrote
  <1>8. Quietly(c)
    BY <1>1, <1>7, StepQuietly, SameKinds DEF QuietPlaces, Places
  <1>9. task' \in [state : {"ready", "running", "waiting"}, revision : Nat]
        /\ UNCHANGED <<profile, op, run, exec, space, turn, sdk, runs>>
    BY <1>7 DEF CodexInv, ProductTypeOK
  <1> QED
    BY <1>1, <1>4, <1>6, <1>7, <1>8, <1>9, IntentWrite

(* An accepted outcome is only given to a turn that was observed to succeed. *)
LEMMA FinalizeStep ==
    ASSUME CodexInv, NEW c \in Callers,
           FinalizeVerified(c) \/ FinalizeAdapterFailure(c)
    PROVE  CodexInv'
  <1>0. PICK i : i = caller[c].op
    OBVIOUS
  <1>1. i \in Ops /\ caller[c].pc # "idle"
    BY <1>0, CallerFields DEF FinalizeVerified, FinalizeAdapterFailure
  <1>2. intent[i] \in Intents /\ RowIsHonest(i) /\ intent[i].observed \in Terminal \cup {"none"}
    BY <1>1, RowTypes DEF CodexInv, RowsAreHonest
  <1>3. PICK outcome \in {"accepted", "waiting"} :
            /\ outcome = "accepted" => intent[i].observed = "turn_succeeded"
            /\ Finalized(i, outcome)
    BY <1>0, <1>2 DEF FinalizeVerified, FinalizeAdapterFailure, Outcome, RowIsHonest, Terminal
  <1>4. PICK m : m = [intent[i] EXCEPT !.state = "finalized", !.outcome = outcome]
    OBVIOUS
  <1>5. /\ m \in Intents /\ m.acts = intent[i].acts /\ m.observed = intent[i].observed
        /\ m.outcome = outcome /\ m.error = intent[i].error /\ m.state = "finalized"
    BY <1>2, <1>3, <1>4 DEF Intents
  <1>6. IntentIsSound(i, m)
    BY <1>2, <1>3, <1>5 DEF IntentIsSound, RowIsHonest
  <1>7. IntentWrote(i, m)
    BY <1>3, <1>4 DEF Finalized, IntentWrote
  <1>8. task' \in [state : {"ready", "running", "waiting"}, revision : Nat]
    BY <1>3 DEF Finalized, CodexInv, ProductTypeOK
  <1>9. Goto(c, "terminal") /\ UNCHANGED <<profile, op, run, exec, space, turn, sdk, runs>>
    BY DEF FinalizeVerified, FinalizeAdapterFailure
  <1>10. Quietly(c)
    BY <1>1, <1>9, GotoQuietly, SameKinds DEF QuietPlaces, Places
  <1> QED
    BY <1>1, <1>5, <1>6, <1>7, <1>8, <1>9, <1>10, IntentWrite

(* A preparation failure is only recorded of a turn that was never run. *)
LEMMA MarkAdapterFailureStep ==
    ASSUME CodexInv, NEW c \in Callers, MarkAdapterFailure(c)
    PROVE  CodexInv'
  <1>0. PICK i : i = caller[c].op
    OBVIOUS
  <1>1. i \in Ops /\ caller[c].pc # "idle" /\ caller[c] \in Calls /\ op[i].kind # "none"
    BY <1>0, CallerFields DEF MarkAdapterFailure
  <1>2. intent[i] \in Intents /\ RowIsHonest(i) /\ CallIsHonest(c, i)
    BY <1>1, RowTypes DEF CodexInv, RowsAreHonest, BackendIsHonest
  <1>3. caller[c].answer = "preparation" => NeverRun(i)
    BY <1>0, <1>2 DEF CallIsHonest
  <1>4. PICK k : k = [caller[c] EXCEPT !.pc = "fail_final", !.answer = "none"]
    OBVIOUS
  <1>5. k \in Calls /\ k.pc = "fail_final" /\ k.op = i /\ k.answer = "none"
    BY <1>0, <1>1, <1>4 DEF Calls
  <1>6. /\ caller' = [caller EXCEPT ![c] = k]
        /\ UNCHANGED <<task, profile, op, run, exec, space, turn, sdk, runs>> /\ UNCHANGED op
    BY <1>4 DEF MarkAdapterFailure
  <1>7. Quietly(c)
    BY <1>1, <1>5, <1>6 DEF Quietly
  <1>8. task' \in [state : {"ready", "running", "waiting"}, revision : Nat]
        /\ UNCHANGED <<profile, op, run, exec, space, turn, sdk, runs>>
    BY <1>6 DEF CodexInv, ProductTypeOK
  <1>9. CASE intent[i].state # "executing"
    <2>1. IntentIsSound(i, intent[i])
      BY <1>2, <1>9 DEF IntentIsSound, RowIsHonest
    <2>2. IntentWrote(i, intent[i])
      BY <1>0, <1>1, <1>9 DEF MarkAdapterFailure, IntentWrote, CodexInv, ProductTypeOK
    <2> QED
      BY <1>1, <1>2, <1>7, <1>8, <2>1, <2>2, IntentWrite
  <1>10. CASE intent[i].state = "executing"
    <2>1. PICK m : m = [intent[i] EXCEPT
               !.state = IF caller[c].answer = "ambiguous" THEN "ambiguous" ELSE "failed",
               !.error = IF caller[c].answer = "preparation" THEN "preparation" ELSE "other"]
      OBVIOUS
    <2>2. /\ m \in Intents /\ m.acts = intent[i].acts /\ m.observed = intent[i].observed
          /\ m.outcome = intent[i].outcome /\ m.state \in {"ambiguous", "failed"}
          /\ m.error = "preparation" => caller[c].answer = "preparation"
      BY <1>2, <2>1 DEF Intents
    <2>3. IntentIsSound(i, m)
      BY <1>2, <1>3, <1>10, <2>2 DEF IntentIsSound, RowIsHonest
    <2>4. IntentWrote(i, m)
      BY <1>0, <1>10, <2>1 DEF MarkAdapterFailure, IntentWrote
    <2> QED
      BY <1>1, <1>7, <1>8, <2>2, <2>3, <2>4, IntentWrite
  <1> QED
    BY <1>9, <1>10

-----------------------------------------------------------------------------
(* The Act authorization, and inspections of the journal.                  *)

LEMMA ActStep ==
    ASSUME CodexInv, NEW c \in Callers, Act(c)
    PROVE  CodexInv'
  <1>0. PICK i : i = caller[c].op
    OBVIOUS
  <1>1. i \in Ops /\ caller[c].pc # "idle" /\ caller[c] \in Calls /\ op[i].kind # "none"
    BY <1>0, CallerFields DEF Act
  <1>2. /\ intent[i] \in Intents /\ intent[i].acts \in Nat /\ op[i] \in ProductOperations
        /\ RowIsHonest(i) /\ SourceIsKnown(i) /\ op[i].source \in {0} \cup Ops
        /\ op \in [Ops -> ProductOperations] /\ intent \in [Ops -> Intents]
    BY <1>1, RowTypes DEF CodexInv, RowsAreHonest, ProductTypeOK
  <1>3. PICK acts : acts = intent[i].acts + 1
    OBVIOUS
  <1>4. acts \in Nat /\ acts > 0
    BY <1>2, <1>3
  <1>5. PICK m : m = [intent[i] EXCEPT !.state = "executing", !.acts = acts]
    OBVIOUS
  <1>6. /\ m \in Intents /\ m.acts = acts
        /\ m.observed = intent[i].observed /\ m.outcome = intent[i].outcome
        /\ m.error = intent[i].error /\ m.state = "executing"
    BY <1>2, <1>4, <1>5 DEF Intents
  <1>7. PICK n : n = [op[i] EXCEPT !.stage = "effect_possible", !.lifecycle = "active"]
    OBVIOUS
  <1>8. /\ n \in ProductOperations /\ n.kind = op[i].kind /\ n.source = op[i].source
        /\ n.result = op[i].result /\ n.stage = "effect_possible"
    BY <1>2, <1>7 DEF ProductOperations, StageIndex, Unfinished
  <1>9. PICK act : act = IF FreshAct(i) THEN 0 ELSE intent[i].acts + 1
    OBVIOUS
  <1>10. act \in Nat
    BY <1>2, <1>9
  <1>11. PICK k : k = [caller[c] EXCEPT !.pc = "reread", !.act = act]
    OBVIOUS
  <1>12. k \in Calls /\ k.pc = "reread" /\ k.op = i /\ k.answer = caller[c].answer
    BY <1>0, <1>1, <1>10, <1>11 DEF Calls
  <1>13. /\ IntentWrote(i, m) /\ Wrote(i, n)
         /\ caller' = [caller EXCEPT ![c] = k]
         /\ UNCHANGED <<task, profile, run, exec, space, turn, sdk, runs>>
    BY <1>0, <1>3, <1>5, <1>7, <1>9, <1>11 DEF Act, IntentWrote, Wrote
  <1>14. intent[i].state \in {"pending", "executing"}
    BY <1>0 DEF Act, FreshAct, RecoveredAct
  <1>15. /\ op'[i] = n /\ intent'[i] = m
         /\ op' \in [Ops -> ProductOperations] /\ intent' \in [Ops -> Intents]
         /\ \A j \in Ops \ {i} : op'[j] = op[j] /\ intent'[j] = intent[j]
    <2>1. op'[i] = n /\ op' \in [Ops -> ProductOperations] /\ \A j \in Ops \ {i} : op'[j] = op[j]
      <3>1. op \in [Ops -> ProductOperations] /\ n \in ProductOperations
        BY <1>2, <1>8
      <3>2. op' = [op EXCEPT ![i] = n]
        BY <1>13 DEF Wrote
      <3> QED
        BY <1>1, <3>1, <3>2
    <2>2. intent'[i] = m /\ intent' \in [Ops -> Intents]
          /\ \A j \in Ops \ {i} : intent'[j] = intent[j]
      <3>1. intent \in [Ops -> Intents] /\ m \in Intents
        BY <1>2, <1>6
      <3>2. intent' = [intent EXCEPT ![i] = m]
        BY <1>13 DEF IntentWrote
      <3> QED
        BY <1>1, <3>1, <3>2
    <2> QED
      BY <2>1, <2>2
  <1>16. TypedRows'
    BY <1>13, <1>15 DEF CodexInv, ProductTypeOK, TypedRows
  <1>17. Quietly(c)
    <2>1. op'[k.op].kind # "none"
      BY <1>1, <1>8, <1>12, <1>15
    <2>2. caller' = [caller EXCEPT ![c] = k]
      BY <1>13
    <2> QED
      BY <1>0, <1>1, <1>12, <2>1, <2>2 DEF Quietly
  <1>18. ASSUME TurnsAreKept PROVE RowIsHonest(i)' /\ SourceIsKnown(i)'
    <2>1. ~(StageIndex[n.stage] < 5)
      BY <1>8 DEF StageIndex
    <2>2. RowIsHonest(i)'
      BY <1>1, <1>2, <1>4, <1>6, <1>8, <1>13, <1>14, <1>15, <2>1 DEF RowIsHonest
    <2>3. SourceIsKnown(i)'
      BY <1>2, <1>8, <1>13, <1>15 DEF SourceIsKnown
    <2> QED
      BY <2>2, <2>3
  <1>19. /\ TurnsAreQuiet /\ UNCHANGED <<sdk, runs>>
         /\ op[i].kind # "none" => op'[i].kind # "none"
         /\ intent[i].acts > 0 => intent'[i].acts > 0
    BY <1>4, <1>6, <1>8, <1>13, <1>15 DEF TurnsAreQuiet
  <1> QED
    BY <1>1, <1>15, <1>16, <1>17, <1>18, <1>19, QuietWrite

LEMMA DemotedTurn ==
    ASSUME CodexInv, NEW i \in Ops, turn' \in {turn, Demoted(i)}
    PROVE  turn' \in [Ops -> Turns] /\ TurnsAreQuiet
  <1>0. turn \in [Ops -> Turns] /\ turn[i] \in Turns
    BY RowTypes DEF CodexInv, ProductTypeOK
  <1>1. CASE turn' = turn
    BY <1>0, <1>1 DEF TurnsAreQuiet
  <1>2. CASE turn' # turn
    <2>1. PICK t : t = [turn[i] EXCEPT !.lifecycle = "unknown"]
      OBVIOUS
    <2>2. t \in Turns /\ t.lifecycle = "unknown"
      BY <1>0, <2>1 DEF Turns
    <2>3. turn[i].lifecycle = "active" /\ turn' = [turn EXCEPT ![i] = t]
      BY <1>2, <2>1 DEF Demoted
    <2>4. turn'[i] = t /\ turn' \in [Ops -> Turns] /\ \A j \in Ops \ {i} : turn'[j] = turn[j]
      BY <1>0, <2>2, <2>3
    <2>5. TurnsAreQuiet
      BY <2>2, <2>3, <2>4 DEF TurnsAreQuiet
    <2> QED
      BY <2>4, <2>5
  <1> QED
    BY <1>1, <1>2

LEMMA InspectUnprovenStep ==
    ASSUME CodexInv, NEW c \in Callers, InspectUnproven(c)
    PROVE  CodexInv'
  <1>0. PICK i : i = caller[c].op
    OBVIOUS
  <1>1. i \in Ops /\ caller[c].pc # "idle" /\ caller[c] \in Calls /\ op[i].kind # "none"
    BY <1>0, CallerFields DEF InspectUnproven
  <1>2. caller[c].answer \in {"none", "ok", "plain", "preparation", "ambiguous"}
    BY <1>1, CallFields
  <1>3. PICK reply \in {caller[c].answer, "plain", "ambiguous"} :
            caller' = [caller EXCEPT ![c].pc = "fail", ![c].answer = reply]
    BY DEF InspectUnproven
  <1>4. PICK k : k = [caller[c] EXCEPT !.pc = "fail", !.answer = reply]
    OBVIOUS
  <1>5. k \in Calls /\ k.pc = "fail" /\ k.op = i /\ k.answer = reply
    BY <1>0, <1>1, <1>2, <1>4 DEF Calls
  <1>6. /\ caller' = [caller EXCEPT ![c] = k]
        /\ UNCHANGED <<task, profile, op, run, exec, space, intent, sdk, runs>> /\ UNCHANGED op
        /\ turn' \in {turn, Demoted(i)}
    BY <1>0, <1>3, <1>4 DEF InspectUnproven
  <1>7. Quietly(c)
    BY <1>0, <1>1, <1>5, <1>6 DEF Quietly
  <1>8. turn' \in [Ops -> Turns] /\ TurnsAreQuiet
    BY <1>1, <1>6, DemotedTurn
  <1>9. TypedRows' /\ UNCHANGED <<op, intent, sdk, runs>>
    BY <1>6, <1>8 DEF CodexInv, ProductTypeOK, TypedRows
  <1> QED
    BY <1>7, <1>8, <1>9, QuietStep

LEMMA LookStep ==
    ASSUME CodexInv, NEW c \in Callers, Look(c)
    PROVE  CodexInv'
  <1>0. PICK i : i = caller[c].op
    OBVIOUS
  <1>1. i \in Ops /\ caller[c].pc # "idle" /\ caller[c] \in Calls /\ op[i].kind # "none"
    BY <1>0, CallerFields DEF Look
  <1>2. UNCHANGED <<task, profile, op, run, exec, space, intent, sdk, runs>> /\ UNCHANGED op
    BY DEF Look
  <1>3. turn' \in {turn, Demoted(i)}
    BY <1>0 DEF Look
  <1>4. Quietly(c)
    <2>1. CASE Proven(i) /\ caller' = [caller EXCEPT ![c].pc = "observe",
                                          ![c].expired = caller[c].pc = "reconcile"]
      <3>1. PICK expired \in BOOLEAN : expired = (caller[c].pc = "reconcile")
        OBVIOUS
      <3>2. PICK k : k = [caller[c] EXCEPT !.pc = "observe", !.expired = expired]
        OBVIOUS
      <3>3. k \in Calls /\ k.pc = "observe" /\ k.op = i /\ k.answer = caller[c].answer
        BY <1>0, <1>1, <3>1, <3>2 DEF Calls
      <3>4. caller' = [caller EXCEPT ![c] = k] /\ turn[i].lifecycle \in Terminal
        BY <2>1, <3>1, <3>2 DEF Proven
      <3> QED
        BY <1>0, <1>1, <1>2, <3>3, <3>4 DEF Quietly
    <2>2. CASE caller' = [caller EXCEPT ![c].pc = "fail", ![c].expired = TRUE,
                             ![c].answer = "ambiguous"]
      <3>2. PICK k : k = [caller[c] EXCEPT !.pc = "fail", !.expired = TRUE, !.answer = "ambiguous"]
        OBVIOUS
      <3>3. k \in Calls /\ k.pc = "fail" /\ k.op = i /\ k.answer = "ambiguous"
        BY <1>0, <1>1, <3>2 DEF Calls
      <3>4. caller' = [caller EXCEPT ![c] = k]
        BY <2>2, <3>2
      <3> QED
        BY <1>1, <1>2, <3>3, <3>4 DEF Quietly
    <2>3. CASE Return(c)
      BY <2>3, ReturnQuietly
    <2> QED
      BY <1>0, <2>1, <2>2, <2>3 DEF Look
  <1>5. turn' \in [Ops -> Turns] /\ TurnsAreQuiet
    BY <1>1, <1>3, DemotedTurn
  <1>6. TypedRows' /\ UNCHANGED <<op, intent, sdk, runs>>
    BY <1>2, <1>5 DEF CodexInv, ProductTypeOK, TypedRows
  <1> QED
    BY <1>4, <1>5, <1>6, QuietStep

-----------------------------------------------------------------------------
(* The backend.                                                            *)

(* What the call c that owns turn i may do to it: k is what the call becomes, and no
   other call drives i. *)
BackendMove(c, i, k) ==
    /\ caller' = [caller EXCEPT ![c] = k]
    /\ k.pc # "idle" => k.op = i
    /\ k.op \in {0, i} /\ k.pc # "observe"
    /\ \A d \in Callers \ {c} : ~Drives(d, i)
    /\ \A j \in Ops \ {i} : turn'[j] = turn[j] /\ sdk'[j] = sdk[j] /\ runs'[j] = runs[j]
    /\ runs'[i] <= 1
    /\ turn'[i].lifecycle # "none" /\ intent[i].acts > 0
    /\ turn'[i].lifecycle \in Terminal => sdk'[i] = turn'[i].lifecycle
    /\ turn'[i].lifecycle \in Terminal => k.pc \notin {"driver", "sdk", "record"}
    /\ turn[i].lifecycle \in Terminal => turn'[i].lifecycle = turn[i].lifecycle
    /\ k.pc = "driver" => runs'[i] = 0
    /\ k.pc = "record" => sdk'[i] \in Terminal
    /\ NeverRun(i) => runs'[i] = 0 /\ k.pc # "driver"
    /\ k.answer = "preparation" => k.op = i /\ runs'[i] = 0 /\ k.pc # "driver"

LEMMA BackendStep ==
    ASSUME CodexInv, NEW c \in Callers, NEW i \in Ops,
           caller[c].pc # "idle", caller[c].op = i, NEW k \in Calls, BackendMove(c, i, k),
           turn' \in [Ops -> Turns], runs' \in [Ops -> Nat], space' \in [Ops -> Workspaces],
           sdk' \in [Ops -> SdkStates],
           UNCHANGED <<task, profile, op, run, exec, intent>>
    PROVE  CodexInv'
  <1>0. caller \in [Callers -> Calls] /\ op[i].kind # "none" /\ 0 \notin Ops
    BY CallerFields, CodexConstants DEF CodexInv, ProductTypeOK
  <1>1. /\ caller'[c] = k /\ caller' \in [Callers -> Calls]
        /\ \A d \in Callers \ {c} : caller'[d] = caller[d]
    BY <1>0 DEF BackendMove
  <1>2. CallsOwn'
    BY <1>0, <1>1 DEF CodexInv, CallsOwn, BackendMove
  <1>3. TypedRows'
    BY DEF CodexInv, ProductTypeOK, TypedRows
  <1>4. \A j \in Ops : NeverRun(j) => NeverRun(j)'
    <2>1. NeverRun(i) => NeverRun(i)'
      BY <1>1 DEF NeverRun, BackendMove
    <2>2. ASSUME NEW j \in Ops \ {i} PROVE NeverRun(j) => NeverRun(j)'
      BY <2>2, <1>0, <1>1 DEF NeverRun, BackendMove
    <2> QED
      BY <2>1, <2>2
  <1>5. TurnsAreKept
    BY <1>4 DEF TurnsAreKept, BackendMove
  <1>6. RowsAreHonest'
    BY <1>5, CodexRowsKept DEF CodexInv
  <1>7. ASSUME NEW j \in Ops PROVE TurnIsHonest(j)'
    <2>0. TurnIsHonest(j)
      BY <1>7 DEF CodexInv, BackendIsHonest
    <2>1. CASE j = i
      <3>1. \A d \in Callers : Drives(d, i)' => d = c /\ k.pc \in {"driver", "sdk", "record"}
        BY <1>1 DEF BackendMove, Drives
      <3>2. turn'[i].lifecycle \in Terminal \cup {"none"} => \A d \in Callers : ~Drives(d, i)'
        BY <3>1 DEF BackendMove
      <3>3. \A d, e \in Callers : Drives(d, i)' /\ Drives(e, i)' => d = e
        BY <3>1
      <3> QED
        BY <2>1, <3>2, <3>3 DEF BackendMove, TurnIsHonest
    <2>2. CASE j # i
      <3>1. \A d \in Callers : Drives(d, j)' => Drives(d, j)
        BY <2>2, <1>0, <1>1 DEF BackendMove, Drives
      <3>2. turn'[j] = turn[j] /\ sdk'[j] = sdk[j] /\ runs'[j] = runs[j] /\ intent'[j] = intent[j]
        BY <2>2 DEF BackendMove
      <3> QED
        BY <2>0, <3>1, <3>2 DEF TurnIsHonest
    <2> QED
      BY <2>1, <2>2
  <1>8. ASSUME NEW j \in Ops, NEW d \in Callers PROVE CallIsHonest(d, j)'
    <2> SUFFICES ASSUME caller'[d].op = j
                 PROVE  /\ caller'[d].pc = "driver" => runs'[j] = 0
                        /\ caller'[d].pc = "record" => sdk'[j] \in Terminal
                        /\ caller'[d].pc = "observe" => turn'[j].lifecycle \in Terminal
                        /\ caller'[d].answer = "preparation" => NeverRun(j)'
      BY <1>8 DEF CallIsHonest
    <2>1. CASE d = c
      <3>1. j = i
        BY <2>1, <1>0, <1>1 DEF BackendMove
      <3>2. k.answer = "preparation" => NeverRun(i)'
        <4> SUFFICES ASSUME k.answer = "preparation" PROVE NeverRun(i)'
          OBVIOUS
        <4>1. turn'[i].lifecycle # "none" /\ runs'[i] = 0 /\ k.pc # "driver"
          BY DEF BackendMove
        <4>2. \A e \in Callers : ~(caller'[e].op = i /\ caller'[e].pc = "driver")
          BY <4>1, <1>1 DEF BackendMove, Drives
        <4> QED
          BY <4>1, <4>2 DEF NeverRun
      <3> QED
        BY <2>1, <1>1, <3>1, <3>2 DEF BackendMove
    <2>2. CASE d # c
      <3>1. caller'[d] = caller[d] /\ CallIsHonest(d, j) /\ (NeverRun(j) => NeverRun(j)')
        BY <1>1, <1>4, <2>2, <1>8 DEF CodexInv, BackendIsHonest
      <3>2. turn[j].lifecycle \in Terminal => turn'[j].lifecycle \in Terminal
        BY <1>5 DEF TurnsAreKept
      <3>3. CASE j = i
        BY <2>2, <3>1, <3>2, <3>3 DEF CallIsHonest, BackendMove, Drives
      <3>4. CASE j # i
        BY <3>1, <3>2, <3>4 DEF CallIsHonest, BackendMove
      <3> QED
        BY <3>3, <3>4
    <2> QED
      BY <2>1, <2>2
  <1>9. BackendIsHonest'
    BY <1>7, <1>8 DEF BackendIsHonest
  <1> QED
    BY <1>1, <1>2, <1>3, <1>6, <1>9 DEF CodexInv, ProductTypeOK, TypedRows

(* What a call that drives the SDK relies on. *)
LEMMA DriverFacts ==
    ASSUME CodexInv, NEW c \in Callers, NEW i \in Ops, Drives(c, i)
    PROVE  /\ turn[i] \in Turns /\ turn[i].lifecycle \in {"unknown", "active"}
           /\ turn \in [Ops -> Turns] /\ intent[i].acts > 0
           /\ \A d \in Callers \ {c} : ~Drives(d, i)
           /\ runs[i] <= 1 /\ runs[i] \in Nat /\ (caller[c].pc = "driver" => runs[i] = 0)
           /\ caller[c].pc = "record" => sdk[i] \in Terminal
  <1>1. turn \in [Ops -> Turns] /\ turn[i] \in Turns /\ runs[i] \in Nat
    BY RowTypes DEF CodexInv, ProductTypeOK
  <1>2. turn[i].lifecycle \in {"none", "unknown", "active"} \cup Terminal
    BY <1>1 DEF Turns
  <1>3. TurnIsHonest(i) /\ CallIsHonest(c, i)
    BY DEF CodexInv, BackendIsHonest
  <1>4. turn[i].lifecycle \in {"unknown", "active"}
    BY <1>2, <1>3 DEF TurnIsHonest
  <1> QED
    BY <1>1, <1>3, <1>4 DEF TurnIsHonest, CallIsHonest, Drives

LEMMA PreparedTurnStep ==
    ASSUME CodexInv, NEW c \in Callers, NEW thread \in BOOLEAN,
           PreparedTurn(c, caller[c].op, thread)
    PROVE  CodexInv'
  <1>0. PICK i : i = caller[c].op
    OBVIOUS
  <1>1. i \in Ops /\ caller[c].pc # "idle" /\ caller[c] \in Calls /\ caller[c].act \in Nat
        /\ i \in 0..MaxOps
    BY <1>0, CallerFields, CallFields, CodexConstants DEF PreparedTurn, Heads
  <1>2. PICK t : t = [lifecycle |-> "unknown", thread |-> thread, act |-> caller[c].act]
    OBVIOUS
  <1>3. t \in Turns /\ t.lifecycle = "unknown"
    BY <1>1, <1>2 DEF Turns
  <1>4. PICK k : k = [Idle EXCEPT !.pc = "driver", !.op = i]
    OBVIOUS
  <1>5. k \in Calls /\ k.pc = "driver" /\ k.op = i /\ k.answer = "none"
    BY <1>1, <1>4, CodexConstants DEF Idle, Calls
  <1>6. /\ turn' = [turn EXCEPT ![i] = t] /\ caller' = [caller EXCEPT ![c] = k]
        /\ turn[i].lifecycle = "none" /\ intent[i].state = "executing"
        /\ UNCHANGED <<task, profile, op, run, exec, space, intent, sdk, runs>>
    BY <1>0, <1>2, <1>4 DEF PreparedTurn, TurnIsReplayed, IsAuthorized, Goto
  <1>7. /\ turn \in [Ops -> Turns] /\ TurnIsHonest(i) /\ RowIsHonest(i)
    BY <1>1 DEF CodexInv, ProductTypeOK, BackendIsHonest, RowsAreHonest
  <1>8. turn'[i] = t /\ turn' \in [Ops -> Turns] /\ \A j \in Ops \ {i} : turn'[j] = turn[j]
    BY <1>1, <1>3, <1>6, <1>7
  <1>9. /\ intent[i].acts > 0 /\ runs[i] = 0 /\ ~NeverRun(i)
        /\ \A d \in Callers \ {c} : ~Drives(d, i)
    BY <1>6, <1>7 DEF TurnIsHonest, RowIsHonest, NeverRun
  <1>10. BackendMove(c, i, k)
    BY <1>3, <1>5, <1>6, <1>8, <1>9 DEF BackendMove, Terminal
  <1>11. UNCHANGED <<task, profile, op, run, exec, intent>>
         /\ space' \in [Ops -> Workspaces] /\ runs' \in [Ops -> Nat]
         /\ sdk' \in [Ops -> SdkStates]
    BY <1>6 DEF CodexInv, ProductTypeOK
  <1> QED
    BY <1>0, <1>1, <1>5, <1>8, <1>10, <1>11, BackendStep

LEMMA PrepareTurnStep ==
    ASSUME CodexInv, NEW c \in Callers, PrepareStart(c) \/ PrepareResume(c)
    PROVE  CodexInv'
  BY PreparedTurnStep DEF PrepareStart, PrepareResume

LEMMA ResumedTurn ==
    ASSUME CodexInv, NEW c \in Callers, NEW i \in Ops, Drives(c, i),
           turn' = Resumed(i)
    PROVE  /\ turn' \in [Ops -> Turns] /\ turn'[i].lifecycle \in {"unknown", "active"}
           /\ \A j \in Ops \ {i} : turn'[j] = turn[j]
  <1>1. turn[i] \in Turns /\ turn[i].lifecycle \in {"unknown", "active"} /\ turn \in [Ops -> Turns]
    BY DriverFacts
  <1>2. CASE turn' = turn
    BY <1>1, <1>2
  <1>3. CASE turn' # turn
    <2>1. PICK t : t = [turn[i] EXCEPT !.lifecycle = "active"]
      OBVIOUS
    <2>2. t \in Turns /\ t.lifecycle = "active"
      BY <1>1, <2>1 DEF Turns
    <2>3. turn' = [turn EXCEPT ![i] = t]
      BY <1>3, <2>1 DEF Resumed
    <2>4. turn'[i] = t /\ turn' \in [Ops -> Turns] /\ \A j \in Ops \ {i} : turn'[j] = turn[j]
      BY <1>1, <2>2, <2>3
    <2> QED
      BY <2>2, <2>4
  <1> QED
    BY <1>2, <1>3

(* The driver fails before the SDK: no other call is there to run it. *)
LEMMA DriverFailsStep ==
    ASSUME CodexInv, NEW c \in Callers, DriverFails(c)
    PROVE  CodexInv'
  <1>0. PICK i : i = caller[c].op
    OBVIOUS
  <1>1. i \in Ops /\ caller[c].pc = "driver" /\ caller[c].pc # "idle" /\ caller[c] \in Calls
        /\ Drives(c, i)
    BY <1>0, CallerFields DEF DriverFails, Drives
  <1>2. PICK k : k = [caller[c] EXCEPT !.pc = "inspect", !.act = 0, !.answer = "preparation"]
    OBVIOUS
  <1>3. k \in Calls /\ k.pc = "inspect" /\ k.op = i /\ k.answer = "preparation"
    BY <1>0, <1>1, <1>2 DEF Calls
  <1>4. /\ turn' = Resumed(i) /\ caller' = [caller EXCEPT ![c] = k]
        /\ UNCHANGED <<task, profile, op, run, exec, space, intent, sdk, runs>>
    BY <1>0, <1>2 DEF DriverFails, BackendAnswer
  <1>5. /\ turn' \in [Ops -> Turns] /\ turn'[i].lifecycle \in {"unknown", "active"}
        /\ \A j \in Ops \ {i} : turn'[j] = turn[j]
    BY <1>1, <1>4, ResumedTurn
  <1>6. BackendMove(c, i, k)
    BY <1>1, <1>3, <1>4, <1>5, DriverFacts DEF BackendMove, Terminal
  <1>7. UNCHANGED <<task, profile, op, run, exec, intent>>
        /\ space' \in [Ops -> Workspaces] /\ runs' \in [Ops -> Nat]
        /\ sdk' \in [Ops -> SdkStates]
    BY <1>4 DEF CodexInv, ProductTypeOK
  <1> QED
    BY <1>0, <1>1, <1>3, <1>5, <1>6, <1>7, BackendStep

(* The SDK is run by the only driver of a turn, which it has not run before. *)
LEMMA RunSdkStep ==
    ASSUME CodexInv, NEW c \in Callers, RunSdk(c)
    PROVE  CodexInv'
  <1>0. PICK i : i = caller[c].op
    OBVIOUS
  <1>1. i \in Ops /\ caller[c].pc = "driver" /\ caller[c].pc # "idle" /\ Drives(c, i)
        /\ i \in 0..MaxOps
    BY <1>0, CallerFields, CodexConstants DEF RunSdk, Drives, Heads
  <1>2. PICK k : k = [Idle EXCEPT !.pc = "sdk", !.op = i]
    OBVIOUS
  <1>3. k \in Calls /\ k.pc = "sdk" /\ k.op = i /\ k.answer = "none"
    BY <1>1, <1>2, CodexConstants DEF Idle, Calls
  <1>4. /\ turn' = Resumed(i) /\ caller' = [caller EXCEPT ![c] = k]
        /\ sdk' = [sdk EXCEPT ![i] = "running"] /\ runs' = [runs EXCEPT ![i] = @ + 1]
        /\ UNCHANGED <<task, profile, op, run, exec, space, intent>>
    BY <1>0, <1>2 DEF RunSdk, Goto
  <1>5. /\ turn' \in [Ops -> Turns] /\ turn'[i].lifecycle \in {"unknown", "active"}
        /\ \A j \in Ops \ {i} : turn'[j] = turn[j]
    BY <1>1, <1>4, ResumedTurn
  <1>6. runs[i] = 0 /\ runs \in [Ops -> Nat]
    BY <1>1, DriverFacts DEF CodexInv, ProductTypeOK
  <1>7. /\ runs'[i] = 1 /\ runs' \in [Ops -> Nat] /\ \A j \in Ops \ {i} : runs'[j] = runs[j]
    BY <1>1, <1>4, <1>6
  <1>8. /\ sdk' \in [Ops -> SdkStates]
        /\ \A j \in Ops \ {i} : sdk'[j] = sdk[j]
    BY <1>1, <1>4 DEF CodexInv, ProductTypeOK, SdkStates
  <1>9. ~NeverRun(i)
    BY <1>0, <1>1 DEF NeverRun
  <1>10. BackendMove(c, i, k)
    BY <1>1, <1>3, <1>4, <1>5, <1>7, <1>8, <1>9, DriverFacts DEF BackendMove, Terminal
  <1>11. UNCHANGED <<task, profile, op, run, exec, intent>> /\ space' \in [Ops -> Workspaces]
    BY <1>4 DEF CodexInv, ProductTypeOK
  <1> QED
    BY <1>0, <1>1, <1>3, <1>5, <1>7, <1>8, <1>10, <1>11, BackendStep

LEMMA ThreadStartedStep ==
    ASSUME CodexInv, NEW c \in Callers, ThreadStarted(c)
    PROVE  CodexInv'
  <1>0. PICK i : i = caller[c].op
    OBVIOUS
  <1>1. i \in Ops /\ caller[c].pc = "sdk" /\ caller[c].pc # "idle" /\ caller[c] \in Calls
        /\ Drives(c, i) /\ caller \in [Callers -> Calls]
    BY <1>0, CallerFields DEF ThreadStarted, Drives, CodexInv, ProductTypeOK
  <1>2. /\ turn[i] \in Turns /\ turn[i].lifecycle \in {"unknown", "active"}
        /\ turn \in [Ops -> Turns] /\ CallIsHonest(c, i)
        /\ sdk \in [Ops -> SdkStates]
    BY <1>1, DriverFacts DEF CodexInv, ProductTypeOK, BackendIsHonest
  <1>3. UNCHANGED <<task, profile, op, run, exec, intent>> /\ runs' = runs
        /\ space' \in [Ops -> Workspaces] /\ runs' \in [Ops -> Nat]
    BY DEF ThreadStarted, CodexInv, ProductTypeOK
  <1>4. CASE /\ turn' = [turn EXCEPT ![i].lifecycle = "active", ![i].thread = TRUE]
             /\ sdk' = [sdk EXCEPT ![i] = "streaming"] /\ UNCHANGED caller
    <2>1. PICK t : t = [turn[i] EXCEPT !.lifecycle = "active", !.thread = TRUE]
      OBVIOUS
    <2>2. t \in Turns /\ t.lifecycle = "active"
      BY <1>2, <2>1 DEF Turns
    <2>3. turn' = [turn EXCEPT ![i] = t]
      BY <1>4, <2>1
    <2>4. turn'[i] = t /\ turn' \in [Ops -> Turns] /\ \A j \in Ops \ {i} : turn'[j] = turn[j]
      BY <1>1, <1>2, <2>2, <2>3
    <2>5. /\ sdk' \in [Ops -> SdkStates]
          /\ \A j \in Ops \ {i} : sdk'[j] = sdk[j]
      BY <1>1, <1>2, <1>4 DEF SdkStates
    <2>6. PICK k \in Calls : k = caller[c]
      BY <1>1
    <2>7. caller' = [caller EXCEPT ![c] = k]
      BY <1>1, <1>4, <2>6
    <2>8. k.answer = "preparation" => runs[i] = 0
      BY <1>0, <1>2, <2>6 DEF CallIsHonest, NeverRun
    <2>9. NeverRun(i) => runs[i] = 0
      BY DEF NeverRun
    <2>10. BackendMove(c, i, k)
      BY <1>0, <1>1, <1>3, <2>2, <2>4, <2>5, <2>6, <2>7, <2>8, <2>9, DriverFacts
         DEF BackendMove, Terminal
    <2> QED
      BY <1>0, <1>1, <1>3, <2>4, <2>5, <2>10, BackendStep
  <1>5. CASE /\ UNCHANGED turn /\ sdk' = [sdk EXCEPT ![i] = "cut"] /\ BackendAnswer(c, "plain")
    <2>1. /\ sdk' \in [Ops -> SdkStates]
          /\ \A j \in Ops \ {i} : sdk'[j] = sdk[j]
      BY <1>1, <1>2, <1>5 DEF SdkStates
    <2>2. PICK k : k = [caller[c] EXCEPT !.pc = "inspect", !.act = 0, !.answer = "plain"]
      OBVIOUS
    <2>3. k \in Calls /\ k.pc = "inspect" /\ k.op = i /\ k.answer = "plain"
      BY <1>0, <1>1, <2>2 DEF Calls
    <2>4. caller' = [caller EXCEPT ![c] = k]
      BY <1>5, <2>2 DEF BackendAnswer
    <2>5. NeverRun(i) => runs[i] = 0
      BY DEF NeverRun
    <2>6. BackendMove(c, i, k)
      BY <1>1, <1>2, <1>3, <1>5, <2>1, <2>3, <2>4, <2>5, DriverFacts DEF BackendMove, Terminal
    <2>7. turn' \in [Ops -> Turns]
      BY <1>2, <1>5
    <2> QED
      BY <1>0, <1>1, <1>3, <2>1, <2>3, <2>6, <2>7, BackendStep
  <1> QED
    BY <1>0, <1>4, <1>5 DEF ThreadStarted

LEMMA WorkedSpace ==
    ASSUME CodexInv, NEW i \in Ops, Worked(i)
    PROVE  space' \in [Ops -> Workspaces]
  <1>1. PICK h \in {space[i].head} \cup ({i} \cap Committing) :
            space' = [space EXCEPT ![i].head = h]
    BY DEF Worked
  <1>2. space[i] \in Workspaces /\ h \in Heads \cup {NoHead} /\ space \in [Ops -> Workspaces]
    BY SpaceFields, CodexConstants DEF CodexInv, ProductTypeOK
  <1>3. PICK w : w = [space[i] EXCEPT !.head = h]
    OBVIOUS
  <1>4. w \in Workspaces
    BY <1>2, <1>3 DEF Workspaces
  <1>5. space' = [space EXCEPT ![i] = w]
    BY <1>1, <1>3
  <1> QED
    BY <1>2, <1>4, <1>5

LEMMA SdkEndsStep ==
    ASSUME CodexInv, NEW c \in Callers, SdkEnds(c)
    PROVE  CodexInv'
  <1>0. PICK i : i = caller[c].op
    OBVIOUS
  <1>1. i \in Ops /\ caller[c].pc = "sdk" /\ caller[c].pc # "idle" /\ Drives(c, i)
        /\ i \in 0..MaxOps
    BY <1>0, CallerFields, CodexConstants DEF SdkEnds, Drives, Heads
  <1>2. PICK k : k = [Idle EXCEPT !.pc = "record", !.op = i]
    OBVIOUS
  <1>3. k \in Calls /\ k.pc = "record" /\ k.op = i /\ k.answer = "none"
    BY <1>1, <1>2, CodexConstants DEF Idle, Calls
  <1>4. /\ caller' = [caller EXCEPT ![c] = k]
        /\ UNCHANGED <<task, profile, op, run, exec, intent, turn, runs>>
    BY <1>0, <1>2 DEF SdkEnds, Goto
  <1>5. PICK outcome \in Terminal : sdk' = [sdk EXCEPT ![i] = outcome]
    BY <1>0 DEF SdkEnds
  <1>6. /\ sdk' \in [Ops -> SdkStates]
        /\ sdk'[i] \in Terminal /\ \A j \in Ops \ {i} : sdk'[j] = sdk[j]
    BY <1>1, <1>5 DEF CodexInv, ProductTypeOK, Terminal, SdkStates
  <1>7. NeverRun(i) => runs[i] = 0
    BY DEF NeverRun
  <1>8. BackendMove(c, i, k)
    BY <1>1, <1>3, <1>4, <1>6, <1>7, DriverFacts DEF BackendMove, Terminal
  <1>9. turn' \in [Ops -> Turns] /\ runs' \in [Ops -> Nat]
        /\ UNCHANGED <<task, profile, op, run, exec, intent>>
    BY <1>4 DEF CodexInv, ProductTypeOK
  <1>10. space' \in [Ops -> Workspaces]
    BY <1>0, <1>1, WorkedSpace DEF SdkEnds
  <1> QED
    BY <1>0, <1>1, <1>3, <1>6, <1>8, <1>9, <1>10, BackendStep

LEMMA SdkFailsStep ==
    ASSUME CodexInv, NEW c \in Callers, SdkFails(c)
    PROVE  CodexInv'
  <1>0. PICK i : i = caller[c].op
    OBVIOUS
  <1>1. i \in Ops /\ caller[c].pc = "sdk" /\ caller[c].pc # "idle" /\ caller[c] \in Calls
        /\ Drives(c, i)
    BY <1>0, CallerFields DEF SdkFails, Drives
  <1>2. PICK k : k = [caller[c] EXCEPT !.pc = "inspect", !.act = 0, !.answer = "ambiguous"]
    OBVIOUS
  <1>3. k \in Calls /\ k.pc = "inspect" /\ k.op = i /\ k.answer = "ambiguous"
    BY <1>0, <1>1, <1>2 DEF Calls
  <1>4. /\ caller' = [caller EXCEPT ![c] = k] /\ sdk' = [sdk EXCEPT ![i] = "cut"]
        /\ UNCHANGED <<task, profile, op, run, exec, intent, turn, runs>>
    BY <1>0, <1>2 DEF SdkFails, BackendAnswer
  <1>6. /\ sdk' \in [Ops -> SdkStates]
        /\ \A j \in Ops \ {i} : sdk'[j] = sdk[j]
    BY <1>1, <1>4 DEF CodexInv, ProductTypeOK, SdkStates
  <1>7. NeverRun(i) => runs[i] = 0
    BY DEF NeverRun
  <1>8. BackendMove(c, i, k)
    BY <1>1, <1>3, <1>4, <1>6, <1>7, DriverFacts DEF BackendMove, Terminal
  <1>9. turn' \in [Ops -> Turns] /\ runs' \in [Ops -> Nat]
        /\ UNCHANGED <<task, profile, op, run, exec, intent>>
    BY <1>4 DEF CodexInv, ProductTypeOK
  <1>10. space' \in [Ops -> Workspaces]
    BY <1>0, <1>1, WorkedSpace DEF SdkFails
  <1> QED
    BY <1>0, <1>1, <1>3, <1>6, <1>8, <1>9, <1>10, BackendStep

(* The end that is journalled is the end that the SDK reported to this driver. *)
LEMMA RecordTerminalStep ==
    ASSUME CodexInv, NEW c \in Callers, RecordTerminal(c)
    PROVE  CodexInv'
  <1>0. PICK i : i = caller[c].op
    OBVIOUS
  <1>1. i \in Ops /\ caller[c].pc = "record" /\ caller[c].pc # "idle" /\ caller[c] \in Calls
        /\ Drives(c, i)
    BY <1>0, CallerFields DEF RecordTerminal, Drives
  <1>2. /\ turn[i] \in Turns /\ turn \in [Ops -> Turns] /\ sdk[i] \in Terminal
    BY <1>1, DriverFacts
  <1>3. UNCHANGED <<task, profile, op, run, exec, space, intent, sdk, runs>>
        /\ UNCHANGED <<task, profile, op, run, exec, intent>>
        /\ space' \in [Ops -> Workspaces] /\ runs' \in [Ops -> Nat]
        /\ sdk' \in [Ops -> SdkStates]
    BY DEF RecordTerminal, CodexInv, ProductTypeOK
  <1>4. CASE turn' = [turn EXCEPT ![i].lifecycle = sdk[i]] /\ BackendAnswer(c, "ok")
    <2>1. PICK t : t = [turn[i] EXCEPT !.lifecycle = sdk[i]]
      OBVIOUS
    <2>2. t \in Turns /\ t.lifecycle = sdk[i]
      BY <1>2, <2>1 DEF Turns
    <2>3. turn' = [turn EXCEPT ![i] = t]
      BY <1>4, <2>1
    <2>4. turn'[i] = t /\ turn' \in [Ops -> Turns] /\ \A j \in Ops \ {i} : turn'[j] = turn[j]
      BY <1>1, <1>2, <2>2, <2>3
    <2>5. PICK k : k = [caller[c] EXCEPT !.pc = "inspect", !.act = 0, !.answer = "ok"]
      OBVIOUS
    <2>6. k \in Calls /\ k.pc = "inspect" /\ k.op = i /\ k.answer = "ok"
      BY <1>0, <1>1, <2>5 DEF Calls
    <2>7. caller' = [caller EXCEPT ![c] = k]
      BY <1>4, <2>5 DEF BackendAnswer
    <2>8. NeverRun(i) => runs[i] = 0
      BY DEF NeverRun
    <2>9. BackendMove(c, i, k)
      BY <1>1, <1>2, <1>3, <2>2, <2>4, <2>6, <2>7, <2>8, DriverFacts DEF BackendMove, Terminal
    <2> QED
      BY <1>0, <1>1, <1>3, <2>4, <2>6, <2>9, BackendStep
  <1>5. CASE UNCHANGED turn /\ BackendAnswer(c, "plain")
    <2>1. KindsAreKept
      BY <1>3, SameKinds
    <2>2. Quietly(c)
      BY <1>1, <1>5, <2>1, AnswerQuietly
    <2>3. UNCHANGED <<rows, sdk, runs>>
      BY <1>3, <1>5 DEF rows
    <2> QED
      BY <2>2, <2>3, OnlyMoves
  <1> QED
    BY <1>0, <1>4, <1>5 DEF RecordTerminal

(* A call that stops while the SDK runs cuts it off. *)
LEMMA StopStep ==
    ASSUME CodexInv, NEW c \in Callers, Stop(c)
    PROVE  CodexInv'
  <1>1. Return(c) /\ UNCHANGED <<rows, runs>>
        /\ UNCHANGED <<task, profile, op, run, exec, space, intent, turn, runs>>
    BY DEF Stop, rows
  <1>2. CASE caller[c].pc # "sdk"
    <2>1. Quietly(c)
      BY <1>1, ReturnQuietly
    <2>2. UNCHANGED <<rows, sdk, runs>>
      BY <1>1, <1>2 DEF Stop
    <2> QED
      BY <2>1, <2>2, OnlyMoves
  <1>3. CASE caller[c].pc = "sdk"
    <2>0. PICK i : i = caller[c].op
      OBVIOUS
    <2>1. i \in Ops /\ caller[c].pc # "idle" /\ Drives(c, i)
      BY <1>3, <2>0, CallerFields DEF Drives
    <2>2. sdk' = [sdk EXCEPT ![i] = "cut"]
      BY <1>3, <2>0 DEF Stop
    <2>3. /\ sdk' \in [Ops -> SdkStates]
          /\ \A j \in Ops \ {i} : sdk'[j] = sdk[j]
      BY <2>1, <2>2 DEF CodexInv, ProductTypeOK, SdkStates
    <2>4. Idle \in Calls /\ Idle.pc = "idle" /\ Idle.answer = "none" /\ Idle.op = 0
      BY CallFields DEF Idle
    <2>5. caller' = [caller EXCEPT ![c] = Idle]
      BY <1>1 DEF Return
    <2>6. NeverRun(i) => runs[i] = 0
      BY DEF NeverRun
    <2>7. BackendMove(c, i, Idle)
      BY <1>1, <2>1, <2>3, <2>4, <2>5, <2>6, DriverFacts DEF BackendMove, Terminal
    <2>8. turn' \in [Ops -> Turns] /\ runs' \in [Ops -> Nat] /\ space' \in [Ops -> Workspaces]
          /\ UNCHANGED <<task, profile, op, run, exec, intent>>
      BY <1>1 DEF CodexInv, ProductTypeOK
    <2> QED
      BY <2>0, <2>1, <2>3, <2>4, <2>7, <2>8, BackendStep
  <1> QED
    BY <1>2, <1>3

-----------------------------------------------------------------------------
(* The theorems.                                                           *)

LEMMA CodexInitEstablishes ==
    ASSUME ProductInit
    PROVE  CodexInv
  <1>1. NoOp \in ProductOperations
    BY CodexConstants DEF NoOp, ProductOperations, StageIndex, Unfinished, Results
  <1>2. [member |-> "none", closed |-> FALSE] \in Runs
        /\ [status |-> "none", lapsed |-> FALSE] \in ExecutionRows
    BY DEF Runs, ExecutionRows
  <1>3. [head |-> NoHead, created |-> NoHead, inspected |-> NoHead, found |-> NoHead] \in Workspaces
    BY DEF Workspaces
  <1>4. [state |-> "none", acts |-> 0, observed |-> "none", outcome |-> "none",
         error |-> "none"] \in Intents
    BY DEF Intents
  <1>5. [lifecycle |-> "none", thread |-> FALSE, act |-> 0] \in Turns
    BY DEF Turns
  <1>6. TypedRows
    BY <1>1, <1>2, <1>3, <1>4, <1>5, CodexConstants DEF ProductInit, TypedRows, SdkStates
  <1>7. ProductTypeOK
    BY <1>6, CallFields DEF ProductInit, TypedRows, ProductTypeOK
  <1>8. CallsOwn
    BY CallFields DEF ProductInit, CallsOwn
  <1>9. BackendIsHonest
    BY CallFields DEF ProductInit, BackendIsHonest, TurnIsHonest, CallIsHonest, Drives, Terminal, Idle
  <1>10. RowsAreHonest
    BY DEF ProductInit, RowsAreHonest, RowIsHonest, SourceIsKnown, NoOp, Terminal
  <1> QED
    BY <1>7, <1>8, <1>9, <1>10 DEF CodexInv

LEMMA CodexNextPreserves ==
    ASSUME CodexInv, [ProductNext]_productVars
    PROVE  CodexInv'
  <1>1. CASE UNCHANGED productVars
    BY <1>1 DEF productVars, rows, CodexInv, ProductTypeOK, CallsOwn, BackendIsHonest, TurnIsHonest,
                CallIsHonest, Drives, NeverRun, RowsAreHonest, RowIsHonest, SourceIsKnown
  <1>2. CASE ActivateProfile \/ DeactivateProfile
    BY <1>2, ProfileStep
  <1>3. ASSUME NEW i \in Ops, LeaseLapses(i) PROVE CodexInv'
    BY <1>3, LeaseLapsesStep
  <1>4. ASSUME NEW c \in Callers, NEW i \in Ops, CreateStart(c, i) \/ Replay(c, i)
        PROVE  CodexInv'
    BY <1>4, CreateStartStep, ReplayStep
  <1>5. ASSUME NEW c \in Callers, NEW i \in Ops, NEW s \in Ops, NEW kind \in {"resume", "retry"},
               CreateContinuation(c, i, s, kind)
        PROVE  CodexInv'
    BY <1>5, CreateContinuationStep
  <1>6. ASSUME NEW c \in Callers,
               \/ CreateRun(c) \/ RefuseRun(c) \/ ClaimStart(c) \/ ClaimContinuation(c)
               \/ ResolveMember(c) \/ ReplayMember(c) \/ FinalizeRun(c) \/ Refuse(c)
        PROVE  CodexInv'
    BY <1>6, RunStep, RefuseStep, ClaimStep, ReplayMemberStep
  <1>7. ASSUME NEW c \in Callers,
               \/ CreateWorkspace(c) \/ MarkReady(c) \/ PrepareStartIntent(c)
               \/ PrepareContinuationIntent(c) \/ MarkPrepared(c)
               \/ Act(c) \/ DenyAct(c) \/ Reread(c)
        PROVE  CodexInv'
    BY <1>7, CreateWorkspaceStep, MarkReadyStep, PrepareIntentStep, MarkPreparedStep, ActStep,
       DenyActStep, RereadStep
  <1>8. ASSUME NEW c \in Callers,
               \/ PrepareStart(c) \/ PrepareResume(c) \/ ReplayTurn(c) \/ BackendRefuses(c)
               \/ DriverFails(c) \/ RunSdk(c)
               \/ ThreadStarted(c) \/ SdkEnds(c) \/ SdkFails(c) \/ RecordTerminal(c)
        PROVE  CodexInv'
    BY <1>8, PrepareTurnStep, BackendAnswers, DriverFailsStep, RunSdkStep, ThreadStartedStep,
       SdkEndsStep, SdkFailsStep, RecordTerminalStep
  <1>9. ASSUME NEW c \in Callers,
               \/ InspectProven(c) \/ InspectUnproven(c) \/ Rejoin(c) \/ Look(c)
               \/ PersistObservation(c) \/ VerifyObservation(c) \/ FinalizeVerified(c)
               \/ MarkAdapterFailure(c) \/ FinalizeAdapterFailure(c) \/ AlreadyFinalized(c)
        PROVE  CodexInv'
    BY <1>9, InspectProvenStep, InspectUnprovenStep, RejoinStep, LookStep, PersistObservationStep,
       VerifyObservationStep, FinalizeStep, MarkAdapterFailureStep, AlreadyFinalizedStep
  <1>10. ASSUME NEW c \in Callers,
                \/ MarkTerminal(c) \/ InspectWorkspace(c) \/ MarkRefreshed(c) \/ Finish(c)
                \/ Stop(c)
         PROVE  CodexInv'
    BY <1>10, MarkTerminalStep, InspectWorkspaceStep, MarkRefreshedStep, FinishStep, StopStep
  <1> QED
    BY <1>1, <1>2, <1>3, <1>4, <1>5, <1>6, <1>7, <1>8, <1>9, <1>10, Zenon DEF ProductNext

(* The inductive invariant: one driver for each journalled turn, ends that are final, and
   rows that say no more than the journal proves. *)
THEOREM CodexInvariant == ProductSpec => []CodexInv
  <1>1. ProductInit => CodexInv
    BY CodexInitEstablishes
  <1>2. CodexInv /\ [ProductNext]_productVars => CodexInv'
    BY CodexNextPreserves
  <1> QED
    BY <1>1, <1>2, PTL DEF ProductSpec

LEMMA CodexInvImplies ==
    ASSUME CodexInv
    PROVE  SdkRunsOnce /\ ResultIsTrue /\ ContinuesKnownTurn
  <1>0. ASSUME NEW i \in Ops
        PROVE  /\ TurnIsHonest(i) /\ RowIsHonest(i) /\ SourceIsKnown(i)
               /\ runs[i] \in Nat /\ intent[i].acts \in Nat /\ op[i].source \in {0} \cup Ops
               /\ StageIndex[op[i].stage] \in Nat
    <2>1. op[i].stage \in DOMAIN StageIndex
      BY <1>0, RowTypes DEF CodexInv
    <2>2. StageIndex[op[i].stage] \in Nat
      BY <2>1 DEF StageIndex
    <2> QED
      BY <1>0, <2>2, RowTypes DEF CodexInv, BackendIsHonest, RowsAreHonest
  <1>1. SdkRunsOnce
    <2>1. StageIndex["effect_possible"] = 5
      BY DEF StageIndex
    <2> QED
      BY <1>0, <2>1 DEF SdkRunsOnce, TurnIsHonest, RowIsHonest
  <1>2. ResultIsTrue
    BY <1>0 DEF ResultIsTrue, TurnIsHonest, RowIsHonest, NeverRun, Terminal
  <1>3. ContinuesKnownTurn
    BY <1>0 DEF ContinuesKnownTurn, TurnIsHonest, SourceIsKnown
  <1> QED
    BY <1>1, <1>2, <1>3

(* Operations, runs, attempts, workspaces, intents, turns and calls keep the shapes that the
   readers of the state decode. *)
THEOREM CodexTypeOK == ProductSpec => []ProductTypeOK
  <1>1. CodexInv => ProductTypeOK
    BY DEF CodexInv
  <1> QED
    BY <1>1, CodexInvariant, PTL

(* However many calls execute an operation and wherever they stop, the SDK is run for it at
   most once (exactReplay of the journal), and no stale stage that a slower call writes takes
   its row back to before the Act (updateProductOperation, validateCodexProductState). *)
THEOREM CodexSdkRunsOnce == ProductSpec => []SdkRunsOnce
  <1>1. CodexInv => SdkRunsOnce
    BY CodexInvImplies
  <1> QED
    BY <1>1, CodexInvariant, PTL

(* The journalled turn, the outcome of the intent and the result that every later call is
   given tell what the SDK did; a preparation failure is only answered when it was never run
   (recordTerminal, finalizeVerified, progressStart). *)
THEOREM CodexResultIsTrue == ProductSpec => []ResultIsTrue
  <1>1. CodexInv => ResultIsTrue
    BY CodexInvImplies
  <1> QED
    BY <1>1, CodexInvariant, PTL

(* A continuation takes over only from a turn whose end is journalled and is what the SDK
   reported, a retry only from one that failed (continuationSource, claimContinuationMember). *)
THEOREM CodexContinuesKnownTurn == ProductSpec => []ContinuesKnownTurn
  <1>1. CodexInv => ContinuesKnownTurn
    BY CodexInvImplies
  <1> QED
    BY <1>1, CodexInvariant, PTL
=============================================================================
