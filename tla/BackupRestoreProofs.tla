------------------------- MODULE BackupRestoreProofs -------------------------
(***************************************************************************)
(* Proofs about BackupRestore for every number of processes, commits,      *)
(* generations and restores: types, what an open store sees, that an       *)
(* interrupted restore can be finished, and that nothing replaced is lost. *)
(*                                                                         *)
(* The lock makes the lifecycle operations sequential, so the invariant    *)
(* says where the one operation is and what it has left on disk; the       *)
(* incarnations are ordered by the restores that made them, so a database  *)
(* that was retained is never written again.                               *)
(***************************************************************************)
EXTENDS BackupRestore, SequenceTheorems, TLAPS

Typed ==
    /\ primary \in FileSets
    /\ content \in [Incarnations -> Seq(Commits)]
    /\ commits \in 0..MaxCommits
    /\ \A d \in Incarnations : Len(content[d]) <= commits
    /\ opened \subseteq Processes /\ stale \in BOOLEAN
    /\ lock \in Processes \cup {None, "residue"}
    /\ backupStage \in 0..MaxGens
    /\ DOMAIN generations = Gens /\ generations = [g \in Gens |-> generations[g]]
    /\ \A g \in Gens : generations[g] # None =>
          generations[g] \in Seq(Commits) /\ Len(generations[g]) <= commits
    /\ begun \in 0..MaxRestores /\ stages \subseteq Restores
    /\ retained \in [Restores -> FileSets \cup {None}]
    /\ intent \in RestoreIntents \cup {None, Torn}
    /\ receipt \in [Restores -> {"none", "torn", "whole"}]
    /\ proc \in [Processes -> Procs]
    /\ before = [r \in Restores |-> before[r]]

LockHeld == \A p \in Processes : proc[p].pc # "idle" => lock = p

(* Nobody has a store open unless it sees a database; and unless a restore *)
(* is pending, a journal lies only beside its database, and the first      *)
(* database is the only one that may be missing.                           *)
DatabaseInPlace ==
    /\ opened # {} => intent = None /\ primary["db"] # None
    /\ ~IsPending => /\ primary["journal"] \in {None, primary["db"]}
                     /\ primary["db"] = None => begun = 0
    /\ primary["db"] # None => primary["db"] <= begun

(* Where the operation of process p is. *)
OperationInPlace(p) ==
    LET c == proc[p]  r == proc[p].restore IN
    /\ c.pc = "opening" => intent = None /\ primary["db"] # None
    /\ c.pc = "cloning" => p \in opened /\ c.gen \in Gens
    /\ c.pc \in {"stage", "retain_dir", "intent"} =>
          /\ opened = {} /\ intent = None /\ primary["db"] # None
          /\ r \in Restores /\ r = begun /\ primary["db"] < r
          /\ c.gen \in Gens /\ receipt[r] = "none"
    /\ c.pc = "stage" => generations[c.gen] # None
    /\ c.pc = "intent" => retained[r] = NoFiles
    /\ c.pc \in {"continue", "retain", "receipt", "unlink"} =>
          IsPending /\ intent.restore = r /\ intent.gen = c.gen
    /\ c.pc = "retain" => r \in stages

(* What a pending restore replaces, and what it was allowed to. *)
PendingInPlace ==
    IsPending =>
        LET r == intent.restore  e == intent.expected IN
        /\ opened = {} /\ r = begun
        /\ e["db"] # None /\ e["db"] < r
        /\ before[r].members = e /\ before[r].content = content[e["db"]]
        /\ content[e["db"]][Len(content[e["db"]])].kind = "restore"

(* A restore with its receipt is over, and what it retained is older than  *)
(* the database in place.                                                  *)
ReceiptInPlace(r) ==
    /\ r > begun => receipt[r] = "none"
    /\ receipt[r] = "whole" =>
          /\ r \notin stages
          /\ retained[r] \in FileSets /\ retained[r]["db"] # None /\ retained[r]["db"] < r
          /\ primary["db"] # None => r <= primary["db"]

IInv ==
    /\ Typed /\ LockHeld /\ DatabaseInPlace
    /\ \A p \in Processes : OperationInPlace(p)
    /\ PendingInPlace /\ PendingIsRecoverable
    /\ \A r \in Restores : ReceiptInPlace(r)
    /\ ReplacedIsRetained
-----------------------------------------------------------------------------
(* The lock: one lifecycle operation at a time.                            *)

LEMMA ProcFields ==
    ASSUME NEW c \in Procs
    PROVE  /\ c.pc \in {"idle", "opening", "cloning", "stage", "retain_dir", "intent", "continue",
                        "retain", "receipt", "unlink", "release"}
           /\ c.gen \in 0..MaxGens /\ c.restore \in 0..MaxRestores
  BY DEF Procs

LEMMA IdleProc == Idle \in Procs /\ Idle.pc = "idle"
  BY BackupAssumption DEF Idle, Procs

LEMMA ProcStep ==
    ASSUME proc \in [Processes -> Procs], NEW p \in Processes,
           NEW to \in {"opening", "release", "retain_dir", "intent", "continue", "retain", "receipt", "unlink"},
           proc' = [proc EXCEPT ![p].pc = to]
    PROVE  /\ proc' \in [Processes -> Procs]
           /\ proc'[p].pc = to /\ proc'[p].gen = proc[p].gen /\ proc'[p].restore = proc[p].restore
           /\ \A q \in Processes \ {p} : proc'[q] = proc[q]
  BY DEF Procs

LEMMA RestOperation ==
    ASSUME NEW p, proc'[p].pc \in {"idle", "release"}
    PROVE  OperationInPlace(p)'
  BY DEF OperationInPlace

LEMMA OthersIdle ==
    ASSUME IInv, NEW p \in Processes, proc[p].pc # "idle" \/ lock = None
    PROVE  \A q \in Processes \ {p} : proc[q].pc = "idle"
  BY BackupAssumption DEF IInv, LockHeld

(* A step of the process that holds or takes the lock. *)
LEMMA HolderStep ==
    ASSUME IInv, NEW p \in Processes, proc[p].pc # "idle" \/ lock = None,
           \A q \in Processes \ {p} : proc'[q] = proc[q],
           proc'[p].pc # "idle" => lock' = p,
           OperationInPlace(p)'
    PROVE  LockHeld' /\ \A q \in Processes : OperationInPlace(q)'
<1>1. \A q \in Processes \ {p} : proc'[q].pc = "idle"
  BY OthersIdle
<1>2. LockHeld'
  BY <1>1 DEF LockHeld
<1>3. \A q \in Processes \ {p} : OperationInPlace(q)'
  BY <1>1, RestOperation
<1> QED
  BY <1>2, <1>3

(* A step that leaves every file as it is. *)
LEMMA SameFiles ==
    ASSUME IInv, UNCHANGED <<files, begun, before>>,
           opened' # {} => intent = None /\ primary["db"] # None,
           IsPending => opened' = {}
    PROVE  /\ DatabaseInPlace' /\ PendingInPlace' /\ PendingIsRecoverable'
           /\ (\A r \in Restores : ReceiptInPlace(r)') /\ ReplacedIsRetained'
<1> USE DEF files, IInv
<1>1. DatabaseInPlace'
  BY DEF DatabaseInPlace, IsPending
<1>2. PendingInPlace'
  BY DEF PendingInPlace, IsPending
<1>3. PendingIsRecoverable'
  BY DEF PendingIsRecoverable, IsPending
<1>4. \A r \in Restores : ReceiptInPlace(r)'
  BY DEF ReceiptInPlace
<1>5. ReplacedIsRetained'
  BY DEF ReplacedIsRetained
<1> QED
  BY <1>1, <1>2, <1>3, <1>4, <1>5

LEMMA SameTypes ==
    ASSUME Typed, UNCHANGED <<files, commits, begun, before>>,
           opened' \subseteq Processes, stale' \in BOOLEAN, lock' \in Processes \cup {None, "residue"},
           backupStage' \in 0..MaxGens, proc' \in [Processes -> Procs]
    PROVE  Typed'
  BY DEF Typed, files

(* A pending restore has no open store. *)
LEMMA NobodyOpen ==
    ASSUME IInv
    PROVE  /\ IsPending => opened = {}
           /\ opened # {} => intent = None /\ ~IsPending /\ primary["db"] \in Incarnations
  BY DEF IInv, PendingInPlace, DatabaseInPlace, IsPending, Typed, FileSets, MemberSet
-----------------------------------------------------------------------------
(* The actions that change no file.                                        *)

LEMMA QuietStep ==
    ASSUME IInv, NEW p \in Processes, proc[p].pc # "idle" \/ lock = None,
           UNCHANGED <<files, commits, begun, before>>,
           opened' \subseteq opened \/ (intent = None /\ primary["db"] # None /\ opened' \subseteq Processes),
           stale' \in BOOLEAN, lock' \in {p, None, "residue"}, backupStage' \in 0..MaxGens,
           proc' \in [Processes -> Procs],
           \A q \in Processes \ {p} : proc'[q] = proc[q],
           proc'[p].pc # "idle" => lock' = p,
           OperationInPlace(p)'
    PROVE  IInv'
<1>1. LockHeld' /\ \A q \in Processes : OperationInPlace(q)'
  BY HolderStep
<1>2. opened' # {} => intent = None /\ primary["db"] # None
  BY DEF IInv, DatabaseInPlace
<1>3. IsPending => opened' = {}
  BY NobodyOpen DEF IsPending
<1>4. Typed'
  <2>1. opened' \subseteq Processes
    BY DEF IInv, Typed
  <2> QED
    BY <2>1, SameTypes DEF IInv
<1> QED
  BY <1>1, <1>2, <1>3, <1>4, SameFiles DEF IInv

LEMMA ReleaseStep ==
    ASSUME IInv, NEW p \in Processes, Release(p)
    PROVE  IInv'
<1>1. /\ UNCHANGED <<files, commits, opened, stale, backupStage, begun, before>>
      /\ lock' = None /\ proc[p].pc # "idle" /\ proc' = [proc EXCEPT ![p] = Idle]
  BY DEF Release
<1>2. proc' \in [Processes -> Procs] /\ proc'[p].pc = "idle" /\ \A q \in Processes \ {p} : proc'[q] = proc[q]
  BY <1>1, IdleProc DEF IInv, Typed
<1>3. OperationInPlace(p)'
  BY <1>2, RestOperation
<1>4. stale' \in BOOLEAN /\ backupStage' \in 0..MaxGens
  BY <1>1 DEF IInv, Typed
<1> QED
  BY <1>1, <1>2, <1>3, <1>4, QuietStep

LEMMA FinishOpenStep ==
    ASSUME IInv, NEW p \in Processes, FinishOpen(p)
    PROVE  IInv'
<1>1. /\ UNCHANGED <<files, commits, stale, lock, backupStage, begun, before>>
      /\ opened' = opened \cup {p} /\ proc[p].pc = "opening" /\ proc' = [proc EXCEPT ![p].pc = "release"]
  BY DEF FinishOpen, Step
<1>2. /\ proc' \in [Processes -> Procs] /\ proc'[p].pc = "release"
      /\ \A q \in Processes \ {p} : proc'[q] = proc[q]
  BY <1>1, ProcStep DEF IInv, Typed
<1>3. OperationInPlace(p)'
  BY <1>2, RestOperation
<1>4. /\ stale' \in BOOLEAN /\ backupStage' \in 0..MaxGens /\ lock' = p /\ opened' \subseteq Processes
      /\ intent = None /\ primary["db"] # None
  BY <1>1 DEF IInv, Typed, LockHeld, OperationInPlace
<1> QED
  BY <1>1, <1>2, <1>3, <1>4, QuietStep

LEMMA EndingStep ==
    ASSUME IInv, NEW p \in Processes, FailBackup(p) \/ Fail(p)
    PROVE  IInv'
<1>1. /\ UNCHANGED <<files, commits, opened, stale, lock, begun, before>> /\ backupStage' \in {backupStage, 0}
      /\ proc[p].pc # "idle" /\ proc' = [proc EXCEPT ![p].pc = "release"]
  BY DEF FailBackup, Fail, Step
<1>2. /\ proc' \in [Processes -> Procs] /\ proc'[p].pc = "release"
      /\ \A q \in Processes \ {p} : proc'[q] = proc[q]
  BY <1>1, ProcStep DEF IInv, Typed
<1>3. OperationInPlace(p)'
  BY <1>2, RestOperation
<1>4. stale' \in BOOLEAN /\ backupStage' \in 0..MaxGens /\ lock' = p
  BY <1>1, BackupAssumption DEF IInv, Typed, LockHeld
<1> QED
  BY <1>1, <1>2, <1>3, <1>4, QuietStep

LEMMA BeginBackupStep ==
    ASSUME IInv, NEW p \in Processes, NEW g \in Gens, BeginBackup(p, g)
    PROVE  IInv'
<1> DEFINE c == [Idle EXCEPT !.pc = "cloning", !.gen = g]
<1>1. /\ UNCHANGED <<files, commits, opened, stale, begun, before>> /\ backupStage' = g /\ lock = None /\ lock' = p
      /\ opened = {p} /\ proc' = [proc EXCEPT ![p] = c]
  BY DEF BeginBackup
<1>2. c \in Procs /\ c.pc = "cloning" /\ c.gen = g
  <2>1. g \in 0..MaxGens
    BY BackupAssumption DEF Gens
  <2> QED
    BY <2>1, IdleProc DEF Procs
<1> HIDE DEF c
<1>3. proc' \in [Processes -> Procs] /\ proc'[p] = c /\ \A q \in Processes \ {p} : proc'[q] = proc[q]
  BY <1>1, <1>2 DEF IInv, Typed
<1>4. OperationInPlace(p)'
  BY <1>1, <1>2, <1>3 DEF OperationInPlace
<1>5. stale' \in BOOLEAN /\ backupStage' \in 0..MaxGens
  BY <1>1, BackupAssumption DEF IInv, Typed, Gens
<1> QED
  BY <1>1, <1>3, <1>4, <1>5, QuietStep

LEMMA RecoverStep ==
    ASSUME IInv, NEW p \in Processes, Recover(p)
    PROVE  IInv'
<1> DEFINE c == [pc |-> "continue", gen |-> intent.gen, restore |-> intent.restore]
<1>1. /\ UNCHANGED <<files, commits, opened, stale, backupStage, begun, before>> /\ lock = None /\ lock' = p
      /\ proc' = [proc EXCEPT ![p] = c] /\ IsPending
  BY DEF Recover
<1>2. intent \in RestoreIntents
  BY <1>1 DEF IInv, Typed, IsPending
<1>3. c \in Procs /\ c.pc = "continue" /\ c.gen = intent.gen /\ c.restore = intent.restore
  BY <1>2, BackupAssumption DEF Procs, RestoreIntents, Gens, Restores
<1> HIDE DEF c
<1>4. proc' \in [Processes -> Procs] /\ proc'[p] = c /\ \A q \in Processes \ {p} : proc'[q] = proc[q]
  BY <1>1, <1>3 DEF IInv, Typed
<1>5. OperationInPlace(p)'
  BY <1>1, <1>3, <1>4 DEF OperationInPlace, IsPending, files
<1>6. stale' \in BOOLEAN /\ backupStage' \in 0..MaxGens
  BY <1>1 DEF IInv, Typed
<1> QED
  BY <1>1, <1>4, <1>5, <1>6, QuietStep

LEMMA ResumeStep ==
    ASSUME IInv, NEW p \in Processes, Resume(p)
    PROVE  IInv'
<1>1. /\ UNCHANGED <<files, commits, opened, stale, lock, backupStage, begun, before>> /\ proc[p].pc = "continue"
  BY DEF Resume
<1>2. PICK to \in {"unlink", "retain", "receipt"} :
        proc' = [proc EXCEPT ![p].pc = to] /\ (to = "retain" => proc[p].restore \in stages)
  BY DEF Resume, Step
<1>3. /\ proc' \in [Processes -> Procs]
      /\ proc'[p].pc = to /\ proc'[p].gen = proc[p].gen /\ proc'[p].restore = proc[p].restore
      /\ \A q \in Processes \ {p} : proc'[q] = proc[q]
  BY <1>2, ProcStep DEF IInv, Typed
<1>4. IsPending /\ intent.restore = proc[p].restore /\ intent.gen = proc[p].gen
  BY <1>1 DEF IInv, OperationInPlace
<1>5. OperationInPlace(p)'
  BY <1>1, <1>2, <1>3, <1>4 DEF OperationInPlace, IsPending, files
<1>6. stale' \in BOOLEAN /\ backupStage' \in 0..MaxGens /\ lock' = p
  BY <1>1 DEF IInv, Typed, LockHeld
<1> QED
  BY <1>1, <1>3, <1>5, <1>6, QuietStep
-----------------------------------------------------------------------------
(* The actions of the user, and crashes.                                   *)

LEMMA OperatorStep ==
    ASSUME IInv, OperatorRemovesLock \/ OperatorRemovesReceipts \/ OperatorRemovesBackupStage
    PROVE  IInv'
<1>1. UNCHANGED <<files, commits, opened, begun, proc, before>> /\ stale' \in {stale, FALSE} /\ backupStage' \in {backupStage, 0}
      /\ (lock' = lock \/ (lock = "residue" /\ lock' = None))
  BY DEF OperatorRemovesLock, OperatorRemovesReceipts, OperatorRemovesBackupStage
<1>2. Typed'
  <2>1. /\ opened' \subseteq Processes /\ stale' \in BOOLEAN /\ lock' \in Processes \cup {None, "residue"}
        /\ backupStage' \in 0..MaxGens /\ proc' \in [Processes -> Procs]
    <3>1. backupStage \in 0..MaxGens /\ 0 \in 0..MaxGens /\ opened \subseteq Processes /\ proc \in [Processes -> Procs]
          /\ lock \in Processes \cup {None, "residue"}
      BY BackupAssumption DEF IInv, Typed
    <3>2. stale' \in BOOLEAN
      BY <1>1, Zenon DEF IInv, Typed
    <3> QED
      BY <1>1, <3>1, <3>2
  <2> QED
    BY <1>1, <2>1, SameTypes DEF IInv
<1>3. LockHeld'
  BY <1>1, AbsentAssumption DEF IInv, LockHeld
<1>4. \A q \in Processes : OperationInPlace(q)'
  BY <1>1 DEF IInv, OperationInPlace, IsPending, files
<1>5. /\ opened' # {} => intent = None /\ primary["db"] # None
      /\ IsPending => opened' = {}
  BY <1>1, NobodyOpen DEF IInv, DatabaseInPlace
<1> QED
  BY <1>1, <1>2, <1>3, <1>4, <1>5, SameFiles DEF IInv

(* Crash as far as the lock and the stores are concerned. *)
LEMMA CrashedProcess ==
    ASSUME IInv, NEW p \in Processes, Crash(p)
    PROVE  /\ proc' \in [Processes -> Procs] /\ proc'[p].pc = "idle"
           /\ \A q \in Processes \ {p} : proc'[q] = proc[q]
           /\ opened' = opened \ {p} /\ opened' \subseteq Processes /\ stale' \in BOOLEAN
           /\ lock' \in Processes \cup {None, "residue"} /\ LockHeld'
<1>1. proc' = [proc EXCEPT ![p] = Idle]
  BY DEF Crash
<1>2. proc' \in [Processes -> Procs] /\ proc'[p].pc = "idle" /\ \A q \in Processes \ {p} : proc'[q] = proc[q]
  BY <1>1, IdleProc DEF IInv, Typed
<1>3. opened' = opened \ {p} /\ opened' \subseteq Processes /\ stale' \in BOOLEAN
  BY DEF Crash, IInv, Typed
<1>4. lock' \in Processes \cup {None, "residue"}
  BY DEF Crash, IInv, Typed
<1>5. LockHeld'
  BY <1>2 DEF Crash, IInv, LockHeld
<1> QED
  BY <1>2, <1>3, <1>4, <1>5

LEMMA CrashStep ==
    ASSUME IInv, NEW p \in Processes, Crash(p)
    PROVE  IInv'
<1>1. /\ proc' \in [Processes -> Procs] /\ proc'[p].pc = "idle"
      /\ \A q \in Processes \ {p} : proc'[q] = proc[q]
      /\ opened' = opened \ {p} /\ opened' \subseteq Processes /\ stale' \in BOOLEAN
      /\ lock' \in Processes \cup {None, "residue"} /\ LockHeld'
  BY CrashedProcess
<1>2. UNCHANGED <<primary, content, generations, stages, retained, commits, backupStage, begun, before>>
  BY DEF Crash
<1>3. CASE UNCHANGED <<intent, receipt>>
  <2>1. UNCHANGED <<files, commits, begun, before>> /\ backupStage' \in 0..MaxGens
    BY <1>2, <1>3 DEF files, IInv, Typed
  <2>2. Typed'
    BY <1>1, <2>1, SameTypes DEF IInv
  <2>3. \A q \in Processes : OperationInPlace(q)'
    <3> SUFFICES ASSUME NEW q \in Processes, q # p
                 PROVE  OperationInPlace(q)'
      BY <1>1, RestOperation
    <3>1. OperationInPlace(q) /\ proc'[q] = proc[q]
      BY <1>1 DEF IInv
    <3> QED
      BY <1>1, <2>1, <3>1 DEF OperationInPlace, IsPending, files
  <2>4. /\ opened' # {} => intent = None /\ primary["db"] # None
        /\ IsPending => opened' = {}
    BY <1>1, NobodyOpen DEF IInv, DatabaseInPlace
  <2> QED
    BY <1>1, <2>1, <2>2, <2>3, <2>4, SameFiles DEF IInv
<1>4. CASE proc[p].pc = "intent" /\ intent' = Torn /\ UNCHANGED receipt
  <2>1. opened = {} /\ intent = None /\ primary["db"] # None
    BY <1>4 DEF IInv, OperationInPlace
  <2>2. ~IsPending /\ ~IsPending' /\ opened' = {}
    BY <1>1, <1>4, <2>1 DEF IsPending
  <2>3. \A q \in Processes : OperationInPlace(q)'
    BY <1>1, <1>4, OthersIdle, RestOperation
  <2>4. Typed'
    BY <1>1, <1>2, <1>4 DEF IInv, Typed
  <2>5. DatabaseInPlace' /\ PendingInPlace' /\ PendingIsRecoverable'
    BY <1>2, <2>2 DEF IInv, DatabaseInPlace, PendingInPlace, PendingIsRecoverable
  <2>6. (\A r \in Restores : ReceiptInPlace(r)') /\ ReplacedIsRetained'
    BY <1>2, <1>4 DEF IInv, ReceiptInPlace, ReplacedIsRetained
  <2> QED
    BY <1>1, <2>3, <2>4, <2>5, <2>6 DEF IInv
<1>5. CASE /\ proc[p].pc = "receipt"
           /\ receipt' = [receipt EXCEPT ![proc[p].restore] = "torn"] /\ UNCHANGED intent
  <2>0. PICK r \in Restores : r = proc[p].restore /\ r = begun /\ opened = {}
    BY <1>5 DEF IInv, OperationInPlace, PendingInPlace, IsPending, Typed, RestoreIntents
  <2>1. /\ receipt'[r] = "torn" /\ receipt' \in [Restores -> {"none", "torn", "whole"}]
        /\ \A s \in Restores \ {r} : receipt'[s] = receipt[s]
    BY <1>5, <2>0 DEF IInv, Typed
  <2>2. \A q \in Processes : OperationInPlace(q)'
    BY <1>1, <1>5, OthersIdle, RestOperation
  <2>3. Typed'
    BY <1>1, <1>2, <1>5, <2>1 DEF IInv, Typed
  <2>4. DatabaseInPlace' /\ PendingInPlace' /\ PendingIsRecoverable'
    BY <1>1, <1>2, <1>5, <2>0 DEF IInv, DatabaseInPlace, PendingInPlace, PendingIsRecoverable, IsPending
  <2>5. (\A s \in Restores : ReceiptInPlace(s)') /\ ReplacedIsRetained'
    <3>1. ~(r > begun)
      BY <2>0, BackupAssumption DEF Restores
    <3>2. \A s \in Restores : ReceiptInPlace(s)'
      BY <1>2, <2>1, <3>1 DEF IInv, ReceiptInPlace
    <3>3. ReplacedIsRetained'
      BY <1>2, <2>1 DEF IInv, ReplacedIsRetained
    <3> QED
      BY <3>2, <3>3
  <2> QED
    BY <1>1, <2>2, <2>3, <2>4, <2>5 DEF IInv
<1> QED
  BY <1>3, <1>4, <1>5 DEF Crash
-----------------------------------------------------------------------------
(* The stores.                                                             *)

LEMMA PrimaryFields ==
    ASSUME Typed
    PROVE  /\ "db" \in MemberSet /\ "journal" \in MemberSet
           /\ primary["db"] \in Incarnations \cup {None} /\ primary["journal"] \in Incarnations \cup {None}
           /\ 0 \in Incarnations /\ None \notin Incarnations
           /\ \A d \in Incarnations : d \in Nat
  BY BackupAssumption DEF Typed, FileSets, MemberSet, Incarnations

(* A step that changes the members in place while no restore is pending    *)
(* and no receipt is touched.                                              *)
LEMMA PrimaryStep ==
    ASSUME IInv, NEW p \in Processes, proc[p].pc # "idle" \/ lock = None,
           intent = None,
           UNCHANGED <<content, generations, stages, retained, intent, receipt, commits, stale, backupStage, begun, before>>,
           primary' \in FileSets, opened' \subseteq Processes,
           lock' = p,
           proc' \in [Processes -> Procs],
           \A q \in Processes \ {p} : proc'[q] = proc[q],
           OperationInPlace(p)',
           primary'["journal"] \in {None, primary'["db"]},
           primary'["db"] = primary["db"] \/ (primary["db"] = None /\ primary'["db"] = 0),
           opened' # {} => primary'["db"] # None
    PROVE  IInv'
<1> USE DEF IInv
<1>0. ~IsPending /\ ~IsPending'
  BY DEF IsPending
<1>1. LockHeld' /\ \A q \in Processes : OperationInPlace(q)'
  BY HolderStep
<1>2. Typed'
  BY DEF Typed
<1>3. DatabaseInPlace'
  <2>1. begun \in Nat /\ 0 <= begun
    BY BackupAssumption DEF Typed
  <2> QED
    BY <1>0, <2>1 DEF DatabaseInPlace
<1>4. PendingInPlace' /\ PendingIsRecoverable'
  BY <1>0 DEF PendingInPlace, PendingIsRecoverable
<1>5. ASSUME NEW r \in Restores
      PROVE  ReceiptInPlace(r)'
  <2>1. primary["db"] = None => begun = 0
    BY <1>0 DEF DatabaseInPlace
  <2>2. begun = 0 => r > begun
    BY BackupAssumption DEF Restores
  <2>3. ReceiptInPlace(r)
    OBVIOUS
  <2>4. primary["db"] = None => receipt[r] = "none"
    BY <2>1, <2>2, <2>3 DEF ReceiptInPlace
  <2> QED
    BY <2>3, <2>4 DEF ReceiptInPlace
<1>6. ReplacedIsRetained'
  BY DEF ReplacedIsRetained
<1> QED
  BY <1>1, <1>2, <1>3, <1>4, <1>5, <1>6

LEMMA BeginOpenStep ==
    ASSUME IInv, NEW p \in Processes, BeginOpen(p)
    PROVE  IInv'
<1>1. /\ intent = None /\ lock = None /\ lock' = p /\ proc' = [proc EXCEPT ![p].pc = "opening"]
      /\ UNCHANGED <<content, generations, stages, retained, intent, receipt, commits, opened, stale, backupStage, begun, before>>
      /\ primary' = IF primary["db"] = None THEN [primary EXCEPT !["db"] = 0] ELSE primary
      /\ primary["db"] = None => opened = {}
  BY DEF BeginOpen, Acquire, NoConnectionReceipts
<1>2. Typed /\ ~IsPending /\ DatabaseInPlace
  BY <1>1 DEF IInv, IsPending
<1>3. /\ proc' \in [Processes -> Procs] /\ proc'[p].pc = "opening"
      /\ \A q \in Processes \ {p} : proc'[q] = proc[q]
  BY <1>1, <1>2, ProcStep DEF Typed
<1>4. /\ primary' \in FileSets /\ primary'["journal"] \in {None, primary'["db"]} /\ primary'["db"] # None
      /\ primary'["db"] = primary["db"] \/ (primary["db"] = None /\ primary'["db"] = 0)
  <2>1. CASE primary["db"] = None
    <3>1. primary' = [primary EXCEPT !["db"] = 0] /\ primary["journal"] = None
      BY <1>1, <1>2, <2>1 DEF DatabaseInPlace
    <3>2. primary' \in FileSets /\ primary'["db"] = 0 /\ primary'["journal"] = None
      <4>1. primary \in FileSets /\ 0 \in Incarnations
        BY <1>2, PrimaryFields DEF Typed
      <4> QED
        BY <3>1, <4>1 DEF FileSets, MemberSet
    <3> QED
      BY <1>2, <2>1, <3>2, PrimaryFields
  <2>2. CASE primary["db"] # None
    BY <1>1, <1>2, <2>2 DEF DatabaseInPlace, Typed
  <2> QED
    BY <2>1, <2>2
<1>5. OperationInPlace(p)'
  BY <1>1, <1>3, <1>4 DEF OperationInPlace
<1>6. opened' \subseteq Processes
  BY <1>1, <1>2 DEF Typed
<1> QED
  BY <1>1, <1>3, <1>4, <1>5, <1>6, PrimaryStep

LEMMA CloseStep ==
    ASSUME IInv, NEW p \in Processes, Close(p)
    PROVE  IInv'
<1>1. /\ p \in opened /\ lock = None /\ lock' = p /\ proc' = [proc EXCEPT ![p].pc = "release"]
      /\ opened' = opened \ {p}
      /\ UNCHANGED <<content, generations, stages, retained, intent, receipt, commits, stale, backupStage, begun, before>>
      /\ primary' = IF opened = {p} THEN [primary EXCEPT !["journal"] = None] ELSE primary
  BY DEF Close, Acquire
<1>2. Typed /\ ~IsPending /\ DatabaseInPlace /\ intent = None /\ primary["db"] # None
  BY <1>1 DEF IInv, DatabaseInPlace, IsPending
<1>3. /\ proc' \in [Processes -> Procs] /\ proc'[p].pc = "release"
      /\ \A q \in Processes \ {p} : proc'[q] = proc[q]
  BY <1>1, <1>2, ProcStep DEF Typed
<1>4. primary' \in FileSets /\ primary'["journal"] \in {None, primary'["db"]} /\ primary'["db"] = primary["db"]
  <2>1. CASE opened = {p}
    <3>1. primary \in FileSets /\ primary' = [primary EXCEPT !["journal"] = None]
      BY <1>1, <1>2, <2>1 DEF Typed
    <3> QED
      BY <3>1 DEF FileSets, MemberSet
  <2>2. CASE opened # {p}
    BY <1>1, <1>2, <2>2 DEF DatabaseInPlace, Typed
  <2> QED
    BY <2>1, <2>2
<1>5. OperationInPlace(p)'
  BY <1>3, RestOperation
<1>6. opened' \subseteq Processes
  BY <1>1, <1>2 DEF Typed
<1> QED
  BY <1>1, <1>2, <1>3, <1>4, <1>5, <1>6, PrimaryStep

(* What a restore has retained is neither the database in place nor one    *)
(* that is still to be staged.                                             *)
LEMMA RetainedIsOlder ==
    ASSUME IInv, NEW r \in Restores, receipt[r] = "whole"
    PROVE  /\ retained[r]["db"] \in Incarnations /\ retained[r]["db"] # begun
           /\ primary["db"] # None => retained[r]["db"] # primary["db"]
           /\ retained[r] # None
<1>1. /\ ~(r > begun) /\ retained[r] \in FileSets /\ retained[r]["db"] # None /\ retained[r]["db"] < r
      /\ primary["db"] # None => r <= primary["db"]
  BY DEF IInv, ReceiptInPlace
<1>2. retained[r]["db"] \in Incarnations /\ retained[r]["db"] \in Nat
  BY <1>1, BackupAssumption DEF FileSets, MemberSet, Incarnations
<1>3. primary["db"] # None => primary["db"] \in Nat
  BY PrimaryFields DEF IInv
<1>4. r \in Nat /\ begun \in Nat
  BY BackupAssumption DEF Restores, IInv, Typed
<1>5. retained[r] # None
  BY <1>1, AbsentAssumption
<1> QED
  BY <1>1, <1>2, <1>3, <1>4, <1>5

LEMMA WriteStep ==
    ASSUME IInv, NEW p \in Processes, NEW kind \in {"write", "backup", "restore"}, NEW g \in 0..MaxGens, Write(p, kind, g)
    PROVE  IInv'
<1>1. /\ p \in opened /\ commits < MaxCommits /\ commits' = commits + 1
      /\ content' = [content EXCEPT ![primary["db"]] = Append(@, [n |-> commits + 1, kind |-> kind, gen |-> g])]
      /\ primary' = [primary EXCEPT !["journal"] = primary["db"]]
      /\ UNCHANGED <<generations, stages, retained, intent, receipt, opened, stale, lock, backupStage, begun, proc, before>>
  BY DEF Write
<1>2. Typed /\ intent = None /\ ~IsPending /\ ~IsPending' /\ opened # {} /\ primary["db"] # None
  BY <1>1, NobodyOpen DEF IInv, DatabaseInPlace, IsPending
<1>3. PICK d \in Incarnations : d = primary["db"]
  BY <1>2, PrimaryFields
<1>4. PICK e : e = [n |-> commits + 1, kind |-> kind, gen |-> g]
  OBVIOUS
<1>5. e \in Commits /\ commits \in Nat /\ commits + 1 \in 0..MaxCommits
  BY <1>1, <1>2, <1>4, BackupAssumption DEF Commits, Typed
<1>6. /\ content[d] \in Seq(Commits) /\ Append(content[d], e) \in Seq(Commits)
      /\ Len(Append(content[d], e)) = Len(content[d]) + 1 /\ Len(content[d]) \in Nat
  BY <1>2, <1>5, AppendProperties, LenProperties DEF Typed
<1>7. content' = [content EXCEPT ![d] = Append(content[d], e)]
  BY <1>1, <1>3, <1>4
<1>8. /\ content' \in [Incarnations -> Seq(Commits)] /\ content'[d] = Append(content[d], e)
      /\ \A x \in Incarnations \ {d} : content'[x] = content[x]
  BY <1>2, <1>6, <1>7 DEF Typed
<1>9. /\ primary' \in FileSets /\ primary'["journal"] = d /\ primary'["db"] = d
  <2>1. primary \in FileSets /\ primary' = [primary EXCEPT !["journal"] = d]
    BY <1>1, <1>2, <1>3 DEF Typed
  <2> QED
    BY <1>3, <2>1 DEF FileSets, MemberSet
<1>10. Typed'
  <2>1. \A x \in Incarnations : Len(content'[x]) <= commits + 1
    <3> SUFFICES ASSUME NEW x \in Incarnations
                 PROVE  Len(content'[x]) <= commits + 1
      OBVIOUS
    <3>1. Len(content[x]) <= commits /\ Len(content[x]) \in Nat
      BY <1>2, LenProperties DEF Typed
    <3> QED
      BY <1>5, <1>6, <1>8, <3>1
  <2>2. \A x \in Gens : generations[x] # None =>
          generations[x] \in Seq(Commits) /\ Len(generations[x]) <= commits + 1
    <3> SUFFICES ASSUME NEW x \in Gens, generations[x] # None
                 PROVE  generations[x] \in Seq(Commits) /\ Len(generations[x]) <= commits + 1
      OBVIOUS
    <3>1. generations[x] \in Seq(Commits) /\ Len(generations[x]) <= commits
      BY <1>2 DEF Typed
    <3>2. Len(generations[x]) \in Nat
      BY <3>1, LenProperties
    <3> QED
      BY <1>5, <3>1, <3>2
  <2> QED
    BY <1>1, <1>2, <1>5, <1>8, <1>9, <2>1, <2>2 DEF Typed
<1>11. LockHeld'
  BY <1>1 DEF IInv, LockHeld
<1>12. DatabaseInPlace'
  BY <1>1, <1>2, <1>3, <1>9 DEF IInv, DatabaseInPlace
<1>13. ASSUME NEW q \in Processes
       PROVE  OperationInPlace(q)'
  <2>1. OperationInPlace(q)
    BY DEF IInv
  <2> QED
    BY <1>1, <1>2, <1>3, <1>9, <2>1 DEF OperationInPlace
<1>14. PendingInPlace' /\ PendingIsRecoverable'
  BY <1>2 DEF PendingInPlace, PendingIsRecoverable
<1>15. \A r \in Restores : ReceiptInPlace(r)'
  BY <1>1, <1>3, <1>9 DEF IInv, ReceiptInPlace
<1>16. ReplacedIsRetained'
  <2>1. \A r \in Restores : receipt[r] = "whole" => content'[retained[r]["db"]] = content[retained[r]["db"]]
    BY <1>2, <1>3, <1>8, RetainedIsOlder
  <2> QED
    BY <1>1, <2>1 DEF IInv, ReplacedIsRetained
<1> QED
  BY <1>10, <1>11, <1>12, <1>13, <1>14, <1>15, <1>16 DEF IInv
-----------------------------------------------------------------------------
(* Backup, and a restore up to its intent: what is made is new.            *)

LEMMA PublishBackupStep ==
    ASSUME IInv, NEW p \in Processes, PublishBackup(p)
    PROVE  IInv'
<1>1. /\ proc[p].pc = "cloning" /\ proc' = [proc EXCEPT ![p].pc = "release"]
      /\ generations' = [generations EXCEPT ![proc[p].gen] = content[primary["db"]]]
      /\ backupStage' = 0
      /\ UNCHANGED <<primary, content, stages, retained, intent, receipt, commits, opened, stale, lock, begun, before>>
  BY DEF PublishBackup, Step
<1>2. Typed /\ p \in opened /\ proc[p].gen \in Gens /\ lock = p
  BY <1>1 DEF IInv, OperationInPlace, LockHeld
<1>3. intent = None /\ ~IsPending /\ ~IsPending' /\ primary["db"] \in Incarnations
  BY <1>1, <1>2, NobodyOpen DEF IsPending
<1>4. /\ proc' \in [Processes -> Procs] /\ proc'[p].pc = "release"
      /\ \A q \in Processes \ {p} : proc'[q] = proc[q]
  BY <1>1, <1>2, ProcStep DEF Typed
<1>5. LockHeld' /\ \A q \in Processes : OperationInPlace(q)'
  BY <1>1, <1>2, <1>4, RestOperation, HolderStep
<1>6. Typed'
  <2>1. content[primary["db"]] \in Seq(Commits) /\ Len(content[primary["db"]]) <= commits
    BY <1>2, <1>3 DEF Typed
  <2>2. /\ DOMAIN generations' = Gens /\ generations' = [g \in Gens |-> generations'[g]]
        /\ \A g \in Gens : generations'[g] # None =>
              generations'[g] \in Seq(Commits) /\ Len(generations'[g]) <= commits
    <3>1. /\ generations'[proc[p].gen] = content[primary["db"]] /\ DOMAIN generations' = Gens
          /\ \A g \in Gens \ {proc[p].gen} : generations'[g] = generations[g]
          /\ generations' = [g \in Gens |-> generations'[g]]
      BY <1>1, <1>2 DEF Typed
    <3> QED
      BY <1>2, <2>1, <3>1 DEF Typed
  <2>3. 0 \in 0..MaxGens
    BY BackupAssumption
  <2> QED
    BY <1>1, <1>2, <1>4, <2>2, <2>3 DEF Typed
<1>7. DatabaseInPlace' /\ PendingInPlace' /\ PendingIsRecoverable'
  BY <1>1, <1>3 DEF IInv, DatabaseInPlace, PendingInPlace, PendingIsRecoverable
<1>8. (\A r \in Restores : ReceiptInPlace(r)') /\ ReplacedIsRetained'
  BY <1>1 DEF IInv, ReceiptInPlace, ReplacedIsRetained
<1> QED
  BY <1>5, <1>6, <1>7, <1>8 DEF IInv

LEMMA BeginRestoreStep ==
    ASSUME IInv, NEW p \in Processes, NEW g \in Gens, BeginRestore(p, g)
    PROVE  IInv'
<1> DEFINE c == [pc |-> "stage", gen |-> g, restore |-> begun + 1]
<1>1. /\ opened = {} /\ intent = None /\ generations[g] # None /\ begun < MaxRestores /\ primary["db"] # None
      /\ lock = None /\ lock' = p /\ begun' = begun + 1 /\ proc' = [proc EXCEPT ![p] = c]
      /\ UNCHANGED <<primary, content, generations, stages, retained, intent, receipt, commits, opened, stale, backupStage, before>>
  BY DEF BeginRestore, NoConnectionReceipts, files
<1>2. Typed /\ ~IsPending /\ ~IsPending' /\ DatabaseInPlace
  BY <1>1 DEF IInv, IsPending
<1>3. begun + 1 \in Restores /\ begun + 1 \in 0..MaxRestores /\ begun \in Nat /\ g \in 0..MaxGens
  BY <1>1, <1>2, BackupAssumption DEF Typed, Restores, Gens
<1>4. c \in Procs /\ c.pc = "stage" /\ c.gen = g /\ c.restore = begun + 1
  BY <1>3 DEF Procs
<1> HIDE DEF c
<1>5. proc' \in [Processes -> Procs] /\ proc'[p] = c /\ \A q \in Processes \ {p} : proc'[q] = proc[q]
  BY <1>1, <1>2, <1>4 DEF Typed
<1>6. primary["db"] \in Nat /\ primary["db"] < begun + 1 /\ receipt[begun + 1] = "none"
  BY <1>1, <1>2, <1>3, PrimaryFields DEF DatabaseInPlace, IInv, ReceiptInPlace
<1>7. OperationInPlace(p)'
  BY <1>1, <1>3, <1>4, <1>5, <1>6 DEF OperationInPlace
<1>8. LockHeld' /\ \A q \in Processes : OperationInPlace(q)'
  BY <1>1, <1>5, <1>7, HolderStep
<1>9. Typed'
  BY <1>1, <1>2, <1>3, <1>5 DEF Typed
<1>10. DatabaseInPlace' /\ PendingInPlace' /\ PendingIsRecoverable'
  BY <1>1, <1>2, <1>3, <1>6 DEF DatabaseInPlace, PendingInPlace, PendingIsRecoverable
<1>11. (\A r \in Restores : ReceiptInPlace(r)') /\ ReplacedIsRetained'
  <2>1. \A r \in Restores : r > begun + 1 => r > begun
    BY <1>3, BackupAssumption DEF Restores
  <2> QED
    BY <1>1, <2>1 DEF IInv, ReceiptInPlace, ReplacedIsRetained
<1> QED
  BY <1>8, <1>9, <1>10, <1>11 DEF IInv

(* Where an operation before its intent is. *)
LEMMA Preparing ==
    ASSUME IInv, NEW p \in Processes, proc[p].pc \in {"stage", "retain_dir", "intent"}
    PROVE  /\ lock = p /\ opened = {} /\ intent = None /\ ~IsPending /\ primary["db"] \in Incarnations
           /\ proc[p].restore \in Restores /\ proc[p].restore = begun /\ primary["db"] < proc[p].restore
           /\ proc[p].restore \in Incarnations /\ proc[p].gen \in Gens /\ receipt[proc[p].restore] = "none"
<1>1. /\ lock = p /\ opened = {} /\ intent = None /\ primary["db"] # None
      /\ proc[p].restore \in Restores /\ proc[p].restore = begun /\ primary["db"] < proc[p].restore
      /\ proc[p].gen \in Gens /\ receipt[proc[p].restore] = "none"
  BY DEF IInv, LockHeld, OperationInPlace
<1>2. primary["db"] \in Incarnations
  BY <1>1, PrimaryFields DEF IInv
<1>3. proc[p].restore \in Incarnations
  BY <1>1, BackupAssumption DEF Restores, Incarnations
<1> QED
  BY <1>1, <1>2, <1>3 DEF IsPending

LEMMA StageTargetStep ==
    ASSUME IInv, NEW p \in Processes, StageTarget(p)
    PROVE  IInv'
<1>1. PICK r \in Restores : r = proc[p].restore
  BY Preparing DEF StageTarget, Step
<1>2. /\ proc[p].pc = "stage" /\ proc' = [proc EXCEPT ![p].pc = "retain_dir"]
      /\ stages' = stages \cup {r} /\ content' = [content EXCEPT ![r] = generations[proc[p].gen]]
      /\ UNCHANGED <<primary, generations, retained, intent, receipt, commits, opened, stale, lock, backupStage, begun, before>>
  BY <1>1 DEF StageTarget, Step
<1>3. /\ lock = p /\ opened = {} /\ intent = None /\ ~IsPending /\ ~IsPending' /\ primary["db"] \in Incarnations
      /\ r = begun /\ primary["db"] < r /\ r \in Incarnations /\ proc[p].gen \in Gens /\ receipt[r] = "none"
  BY <1>1, <1>2, Preparing DEF IsPending
<1>4. Typed /\ generations[proc[p].gen] # None
  BY <1>2 DEF IInv, OperationInPlace
<1>5. generations[proc[p].gen] \in Seq(Commits) /\ Len(generations[proc[p].gen]) <= commits
  BY <1>3, <1>4 DEF Typed
<1>6. /\ content' \in [Incarnations -> Seq(Commits)] /\ content'[r] = generations[proc[p].gen]
      /\ \A d \in Incarnations \ {r} : content'[d] = content[d]
  BY <1>2, <1>3, <1>4, <1>5 DEF Typed
<1>7. /\ proc' \in [Processes -> Procs]
      /\ proc'[p].pc = "retain_dir" /\ proc'[p].gen = proc[p].gen /\ proc'[p].restore = proc[p].restore
      /\ \A q \in Processes \ {p} : proc'[q] = proc[q]
  BY <1>2, <1>4, ProcStep DEF Typed
<1>8. OperationInPlace(p)'
  <2>1. primary["db"] # None
    BY <1>3, <1>4, PrimaryFields
  <2> QED
    BY <1>1, <1>2, <1>3, <1>7, <2>1 DEF OperationInPlace
<1>9. LockHeld' /\ \A q \in Processes : OperationInPlace(q)'
  BY <1>2, <1>3, <1>7, <1>8, HolderStep
<1>10. Typed'
  BY <1>2, <1>4, <1>5, <1>6, <1>7 DEF Typed
<1>11. DatabaseInPlace' /\ PendingInPlace' /\ PendingIsRecoverable'
  BY <1>2, <1>3 DEF IInv, DatabaseInPlace, PendingInPlace, PendingIsRecoverable
<1>12. \A s \in Restores : ReceiptInPlace(s)'
  BY <1>2, <1>3 DEF IInv, ReceiptInPlace
<1>13. ReplacedIsRetained'
  <2>1. \A s \in Restores : receipt[s] = "whole" => content'[retained[s]["db"]] = content[retained[s]["db"]]
    BY <1>3, <1>6, RetainedIsOlder
  <2> QED
    BY <1>2, <2>1 DEF IInv, ReplacedIsRetained
<1> QED
  BY <1>9, <1>10, <1>11, <1>12, <1>13 DEF IInv

LEMMA NoFilesTyped == NoFiles \in FileSets /\ NoFiles["db"] = None /\ NoFiles["journal"] = None
  BY DEF NoFiles, FileSets, MemberSet

LEMMA MakeRetainedStep ==
    ASSUME IInv, NEW p \in Processes, MakeRetained(p)
    PROVE  IInv'
<1>1. PICK r \in Restores : r = proc[p].restore
  BY Preparing DEF MakeRetained, Step
<1>2. /\ proc[p].pc = "retain_dir" /\ proc' = [proc EXCEPT ![p].pc = "intent"]
      /\ retained' = [retained EXCEPT ![r] = NoFiles]
      /\ UNCHANGED <<primary, content, generations, stages, intent, receipt, commits, opened, stale, lock, backupStage, begun, before>>
  BY <1>1 DEF MakeRetained, Step
<1>3. /\ lock = p /\ opened = {} /\ intent = None /\ ~IsPending /\ ~IsPending' /\ primary["db"] \in Incarnations
      /\ r = begun /\ primary["db"] < r /\ proc[p].gen \in Gens /\ receipt[r] = "none"
  BY <1>1, <1>2, Preparing DEF IsPending
<1>4. Typed /\ primary["db"] # None
  BY <1>2 DEF IInv, OperationInPlace
<1>5. /\ retained' \in [Restores -> FileSets \cup {None}] /\ retained'[r] = NoFiles
      /\ \A s \in Restores \ {r} : retained'[s] = retained[s]
  BY <1>2, <1>4, NoFilesTyped DEF Typed
<1>6. /\ proc' \in [Processes -> Procs]
      /\ proc'[p].pc = "intent" /\ proc'[p].gen = proc[p].gen /\ proc'[p].restore = proc[p].restore
      /\ \A q \in Processes \ {p} : proc'[q] = proc[q]
  BY <1>2, <1>4, ProcStep DEF Typed
<1>7. OperationInPlace(p)'
  BY <1>1, <1>2, <1>3, <1>4, <1>5, <1>6 DEF OperationInPlace
<1>8. LockHeld' /\ \A q \in Processes : OperationInPlace(q)'
  BY <1>2, <1>3, <1>6, <1>7, HolderStep
<1>9. Typed'
  BY <1>2, <1>4, <1>5, <1>6 DEF Typed
<1>10. DatabaseInPlace' /\ PendingInPlace' /\ PendingIsRecoverable'
  BY <1>2, <1>3 DEF IInv, DatabaseInPlace, PendingInPlace, PendingIsRecoverable
<1>11. (\A s \in Restores : ReceiptInPlace(s)') /\ ReplacedIsRetained'
  BY <1>2, <1>3, <1>5 DEF IInv, ReceiptInPlace, ReplacedIsRetained
<1> QED
  BY <1>8, <1>9, <1>10, <1>11 DEF IInv

LEMMA WriteIntentStep ==
    ASSUME IInv, NEW p \in Processes, WriteIntent(p)
    PROVE  IInv'
<1>1. PICK r \in Restores, g \in Gens : r = proc[p].restore /\ g = proc[p].gen
  BY Preparing DEF WriteIntent, Step
<1>2. PICK i, b : /\ i = [restore |-> r, gen |-> g, expected |-> primary]
                  /\ b = [members |-> primary, content |-> content[primary["db"]]]
  OBVIOUS
<1>3. /\ proc[p].pc = "intent" /\ proc' = [proc EXCEPT ![p].pc = "continue"]
      /\ IsAuthorized(primary["db"], "restore", g) /\ r \in stages
      /\ intent' = i /\ before' = [before EXCEPT ![r] = b]
      /\ UNCHANGED <<primary, content, generations, stages, retained, receipt, commits, opened, stale, lock, backupStage, begun>>
  BY <1>1, <1>2 DEF WriteIntent, Step
<1>4. /\ lock = p /\ opened = {} /\ intent = None /\ ~IsPending /\ primary["db"] \in Incarnations
      /\ r = begun /\ primary["db"] < r /\ receipt[r] = "none"
  BY <1>1, <1>3, Preparing
<1>5. Typed /\ primary["db"] # None /\ retained[r] = NoFiles
  BY <1>1, <1>3 DEF IInv, OperationInPlace
<1>6. i \in RestoreIntents /\ i.restore = r /\ i.gen = g /\ i.expected = primary
  BY <1>2, <1>5 DEF RestoreIntents, Typed
<1>7. IsPending'
  BY <1>3, <1>6, AbsentAssumption DEF IsPending
<1>8. before'[r] = b /\ b.members = primary /\ b.content = content[primary["db"]]
      /\ before' = [s \in Restores |-> before'[s]] /\ \A s \in Restores \ {r} : before'[s] = before[s]
  BY <1>2, <1>3, <1>5 DEF Typed
<1>9. /\ proc' \in [Processes -> Procs]
      /\ proc'[p].pc = "continue" /\ proc'[p].gen = proc[p].gen /\ proc'[p].restore = proc[p].restore
      /\ \A q \in Processes \ {p} : proc'[q] = proc[q]
  BY <1>3, <1>5, ProcStep DEF Typed
<1>10. OperationInPlace(p)'
  BY <1>1, <1>3, <1>6, <1>7, <1>9 DEF OperationInPlace
<1>11. LockHeld' /\ \A q \in Processes : OperationInPlace(q)'
  BY <1>3, <1>4, <1>9, <1>10, HolderStep
<1>12. Typed'
  BY <1>3, <1>5, <1>6, <1>8, <1>9 DEF Typed
<1>13. DatabaseInPlace'
  BY <1>3, <1>4, <1>5, <1>7 DEF IInv, DatabaseInPlace
<1>14. PendingInPlace'
  <2>1. content[primary["db"]][Len(content[primary["db"]])].kind = "restore"
    BY <1>3 DEF IsAuthorized
  <2> QED
    BY <1>3, <1>4, <1>5, <1>6, <1>8, <2>1 DEF PendingInPlace
<1>15. PendingIsRecoverable'
  <2>1. retained[r] # None /\ \A m \in MemberSet : retained[r][m] = None
    BY <1>5, NoFilesTyped, AbsentAssumption DEF NoFiles
  <2> QED
    BY <1>3, <1>6, <2>1 DEF PendingIsRecoverable
<1>16. (\A s \in Restores : ReceiptInPlace(s)') /\ ReplacedIsRetained'
  BY <1>3, <1>4, <1>8 DEF IInv, ReceiptInPlace, ReplacedIsRetained
<1> QED
  BY <1>11, <1>12, <1>13, <1>14, <1>15, <1>16 DEF IInv
-----------------------------------------------------------------------------
(* A restore from its intent on.                                           *)

(* Where an operation of restore r with an intent is, and what it finds on *)
(* disk of the database e it replaces.                                     *)
Continues(p, r, e) ==
    /\ r = proc[p].restore /\ r = intent.restore /\ e = intent.expected /\ intent.gen = proc[p].gen
    /\ lock = p /\ IsPending /\ opened = {} /\ r = begun /\ r \in Incarnations /\ r \in Nat
    /\ e["db"] \in Incarnations /\ e["db"] < r /\ e["db"] # r
    /\ retained[r] \in FileSets /\ retained[r] # None
    /\ r \in stages => \A m \in MemberSet : {primary[m], retained[r][m]} = {None, e[m]}
    /\ r \notin stages => primary = [NoFiles EXCEPT !["db"] = r] /\ retained[r] = e
    /\ before[r].members = e /\ before[r].content = content[e["db"]]
    /\ content[e["db"]][Len(content[e["db"]])].kind = "restore"

LEMMA Continuing ==
    ASSUME IInv, NEW p \in Processes, proc[p].pc \in {"continue", "retain", "receipt", "unlink"}
    PROVE  \E r \in Restores, e \in FileSets : Continues(p, r, e)
<1>1. lock = p /\ IsPending /\ intent.restore = proc[p].restore /\ intent.gen = proc[p].gen
  BY DEF IInv, LockHeld, OperationInPlace
<1>2. intent \in RestoreIntents /\ Typed
  BY <1>1 DEF IInv, Typed, IsPending
<1>3. PICK r \in Restores, e \in FileSets : r = intent.restore /\ e = intent.expected
  BY <1>2 DEF RestoreIntents
<1>4. /\ opened = {} /\ r = begun /\ e["db"] # None /\ e["db"] < r
      /\ before[r].members = e /\ before[r].content = content[e["db"]]
      /\ content[e["db"]][Len(content[e["db"]])].kind = "restore"
  BY <1>1, <1>3 DEF IInv, PendingInPlace
<1>5. r \in Incarnations /\ r \in Nat /\ e["db"] \in Incarnations /\ e["db"] # r
  <2>1. r \in Incarnations /\ r \in Nat
    BY <1>3, BackupAssumption DEF Restores, Incarnations
  <2>2. e["db"] \in Incarnations
    BY <1>4 DEF FileSets, MemberSet
  <2>3. e["db"] \in Nat
    BY <2>2, BackupAssumption DEF Incarnations
  <2> QED
    BY <1>4, <2>1, <2>2, <2>3
<1>6. /\ retained[r] # None
      /\ r \in stages => \A m \in MemberSet : {primary[m], retained[r][m]} = {None, e[m]}
      /\ r \notin stages => primary = [NoFiles EXCEPT !["db"] = r] /\ retained[r] = e
  BY <1>1, <1>3 DEF IInv, PendingIsRecoverable
<1>7. retained[r] \in FileSets
  BY <1>2, <1>6 DEF Typed
<1> QED
  BY <1>1, <1>3, <1>4, <1>5, <1>6, <1>7 DEF Continues

LEMMA PublishedIsComplete ==
    ASSUME IInv, NEW p \in Processes, proc[p].pc \in {"receipt", "unlink"}, Published(proc[p].restore)
    PROVE  /\ proc[p].restore \notin stages /\ retained[proc[p].restore] = intent.expected
           /\ primary["journal"] = None
<1>1. PICK r \in Restores, e \in FileSets : Continues(p, r, e)
  BY Continuing
<1>1a. /\ r = proc[p].restore /\ e = intent.expected /\ e["db"] # r /\ r \in Incarnations
       /\ r \in stages => \A m \in MemberSet : {primary[m], retained[r][m]} = {None, e[m]}
       /\ r \notin stages => primary = [NoFiles EXCEPT !["db"] = r] /\ retained[r] = e
  BY <1>1 DEF Continues
<1>2. primary["db"] = r /\ r # None
  BY <1>1a, PrimaryFields DEF Published, IInv
<1>3. r \notin stages
  <2>1. "db" \in MemberSet
    BY DEF MemberSet
  <2> QED
    BY <1>1a, <1>2, <2>1
<1>4. primary["journal"] = None
  BY <1>1a, <1>3, NoFilesTyped DEF FileSets, MemberSet
<1> QED
  BY <1>1a, <1>3, <1>4

LEMMA RetainMemberStep ==
    ASSUME IInv, NEW p \in Processes, RetainMember(p)
    PROVE  IInv'
<1>1. proc[p].pc = "retain" /\ proc' = [proc EXCEPT ![p].pc = "retain"]
      /\ UNCHANGED <<content, generations, stages, intent, receipt, commits, opened, stale, lock, backupStage, begun, before>>
  BY DEF RetainMember, Step
<1>2. PICK r \in Restores, e \in FileSets : Continues(p, r, e)
  BY <1>1, Continuing
<1>2a. /\ r = proc[p].restore /\ r = intent.restore /\ e = intent.expected /\ intent.gen = proc[p].gen
       /\ lock = p /\ IsPending /\ opened = {} /\ r = begun
       /\ retained[r] \in FileSets /\ retained[r] # None
       /\ r \in stages => \A m \in MemberSet : {primary[m], retained[r][m]} = {None, e[m]}
  BY <1>2 DEF Continues
<1>3. r \in stages /\ Typed
  BY <1>1, <1>2a DEF IInv, OperationInPlace
<1>4. PICK m \in MemberSet : /\ primary[m] = e[m]
                             /\ retained' = [retained EXCEPT ![r][m] = primary[m]]
                             /\ primary' = [primary EXCEPT ![m] = None]
  <2>1. \A j \in DOMAIN Members : Members[j] \in MemberSet
    BY DEF Members, MemberSet
  <2> QED
    BY <1>2a, <2>1 DEF RetainMember
<1>5. /\ primary' \in FileSets /\ primary'[m] = None /\ \A x \in MemberSet \ {m} : primary'[x] = primary[x]
  BY <1>3, <1>4 DEF Typed, FileSets
<1>6. /\ retained' \in [Restores -> FileSets \cup {None}] /\ \A s \in Restores \ {r} : retained'[s] = retained[s]
      /\ retained'[r] \in FileSets /\ retained'[r][m] = e[m]
      /\ \A x \in MemberSet \ {m} : retained'[r][x] = retained[r][x]
  <2> DEFINE n == [retained[r] EXCEPT ![m] = e[m]]
  <2>1. n \in FileSets /\ n[m] = e[m] /\ \A x \in MemberSet \ {m} : n[x] = retained[r][x]
    BY <1>2a DEF FileSets
  <2>2. retained' = [retained EXCEPT ![r] = n]
    BY <1>4
  <2> HIDE DEF n
  <2> QED
    BY <1>3, <2>1, <2>2 DEF Typed
<1>7. retained'[r] # None
  BY <1>6, AbsentAssumption
<1>8. IsPending'
  BY <1>1, <1>2a DEF IsPending
<1>9. PendingIsRecoverable'
  <2>1. \A x \in MemberSet : {primary'[x], retained'[r][x]} = {None, e[x]}
    BY <1>2a, <1>3, <1>5, <1>6
  <2> QED
    BY <1>1, <1>2a, <1>3, <1>7, <2>1 DEF PendingIsRecoverable
<1>10. /\ proc' \in [Processes -> Procs]
       /\ proc'[p].pc = "retain" /\ proc'[p].gen = proc[p].gen /\ proc'[p].restore = proc[p].restore
       /\ \A q \in Processes \ {p} : proc'[q] = proc[q]
  BY <1>1, <1>3, ProcStep DEF Typed
<1>11. OperationInPlace(p)'
  BY <1>1, <1>2a, <1>3, <1>8, <1>10 DEF OperationInPlace
<1>12. LockHeld' /\ \A q \in Processes : OperationInPlace(q)'
  BY <1>1, <1>2a, <1>10, <1>11, HolderStep
<1>13. Typed'
  BY <1>1, <1>3, <1>5, <1>6, <1>10 DEF Typed
<1>14. primary'["db"] \in {None, primary["db"]}
  BY <1>5 DEF MemberSet
<1>15. DatabaseInPlace'
  BY <1>1, <1>2a, <1>8, <1>14 DEF IInv, DatabaseInPlace
<1>16. PendingInPlace'
  BY <1>1, <1>2a DEF IInv, PendingInPlace
<1>17. receipt[r] # "whole"
  BY <1>3 DEF IInv, ReceiptInPlace
<1>18. \A s \in Restores : ReceiptInPlace(s)'
  BY <1>1, <1>6, <1>14, <1>17 DEF IInv, ReceiptInPlace
<1>19. ReplacedIsRetained'
  BY <1>1, <1>6, <1>17 DEF IInv, ReplacedIsRetained
<1> QED
  BY <1>9, <1>12, <1>13, <1>15, <1>16, <1>18, <1>19 DEF IInv

LEMMA PublishTargetStep ==
    ASSUME IInv, NEW p \in Processes, PublishTarget(p)
    PROVE  IInv'
<1>1. PICK r \in Restores, e \in FileSets : Continues(p, r, e)
  BY Continuing DEF PublishTarget, Step
<1>1a. /\ r = proc[p].restore /\ r = intent.restore /\ e = intent.expected /\ intent.gen = proc[p].gen
       /\ lock = p /\ IsPending /\ opened = {} /\ r = begun /\ r \in Incarnations /\ r \in Nat
       /\ retained[r] # None
       /\ r \in stages => \A m \in MemberSet : {primary[m], retained[r][m]} = {None, e[m]}
  BY <1>1 DEF Continues
<1>2. /\ proc[p].pc = "retain" /\ proc' = [proc EXCEPT ![p].pc = "receipt"]
      /\ retained[r] = e /\ r \in stages
      /\ primary' = [primary EXCEPT !["db"] = r] /\ stages' = stages \ {r}
      /\ UNCHANGED <<content, generations, retained, intent, receipt, commits, opened, stale, lock, backupStage, begun, before>>
  BY <1>1a DEF PublishTarget, Step, RetainedComplete
<1>3. Typed
  BY DEF IInv
<1>4. primary["journal"] = None
  <2>1. {primary["journal"], e["journal"]} = {None, e["journal"]}
    BY <1>1a, <1>2 DEF MemberSet
  <2> QED
    BY <2>1
<1>5. primary' \in FileSets /\ primary'["db"] = r /\ primary'["journal"] = None
  BY <1>1a, <1>2, <1>3, <1>4 DEF Typed, FileSets, MemberSet
<1>6. primary' = [NoFiles EXCEPT !["db"] = r]
  BY <1>1a, <1>5 DEF FileSets, MemberSet, NoFiles
<1>7. IsPending'
  BY <1>1a, <1>2 DEF IsPending
<1>8. PendingIsRecoverable'
  BY <1>1a, <1>2, <1>6 DEF PendingIsRecoverable
<1>9. /\ proc' \in [Processes -> Procs]
      /\ proc'[p].pc = "receipt" /\ proc'[p].gen = proc[p].gen /\ proc'[p].restore = proc[p].restore
      /\ \A q \in Processes \ {p} : proc'[q] = proc[q]
  BY <1>2, <1>3, ProcStep DEF Typed
<1>10. OperationInPlace(p)'
  BY <1>1a, <1>2, <1>7, <1>9 DEF OperationInPlace
<1>11. LockHeld' /\ \A q \in Processes : OperationInPlace(q)'
  BY <1>1a, <1>2, <1>9, <1>10, HolderStep
<1>12. Typed'
  BY <1>2, <1>3, <1>5, <1>9 DEF Typed
<1>13. DatabaseInPlace'
  BY <1>1a, <1>2, <1>5, <1>7 DEF IInv, DatabaseInPlace
<1>14. PendingInPlace'
  BY <1>1a, <1>2 DEF IInv, PendingInPlace
<1>15. \A s \in Restores : ReceiptInPlace(s)'
  <2>1. \A s \in Restores : receipt[s] = "whole" => s <= r
    <3>1. \A s \in Restores : receipt[s] = "whole" => ~(s > begun)
      BY DEF IInv, ReceiptInPlace
    <3> QED
      BY <1>1a, <3>1, BackupAssumption DEF Restores
  <2> QED
    BY <1>1a, <1>2, <1>5, <2>1 DEF IInv, ReceiptInPlace
<1>16. ReplacedIsRetained'
  BY <1>2 DEF IInv, ReplacedIsRetained
<1> QED
  BY <1>8, <1>11, <1>12, <1>13, <1>14, <1>15, <1>16 DEF IInv

LEMMA WriteReceiptStep ==
    ASSUME IInv, NEW p \in Processes, WriteReceipt(p)
    PROVE  IInv'
<1>1. proc[p].pc = "receipt" /\ Published(proc[p].restore)
  BY DEF WriteReceipt, Step, LineageIsProven
<1>2. PICK r \in Restores, e \in FileSets : Continues(p, r, e)
  BY <1>1, Continuing
<1>2a. /\ r = proc[p].restore /\ r = intent.restore /\ e = intent.expected /\ intent.gen = proc[p].gen
       /\ lock = p /\ IsPending /\ opened = {} /\ r = begun /\ r \in Nat
       /\ e["db"] \in Incarnations /\ e["db"] < r
       /\ before[r].members = e /\ before[r].content = content[e["db"]]
       /\ content[e["db"]][Len(content[e["db"]])].kind = "restore"
  BY <1>2 DEF Continues
<1>3. /\ proc' = [proc EXCEPT ![p].pc = "unlink"] /\ receipt' = [receipt EXCEPT ![r] = "whole"]
      /\ UNCHANGED <<primary, content, generations, stages, retained, intent, commits, opened, stale, lock, backupStage, begun, before>>
  BY <1>2a DEF WriteReceipt, Step
<1>4. r \notin stages /\ retained[r] = e /\ primary["db"] = r
  BY <1>1, <1>2a, PublishedIsComplete DEF Published
<1>5. Typed /\ e["db"] # None
  BY <1>2a, PrimaryFields DEF IInv
<1>6. /\ receipt' \in [Restores -> {"none", "torn", "whole"}] /\ receipt'[r] = "whole"
      /\ \A s \in Restores \ {r} : receipt'[s] = receipt[s]
  BY <1>3, <1>5 DEF Typed
<1>7. /\ proc' \in [Processes -> Procs]
      /\ proc'[p].pc = "unlink" /\ proc'[p].gen = proc[p].gen /\ proc'[p].restore = proc[p].restore
      /\ \A q \in Processes \ {p} : proc'[q] = proc[q]
  BY <1>3, <1>5, ProcStep DEF Typed
<1>8. OperationInPlace(p)'
  BY <1>2a, <1>3, <1>7 DEF OperationInPlace, IsPending
<1>9. LockHeld' /\ \A q \in Processes : OperationInPlace(q)'
  BY <1>1, <1>2a, <1>3, <1>7, <1>8, HolderStep
<1>10. Typed'
  BY <1>3, <1>5, <1>6, <1>7 DEF Typed
<1>11. DatabaseInPlace' /\ PendingInPlace' /\ PendingIsRecoverable'
  BY <1>3 DEF IInv, DatabaseInPlace, PendingInPlace, PendingIsRecoverable, IsPending
<1>12. \A s \in Restores : ReceiptInPlace(s)'
  <2>1. ~(r > begun) /\ r <= primary["db"]
    BY <1>2a, <1>4
  <2> QED
    BY <1>2a, <1>3, <1>4, <1>5, <1>6, <2>1 DEF IInv, ReceiptInPlace
<1>13. ReplacedIsRetained'
  BY <1>2a, <1>3, <1>4, <1>6 DEF IInv, ReplacedIsRetained
<1> QED
  BY <1>9, <1>10, <1>11, <1>12, <1>13 DEF IInv

LEMMA UnlinkIntentStep ==
    ASSUME IInv, NEW p \in Processes, UnlinkIntent(p)
    PROVE  IInv'
<1>1. proc[p].pc = "unlink" /\ Published(proc[p].restore)
  BY DEF UnlinkIntent, Step, LineageIsProven
<1>2. /\ proc' = [proc EXCEPT ![p].pc = "release"] /\ intent' = None
      /\ UNCHANGED <<primary, content, generations, stages, retained, receipt, commits, opened, stale, lock, backupStage, begun, before>>
  BY DEF UnlinkIntent, Step
<1>3. PICK r \in Restores : r = proc[p].restore /\ lock = p /\ opened = {} /\ r \in Incarnations
  BY <1>1, Continuing DEF Continues
<1>4. primary["journal"] = None /\ primary["db"] = r /\ r # None
  BY <1>1, <1>3, PublishedIsComplete, PrimaryFields DEF Published, IInv
<1>5. Typed
  BY DEF IInv
<1>6. /\ proc' \in [Processes -> Procs] /\ proc'[p].pc = "release"
      /\ \A q \in Processes \ {p} : proc'[q] = proc[q]
  BY <1>2, <1>5, ProcStep DEF Typed
<1>7. LockHeld' /\ \A q \in Processes : OperationInPlace(q)'
  BY <1>1, <1>2, <1>3, <1>6, RestOperation, HolderStep
<1>8. Typed'
  BY <1>2, <1>5, <1>6 DEF Typed
<1>9. DatabaseInPlace' /\ PendingInPlace' /\ PendingIsRecoverable'
  BY <1>2, <1>3, <1>4 DEF IInv, DatabaseInPlace, PendingInPlace, PendingIsRecoverable, IsPending
<1>10. (\A s \in Restores : ReceiptInPlace(s)') /\ ReplacedIsRetained'
  BY <1>2 DEF IInv, ReceiptInPlace, ReplacedIsRetained
<1> QED
  BY <1>7, <1>8, <1>9, <1>10 DEF IInv
-----------------------------------------------------------------------------
(* The invariant, and what follows from it.                                *)

LEMMA InitHolds == Init => IInv
<1> SUFFICES ASSUME Init PROVE IInv
  OBVIOUS
<1>1. NoFiles \in FileSets /\ NoFiles["db"] = None /\ NoFiles["journal"] = None
  BY NoFilesTyped
<1>2. ~IsPending
  BY DEF Init, IsPending
<1>3. \A d \in Incarnations : content[d] = << >>
  BY DEF Init
<1>4. content \in [Incarnations -> Seq(Commits)] /\ \A d \in Incarnations : Len(content[d]) <= commits
  BY <1>3 DEF Init
<1>5. \A p \in Processes : proc[p] = Idle
  BY DEF Init
<1>6. proc \in [Processes -> Procs]
  BY IdleProc DEF Init
<1>7. commits \in 0..MaxCommits /\ backupStage \in 0..MaxGens /\ begun \in 0..MaxRestores
  BY BackupAssumption DEF Init
<1>8. /\ DOMAIN generations = Gens /\ generations = [g \in Gens |-> generations[g]]
      /\ \A g \in Gens : generations[g] = None
  BY DEF Init
<1>9. /\ retained \in [Restores -> FileSets \cup {None}]
      /\ receipt \in [Restores -> {"none", "torn", "whole"}]
      /\ before = [r \in Restores |-> before[r]]
  BY DEF Init
<1>10. Typed
  BY <1>1, <1>4, <1>6, <1>7, <1>8, <1>9 DEF Typed, Init
<1>11. LockHeld /\ \A p \in Processes : OperationInPlace(p)
  BY <1>5, IdleProc DEF LockHeld, OperationInPlace
<1>12. DatabaseInPlace
  BY <1>1 DEF Init, DatabaseInPlace
<1>13. PendingInPlace /\ PendingIsRecoverable
  BY <1>2 DEF PendingInPlace, PendingIsRecoverable
<1>14. (\A r \in Restores : ReceiptInPlace(r)) /\ ReplacedIsRetained
  BY DEF Init, ReceiptInPlace, ReplacedIsRetained
<1> QED
  BY <1>10, <1>11, <1>12, <1>13, <1>14 DEF IInv

LEMMA NextHolds ==
    ASSUME IInv, Next
    PROVE  IInv'
<1>1. CASE OperatorRemovesLock \/ OperatorRemovesReceipts \/ OperatorRemovesBackupStage
  BY <1>1, OperatorStep
<1>2. ASSUME NEW p \in Processes, BeginOpen(p) \/ FinishOpen(p) \/ Close(p) \/ Release(p)
      PROVE  IInv'
  BY <1>2, BeginOpenStep, FinishOpenStep, CloseStep, ReleaseStep
<1>3. ASSUME NEW p \in Processes, NEW kind \in {"write", "backup", "restore"}, NEW g \in 0..MaxGens,
             Write(p, kind, g)
      PROVE  IInv'
  BY <1>3, WriteStep
<1>4. ASSUME NEW p \in Processes, NEW g \in Gens, BeginBackup(p, g) \/ BeginRestore(p, g)
      PROVE  IInv'
  BY <1>4, BeginBackupStep, BeginRestoreStep
<1>5. ASSUME NEW p \in Processes, PublishBackup(p) \/ FailBackup(p) \/ Fail(p) \/ Crash(p)
      PROVE  IInv'
  BY <1>5, PublishBackupStep, EndingStep, CrashStep
<1>6. ASSUME NEW p \in Processes, StageTarget(p) \/ MakeRetained(p) \/ WriteIntent(p) \/ Recover(p) \/ Resume(p)
      PROVE  IInv'
  BY <1>6, StageTargetStep, MakeRetainedStep, WriteIntentStep, RecoverStep, ResumeStep
<1>7. ASSUME NEW p \in Processes, RetainMember(p) \/ PublishTarget(p) \/ WriteReceipt(p) \/ UnlinkIntent(p)
      PROVE  IInv'
  BY <1>7, RetainMemberStep, PublishTargetStep, WriteReceiptStep, UnlinkIntentStep
<1> QED
  BY <1>1, <1>2, <1>3, <1>4, <1>5, <1>6, <1>7 DEF Next

LEMMA StutterHolds ==
    ASSUME IInv, UNCHANGED vars
    PROVE  IInv'
<1>1. UNCHANGED <<files, begun, before, opened, lock, proc, commits, stale, backupStage>>
  BY DEF vars, files
<1>2. DatabaseInPlace' /\ PendingInPlace' /\ PendingIsRecoverable'
      /\ (\A r \in Restores : ReceiptInPlace(r)') /\ ReplacedIsRetained'
  BY <1>1, SameFiles DEF IInv, DatabaseInPlace, PendingInPlace
<1>3. Typed' /\ LockHeld'
  BY <1>1 DEF IInv, Typed, LockHeld, files
<1>4. \A p \in Processes : OperationInPlace(p)'
  BY <1>1 DEF IInv, OperationInPlace, IsPending, files
<1> QED
  BY <1>2, <1>3, <1>4 DEF IInv

(***************************************************************************)
(* The inductive invariant: wherever the processes open, write, back up,   *)
(* restore, fail or die, the one lifecycle operation under the lock and    *)
(* the files it has left on disk fit together.                             *)
(***************************************************************************)
THEOREM BackupInvariant == Spec => []IInv
<1>1. IInv /\ [Next]_vars => IInv'
  BY NextHolds, StutterHolds
<1> QED
  BY <1>1, InitHolds, PTL DEF Spec

(***************************************************************************)
(* Every file, receipt and operation has its shape, and whoever is inside  *)
(* withLifecycleLock is the holder of the lock file.                       *)
(***************************************************************************)
THEOREM BackupTypeOK == Spec => []TypeOK
<1>1. IInv => TypeOK
  <2> SUFFICES ASSUME IInv PROVE TypeOK
    OBVIOUS
  <2>1. Typed /\ LockHeld
    BY DEF IInv
  <2>2. \A d \in Incarnations : Len(content[d]) <= MaxCommits
    <3> SUFFICES ASSUME NEW d \in Incarnations PROVE Len(content[d]) <= MaxCommits
      OBVIOUS
    <3>1. Len(content[d]) \in Nat /\ Len(content[d]) <= commits
      BY <2>1, LenProperties DEF Typed
    <3> QED
      BY <2>1, <3>1, BackupAssumption DEF Typed
  <2>3. \A d \in Incarnations : \A i \in DOMAIN content[d] : content[d][i] \in Commits
    BY <2>1, LenProperties, ElementOfSeq DEF Typed
  <2> QED
    BY <2>1, <2>2, <2>3 DEF TypeOK, Typed, LockHeld
<1> QED
  BY <1>1, BackupInvariant, PTL

(***************************************************************************)
(* An open store works on one whole database and never while a restore is  *)
(* pending: openStore refuses beside a restore intent, and a restore       *)
(* refuses beside a connection receipt, whatever crashed in between.       *)
(***************************************************************************)
THEOREM BackupStoreSees == Spec => []StoreSeesWholeDatabase
<1>1. IInv => StoreSeesWholeDatabase
  BY DEF IInv, DatabaseInPlace, StoreSeesWholeDatabase, IsPending
<1> QED
  BY <1>1, BackupInvariant, PTL

(***************************************************************************)
(* recoverInterruptedRestore always finds a topology it accepts: while the *)
(* intent is on disk each replaced member is in exactly one place, and the *)
(* target is staged or published.                                          *)
(***************************************************************************)
THEOREM BackupPendingRecoverable == Spec => []PendingIsRecoverable
<1>1. IInv => PendingIsRecoverable
  BY DEF IInv
<1> QED
  BY <1>1, BackupInvariant, PTL

(***************************************************************************)
(* A restore with its receipt has kept the database it replaced, with all  *)
(* its members and exactly the commits it had when the restore was         *)
(* authorized, through every later open, write, restore and crash.         *)
(***************************************************************************)
THEOREM BackupReplacedRetained == Spec => []ReplacedIsRetained
<1>1. IInv => ReplacedIsRetained
  BY DEF IInv
<1> QED
  BY <1>1, BackupInvariant, PTL
=============================================================================
