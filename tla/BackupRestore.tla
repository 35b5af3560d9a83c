---------------------------- MODULE BackupRestore ----------------------------
(***************************************************************************)
(* The lifecycle of the runtime directory: open, close, backup, restore    *)
(* and recovery of an interrupted restore (src/src/persistence/backup.ts,  *)
(* store.ts, runtime.ts), one file operation at a time, with a crash       *)
(* between any two of them.                                                *)
(*                                                                         *)
(* Every lifecycle operation holds the exclusive lock file; the writes of  *)
(* open stores do not.  A crash leaves the lock, the connection receipt    *)
(* and whatever was staged where they are, and nothing in the code removes *)
(* them: the Operator actions are the user who does.                       *)
(*                                                                         *)
(* Abstractions.                                                           *)
(*  - A database is known by its incarnation: 0, or the restore it was     *)
(*    staged for.  Its file and its journal (the WAL and SHM members) are  *)
(*    two members that have to stay together.                              *)
(*  - Its content is the sequence of its commits, and that is what a state *)
(*    digest compares: a lifecycle authorization is good while it is the   *)
(*    last commit.                                                         *)
(*  - Identity and checksum checks that only another program could fail,   *)
(*    expiry and I/O errors are Fail: the operation lets the lock go.      *)
(*  - A file is torn when its writer died inside writeExclusiveFile.       *)
(***************************************************************************)
EXTENDS Naturals, Sequences, FiniteSets

CONSTANTS
    Processes,
    None, Torn,  \* no file; a file whose writer died inside it
    MaxCommits,  \* bound of the commits of all databases
    MaxGens,     \* bound of the backup generations
    MaxRestores  \* bound of the restores that are begun

ASSUME BackupAssumption ==
    /\ MaxCommits \in Nat /\ MaxGens \in Nat /\ MaxRestores \in Nat
    /\ {None, Torn} \cap (Processes \cup Nat) = {}

VARIABLES
    primary,     \* primary[m]: the incarnation whose member m is in place
    content,     \* content[d]: the commits of incarnation d
    commits,     \* how many commits there were
    opened,      \* processes with an open store and its connection receipt
    stale,       \* there are connection receipts of dead processes
    lock,        \* the lifecycle lock: free, a process, or the residue of a dead one
    backupStage, \* the generation whose stage directory exists, or 0
    generations, \* generations[g]: the content of a published generation
    begun,       \* how many restores were begun
    stages,      \* restores whose staged target exists
    retained,    \* retained[r][m]: what restore r has moved away
    intent,      \* the restore intent file
    receipt,     \* receipt[r]: the receipt file of restore r
    proc,        \* proc[p]: the lifecycle operation of process p
    before       \* history: the database that restore r was allowed to replace

files == <<primary, content, generations, stages, retained, intent, receipt>>
vars == <<primary, content, commits, opened, stale, lock, backupStage, generations, begun,
          stages, retained, intent, receipt, proc, before>>

Members == <<"db", "journal">>
MemberSet == {"db", "journal"}
Gens == 1..MaxGens
Restores == 1..MaxRestores
Incarnations == 0..MaxRestores

Commits == [n : 1..MaxCommits, kind : {"write", "backup", "restore"}, gen : 0..MaxGens]
FileSets == [MemberSet -> Incarnations \cup {None}]
RestoreIntents == [restore : Restores, gen : Gens, expected : FileSets]
Procs ==
    [pc : {"idle", "opening", "cloning", "stage", "retain_dir", "intent", "continue",
           "retain", "receipt", "unlink", "release"},
     gen : 0..MaxGens, restore : 0..MaxRestores]

\* What is absent or torn is no content, and the residue of a lock is nobody's.
ASSUME AbsentAssumption ==
    /\ None \notin FileSets
    /\ None \notin RestoreIntents /\ Torn \notin RestoreIntents
    /\ "residue" \notin Processes

Idle == [pc |-> "idle", gen |-> 0, restore |-> 0]
NoFiles == [m \in MemberSet |-> None]

(* Every file and receipt has its shape, and a lifecycle operation under   *)
(* way holds the lock.                                                     *)
TypeOK ==
    /\ primary \in FileSets
    /\ \A d \in Incarnations : Len(content[d]) <= MaxCommits /\ \A i \in DOMAIN content[d] : content[d][i] \in Commits
    /\ commits \in 0..MaxCommits
    /\ opened \subseteq Processes /\ stale \in BOOLEAN
    /\ lock \in Processes \cup {None, "residue"}
    /\ backupStage \in 0..MaxGens
    /\ DOMAIN generations = Gens
    /\ begun \in 0..MaxRestores /\ stages \subseteq Restores
    /\ retained \in [Restores -> FileSets \cup {None}]
    /\ intent \in RestoreIntents \cup {None, Torn}
    /\ receipt \in [Restores -> {"none", "torn", "whole"}]
    /\ proc \in [Processes -> Procs]
    /\ \A p \in Processes : proc[p].pc # "idle" => lock = p

Init ==
    /\ primary = NoFiles
    /\ content = [d \in Incarnations |-> <<>>]
    /\ commits = 0
    /\ opened = {} /\ stale = FALSE /\ lock = None
    /\ backupStage = 0
    /\ generations = [g \in Gens |-> None]
    /\ begun = 0 /\ stages = {}
    /\ retained = [r \in Restores |-> None]
    /\ intent = None
    /\ receipt = [r \in Restores |-> "none"]
    /\ proc = [p \in Processes |-> Idle]
    /\ before = [r \in Restores |-> None]

------------------------------------------------------------------------------

MutantAcquire(p, pc) ==
    /\ proc[p].pc = "idle"
    /\ lock' = p
    /\ proc' = [proc EXCEPT ![p].pc = pc]

\* withLifecycleLock: an operation begins with the lock it creates and ends when it removes it.
Acquire(p, pc) ==
    /\ lock = None /\ proc[p].pc = "idle"
    /\ lock' = p
    /\ proc' = [proc EXCEPT ![p].pc = pc]
Step(p, from, to) == proc[p].pc = from /\ proc' = [proc EXCEPT ![p].pc = to]

Release(p) ==
    /\ proc[p].pc = "release"
    /\ lock' = None
    /\ proc' = [proc EXCEPT ![p] = Idle]
    /\ UNCHANGED <<files, commits, opened, stale, backupStage, begun, before>>

NoConnectionReceipts == opened = {} /\ ~stale

MutantBeginOpen(p) ==
    /\ p \notin opened
    /\ primary["db"] = None => NoConnectionReceipts
    /\ Acquire(p, "opening")
    /\ primary' = IF primary["db"] = None THEN [primary EXCEPT !["db"] = 0] ELSE primary
    /\ UNCHANGED <<content, generations, stages, retained, intent, receipt>>
    /\ UNCHANGED <<commits, opened, stale, backupStage, begun, before>>

BeginOpen(p) ==
    /\ p \notin opened /\ intent = None
    /\ primary["db"] = None => NoConnectionReceipts
    /\ Acquire(p, "opening")
    /\ primary' = IF primary["db"] = None THEN [primary EXCEPT !["db"] = 0] ELSE primary
    /\ UNCHANGED <<content, generations, stages, retained, intent, receipt>>
    /\ UNCHANGED <<commits, opened, stale, backupStage, begun, before>>

FinishOpen(p) ==
    /\ Step(p, "opening", "release")
    /\ opened' = opened \cup {p}
    /\ UNCHANGED <<files, commits, stale, lock, backupStage, begun, before>>

\* The last connection checkpoints and removes the journal.
Close(p) ==
    /\ p \in opened
    /\ Acquire(p, "release")
    /\ opened' = opened \ {p}
    /\ primary' = IF opened = {p} THEN [primary EXCEPT !["journal"] = None] ELSE primary
    /\ UNCHANGED <<content, generations, stages, retained, intent, receipt>>
    /\ UNCHANGED <<commits, stale, backupStage, begun, before>>

\* A transaction of an open store; an authorization of a backup or a restore is one, too.
Write(p, kind, g) ==
    /\ p \in opened /\ proc[p].pc = "idle" /\ commits < MaxCommits
    /\ kind = "write" <=> g = 0
    /\ kind = "backup" => generations[g] = None
    /\ commits' = commits + 1
    /\ content' = [content EXCEPT ![primary["db"]] =
                    Append(@, [n |-> commits + 1, kind |-> kind, gen |-> g])]
    /\ primary' = [primary EXCEPT !["journal"] = primary["db"]]
    /\ UNCHANGED <<generations, stages, retained, intent, receipt>>
    /\ UNCHANGED <<opened, stale, lock, backupStage, begun, proc, before>>

MutantIsAuthorized(d, kind, g) ==
    \E i \in DOMAIN content[d] : content[d][i].kind = kind /\ content[d][i].gen = g

\* A lifecycle authorization binds the digest of the state it was given in.
IsAuthorized(d, kind, g) ==
    LET n == Len(content[d]) IN
    n > 0 /\ content[d][n].kind = kind /\ content[d][n].gen = g

BeginBackup(p, g) ==
    /\ opened = {p} /\ ~stale /\ backupStage = 0
    /\ IsAuthorized(primary["db"], "backup", g)
    /\ lock = None /\ proc[p].pc = "idle"
    /\ lock' = p
    /\ proc' = [proc EXCEPT ![p] = [Idle EXCEPT !.pc = "cloning", !.gen = g]]
    /\ backupStage' = g
    /\ UNCHANGED <<files, commits, opened, stale, begun, before>>

PublishBackup(p) ==
    LET g == proc[p].gen IN
    /\ Step(p, "cloning", "release")
    /\ IsAuthorized(primary["db"], "backup", g) /\ generations[g] = None
    /\ generations' = [generations EXCEPT ![g] = content[primary["db"]]]
    /\ backupStage' = 0
    /\ UNCHANGED <<primary, content, stages, retained, intent, receipt>>
    /\ UNCHANGED <<commits, opened, stale, lock, begun, before>>

FailBackup(p) ==
    /\ Step(p, "cloning", "release")
    /\ backupStage' = 0
    /\ UNCHANGED <<files, commits, opened, stale, lock, begun, before>>

------------------------------------------------------------------------------

BeginRestore(p, g) ==
    /\ NoConnectionReceipts /\ backupStage = 0 /\ intent = None
    /\ generations[g] # None /\ begun < MaxRestores
    /\ primary["db"] # None /\ IsAuthorized(primary["db"], "restore", g)
    /\ lock = None /\ proc[p].pc = "idle"
    /\ lock' = p
    /\ begun' = begun + 1
    /\ proc' = [proc EXCEPT ![p] = [pc |-> "stage", gen |-> g, restore |-> begun + 1]]
    /\ UNCHANGED <<files, commits, opened, stale, backupStage, before>>

StageTarget(p) ==
    LET r == proc[p].restore IN
    /\ Step(p, "stage", "retain_dir")
    /\ stages' = stages \cup {r}
    /\ content' = [content EXCEPT ![r] = generations[proc[p].gen]]
    /\ UNCHANGED <<primary, generations, retained, intent, receipt>>
    /\ UNCHANGED <<commits, opened, stale, lock, backupStage, begun, before>>

MakeRetained(p) ==
    /\ Step(p, "retain_dir", "intent")
    /\ retained' = [retained EXCEPT ![proc[p].restore] = NoFiles]
    /\ UNCHANGED <<primary, content, generations, stages, intent, receipt>>
    /\ UNCHANGED <<commits, opened, stale, lock, backupStage, begun, before>>

WriteIntent(p) ==
    LET r == proc[p].restore  g == proc[p].gen IN
    /\ Step(p, "intent", "continue")
    /\ IsAuthorized(primary["db"], "restore", g) /\ r \in stages
    /\ intent' = [restore |-> r, gen |-> g, expected |-> primary]
    /\ before' = [before EXCEPT ![r] = [members |-> primary, content |-> content[primary["db"]]]]
    /\ UNCHANGED <<primary, content, generations, stages, retained, receipt>>
    /\ UNCHANGED <<commits, opened, stale, lock, backupStage, begun>>

\* The intent file exists and can be read.
IsPending == intent \notin {None, Torn}

Recover(p) ==
    /\ NoConnectionReceipts /\ IsPending
    /\ lock = None /\ proc[p].pc = "idle"
    /\ lock' = p
    /\ proc' = [proc EXCEPT ![p] =
                    [pc |-> "continue", gen |-> intent.gen, restore |-> intent.restore]]
    /\ UNCHANGED <<files, commits, opened, stale, backupStage, begun, before>>

Published(r) == primary["db"] = r
RetainedComplete(r) == retained[r] = intent.expected

\* continueRestore: what is done already is recognized from the files alone.
Resume(p) ==
    LET r == proc[p].restore IN
    /\ proc[p].pc = "continue"
    /\ generations[proc[p].gen] # None /\ retained[r] # None
    /\ \/ /\ receipt[r] = "whole" /\ RetainedComplete(r) /\ Published(r)
          /\ Step(p, "continue", "unlink")
       \/ /\ receipt[r] = "none" /\ ~Published(r) /\ r \in stages
          /\ Step(p, "continue", "retain")
       \/ /\ receipt[r] = "none" /\ Published(r) /\ r \notin stages
          /\ RetainedComplete(r) /\ primary["journal"] = None
          /\ Step(p, "continue", "receipt")
    /\ UNCHANGED <<files, commits, opened, stale, lock, backupStage, begun, before>>

Moved(r, m) == retained[r][m] = intent.expected[m]

\* retainExpectedCurrent, one member: the members are moved in their order.
RetainMember(p) ==
    LET r == proc[p].restore IN
    /\ Step(p, "retain", "retain")
    /\ \E i \in DOMAIN Members :
        LET m == Members[i] IN
        /\ \A j \in 1..(i - 1) : Moved(r, Members[j])
        /\ ~Moved(r, m) /\ primary[m] = intent.expected[m]
        /\ retained' = [retained EXCEPT ![r][m] = primary[m]]
        /\ primary' = [primary EXCEPT ![m] = None]
    /\ UNCHANGED <<content, generations, stages, intent, receipt>>
    /\ UNCHANGED <<commits, opened, stale, lock, backupStage, begun, before>>

MutantPublishTarget(p) ==
    LET r == proc[p].restore IN
    /\ Step(p, "retain", "receipt")
    /\ r \in stages /\ primary["db"] = None
    /\ primary' = [primary EXCEPT !["db"] = r]
    /\ stages' = stages \ {r}
    /\ UNCHANGED <<content, generations, retained, intent, receipt>>
    /\ UNCHANGED <<commits, opened, stale, lock, backupStage, begun, before>>

PublishTarget(p) ==
    LET r == proc[p].restore IN
    /\ Step(p, "retain", "receipt")
    /\ RetainedComplete(r) /\ r \in stages /\ primary["db"] = None
    /\ primary' = [primary EXCEPT !["db"] = r]
    /\ stages' = stages \ {r}
    /\ UNCHANGED <<content, generations, retained, intent, receipt>>
    /\ UNCHANGED <<commits, opened, stale, lock, backupStage, begun, before>>

\* The lineage a receipt states: the retained database holds the authorization of this
\* restore, the published one is the generation.
LineageIsProven(r, g) ==
    /\ Published(r) /\ retained[r]["db"] # None
    /\ IsAuthorized(retained[r]["db"], "restore", g)
    /\ content[r] = generations[g]

WriteReceipt(p) ==
    LET r == proc[p].restore IN
    /\ Step(p, "receipt", "unlink")
    /\ LineageIsProven(r, proc[p].gen)
    /\ receipt' = [receipt EXCEPT ![r] = "whole"]
    /\ UNCHANGED <<primary, content, generations, stages, retained, intent>>
    /\ UNCHANGED <<commits, opened, stale, lock, backupStage, begun, before>>

UnlinkIntent(p) ==
    /\ Step(p, "unlink", "release")
    /\ LineageIsProven(proc[p].restore, proc[p].gen)
    /\ intent' = None
    /\ UNCHANGED <<primary, content, generations, stages, retained, receipt>>
    /\ UNCHANGED <<commits, opened, stale, lock, backupStage, begun, before>>

\* An error on the way: the lock is removed and everything else stays.
Fail(p) ==
    /\ proc[p].pc \notin {"idle", "cloning", "release"}
    /\ proc' = [proc EXCEPT ![p].pc = "release"]
    /\ UNCHANGED <<files, commits, opened, stale, lock, backupStage, begun, before>>

------------------------------------------------------------------------------

Crash(p) ==
    /\ proc[p].pc # "idle" \/ p \in opened
    /\ proc' = [proc EXCEPT ![p] = Idle]
    /\ lock' = IF lock = p THEN "residue" ELSE lock
    /\ opened' = opened \ {p}
    /\ stale' = (stale \/ p \in opened)
    /\ \/ UNCHANGED <<intent, receipt>>
       \/ proc[p].pc = "intent" /\ intent' = Torn /\ UNCHANGED receipt
       \/ /\ proc[p].pc = "receipt"
          /\ receipt' = [receipt EXCEPT ![proc[p].restore] = "torn"] /\ UNCHANGED intent
    /\ UNCHANGED <<primary, content, generations, stages, retained>>
    /\ UNCHANGED <<commits, backupStage, begun, before>>

OperatorRemovesLock ==
    /\ lock = "residue" /\ lock' = None
    /\ UNCHANGED <<files, commits, opened, stale, backupStage, begun, proc, before>>

OperatorRemovesReceipts ==
    /\ stale /\ stale' = FALSE
    /\ UNCHANGED <<files, commits, opened, lock, backupStage, begun, proc, before>>

OperatorRemovesBackupStage ==
    /\ backupStage # 0 /\ lock = None /\ backupStage' = 0
    /\ UNCHANGED <<files, commits, opened, stale, lock, begun, proc, before>>

Next ==
    \/ \E p \in Processes :
        \/ BeginOpen(p) \/ FinishOpen(p) \/ Close(p) \/ Release(p)
        \/ \E kind \in {"write", "backup", "restore"}, g \in 0..MaxGens : Write(p, kind, g)
        \/ \E g \in Gens : BeginBackup(p, g) \/ BeginRestore(p, g)
        \/ PublishBackup(p) \/ FailBackup(p)
        \/ StageTarget(p) \/ MakeRetained(p) \/ WriteIntent(p) \/ Recover(p) \/ Resume(p)
        \/ RetainMember(p) \/ PublishTarget(p) \/ WriteReceipt(p) \/ UnlinkIntent(p)
        \/ Fail(p) \/ Crash(p)
    \/ OperatorRemovesLock \/ OperatorRemovesReceipts \/ OperatorRemovesBackupStage

Spec == Init /\ [][Next]_vars

------------------------------------------------------------------------------

(***************************************************************************)
(* An open store works on one whole database: a database file with its own *)
(* journal or none, never the restored file beside the journal of the      *)
(* database it replaced, and never while a restore is pending, wherever    *)
(* earlier operations crashed.                                             *)
(***************************************************************************)
StoreSeesWholeDatabase ==
    opened # {} =>
        /\ intent = None
        /\ primary["db"] # None
        /\ primary["journal"] \in {None, primary["db"]}

(***************************************************************************)
(* An interrupted restore can be finished: while its intent is on disk the *)
(* replaced members are each in exactly one place and the target is staged *)
(* or published, so recoverInterruptedRestore finds a topology it accepts. *)
(* The exceptions are an intent or receipt file that is itself torn.       *)
(***************************************************************************)
PendingIsRecoverable ==
    IsPending =>
        LET r == intent.restore IN
        /\ retained[r] # None
        /\ IF r \in stages
             THEN \A m \in MemberSet :
                    {primary[m], retained[r][m]} = {None, intent.expected[m]}
             ELSE /\ primary = [NoFiles EXCEPT !["db"] = r]
                  /\ retained[r] = intent.expected

(***************************************************************************)
(* A restore loses nothing: once it has its receipt, the database it       *)
(* replaced is kept with all its members and with exactly the commits it   *)
(* had when the restore was authorized, so no commit made after the        *)
(* authorization was thrown away.                                          *)
(***************************************************************************)
ReplacedIsRetained ==
    \A r \in Restores : receipt[r] = "whole" =>
        /\ retained[r] = before[r].members
        /\ content[retained[r]["db"]] = before[r].content
        /\ LET log == before[r].content IN log[Len(log)].kind = "restore"

==============================================================================
