-------------------------- MODULE Workspace_proofs --------------------------
(***************************************************************************)
(* Proofs about one application process and what replaces or fills its     *)
(* workspace.  RestoreSafe and RestoreUndisturbed hold however startup,    *)
(* commands, ink, sync, the drain, the restore, an exit, a crash and a     *)
(* second process interleave, and for any number of writes and prepared    *)
(* restores; AllOrNothing holds of every import of a Logseq folder.        *)
(***************************************************************************)
EXTENDS Workspace, LogseqImport, TLAPS

Booting == {"locked", "open", "installed", "recover", "publish"}
Installed == {"installed", "recover", "publish", "done"}
Replacing == {"backup", "install", "seal", "rename", "sync"}

\* Of the recovery runtime the proof needs what its two gates say.
RecovState == [exiting : BOOLEAN, preparing : BOOLEAN, prepared : Int, issued : Int,
               restoring : BOOLEAN]

AppTypeOK ==
    /\ bootAnswer \in BOOLEAN /\ appLock \in BOOLEAN /\ appState \in BOOLEAN
    /\ bodies \in BOOLEAN
    /\ recov \in RecovState
    /\ inkJobs \in {0, 1}
    /\ database \in Nat \cup {Incoming}

\* The startup task holds the lock from its success on, publishes its outcome
\* only when it has one, and the state it installs keeps the lock until the
\* drain is over.
BootInv ==
    /\ bootAnswer => boot \in {"done", "failed"}
    /\ boot \in Booting => appLock
    /\ appState => boot \in Installed
    /\ appState /\ drain \notin Outcomes => appLock
    /\ storeState # "none" <=> appState

\* The drain waits for the startup and leaves behind it a gate no job passes,
\* no admitted job, and a closed store.
DrainInv ==
    /\ drain \in {"ink", "sync", "store"} \cup Outcomes => bootAnswer
    /\ drain = "ink" => inkPhase = "stopping"
    /\ drain \in {"sync", "store"} \cup Outcomes => inkPhase = "closed" /\ inkJobs = 0
    /\ inkJobs = 1 => appState
    /\ drain \in Outcomes => storeState # "open"

\* The second process is in only where this one has given the lock up.
LockInv == Running /\ other = "using" => ~appLock /\ drain # "token"

\* What a restore has established at each of its steps.
RestoreInv ==
    /\ restore \in Replacing => drain = "token"
    /\ restore # "none" => recov.restoring
    /\ restore \in {"install", "seal", "rename"} => beforeBackup = database
    /\ restore \in {"seal", "rename", "sync"} => bodies
    /\ restore = "rename" => wal = NoWal
    /\ restore = "sync" => database = Incoming
    /\ database = Incoming => restore \in {"sync", "done"} /\ wal # "old" /\ bodies
    /\ restore # "done" => outcome = "none"

\* The gate an exit closes: no restore is accepted after it, and the one that
\* was accepted before is over when the exit goes on.
ExitInv ==
    /\ exit \in {"restore", "begin", "drain", "leave"} => recov.exiting
    /\ exit \in {"begin", "drain", "leave"} => restore \in {"none", "done"}

\* The inductive invariant of the process and its files.
AppInv == AppTypeOK /\ BootInv /\ DrainInv /\ LockInv /\ RestoreInv /\ ExitInv /\ TruthfulReport

SameGates ==
    recov' \in RecovState /\ recov'.restoring = recov.restoring /\ recov'.exiting = recov.exiting
-----------------------------------------------------------------------------
(* The invariant holds at the start and every step keeps it.              *)

\* The process that is not started, on a workspace nobody uses.
LEMMA AppInitial == AppInit => AppInv
<1> SUFFICES ASSUME AppInit PROVE AppInv
    OBVIOUS
<1> USE DEF AppInit, Outcomes, Incoming, Running, NoToken, NoWal
<1>1. recov \in RecovState /\ ~recov.restoring /\ ~recov.exiting
  BY DEF RecovState
<1>2. AppTypeOK
  BY <1>1 DEF AppTypeOK
<1>3. BootInv /\ DrainInv /\ LockInv
  BY DEF BootInv, DrainInv, LockInv, Booting, Installed
<1>4. RestoreInv /\ ExitInv /\ TruthfulReport
  BY <1>1 DEF RestoreInv, ExitInv, TruthfulReport, Replacing
<1> QED
  BY <1>2, <1>3, <1>4 DEF AppInv

\* What the steps of the recovery runtime do to its gates.
LEMMA RecovSteps ==
  ASSUME recov \in RecovState
  PROVE  /\ Prepare => SameGates
         /\ \A ok \in BOOLEAN : PrepareEnds(ok) => SameGates
         /\ \A token \in Int : Discard(token) => SameGates
         /\ \A token \in Int : AcceptRestore(token) =>
              recov' \in RecovState /\ recov'.restoring /\ recov'.exiting = recov.exiting
         /\ RequestExit =>
              recov' \in RecovState /\ recov'.exiting /\ recov'.restoring = recov.restoring
<1>1. ASSUME Prepare PROVE SameGates
  <2> DEFINE busy == [recov EXCEPT !.preparing = TRUE]
  <2>1. busy \in RecovState /\ busy.restoring = recov.restoring /\ busy.exiting = recov.exiting
    BY DEF RecovState
  <2>2. recov' = [busy EXCEPT !.prepared = 0]
    BY <1>1 DEF Prepare, NoToken
  <2> HIDE DEF busy
  <2> QED
    BY <2>1, <2>2 DEF SameGates, RecovState
<1>2. ASSUME NEW ok \in BOOLEAN, PrepareEnds(ok) PROVE SameGates
  <2> DEFINE ended == [recov EXCEPT !.preparing = FALSE]
             issued == [ended EXCEPT !.issued = recov.issued + 1]
  <2>1. ended \in RecovState /\ ended.restoring = recov.restoring /\ ended.exiting = recov.exiting
    BY DEF RecovState
  <2>2. recov' = ended \/ recov' = [issued EXCEPT !.prepared = recov.issued + 1]
    BY <1>2 DEF PrepareEnds
  <2>3. recov.issued + 1 \in Int
    BY DEF RecovState
  <2> HIDE DEF ended
  <2>4. issued \in RecovState /\ issued.restoring = recov.restoring
        /\ issued.exiting = recov.exiting
    BY <2>1, <2>3 DEF RecovState
  <2> HIDE DEF issued
  <2> QED
    BY <2>1, <2>2, <2>3, <2>4 DEF SameGates, RecovState
<1>3. ASSUME NEW token \in Int, Discard(token) PROVE SameGates
  BY <1>3 DEF Discard, SameGates, RecovState, NoToken
<1> DEFINE used == [recov EXCEPT !.prepared = 0]
<1>0. used \in RecovState /\ used.restoring = recov.restoring /\ used.exiting = recov.exiting
  BY DEF RecovState
<1>4. ASSUME NEW token \in Int, AcceptRestore(token)
      PROVE  recov' \in RecovState /\ recov'.restoring /\ recov'.exiting = recov.exiting
  <2>1. recov' = [used EXCEPT !.restoring = TRUE]
    BY <1>4 DEF AcceptRestore, NoToken
  <2> HIDE DEF used
  <2> QED
    BY <2>1, <1>0 DEF RecovState
<1>5. ASSUME RequestExit
      PROVE  recov' \in RecovState /\ recov'.exiting /\ recov'.restoring = recov.restoring
  <2> DEFINE left == [recov EXCEPT !.exiting = TRUE]
  <2>1. left \in RecovState /\ left.restoring = recov.restoring /\ left.exiting
    BY DEF RecovState
  <2>2. recov' = [left EXCEPT !.prepared = 0]
    BY <1>5 DEF RequestExit, NoToken
  <2> HIDE DEF left
  <2> QED
    BY <2>1, <2>2 DEF RecovState
<1> QED
  BY <1>1, <1>2, <1>3, <1>4, <1>5

\* One step of any task, of the user or of the other process.
LEMMA AppStep == AppInv /\ [AppNext]_appVars => AppInv'
<1> SUFFICES ASSUME AppInv, [AppNext]_appVars PROVE AppInv'
    OBVIOUS
<1> USE WritesAssumption DEF AppInv, AppTypeOK, BootInv, DrainInv, LockInv, RestoreInv, ExitInv,
    TruthfulReport, Booting, Installed, Replacing, Outcomes, Incoming, Running, NoToken, NoWal,
    appVars, bootVars, userVars, fileVars
<1>1. CASE OtherTakesLock
  BY <1>1 DEF OtherTakesLock, LockHeld
<1>2. CASE Launch
  BY <1>2 DEF Launch, BootStep
<1>3. CASE AcquireLock
  BY <1>3 DEF AcquireLock, BootStep, LockFree
<1>4. CASE BootFails
  BY <1>4 DEF BootFails, BootStep
<1>5. CASE BeforeOpen
  BY <1>5 DEF BeforeOpen, BootStep
<1>6. CASE OpenStore
  BY <1>6 DEF OpenStore, BootStep
<1>7. CASE BeforeInk
  BY <1>7 DEF BeforeInk, BootStep
<1>8. CASE RecoverInk
  BY <1>8 DEF RecoverInk, BootStep
<1>9. CASE PublishReady
  BY <1>9 DEF PublishReady, BootStep
<1>10. CASE FinishBoot
  BY <1>10 DEF FinishBoot, Answers
<1>11. CASE StoreWrite
  BY <1>11 DEF StoreWrite, CommitWrite
<1>12. CASE InkBegin
  BY <1>12 DEF InkBegin, InkAdmits
<1>13. CASE InkEnd
  BY <1>13 DEF InkEnd, MayWrite, CommitWrite
<1>14. CASE DrainStartup
  BY <1>14 DEF DrainStartup
<1>15. CASE DrainInk
  BY <1>15 DEF DrainInk, MayWrite, CommitWrite
<1>16. CASE DrainSync
  BY <1>16 DEF DrainSync, MayWrite, CommitWrite
<1>17. CASE \E ok \in BOOLEAN : DrainStore(ok)
  BY <1>17 DEF DrainStore
<1>18. CASE Prepare
  <2>1. /\ recov' \in RecovState
        /\ recov'.restoring = recov.restoring /\ recov'.exiting = recov.exiting
    BY <1>18, RecovSteps DEF SameGates
  <2>2. /\ UNCHANGED <<bootVars, userVars, drain, restore, outcome, exit, other, fileVars>>
    BY <1>18 DEF Prepare
  <2> QED
    BY <2>1, <2>2
<1>19. CASE \E ok \in BOOLEAN : PrepareEnds(ok)
  <2>p. PICK ok \in BOOLEAN : PrepareEnds(ok)
    BY <1>19
  <2>1. /\ recov' \in RecovState
        /\ recov'.restoring = recov.restoring /\ recov'.exiting = recov.exiting
    BY <2>p, RecovSteps DEF SameGates
  <2>2. /\ UNCHANGED <<bootVars, userVars, drain, restore, outcome, exit, other, fileVars>>
    BY <2>p DEF PrepareEnds
  <2> QED
    BY <2>1, <2>2
<1>20. CASE \E token \in 1..MaxTokens : Discard(token)
  <2>p. PICK token \in 1..MaxTokens : Discard(token)
    BY <1>20
  <2>1. /\ recov' \in RecovState
        /\ recov'.restoring = recov.restoring /\ recov'.exiting = recov.exiting
    BY <2>p, RecovSteps DEF SameGates
  <2>2. /\ UNCHANGED <<bootVars, userVars, drain, restore, outcome, exit, other, fileVars>>
    BY <2>p DEF Discard
  <2> QED
    BY <2>1, <2>2
<1>21. CASE \E token \in 1..MaxTokens : AcceptRestore(token)
  <2>p. PICK token \in 1..MaxTokens : AcceptRestore(token)
    BY <1>21
  <2>1. /\ recov' \in RecovState
        /\ recov'.restoring /\ recov'.exiting = recov.exiting
    BY <2>p, RecovSteps
  <2>2. /\ UNCHANGED <<bootVars, userVars, drain, outcome, exit, other, fileVars>>
        /\ restore' = "begin"
        /\ Running /\ ~recov.exiting /\ ~recov.restoring
    BY <2>p DEF AcceptRestore
  <2> QED
    BY <2>1, <2>2
<1>22. CASE BeginRestore
  BY <1>22 DEF BeginRestore, BeginDrain
<1>23. CASE RestoreDrained
  BY <1>23 DEF RestoreDrained, RestoreStep
<1>24. CASE \E ok \in BOOLEAN : RestoreBackup(ok)
  BY <1>24 DEF RestoreBackup, RestoreStep
<1>25. CASE \E ok \in BOOLEAN : RestoreInstall(ok)
  BY <1>25 DEF RestoreInstall, RestoreStep
<1>26. CASE \E ok \in BOOLEAN : RestoreSeal(ok)
  BY <1>26 DEF RestoreSeal, RestoreStep, WalAfterSeal
<1>27. CASE \E ok \in BOOLEAN : RestoreRename(ok)
  BY <1>27 DEF RestoreRename, RestoreStep
<1>28. CASE \E ok \in BOOLEAN : RestoreSync(ok)
  BY <1>28 DEF RestoreSync, RestoreStep, SyncReport
<1>29. CASE RestorePanics
  BY <1>29 DEF RestorePanics, RestoreStep
<1>30. CASE RequestExit
  <2>1. /\ recov' \in RecovState
        /\ recov'.exiting /\ recov'.restoring = recov.restoring
    BY <1>30, RecovSteps
  <2>2. /\ UNCHANGED <<boot, bootAnswer, appLock, storeState, appState, userVars, drain, restore,
                     outcome, other, fileVars>>
        /\ exit = "no"
        /\ exit' = IF recov.restoring THEN "restore" ELSE "begin"
    BY <1>30 DEF RequestExit, ExitFirst
  <2> QED
    BY <2>1, <2>2
<1>31. CASE ExitAfterRestore
  BY <1>31 DEF ExitAfterRestore
<1>32. CASE ExitBegins
  BY <1>32 DEF ExitBegins, BeginDrain
<1>33. CASE ExitDrained
  BY <1>33 DEF ExitDrained
<1>34. CASE Exit
  BY <1>34 DEF Exit
<1>35. CASE Crash
  BY <1>35 DEF Crash
<1>36. CASE UNCHANGED appVars
  BY <1>36
<1>q. QED
  BY <1>1, <1>2, <1>3, <1>4, <1>5, <1>6, <1>7, <1>8, <1>9, <1>10, <1>11, <1>12,
     <1>13, <1>14, <1>15, <1>16, <1>17, <1>18, <1>19, <1>20, <1>21, <1>22, <1>23,
     <1>24, <1>25, <1>26, <1>27, <1>28, <1>29, <1>30, <1>31, <1>32, <1>33, <1>34,
     <1>35, <1>36 DEF AppNext, BootNext, DrainNext, RestoreNext, ExitNext

-----------------------------------------------------------------------------
(* What follows from it.                                                   *)

\* The inductive invariant: lock, startup, drain, restore and exit agree in every
\* state of the process (startup.rs, workspace.rs, backup/recovery.rs).
THEOREM AppInvariant == AppSpec => []AppInv
BY AppInitial, AppStep, PTL DEF AppSpec

\* Two processes never use the workspace at once, a replaced database stands
\* beside its own files only, and the report of a restore is true, for any
\* number of writes and restores (app_lock.rs, recovery.rs).
THEOREM RestoreSafeTheorem == AppSpec => []RestoreSafe
<1>1. AppInv => Exclusive
  BY DEF AppInv, AppTypeOK, BootInv, DrainInv, LockInv, RestoreInv, Exclusive, UsesDatabase,
         Replacing, Outcomes, Running
<1>2. AppInv => CleanReplacement /\ TruthfulReport
  BY DEF AppInv, RestoreInv, CleanReplacement
<1> QED
  BY <1>1, <1>2, AppInvariant, PTL DEF RestoreSafe

\* The one step that replaces the database finds its last version in the backup
\* taken before.
LEMMA ReplacedSaved == AppInv /\ [AppNext]_appVars => [NothingUnsaved]_appVars
<1> SUFFICES ASSUME AppInv, AppNext, database' = Incoming, database # Incoming
             PROVE  beforeBackup = database
    BY DEF NothingUnsaved
<1>1. CASE \E ok \in BOOLEAN : RestoreRename(ok)
  BY <1>1 DEF RestoreRename, RestoreStep, AppInv, RestoreInv
<1>2. CASE UNCHANGED database
  BY <1>2
<1>3. CASE CommitWrite
  BY <1>3, WritesAssumption DEF CommitWrite, Incoming
<1>4. CASE \E ok \in BOOLEAN : RestoreBackup(ok) \/ RestoreInstall(ok) \/ RestoreSeal(ok)
  BY <1>4 DEF RestoreBackup, RestoreInstall, RestoreSeal
<1>5. CASE \E ok \in BOOLEAN : DrainStore(ok) \/ PrepareEnds(ok)
  BY <1>5 DEF DrainStore, PrepareEnds, fileVars
<1>6. CASE \E token \in 1..MaxTokens : Discard(token) \/ AcceptRestore(token)
  BY <1>6 DEF Discard, AcceptRestore, fileVars
<1> QED
  BY <1>1, <1>2, <1>3, <1>4, <1>5, <1>6
     DEF AppNext, BootNext, DrainNext, RestoreNext, ExitNext, fileVars, OtherTakesLock, Launch,
         AcquireLock, BootFails, BeforeOpen, OpenStore, BeforeInk, RecoverInk, PublishReady,
         FinishBoot, StoreWrite, InkBegin, InkEnd, MayWrite, DrainStartup, DrainInk, DrainSync,
         Prepare, BeginRestore, RestoreDrained, RestoreSync, RestorePanics, RequestExit,
         ExitAfterRestore, ExitBegins, ExitDrained, Exit, Crash

\* From its safety backup to its report nothing comes in between a restore: no
\* write, no stroke and no orderly exit (workspace.rs, recovery.rs begin_exit).
THEOREM RestoreUndisturbedTheorem == AppSpec => RestoreUndisturbed
<1>1. AppInv /\ [AppNext]_appVars => [NothingUnsaved /\ ExitSparesRestore]_appVars
  <2>1. AppInv => ExitSparesRestore
    BY DEF AppInv, ExitInv, ExitSparesRestore, Exit
  <2> QED
    BY <2>1, ReplacedSaved
<1> QED
  BY <1>1, AppInvariant, PTL DEF AppSpec, RestoreUndisturbed
-----------------------------------------------------------------------------
(***************************************************************************)
(* Proof that an import is all or nothing (commands/logseq_import.rs).     *)
(*                                                                         *)
(* That no mixture of moments is imported rests on the two verifications   *)
(* of a commit: contents only grow, so when the first walk and the second  *)
(* one read the same contents as the plan, the folder was exactly that     *)
(* between the two (Between).  The guards admit one command at a time, and *)
(* the transaction itself looks at notes, import and workspace again.      *)
(***************************************************************************)

FolderState == [FolderFiles -> Nat]
PlanMade == [ident : [ws : Nat, ns : Nat], fits : BOOLEAN, manifest : {Nothing} \cup FolderState]
ReceiptKept == [manifest : FolderState, ws : Nat, ns : Nat]

PrepareStages == {"pick", "receipt", "destination", "scan", "verify"}
InstallStages == {"install", "apply", "cleanup"}
CommitStages == {"check", "verify1", "media", "verify2"} \cup InstallStages

Command == [stage : {"idle"} \cup PrepareStages \cup CommitStages, plan : {Nothing} \cup PlanMade,
            got : Seq(Nat), receipt : {Nothing} \cup ReceiptKept, asked : Nat,
            published : SUBSET (Media \X Nat)]

ImportTyped ==
    /\ graph \in FolderState
    /\ since \in SUBSET FolderState
    /\ request \in [Requests -> Command]
    /\ sessions \in [preparing : BOOLEAN, committing : Nat,
                     active : {Nothing} \cup [id : Nat, plan : PlanMade, allowed : BOOLEAN]]
    /\ space \in [ws : Nat, notes : BOOLEAN, receipt : {Nothing} \cup ReceiptKept,
                  import : {Nothing} \cup [by : Nat, holds : FolderState, ws : Nat]]
    /\ shown \in Seq(FolderState)
    /\ importFaults \in [failed : Int, crashed : BOOLEAN]

\* One command at a time (PreparingGuard, CommittingGuard).
OneCommand == \A r, q \in Requests : ~At(r, "idle") /\ ~At(q, "idle") => r = q

\* The folder was g at a moment after the first verification and before every
\* reading of the second one.
Between(c, g) ==
    \A f \in FolderFiles :
      /\ c.plan.manifest[f] <= g[f] /\ g[f] <= graph[f]
      /\ f <= Len(c.got) => g[f] <= c.got[f]

\* How far a command is, and what it holds by then.
CommandInv(c) ==
    /\ c.stage = "scan" => c.plan \in PlanMade
    /\ c.stage \in {"verify"} \cup CommitStages => c.plan \in PlanMade /\ c.plan.manifest \in FolderState
    /\ c.stage \in CommitStages =>
         /\ c.asked \in DOMAIN shown /\ shown[c.asked] = c.plan.manifest
         /\ graph \in since
         /\ c.published \subseteq {Body(c.plan, f) : f \in Media}
    /\ c.stage \in {"check", "media"} => c.got = Nothing
    /\ c.stage \in {"verify1", "verify2"} => Len(c.got) <= LastFile
    /\ c.stage = "verify1" => \A f \in FolderFiles : f <= Len(c.got) => c.got[f] <= graph[f]
    /\ c.stage \in {"media", "verify2"} => \E g \in since : Between(c, g)
    /\ c.stage \in {"install", "apply"} => c.plan.manifest \in since

SessionShown ==
    sessions.active # Nothing =>
      /\ sessions.active.id \in DOMAIN shown
      /\ sessions.active.plan.manifest = shown[sessions.active.id]

ReceiptOfImport ==
    space.receipt # Nothing => space.import # Nothing /\ space.import.holds = space.receipt.manifest

BodiesOwned ==
    \/ importFaults.crashed
    \/ \A x \in stored : \/ x \in Referenced
                         \/ \E r \in Requests : /\ request[r].stage \in InstallStages
                                                /\ x \in request[r].published

ImportInv ==
    /\ ImportTyped /\ OneCommand /\ FlagsReleased /\ SessionShown /\ OwnWorkspace
    /\ ReceiptOfImport /\ BodiesOwned
    /\ \A r \in Requests : CommandInv(request[r])

(* A window at rest holds nothing. *)
LEMMA NoCommandFits ==
  /\ NoCommand \in Command /\ NoCommand.stage = "idle"
  /\ \A c \in Command : c.stage = "idle" => CommandInv(c)
  /\ \A c \in Command : c.stage = "idle" => CommandInv(c)'
<1>1. NoCommand \in Command /\ NoCommand.stage = "idle"
  BY DEF NoCommand, Command, Nothing, NoId
<1> QED BY <1>1 DEF CommandInv, PrepareStages, CommitStages, InstallStages

(* At the beginning no command is under way. *)
LEMMA ImportInitInv == ImportInit => ImportInv
<1> SUFFICES ASSUME ImportInit PROVE ImportInv
  OBVIOUS
<1>1. request \in [Requests -> Command] /\ \A r \in Requests : At(r, "idle")
  BY NoCommandFits DEF ImportInit, At
<1>2. ImportTyped
  <2>1. shown \in Seq(FolderState) /\ graph \in FolderState
    BY DEF ImportInit, FolderState
  <2> QED BY <1>1, <2>1 DEF ImportInit, ImportTyped, NoId
<1>3. OneCommand /\ FlagsReleased
  BY <1>1 DEF OneCommand, FlagsReleased, Busy, ImportInit
<1>4. SessionShown /\ OwnWorkspace /\ ReceiptOfImport /\ BodiesOwned
  BY DEF ImportInit, SessionShown, OwnWorkspace, ReceiptOfImport, BodiesOwned
<1>5. \A r \in Requests : CommandInv(request[r])
  BY <1>1, NoCommandFits DEF At
<1> QED BY <1>2, <1>3, <1>4, <1>5 DEF ImportInv

(* What the invariant says of a command that is under way. *)
LEMMA UnderWay ==
  ASSUME ImportInv, NEW r \in Requests, ~At(r, "idle")
  PROVE  /\ request[r] \in Command /\ CommandInv(request[r]) /\ Busy
         /\ \A q \in Requests \ {r} : At(q, "idle")
         /\ request[r].stage \notin InstallStages => importFaults.crashed \/ stored \subseteq Referenced
         /\ importFaults.crashed \/ stored \subseteq Referenced \cup request[r].published
<1>1. request[r] \in Command /\ CommandInv(request[r]) /\ Busy
  BY DEF ImportInv, ImportTyped, FlagsReleased
<1>2. \A q \in Requests \ {r} : At(q, "idle")
  BY DEF ImportInv, OneCommand
<1>3. \A q \in Requests \ {r} : request[q].stage \notin InstallStages
  BY <1>2 DEF At, InstallStages
<1> QED BY <1>1, <1>2, <1>3 DEF ImportInv, BodiesOwned

(* A command goes on to another stage; the database, the session and the folder stay. *)
LEMMA GoesOn ==
  ASSUME ImportInv, NEW r \in Requests, ~At(r, "idle"), NEW c \in Command, Goes(r, c),
         c.stage # "idle", CommandInv(c),
         UNCHANGED <<graph, since, sessions, space, shown>>,
         importFaults' \in [failed : Int, crashed : BOOLEAN],
         importFaults'.crashed = importFaults.crashed,
         request[r].published \subseteq c.published,
         request[r].stage \in InstallStages => c.stage \in InstallStages,
         \/ stored' = stored
         \/ c.stage \in InstallStages /\ stored' \subseteq stored \cup c.published
  PROVE  ImportInv' /\ WritesConfirmed
<1>1. request \in [Requests -> Command] /\ request' = [request EXCEPT ![r] = c]
  BY DEF Goes, ImportInv, ImportTyped
<1>2. /\ request' \in [Requests -> Command] /\ request'[r] = c
      /\ \A q \in Requests \ {r} : request'[q] = request[q]
  BY <1>1
<1>3. \A q \in Requests \ {r} : request[q].stage = "idle"
  BY UnderWay DEF At
<1>4. ImportTyped' /\ SessionShown' /\ OwnWorkspace' /\ ReceiptOfImport'
  BY <1>2 DEF ImportInv, ImportTyped, SessionShown, OwnWorkspace, ReceiptOfImport
<1>5. OneCommand'
  BY <1>2, <1>3 DEF OneCommand, At
<1>6. FlagsReleased'
  <2>1. Busy' /\ ~At(r, "idle")'
    BY <1>2, UnderWay DEF Busy, At
  <2> QED BY <2>1 DEF FlagsReleased
<1>7. \A q \in Requests : CommandInv(request[q])'
  <2>1. CommandInv(c)'
    BY DEF CommandInv, Between, Body
  <2>2. ASSUME NEW q \in Requests \ {r} PROVE CommandInv(request[q])'
    <3>1. request'[q] \in Command /\ request'[q].stage = "idle"
      BY <1>2, <1>3
    <3>2. request'[q].stage \notin {"scan", "verify", "media"} \cup CommitStages
      BY <3>1 DEF CommitStages, InstallStages
    <3> QED BY <3>2 DEF CommandInv, CommitStages, InstallStages
  <2>3. CommandInv(request[r])'
    BY <2>1, <1>2 DEF CommandInv, Between, Body
  <2> QED BY <2>2, <2>3
<1>8. BodiesOwned'
  <2>1. Referenced' = Referenced
    BY DEF Referenced
  <2>2. CASE importFaults.crashed
    BY <2>2 DEF BodiesOwned
  <2>3. CASE ~importFaults.crashed /\ c.stage \in InstallStages
    <3>1. stored' \subseteq Referenced \cup c.published
      BY <2>3, UnderWay
    <3> QED BY <3>1, <2>1, <2>3, <1>2 DEF BodiesOwned
  <2>4. CASE ~importFaults.crashed /\ c.stage \notin InstallStages
    <3>1. stored' \subseteq Referenced
      BY <2>4, UnderWay
    <3> QED BY <3>1, <2>1 DEF BodiesOwned
  <2> QED BY <2>2, <2>3, <2>4
<1> QED BY <1>4, <1>5, <1>6, <1>7, <1>8 DEF ImportInv, WritesConfirmed

(* A command ends, however it does: the window is unlocked, and no body it
   installed is left behind. *)
LEMMA Ending ==
  ASSUME ImportInv, NEW r \in Requests, ~At(r, "idle"), Goes(r, NoCommand),
         UNCHANGED <<graph, since>>,
         ImportTyped' \/ request' \notin [Requests -> Command],
         ~Busy', SessionShown', OwnWorkspace', ReceiptOfImport',
         importFaults'.crashed \/ stored' \subseteq Referenced'
  PROVE  ImportInv'
<1>1. request \in [Requests -> Command] /\ request' = [request EXCEPT ![r] = NoCommand]
  BY DEF Goes, ImportInv, ImportTyped
<1>2. request' \in [Requests -> Command] /\ \A q \in Requests : request'[q].stage = "idle"
  <2>1. \A q \in Requests \ {r} : request[q].stage = "idle"
    BY UnderWay DEF At
  <2> QED BY <1>1, <2>1, NoCommandFits
<1>3. OneCommand' /\ FlagsReleased'
  <2>1. \A q \in Requests : At(q, "idle")'
    BY <1>2 DEF At
  <2> QED BY <2>1 DEF OneCommand, FlagsReleased
<1>4. \A q \in Requests : CommandInv(request[q])'
  <2> SUFFICES ASSUME NEW q \in Requests PROVE CommandInv(request[q])'
    OBVIOUS
  <2>1. request'[q].stage \notin {"scan", "verify", "media"} \cup CommitStages
    BY <1>2 DEF CommitStages, InstallStages
  <2> QED BY <2>1 DEF CommandInv, CommitStages, InstallStages
<1>5. BodiesOwned'
  BY DEF BodiesOwned
<1> QED BY <1>2, <1>3, <1>4, <1>5 DEF ImportInv

(* The ways out that leave database, previews and blob store as they are. *)
LEMMA GivesUp ==
  ASSUME ImportInv, NEW r \in Requests, ~At(r, "idle"), request[r].stage \notin InstallStages,
         Ends(r), UNCHANGED <<graph, since, space, shown, stored>>,
         importFaults' \in [failed : Int, crashed : BOOLEAN],
         importFaults'.crashed = importFaults.crashed
  PROVE  ImportInv' /\ WritesConfirmed
<1>1. sessions' \in [preparing : BOOLEAN, committing : Nat,
                     active : {Nothing} \cup [id : Nat, plan : PlanMade, allowed : BOOLEAN]]
      /\ sessions'.active = sessions.active /\ ~Busy'
  BY DEF Ends, Released, ImportInv, ImportTyped, Busy, NoId
<1>2. ImportTyped' \/ request' \notin [Requests -> Command]
  BY <1>1 DEF ImportInv, ImportTyped
<1>3. SessionShown' /\ OwnWorkspace' /\ ReceiptOfImport'
  BY <1>1 DEF ImportInv, SessionShown, OwnWorkspace, ReceiptOfImport
<1>4. importFaults'.crashed \/ stored' \subseteq Referenced'
  BY UnderWay DEF Referenced
<1> QED BY <1>1, <1>2, <1>3, <1>4, Ending DEF Ends, WritesConfirmed

(* An edit only adds a later state of the folder to those the commit may have seen. *)
LEMMA EditFileInv ==
  ASSUME ImportInv, NEW f \in FolderFiles, EditFile(f)
  PROVE  ImportInv' /\ WritesConfirmed
<1>1. /\ graph' = [graph EXCEPT ![f] = @ + 1] /\ since' = since \cup {graph'}
      /\ UNCHANGED <<request, sessions, space, stored, shown, importFaults>>
      /\ graph \in FolderState
  BY DEF EditFile, ImportInv, ImportTyped
<1>2. graph' \in FolderState /\ \A x \in FolderFiles : graph[x] <= graph'[x]
  BY <1>1 DEF FolderState
<1>3. ImportTyped'
  BY <1>1, <1>2 DEF ImportInv, ImportTyped
<1>4. /\ OneCommand' /\ FlagsReleased' /\ SessionShown' /\ OwnWorkspace' /\ ReceiptOfImport'
      /\ BodiesOwned'
  BY <1>1 DEF ImportInv, OneCommand, FlagsReleased, SessionShown, OwnWorkspace, ReceiptOfImport,
              BodiesOwned, At, Busy, Referenced
<1>5. ASSUME NEW r \in Requests PROVE CommandInv(request[r])'
  <2> DEFINE c == request[r]
  <2>1. c' = c /\ c \in Command /\ CommandInv(c)
    BY <1>1 DEF ImportInv, ImportTyped
  <2>2. c.stage = "verify1" => \A x \in FolderFiles : x <= Len(c.got) => c.got[x] <= graph'[x]
    <3> SUFFICES ASSUME c.stage = "verify1", NEW x \in FolderFiles, x <= Len(c.got)
                 PROVE  c.got[x] <= graph'[x]
      OBVIOUS
    <3>1. c.got[x] <= graph[x] /\ graph[x] <= graph'[x]
      BY <2>1, <1>2 DEF CommandInv
    <3>2. c.got[x] \in Nat /\ graph[x] \in Nat /\ graph'[x] \in Nat
      BY <2>1, <1>1, <1>2 DEF Command, FolderFiles, FolderState
    <3> QED BY <3>1, <3>2
  <2>3. c.stage \in {"media", "verify2"} => \E g \in since' : Between(c, g)'
    <3> SUFFICES ASSUME c.stage \in {"media", "verify2"} PROVE \E g \in since' : Between(c, g)'
      OBVIOUS
    <3>1. PICK g \in since : Between(c, g)
      BY <2>1 DEF CommandInv
    <3>2. g \in since' /\ \A x \in FolderFiles : g[x] \in Nat
      BY <1>1 DEF ImportInv, ImportTyped, FolderState
    <3>3. \A x \in FolderFiles : graph[x] \in Nat /\ graph'[x] \in Nat
      BY <1>1, <1>2 DEF FolderState
    <3>4. Between(c, g)'
      BY <3>1, <3>2, <3>3, <2>1, <1>2 DEF Between
    <3> QED BY <3>2, <3>4
  <2>4. c.plan.manifest \in since => c.plan.manifest \in since'
    BY <1>1
  <2>5. graph' \in since' /\ shown' = shown
    BY <1>1
  <2> HIDE DEF c
  <2>6. CommandInv(c)'
    BY <2>1, <2>2, <2>3, <2>4, <2>5 DEF CommandInv, Body
  <2> QED BY <2>6 DEF c
<1> QED BY <1>1, <1>3, <1>4, <1>5 DEF ImportInv, WritesConfirmed

(* A note is written, or the first synchronisation gives the empty database its
   workspace: neither touches an import that is there. *)
LEMMA SpaceInv ==
  ASSUME ImportInv, WriteNote \/ AdoptWorkspace
  PROVE  ImportInv' /\ WritesConfirmed
<1>1. /\ UNCHANGED <<graph, since, request, sessions, stored, shown, importFaults>>
      /\ space'.import = space.import /\ space'.receipt = space.receipt
      /\ ImportTyped
  BY DEF WriteNote, AdoptWorkspace, ImportInv, ImportTyped
<1>2. ImportTyped'
  <2>1. space' = [space EXCEPT !.notes = TRUE] \/ space' = [space EXCEPT !.ws = 1]
    BY DEF WriteNote, AdoptWorkspace
  <2>2. space' \in [ws : Nat, notes : BOOLEAN, receipt : {Nothing} \cup ReceiptKept,
                    import : {Nothing} \cup [by : Nat, holds : FolderState, ws : Nat]]
    <3> DEFINE R == {Nothing} \cup ReceiptKept
               I == {Nothing} \cup [by : Nat, holds : FolderState, ws : Nat]
    <3>1. space \in [ws : Nat, notes : BOOLEAN, receipt : R, import : I]
      BY <1>1 DEF ImportTyped
    <3> HIDE DEF R, I
    <3>2. \/ space' = [ws |-> space.ws, notes |-> TRUE, receipt |-> space.receipt,
                       import |-> space.import]
          \/ space' = [ws |-> 1, notes |-> space.notes, receipt |-> space.receipt,
                       import |-> space.import]
      BY <2>1, <3>1
    <3>4. /\ space.ws \in Nat /\ space.notes \in BOOLEAN /\ space.receipt \in R /\ space.import \in I
          /\ TRUE \in BOOLEAN /\ 1 \in Nat
      BY <3>1
    <3>3. space' \in [ws : Nat, notes : BOOLEAN, receipt : R, import : I]
      <4>1. ASSUME NEW a \in Nat, NEW b \in BOOLEAN, NEW c \in R, NEW d \in I
            PROVE  [ws |-> a, notes |-> b, receipt |-> c, import |-> d]
                     \in [ws : Nat, notes : BOOLEAN, receipt : R, import : I]
        OBVIOUS
      <4>2. [ws |-> space.ws, notes |-> TRUE, receipt |-> space.receipt, import |-> space.import]
               \in [ws : Nat, notes : BOOLEAN, receipt : R, import : I]
        BY <3>4, <4>1
      <4>3. [ws |-> 1, notes |-> space.notes, receipt |-> space.receipt, import |-> space.import]
               \in [ws : Nat, notes : BOOLEAN, receipt : R, import : I]
        BY <3>4, <4>1
      <4> QED BY <3>2, <4>2, <4>3, Zenon
    <3> QED BY <3>3 DEF R, I
  <2> QED BY <1>1, <2>2 DEF ImportTyped
<1>3. OwnWorkspace'
  BY DEF WriteNote, AdoptWorkspace, HasImportState, OwnWorkspace, ImportInv, ImportTyped
<1>4. Referenced' = Referenced
  BY <1>1 DEF Referenced
<1>5. OneCommand' /\ FlagsReleased' /\ SessionShown' /\ ReceiptOfImport' /\ BodiesOwned'
  BY <1>1, <1>4 DEF ImportInv, OneCommand, FlagsReleased, SessionShown, ReceiptOfImport, BodiesOwned,
                    At, Busy
<1>6. \A r \in Requests : CommandInv(request[r])'
  BY <1>1 DEF ImportInv, CommandInv, Between, Body
<1> QED BY <1>1, <1>2, <1>3, <1>5, <1>6 DEF ImportInv, WritesConfirmed

(* discard_logseq_import. *)
LEMMA DiscardInv ==
  ASSUME ImportInv, NEW u, DiscardSession(u)
  PROVE  ImportInv' /\ WritesConfirmed
<1>1. /\ UNCHANGED <<graph, since, request, space, stored, shown, importFaults>>
      /\ sessions'.preparing = sessions.preparing /\ sessions'.committing = sessions.committing
      /\ sessions'.active = Nothing
  BY DEF DiscardSession, ImportInv, ImportTyped
<1>2. ImportTyped'
  BY <1>1 DEF DiscardSession, ImportInv, ImportTyped
<1>3. /\ OneCommand' /\ SessionShown' /\ ReceiptOfImport' /\ BodiesOwned' /\ OwnWorkspace'
  BY <1>1 DEF ImportInv, OneCommand, SessionShown, ReceiptOfImport, BodiesOwned, At, OwnWorkspace,
              Referenced
<1>5. FlagsReleased'
  <2>1. (Busy' <=> Busy) /\ \A r \in Requests : At(r, "idle")' <=> At(r, "idle")
    BY <1>1 DEF Busy, At
  <2> QED BY <2>1 DEF FlagsReleased, ImportInv
<1>4. \A r \in Requests : CommandInv(request[r])'
  BY <1>1 DEF ImportInv, CommandInv, Between, Body
<1> QED BY <1>1, <1>2, <1>3, <1>4, <1>5 DEF ImportInv, WritesConfirmed

(* A crash leaves no command and no session behind. *)
LEMMA CrashImportInv ==
  ASSUME ImportInv, CrashImport
  PROVE  ImportInv' /\ WritesConfirmed
<1>1. /\ UNCHANGED <<graph, since, space, stored, shown>>
      /\ request' = [r \in Requests |-> NoCommand]
      /\ importFaults' = [importFaults EXCEPT !.crashed = TRUE]
      /\ sessions' = [preparing |-> FALSE, active |-> Nothing, committing |-> NoId]
  BY DEF CrashImport
<1>2. request' \in [Requests -> Command] /\ \A r \in Requests : request'[r].stage = "idle"
  BY <1>1, NoCommandFits
<1>3. ImportTyped' /\ importFaults'.crashed
  BY <1>1, <1>2 DEF ImportInv, ImportTyped, NoId
<1>4. /\ OneCommand' /\ FlagsReleased' /\ SessionShown' /\ ReceiptOfImport' /\ BodiesOwned'
      /\ OwnWorkspace'
  BY <1>1, <1>2, <1>3 DEF ImportInv, OneCommand, FlagsReleased, SessionShown, ReceiptOfImport,
              BodiesOwned, At, Busy, OwnWorkspace
<1>5. ASSUME NEW r \in Requests PROVE CommandInv(request[r])'
  <2>1. request'[r].stage \notin {"scan", "verify", "media"} \cup CommitStages
    BY <1>2 DEF CommitStages, InstallStages
  <2> QED BY <2>1 DEF CommandInv, CommitStages, InstallStages
<1> QED BY <1>1, <1>3, <1>4, <1>5 DEF ImportInv, WritesConfirmed

(* A command begins only when no other one is under way. *)
LEMMA Begins ==
  ASSUME ImportInv, ~Busy, NEW r \in Requests, NEW c \in Command, Goes(r, c), c.stage # "idle",
         c.stage \notin InstallStages, CommandInv(c)', Busy',
         ImportTyped' \/ request' \notin [Requests -> Command], SessionShown',
         UNCHANGED <<space, stored, importFaults>>
  PROVE  ImportInv' /\ WritesConfirmed
<1>1. request \in [Requests -> Command] /\ request' = [request EXCEPT ![r] = c]
  BY DEF Goes, ImportInv, ImportTyped
<1>2. \A q \in Requests : request[q].stage = "idle"
  BY DEF ImportInv, FlagsReleased, At
<1>3. /\ request' \in [Requests -> Command] /\ request'[r] = c
      /\ \A q \in Requests \ {r} : request'[q].stage = "idle"
  BY <1>1, <1>2
<1>4. OneCommand' /\ FlagsReleased'
  BY <1>3 DEF OneCommand, FlagsReleased, At
<1>5. OwnWorkspace' /\ ReceiptOfImport' /\ BodiesOwned'
  <2>1. \A q \in Requests : request[q].stage \notin InstallStages
    BY <1>2 DEF InstallStages
  <2>2. Referenced' = Referenced
    BY DEF Referenced
  <2> QED BY <2>1, <2>2 DEF ImportInv, OwnWorkspace, ReceiptOfImport, BodiesOwned
<1>6. ASSUME NEW q \in Requests PROVE CommandInv(request[q])'
  <2>1. CASE q = r
    BY <2>1, <1>3 DEF CommandInv, Between, Body
  <2>2. CASE q # r
    <3>1. request'[q].stage \notin {"scan", "verify", "media"} \cup CommitStages
      BY <1>3, <2>2 DEF CommitStages, InstallStages
    <3> QED BY <3>1 DEF CommandInv, CommitStages, InstallStages
  <2> QED BY <2>1, <2>2
<1> QED BY <1>3, <1>4, <1>5, <1>6 DEF ImportInv, WritesConfirmed

(* prepare_logseq_import begins. *)
LEMMA BeginPreparingInv ==
  ASSUME ImportInv, NEW r \in Requests, BeginPreparing(r)
  PROVE  ImportInv' /\ WritesConfirmed
<1>0. PICK c : c = [request[r] EXCEPT !.stage = "pick"]
  OBVIOUS
<1>1. /\ ~Busy /\ Goes(r, c) /\ sessions' = [sessions EXCEPT !.preparing = TRUE]
      /\ UNCHANGED <<graph, since, space, stored, shown, importFaults>>
  BY <1>0 DEF BeginPreparing, Moves
<1>2. c \in Command /\ c.stage = "pick"
  BY <1>0 DEF ImportInv, ImportTyped, Command, PrepareStages
<1>3. c.stage \notin {"scan", "verify", "media", "idle"} \cup CommitStages
  BY <1>2 DEF CommitStages, InstallStages
<1>4. CommandInv(c)'
  BY <1>3 DEF CommandInv, CommitStages, InstallStages
<1>5. Busy' /\ SessionShown'
  BY <1>1 DEF Busy, SessionShown, ImportInv, ImportTyped
<1>6. ImportTyped' \/ request' \notin [Requests -> Command]
  BY <1>1 DEF ImportInv, ImportTyped
<1> QED BY <1>1, <1>2, <1>3, <1>4, <1>5, <1>6, Begins DEF CommitStages

(* begin_commit: the plan is the one the session was previewed with. *)
LEMMA BeginCommitInv ==
  ASSUME ImportInv, NEW r \in Requests, NEW u \in DOMAIN shown, BeginCommit(r, u)
  PROVE  ImportInv' /\ WritesConfirmed
<1>0. PICK s : s = sessions.active
  OBVIOUS
<1>1. ~Busy /\ s # Nothing /\ s.id = u /\ UNCHANGED <<graph, space, stored, shown, importFaults>>
  BY <1>0 DEF BeginCommit, TakesSession
<1>2. /\ s.plan \in PlanMade /\ s.plan.manifest = shown[u] /\ u \in Nat \ {0}
      /\ shown[u] \in FolderState /\ shown \in Seq(FolderState)
  BY <1>0, <1>1 DEF ImportInv, ImportTyped, SessionShown
<1>3. CASE s.allowed
  <2>0. PICK c : c = [NoCommand EXCEPT !.stage = "check", !.plan = s.plan, !.asked = u]
    OBVIOUS
  <2>1. /\ sessions' = [sessions EXCEPT !.active = Nothing, !.committing = u]
        /\ Goes(r, c) /\ since' = {graph}
    BY <1>0, <1>3, <2>0 DEF BeginCommit
  <2>2. c = [stage |-> "check", plan |-> s.plan, got |-> Nothing, receipt |-> Nothing,
             asked |-> u, published |-> {}]
    BY <2>0 DEF NoCommand
  <2>3. c \in Command
    BY <2>2, <1>2 DEF Command, CommitStages, Nothing
  <2>4. CommandInv(c)'
    BY <2>1, <2>2, <1>1, <1>2 DEF CommandInv, InstallStages, CommitStages
  <2>5. Busy' /\ SessionShown'
    BY <2>1, <1>2 DEF Busy, SessionShown, NoId, ImportInv, ImportTyped
  <2>6. ImportTyped' \/ request' \notin [Requests -> Command]
    BY <2>1, <1>1, <1>2 DEF ImportInv, ImportTyped
  <2>7. c.stage # "idle" /\ c.stage \notin InstallStages
    BY <2>2 DEF InstallStages
  <2> QED BY <1>1, <2>1, <2>3, <2>4, <2>5, <2>6, <2>7, Begins
<1>4. CASE ~s.allowed
  <2>1. sessions' = [sessions EXCEPT !.active = Nothing] /\ UNCHANGED <<request, since>>
    BY <1>0, <1>4 DEF BeginCommit
  <2>2. /\ sessions'.preparing = sessions.preparing /\ sessions'.committing = sessions.committing
        /\ sessions'.active = Nothing
    BY <2>1 DEF ImportInv, ImportTyped
  <2>3. ImportTyped'
    BY <1>1, <2>1 DEF ImportInv, ImportTyped
  <2>4. /\ OneCommand' /\ SessionShown' /\ ReceiptOfImport' /\ BodiesOwned' /\ OwnWorkspace'
    BY <1>1, <2>1, <2>2 DEF ImportInv, OneCommand, SessionShown, ReceiptOfImport, BodiesOwned, At,
                            OwnWorkspace, Referenced
  <2>6. FlagsReleased'
    <3>1. (Busy' <=> Busy) /\ \A q \in Requests : At(q, "idle")' <=> At(q, "idle")
      BY <2>1, <2>2 DEF Busy, At
    <3> QED BY <3>1 DEF FlagsReleased, ImportInv
  <2>5. \A q \in Requests : CommandInv(request[q])'
    BY <1>1, <2>1 DEF ImportInv, CommandInv, Between, Body
  <2> QED BY <1>1, <2>3, <2>4, <2>5, <2>6 DEF ImportInv, WritesConfirmed
<1> QED BY <1>3, <1>4

(* What the types say of the shared state. *)
LEMMA Typing ==
  ASSUME ImportInv
  PROVE  /\ importFaults \in [failed : Int, crashed : BOOLEAN]
         /\ space.receipt \in {Nothing} \cup ReceiptKept /\ space.ws \in Nat
         /\ graph \in FolderState /\ shown \in Seq(FolderState) /\ since \in SUBSET FolderState
BY DEF ImportInv, ImportTyped

(* The dry run. *)
LEMMA PrepareInv ==
  ASSUME ImportInv, NEW r \in Requests,
         PickFolder(r) \/ ReadReceipt(r) \/ ReadDestination(r) \/ ParseDocuments(r)
  PROVE  ImportInv' /\ WritesConfirmed
<1>1. /\ request[r].stage \in {"pick", "receipt", "destination", "scan"}
      /\ UNCHANGED <<graph, since, space, stored, shown, importFaults>>
  BY DEF PickFolder, ReadReceipt, ReadDestination, ParseDocuments, Walked, At
<1>2. ~At(r, "idle") /\ request[r].stage \notin InstallStages
  BY <1>1 DEF At, InstallStages
<1>3. request[r] \in Command /\ CommandInv(request[r])
  BY <1>2, UnderWay
<1>4. CASE Ends(r)
  BY <1>1, <1>2, <1>4, GivesUp, Typing
<1>5. ASSUME NEW c \in Command, Goes(r, c), UNCHANGED sessions, CommandInv(c), c.stage # "idle",
             c.published = request[r].published
      PROVE  ImportInv' /\ WritesConfirmed
  BY <1>1, <1>2, <1>5, GoesOn, Typing
<1>6. CASE PickFolder(r) /\ ~Ends(r)
  <2>1. PICK c : c = [request[r] EXCEPT !.stage = "receipt"]
    OBVIOUS
  <2>2. Goes(r, c) /\ UNCHANGED sessions
    BY <1>6, <2>1 DEF PickFolder, Moves
  <2>3. c \in Command /\ c.stage = "receipt" /\ c.published = request[r].published
    BY <1>3, <2>1 DEF Command, PrepareStages
  <2>4. CommandInv(c)
    BY <2>3 DEF CommandInv, CommitStages, InstallStages
  <2> QED BY <2>2, <2>3, <2>4, <1>5
<1>7. CASE ReadReceipt(r)
  <2>1. PICK c : c = [request[r] EXCEPT !.stage = "destination", !.receipt = space.receipt]
    OBVIOUS
  <2>2. Goes(r, c) /\ UNCHANGED sessions
    BY <1>7, <2>1 DEF ReadReceipt
  <2>3. c \in Command /\ c.stage = "destination" /\ c.published = request[r].published
    BY <1>3, <2>1, Typing DEF Command, PrepareStages
  <2>4. CommandInv(c)
    BY <2>3 DEF CommandInv, CommitStages, InstallStages
  <2> QED BY <2>2, <2>3, <2>4, <1>5
<1>8. CASE ReadDestination(r)
  <2> DEFINE receipt == request[r].receipt
             ident == IF receipt = Nothing THEN [ws |-> space.ws, ns |-> Len(shown) + 1]
                                           ELSE [ws |-> receipt.ws, ns |-> receipt.ns]
             fits == receipt # Nothing \/ ~HasImportState
  <2>1. PICK p : p = [ident |-> ident, fits |-> fits, manifest |-> Nothing]
    OBVIOUS
  <2>2. PICK c : c = [request[r] EXCEPT !.stage = "scan", !.plan = p]
    OBVIOUS
  <2>3. Goes(r, c) /\ UNCHANGED sessions
    BY <1>8, <2>1, <2>2 DEF ReadDestination
  <2>4. p \in PlanMade
    <3>1. ident \in [ws : Nat, ns : Nat]
      BY <1>3, Typing DEF Command, ReceiptKept
    <3>2. fits \in BOOLEAN
      BY DEF HasImportState
    <3> HIDE DEF ident, fits
    <3> QED BY <3>1, <3>2, <2>1 DEF PlanMade
  <2>5. c \in Command /\ c.stage = "scan" /\ c.published = request[r].published /\ c.plan = p
    BY <1>3, <2>2, <2>4 DEF Command, PrepareStages
  <2>6. CommandInv(c)
    BY <2>4, <2>5 DEF CommandInv, CommitStages, InstallStages
  <2> QED BY <2>3, <2>5, <2>6, <1>5
<1>9. CASE ParseDocuments(r) /\ ~Ends(r)
  <2> DEFINE me == request[r]
  <2>1. PICK p : p = [me.plan EXCEPT !.manifest = me.got]
    OBVIOUS
  <2>2. PICK c : c = [me EXCEPT !.stage = "verify", !.got = Nothing, !.plan = p]
    OBVIOUS
  <2>3. /\ me.stage = "scan" /\ Len(me.got) = LastFile /\ UNCHANGED sessions
        /\ Goes(r, [me EXCEPT !.stage = "verify", !.got = Nothing, !.plan.manifest = me.got])
    BY <1>9 DEF ParseDocuments, Walked, At
  <2>4. me.plan \in PlanMade /\ me.got \in Seq(Nat)
    BY <2>3, <1>3 DEF CommandInv, Command
  <2>5. me.got \in FolderState
    BY <2>3, <2>4 DEF FolderState, FolderFiles
  <2>6. p \in PlanMade /\ p.manifest \in FolderState
    BY <2>1, <2>4, <2>5 DEF PlanMade
  <2>7. [me EXCEPT !.stage = "verify", !.got = Nothing, !.plan.manifest = me.got] = c
    BY <2>1, <2>2, <1>3 DEF Command
  <2>8. c \in Command /\ c.stage = "verify" /\ c.published = me.published /\ c.plan = p
    <3>1. Nothing \in Seq(Nat)
      BY DEF Nothing
    <3> QED BY <1>3, <2>2, <2>6, <3>1 DEF Command, PrepareStages
  <2>9. CommandInv(c)
    BY <2>6, <2>8 DEF CommandInv, CommitStages, InstallStages
  <2> QED BY <2>3, <2>7, <2>8, <2>9, <1>5
<1> QED BY <1>4, <1>6, <1>7, <1>8, <1>9

(* The verified plan is shown and becomes the session. *)
LEMMA PublishInv ==
  ASSUME ImportInv, NEW r \in Requests, PublishSession(r)
  PROVE  ImportInv' /\ WritesConfirmed
<1> DEFINE me == request[r]
           u == Len(shown) + 1
<1>1. me.stage = "verify" /\ UNCHANGED <<graph, since, space, stored, importFaults>>
  BY DEF PublishSession, Walked, At
<1>2. ~At(r, "idle") /\ me.stage \notin InstallStages
  BY <1>1 DEF At, InstallStages
<1>3. me \in Command /\ CommandInv(me)
  BY <1>2, UnderWay
<1>4. CASE Ends(r) /\ UNCHANGED shown
  BY <1>1, <1>2, <1>4, GivesUp, Typing
<1>5. CASE ~(Ends(r) /\ UNCHANGED shown)
  <2>1. PICK a : a = [id |-> u, plan |-> me.plan, allowed |-> StaticCommitAllowed(me.plan, me.receipt)]
    OBVIOUS
  <2>2. /\ sessions' = [Released(sessions) EXCEPT !.active = a]
        /\ shown' = Append(shown, me.plan.manifest) /\ Goes(r, NoCommand)
    BY <1>5, <2>1 DEF PublishSession
  <2>3. me.plan \in PlanMade /\ me.plan.manifest \in FolderState
    BY <1>1, <1>3 DEF CommandInv
  <2>4. /\ shown' \in Seq(FolderState) /\ u \in DOMAIN shown' /\ shown'[u] = me.plan.manifest
        /\ u \in Nat
    BY <2>2, <2>3, Typing
  <2>5. a \in [id : Nat, plan : PlanMade, allowed : BOOLEAN] /\ a.id = u /\ a.plan = me.plan
    <3>1. StaticCommitAllowed(me.plan, me.receipt) \in BOOLEAN
      BY DEF StaticCommitAllowed
    <3> QED BY <3>1, <2>1, <2>3, <2>4
  <2>6. /\ sessions' \in [preparing : BOOLEAN, committing : Nat,
                          active : {Nothing} \cup [id : Nat, plan : PlanMade, allowed : BOOLEAN]]
        /\ sessions'.active = a /\ ~Busy'
    BY <2>2, <2>5 DEF Released, ImportInv, ImportTyped, Busy, NoId
  <2>7. ImportTyped' \/ request' \notin [Requests -> Command]
    BY <1>1, <2>4, <2>6 DEF ImportInv, ImportTyped
  <2>8. SessionShown' /\ OwnWorkspace' /\ ReceiptOfImport'
    BY <1>1, <2>4, <2>5, <2>6 DEF ImportInv, SessionShown, OwnWorkspace, ReceiptOfImport
  <2>9. importFaults'.crashed \/ stored' \subseteq Referenced'
    BY <1>1, <1>2, UnderWay DEF Referenced
  <2> QED BY <1>1, <1>2, <2>2, <2>6, <2>7, <2>8, <2>9, Ending DEF WritesConfirmed
<1> QED BY <1>4, <1>5

(* The walk, of a dry run and of the two verifications. *)
LEMMA WalkInv ==
  ASSUME ImportInv, NEW r \in Requests, Walk(r)
  PROVE  ImportInv' /\ WritesConfirmed
<1> DEFINE me == request[r]
           k == Len(me.got) + 1
<1>1. PICK c : c = [me EXCEPT !.got = Append(me.got, graph[k])]
  OBVIOUS
<1>2. /\ me.stage \in {"scan", "verify", "verify1", "verify2"} /\ Len(me.got) < LastFile
      /\ Goes(r, c) /\ UNCHANGED <<graph, since, sessions, space, stored, shown, importFaults>>
  BY <1>1 DEF Walk, At
<1>3. ~At(r, "idle") /\ me.stage \notin InstallStages
  BY <1>2 DEF At, InstallStages
<1>4. me \in Command /\ CommandInv(me) /\ me.got \in Seq(Nat)
  BY <1>3, UnderWay DEF Command
<1>5. k \in FolderFiles /\ graph[k] \in Nat
  BY <1>2, <1>4, Typing, FilesAssumption DEF FolderFiles, FolderState
<1>6. c \in Command /\ c.stage = me.stage /\ c.plan = me.plan /\ c.asked = me.asked
      /\ c.published = me.published /\ c.got = Append(me.got, graph[k])
  <2>0. Append(me.got, graph[k]) \in Seq(Nat)
    <3> HIDE DEF me, k
    <3> QED BY <1>4, <1>5
  <2>1. PICK got \in Seq(Nat) : got = Append(me.got, graph[k])
    BY <2>0, Zenon
  <2>2. c = [me EXCEPT !.got = got]
    BY <1>1, <2>1
  <2>3. c \in Command /\ c.stage = me.stage /\ c.plan = me.plan /\ c.asked = me.asked
        /\ c.published = me.published /\ c.got = got
    BY <1>4, <2>2 DEF Command
  <2> QED BY <2>1, <2>3
<1>7. /\ Len(c.got) = k /\ c.got[k] = graph[k]
      /\ \A f \in 1 .. Len(me.got) : c.got[f] = me.got[f]
  BY <1>4, <1>5, <1>6
<1>8. k <= LastFile /\ k \in Nat
  BY <1>2, <1>4, FilesAssumption
<1>9. \A f \in FolderFiles : f <= k => f = k \/ f \in 1 .. Len(me.got)
  BY <1>4, FilesAssumption DEF FolderFiles
<1> HIDE DEF k, me
<1>10. c.stage = "verify1" => \A f \in FolderFiles : f <= Len(c.got) => c.got[f] <= graph[f]
  <2> SUFFICES ASSUME c.stage = "verify1", NEW f \in FolderFiles, f <= k
               PROVE  c.got[f] <= graph[f]
    BY <1>7
  <2>1. CASE f = k
    BY <2>1, <1>5, <1>7
  <2>2. CASE f \in 1 .. Len(me.got)
    BY <2>2, <1>4, <1>6, <1>7 DEF CommandInv
  <2> QED BY <2>1, <2>2, <1>9
<1>11. c.stage = "verify2" => \E g \in since : Between(c, g)
  <2> SUFFICES ASSUME c.stage = "verify2" PROVE \E g \in since : Between(c, g)
    OBVIOUS
  <2>1. PICK g \in since : Between(me, g)
    BY <1>4, <1>6 DEF CommandInv
  <2>2. ASSUME NEW f \in FolderFiles, f <= Len(c.got) PROVE g[f] <= c.got[f]
    <3>1. CASE f = k
      BY <3>1, <1>5, <1>7, <2>1 DEF Between
    <3>2. CASE f \in 1 .. Len(me.got)
      BY <3>2, <1>4, <1>7, <2>1 DEF Between
    <3> QED BY <3>1, <3>2, <2>2, <1>7, <1>9
  <2>3. Between(c, g)
    BY <2>1, <2>2, <1>6 DEF Between
  <2> QED BY <2>3
<1>12. CommandInv(c)
  BY <1>2, <1>4, <1>6, <1>7, <1>8, <1>10, <1>11 DEF CommandInv, CommitStages, InstallStages
<1>13. c.stage # "idle"
  BY <1>2, <1>6
<1> QED BY <1>2, <1>3, <1>6, <1>12, <1>13, GoesOn, Typing DEF me

(* The commit until the bodies are installed: what the second verification
   confirms is what the folder was at the end of the first. *)
LEMMA VerifyInv ==
  ASSUME ImportInv, NEW r \in Requests,
         CheckDestination(r) \/ VerifyBefore(r) \/ MaterializeMedia(r) \/ VerifyAfter(r)
  PROVE  ImportInv' /\ WritesConfirmed
<1> DEFINE me == request[r]
<1>1. /\ me.stage \in {"check", "verify1", "media", "verify2"}
      /\ UNCHANGED <<graph, since, space, stored, shown, importFaults>>
  BY DEF CheckDestination, VerifyBefore, MaterializeMedia, VerifyAfter, Walked, At
<1>2. ~At(r, "idle") /\ me.stage \notin InstallStages /\ me.stage \in CommitStages
  BY <1>1 DEF At, InstallStages, CommitStages
<1>3. me \in Command /\ CommandInv(me) /\ me.got \in Seq(Nat) /\ Nothing \in Seq(Nat) /\ Len(Nothing) = 0
  BY <1>2, UnderWay DEF Command, Nothing
<1>4. /\ me.plan \in PlanMade /\ me.plan.manifest \in FolderState
      /\ me.asked \in DOMAIN shown /\ shown[me.asked] = me.plan.manifest
      /\ graph \in since /\ me.published \subseteq {Body(me.plan, f) : f \in Media}
  BY <1>2, <1>3 DEF CommandInv
<1>5. CASE Ends(r)
  BY <1>1, <1>2, <1>5, GivesUp, Typing
<1>6. ASSUME NEW c \in Command, Goes(r, c), UNCHANGED sessions, c.stage \in CommitStages,
             c.plan = me.plan, c.asked = me.asked, c.published = me.published,
             c.stage \in {"check", "media"} => c.got = Nothing,
             c.stage \in {"verify1", "verify2"} => c.got = Nothing,
             c.stage \in {"media", "verify2"} => \E g \in since : Between(c, g),
             c.stage \in {"install", "apply"} => c.plan.manifest \in since
      PROVE  ImportInv' /\ WritesConfirmed
  <2>1. c.stage # "idle" /\ c.stage # "scan"
    BY <1>6 DEF CommitStages, InstallStages
  <2>2. \A f \in FolderFiles : ~(f <= 0)
    BY FilesAssumption DEF FolderFiles
  <2> HIDE DEF me
  <2>3. CommandInv(c)
    BY <1>3, <1>4, <1>6, <2>1, <2>2, FilesAssumption DEF CommandInv
  <2> QED BY <1>1, <1>2, <1>6, <2>1, <2>3, GoesOn, Typing DEF me
<1>7. CASE CheckDestination(r) /\ ~Ends(r)
  <2>1. PICK c : c = [me EXCEPT !.stage = "verify1"]
    OBVIOUS
  <2>2. Goes(r, c) /\ UNCHANGED sessions /\ me.stage = "check"
    BY <1>7, <2>1 DEF CheckDestination, Moves, At
  <2>3. /\ c \in Command /\ c.stage = "verify1" /\ c.plan = me.plan /\ c.asked = me.asked
        /\ c.published = me.published /\ c.got = me.got
    BY <1>3, <2>1 DEF Command, CommitStages
  <2>4. c.got = Nothing
    BY <2>2, <2>3, <1>3 DEF CommandInv
  <2> QED BY <2>2, <2>3, <2>4, <1>6 DEF CommitStages
<1>8. CASE VerifyBefore(r) /\ ~Ends(r)
  <2>1. PICK c : c = [me EXCEPT !.stage = "media", !.got = Nothing]
    OBVIOUS
  <2>2. /\ Goes(r, c) /\ UNCHANGED sessions /\ me.stage = "verify1" /\ Len(me.got) = LastFile
        /\ me.got = me.plan.manifest
    BY <1>8, <2>1 DEF VerifyBefore, Walked, At, ManifestExact
  <2>3. /\ c \in Command /\ c.stage = "media" /\ c.plan = me.plan /\ c.asked = me.asked
        /\ c.published = me.published /\ c.got = Nothing
    BY <1>3, <2>1 DEF Command, CommitStages
  <2>4. Between(c, graph)
    <3> SUFFICES ASSUME NEW f \in FolderFiles
                 PROVE  /\ me.got[f] <= graph[f] /\ graph[f] <= graph[f]
                        /\ ~(f <= 0)
      BY <1>3, <2>2, <2>3 DEF Between
    <3>1. f <= Len(me.got) /\ graph[f] \in Nat /\ ~(f <= 0)
      BY <2>2, Typing, FilesAssumption DEF FolderFiles, FolderState
    <3>2. me.got[f] <= graph[f]
      BY <3>1, <2>2, <1>3 DEF CommandInv
    <3> QED BY <3>1, <3>2
  <2> QED BY <2>2, <2>3, <2>4, <1>4, <1>6 DEF CommitStages
<1>9. CASE MaterializeMedia(r) /\ ~Ends(r)
  <2>1. PICK c : c = [me EXCEPT !.stage = "verify2"]
    OBVIOUS
  <2>2. Goes(r, c) /\ UNCHANGED sessions /\ me.stage = "media"
    BY <1>9, <2>1 DEF MaterializeMedia, Moves, At
  <2>3. /\ c \in Command /\ c.stage = "verify2" /\ c.plan = me.plan /\ c.asked = me.asked
        /\ c.published = me.published /\ c.got = me.got
    BY <1>3, <2>1 DEF Command, CommitStages
  <2>4. c.got = Nothing /\ \E g \in since : Between(me, g)
    BY <2>2, <2>3, <1>3 DEF CommandInv
  <2>5. \E g \in since : Between(c, g)
    BY <2>3, <2>4 DEF Between
  <2> QED BY <2>2, <2>3, <2>4, <2>5, <1>6 DEF CommitStages
<1>10. CASE VerifyAfter(r) /\ ~Ends(r)
  <2>1. PICK c : c = [me EXCEPT !.stage = "install", !.got = Nothing]
    OBVIOUS
  <2>2. /\ Goes(r, c) /\ UNCHANGED sessions /\ me.stage = "verify2" /\ Len(me.got) = LastFile
        /\ me.got = me.plan.manifest
    BY <1>10, <2>1 DEF VerifyAfter, Walked, At, ManifestExact
  <2>3. /\ c \in Command /\ c.stage = "install" /\ c.plan = me.plan /\ c.asked = me.asked
        /\ c.published = me.published /\ c.got = Nothing
    BY <1>3, <2>1 DEF Command, CommitStages, InstallStages
  <2>4. PICK g \in since : Between(me, g)
    BY <2>2, <1>3 DEF CommandInv
  <2>5. g \in FolderState
    BY Typing
  <2>6. ASSUME NEW f \in FolderFiles PROVE g[f] = me.plan.manifest[f]
    <3>1. f <= Len(me.got) /\ g[f] \in Nat /\ me.plan.manifest[f] \in Nat
      BY <2>2, <2>5, <1>4, FilesAssumption DEF FolderFiles, FolderState
    <3>2. me.plan.manifest[f] <= g[f] /\ g[f] <= me.plan.manifest[f]
      BY <3>1, <2>2, <2>4 DEF Between
    <3> QED BY <3>1, <3>2
  <2>7. g = me.plan.manifest
    BY <2>5, <2>6, <1>4 DEF FolderState
  <2> QED BY <2>2, <2>3, <2>7, <1>6 DEF CommitStages, InstallStages
<1> QED BY <1>5, <1>7, <1>8, <1>9, <1>10

(* What a commit holds once the folder is verified. *)
LEMMA Verified ==
  ASSUME ImportInv, NEW r \in Requests, request[r].stage \in InstallStages
  PROVE  LET me == request[r]
         IN /\ ~At(r, "idle") /\ me \in Command /\ CommandInv(me)
            /\ me.plan \in PlanMade /\ me.plan.manifest \in FolderState
            /\ me.asked \in DOMAIN shown /\ me.asked \in Nat /\ shown[me.asked] = me.plan.manifest
            /\ me.published \subseteq {Body(me.plan, f) : f \in Media}
            /\ me.stage \in {"install", "apply"} => me.plan.manifest \in since
<1>1. ~At(r, "idle") /\ request[r].stage \in CommitStages
  BY DEF At, InstallStages, CommitStages
<1>2. request[r] \in Command /\ CommandInv(request[r])
  BY <1>1, UnderWay
<1>3. request[r].asked \in Nat
  BY <1>2 DEF Command
<1> QED BY <1>1, <1>2, <1>3 DEF CommandInv

(* A body that was not there before is remembered before the next one is written. *)
LEMMA InstallInv ==
  ASSUME ImportInv, NEW r \in Requests, InstallBlob(r)
  PROVE  ImportInv' /\ WritesConfirmed
<1> DEFINE me == request[r]
           missing == {f \in Media : Body(me.plan, f) \notin stored}
<1>1. /\ me.stage = "install" /\ me.stage \in InstallStages
      /\ UNCHANGED <<graph, since, sessions, space, shown, importFaults>>
  BY DEF InstallBlob, At, InstallStages
<1>2. /\ ~At(r, "idle") /\ me \in Command /\ CommandInv(me)
      /\ me.plan \in PlanMade /\ me.plan.manifest \in FolderState
      /\ me.asked \in DOMAIN shown /\ shown[me.asked] = me.plan.manifest
      /\ me.published \subseteq {Body(me.plan, f) : f \in Media}
      /\ me.plan.manifest \in since /\ graph \in since
  BY <1>1, Verified DEF CommandInv, CommitStages
<1>3. ASSUME NEW c \in Command, c.stage \in {"install", "apply"}, c.plan = me.plan,
             c.asked = me.asked, c.published \subseteq {Body(me.plan, f) : f \in Media}
      PROVE  CommandInv(c) /\ c.stage # "idle" /\ c.stage \in InstallStages
  BY <1>2, <1>3 DEF CommandInv, CommitStages, InstallStages
<1>4. CASE missing = {}
  <2>1. PICK c : c = [me EXCEPT !.stage = "apply"]
    OBVIOUS
  <2>2. Goes(r, c) /\ stored' = stored
    BY <1>4, <2>1 DEF InstallBlob, Moves
  <2>3. /\ c \in Command /\ c.stage = "apply" /\ c.plan = me.plan /\ c.asked = me.asked
        /\ c.published = me.published
    BY <1>2, <2>1 DEF Command, CommitStages, InstallStages
  <2>4. CommandInv(c) /\ c.stage # "idle" /\ c.stage \in InstallStages
    BY <1>2, <1>3, <2>3
  <2> QED BY <1>1, <1>2, <2>2, <2>3, <2>4, GoesOn, Typing
<1>5. CASE missing # {}
  <2>1. PICK f \in Media : /\ stored' = stored \cup {Body(me.plan, f)}
                           /\ Goes(r, [me EXCEPT !.published = @ \cup {Body(me.plan, f)}])
    BY <1>5 DEF InstallBlob
  <2>2. PICK pub : pub = me.published \cup {Body(me.plan, f)}
    OBVIOUS
  <2>3. PICK c : c = [me EXCEPT !.published = pub]
    OBVIOUS
  <2>4. Goes(r, c)
    BY <2>1, <2>2, <2>3
  <2>5. pub \in SUBSET (Media \X Nat)
    <3>1. f \in FolderFiles
      BY <2>1, FilesAssumption DEF Media, FolderFiles
    <3>2. me.plan.manifest[f] \in Nat /\ me.published \in SUBSET (Media \X Nat)
      BY <3>1, <1>2 DEF FolderState, Command
    <3>3. Body(me.plan, f) \in Media \X Nat
      BY <3>2 DEF Body
    <3> QED BY <3>2, <3>3, <2>2
  <2>6. /\ c \in Command /\ c.stage = "install" /\ c.plan = me.plan /\ c.asked = me.asked
        /\ c.published = pub
    BY <1>1, <1>2, <2>3, <2>5 DEF Command
  <2>7. pub \subseteq {Body(me.plan, x) : x \in Media} /\ me.published \subseteq pub
    BY <1>2, <2>1, <2>2
  <2>8. CommandInv(c) /\ c.stage # "idle" /\ c.stage \in InstallStages
    BY <1>3, <2>6, <2>7
  <2>9. stored' \subseteq stored \cup c.published
    BY <2>1, <2>2, <2>6
  <2> QED BY <1>1, <1>2, <2>4, <2>6, <2>7, <2>8, <2>9, GoesOn, Typing
<1> QED BY <1>4, <1>5

(* The way to the clean-up, from the transaction or from a failure. *)
LEMMA ToCleanUp ==
  ASSUME ImportInv, NEW r \in Requests, request[r].stage \in {"install", "apply"},
         Moves(r, "cleanup"), UNCHANGED <<graph, since, sessions, space, shown, stored>>,
         importFaults' \in [failed : Int, crashed : BOOLEAN],
         importFaults'.crashed = importFaults.crashed
  PROVE  ImportInv' /\ WritesConfirmed
<1> DEFINE me == request[r]
<1>1. me.stage \in InstallStages
  BY DEF InstallStages
<1>2. /\ ~At(r, "idle") /\ me \in Command /\ CommandInv(me)
      /\ me.plan \in PlanMade /\ me.plan.manifest \in FolderState
      /\ me.asked \in DOMAIN shown /\ shown[me.asked] = me.plan.manifest
      /\ me.published \subseteq {Body(me.plan, f) : f \in Media}
      /\ graph \in since
  BY <1>1, Verified DEF CommandInv, CommitStages
<1>3. PICK c : c = [me EXCEPT !.stage = "cleanup"]
  OBVIOUS
<1>4. /\ c \in Command /\ c.stage = "cleanup" /\ c.plan = me.plan /\ c.asked = me.asked
      /\ c.published = me.published /\ Goes(r, c)
  BY <1>2, <1>3 DEF Command, CommitStages, InstallStages, Moves
<1>5. CommandInv(c) /\ c.stage # "idle" /\ c.stage \in InstallStages
  BY <1>2, <1>4 DEF CommandInv, CommitStages, InstallStages
<1> QED BY <1>1, <1>2, <1>4, <1>5, GoesOn

(* The end of a commit that got as far as installing bodies. *)
LEMMA CommitEnds ==
  ASSUME ImportInv, NEW r \in Requests, request[r].stage \in InstallStages, Ends(r),
         UNCHANGED <<graph, since, shown, importFaults>>,
         space' \in [ws : Nat, notes : BOOLEAN, receipt : {Nothing} \cup ReceiptKept,
                     import : {Nothing} \cup [by : Nat, holds : FolderState, ws : Nat]],
         OwnWorkspace', ReceiptOfImport',
         importFaults.crashed \/ stored' \subseteq Referenced'
  PROVE  ImportInv'
<1>1. sessions' \in [preparing : BOOLEAN, committing : Nat,
                     active : {Nothing} \cup [id : Nat, plan : PlanMade, allowed : BOOLEAN]]
      /\ sessions'.active = sessions.active /\ ~Busy'
  BY DEF Ends, Released, ImportInv, ImportTyped, Busy, NoId
<1>2. ImportTyped' \/ request' \notin [Requests -> Command]
  BY <1>1 DEF ImportInv, ImportTyped
<1>3. SessionShown'
  BY <1>1 DEF ImportInv, SessionShown
<1>4. ~At(r, "idle")
  BY Verified
<1> QED BY <1>1, <1>2, <1>3, <1>4, Ending DEF Ends

(* The transaction. *)
LEMMA ApplyInv ==
  ASSUME ImportInv, NEW r \in Requests, ApplyImport(r)
  PROVE  ImportInv' /\ WritesConfirmed
<1> DEFINE me == request[r]
           plan == me.plan
           receipt == [manifest |-> plan.manifest, ws |-> plan.ident.ws, ns |-> plan.ident.ns]
           imported == [by |-> me.asked, holds |-> plan.manifest, ws |-> plan.ident.ws]
           files == {Body(plan, f) : f \in Media}
<1>1. /\ me.stage = "apply" /\ me.stage \in InstallStages
      /\ UNCHANGED <<graph, since, stored, shown, importFaults>>
  BY DEF ApplyImport, At, InstallStages
<1>2. /\ ~At(r, "idle") /\ plan \in PlanMade /\ plan.manifest \in FolderState
      /\ me.asked \in Nat /\ shown[me.asked] = plan.manifest
      /\ me.published \subseteq files /\ plan.manifest \in since
  BY <1>1, Verified
<1>3. /\ space \in [ws : Nat, notes : BOOLEAN, receipt : {Nothing} \cup ReceiptKept,
                    import : {Nothing} \cup [by : Nat, holds : FolderState, ws : Nat]]
      /\ OwnWorkspace /\ ReceiptOfImport
  BY DEF ImportInv, ImportTyped
<1>4. receipt \in ReceiptKept /\ imported \in [by : Nat, holds : FolderState, ws : Nat]
  BY <1>2 DEF ReceiptKept, PlanMade
<1>5. receipt # Nothing /\ imported # Nothing
  <2>1. "ws" \in DOMAIN receipt /\ "ws" \in DOMAIN imported
    OBVIOUS
  <2>2. DOMAIN Nothing = {}
    BY DEF Nothing
  <2> QED BY <2>1, <2>2
<1>6. importFaults.crashed \/ stored \subseteq Referenced \cup files
  BY <1>2, UnderWay
<1>7. CASE MatchesReceipt(plan) /\ Ends(r) /\ UNCHANGED space
  <2>1. space.receipt = receipt
    BY <1>7 DEF MatchesReceipt
  <2>2. space.import # Nothing /\ space.import.holds = plan.manifest
    BY <2>1, <1>3, <1>5 DEF ReceiptOfImport
  <2>3. Referenced' = files /\ Referenced = files
    BY <2>2, <1>7 DEF Referenced, Body
  <2>4. importFaults.crashed \/ stored' \subseteq Referenced'
    BY <2>3, <1>1, <1>6
  <2>5. OwnWorkspace' /\ ReceiptOfImport'
    BY <1>3, <1>7 DEF OwnWorkspace, ReceiptOfImport
  <2>6. WritesConfirmed
    BY <1>7 DEF WritesConfirmed
  <2> QED BY <1>1, <1>3, <1>7, <2>4, <2>5, <2>6, CommitEnds
<1>8. CASE /\ space.receipt = Nothing /\ MayApply(plan) /\ Ends(r)
           /\ space' = [space EXCEPT !.import = imported, !.receipt = receipt]
  <2>1. plan.ident.ws = space.ws /\ ~space.notes /\ space.import = Nothing
    BY <1>8 DEF MayApply, HasImportState
  <2> HIDE DEF receipt, imported
  <2>2. /\ space' \in [ws : Nat, notes : BOOLEAN, receipt : {Nothing} \cup ReceiptKept,
                       import : {Nothing} \cup [by : Nat, holds : FolderState, ws : Nat]]
        /\ space'.import = imported /\ space'.receipt = receipt /\ space'.ws = space.ws
    BY <1>3, <1>4, <1>8
  <2>3. /\ imported.by = me.asked /\ imported.holds = plan.manifest /\ imported.ws = plan.ident.ws
        /\ receipt.manifest = plan.manifest
    BY DEF imported, receipt
  <2>4. OwnWorkspace' /\ ReceiptOfImport'
    BY <1>5, <2>1, <2>2, <2>3 DEF OwnWorkspace, ReceiptOfImport
  <2>5. Referenced' = files /\ Referenced = {}
    BY <1>5, <2>1, <2>2, <2>3 DEF Referenced, Body
  <2>6. importFaults.crashed \/ stored' \subseteq Referenced'
    BY <2>5, <1>1, <1>6
  <2>7. WritesConfirmed
    BY <1>2, <2>1, <2>2, <2>3 DEF WritesConfirmed
  <2> QED BY <1>1, <1>8, <2>2, <2>4, <2>6, <2>7, CommitEnds
<1>9. CASE Moves(r, "cleanup") /\ UNCHANGED <<space, sessions>>
  BY <1>1, <1>9, ToCleanUp, Typing
<1> QED BY <1>7, <1>8, <1>9 DEF ApplyImport

(* cleanup_failed_import. *)
LEMMA CleanUpInv ==
  ASSUME ImportInv, NEW r \in Requests, CleanUp(r)
  PROVE  ImportInv' /\ WritesConfirmed
<1>1. /\ request[r].stage \in InstallStages /\ Ends(r) /\ stored' = CleanedUp(r)
      /\ UNCHANGED <<graph, since, space, shown, importFaults>>
  BY DEF CleanUp, At, InstallStages
<1>2. importFaults.crashed \/ stored' \subseteq Referenced'
  <2>1. importFaults.crashed \/ stored \subseteq Referenced \cup request[r].published
    BY <1>1, Verified, UnderWay
  <2>2. Referenced' = Referenced
    BY <1>1 DEF Referenced
  <2> QED BY <1>1, <2>1, <2>2 DEF CleanedUp
<1>3. OwnWorkspace' /\ ReceiptOfImport'
  BY <1>1 DEF ImportInv, OwnWorkspace, ReceiptOfImport
<1>4. space' \in [ws : Nat, notes : BOOLEAN, receipt : {Nothing} \cup ReceiptKept,
                  import : {Nothing} \cup [by : Nat, holds : FolderState, ws : Nat]]
  BY <1>1 DEF ImportInv, ImportTyped
<1> QED BY <1>1, <1>2, <1>3, <1>4, CommitEnds DEF WritesConfirmed

(* A step fails: before the installation the command just ends. *)
LEMMA FailImportInv ==
  ASSUME ImportInv, NEW r \in Requests, FailImport(r)
  PROVE  ImportInv' /\ WritesConfirmed
<1>1. /\ importFaults' = [importFaults EXCEPT !.failed = @ + 1]
      /\ request[r].stage \notin {"idle", "pick", "cleanup"}
      /\ UNCHANGED <<graph, since, space, stored, shown>>
  BY DEF FailImport
<1>2. importFaults' \in [failed : Int, crashed : BOOLEAN] /\ importFaults'.crashed = importFaults.crashed
  BY <1>1, Typing
<1>3. CASE request[r].stage \in {"install", "apply"}
  BY <1>1, <1>2, <1>3, ToCleanUp DEF FailImport
<1>4. CASE request[r].stage \notin {"install", "apply"}
  <2>1. ~At(r, "idle") /\ request[r].stage \notin InstallStages /\ Ends(r)
    BY <1>1, <1>4 DEF At, InstallStages, FailImport
  <2> QED BY <1>1, <1>2, <2>1, GivesUp
<1> QED BY <1>3, <1>4

(* Every step keeps the invariant and writes only what was confirmed. *)
LEMMA ImportStep == ImportInv /\ [ImportNext]_importVars => ImportInv' /\ WritesConfirmed
<1> SUFFICES ASSUME ImportInv, [ImportNext]_importVars PROVE ImportInv' /\ WritesConfirmed
  OBVIOUS
<1>1. CASE UNCHANGED importVars
  <2>1. UNCHANGED <<graph, since, request, sessions, space, stored, shown, importFaults>>
    BY <1>1 DEF importVars
  <2>2. /\ ImportTyped' /\ OneCommand' /\ FlagsReleased' /\ SessionShown' /\ OwnWorkspace'
        /\ ReceiptOfImport' /\ BodiesOwned'
    BY <2>1 DEF ImportInv, ImportTyped, OneCommand, FlagsReleased, SessionShown, OwnWorkspace,
                ReceiptOfImport, BodiesOwned, At, Busy, Referenced
  <2>3. \A r \in Requests : CommandInv(request[r])'
    BY <2>1 DEF ImportInv, CommandInv, Between, Body
  <2> QED BY <2>1, <2>2, <2>3 DEF ImportInv, WritesConfirmed
<1>2. CASE \E f \in FolderFiles : EditFile(f)
  BY <1>2, EditFileInv
<1>3. CASE WriteNote \/ AdoptWorkspace
  BY <1>3, SpaceInv
<1>4. CASE CrashImport
  BY <1>4, CrashImportInv
<1>5. CASE \E u \in DOMAIN shown : DiscardSession(u)
  BY <1>5, DiscardInv
<1>6. ASSUME NEW r \in Requests,
             \/ BeginPreparing(r) \/ PickFolder(r) \/ ReadReceipt(r) \/ ReadDestination(r)
             \/ Walk(r) \/ ParseDocuments(r) \/ PublishSession(r)
             \/ \E u \in DOMAIN shown : BeginCommit(r, u)
             \/ CheckDestination(r) \/ VerifyBefore(r) \/ MaterializeMedia(r) \/ VerifyAfter(r)
             \/ InstallBlob(r) \/ ApplyImport(r) \/ CleanUp(r) \/ FailImport(r)
      PROVE  ImportInv' /\ WritesConfirmed
  BY <1>6, BeginPreparingInv, PrepareInv, WalkInv, PublishInv, BeginCommitInv, VerifyInv,
     InstallInv, ApplyInv, CleanUpInv, FailImportInv
<1> QED BY <1>1, <1>2, <1>3, <1>4, <1>5, <1>6 DEF ImportNext

(* The three state parts of AllOrNothing. *)
LEMMA ImportInvKeeps == ImportInv => OwnWorkspace /\ NoOrphans /\ FlagsReleased
  BY DEF ImportInv, BodiesOwned, NoOrphans, InstallStages

(* An import writes the folder as it was at one moment after the user confirmed,
   which is what the preview of that session showed, into a workspace without notes,
   with identities of that workspace; and however a command ends the window is
   unlocked and, unless the app crashed in the middle, no body is left that no
   attachment refers to (commit_logseq_import, verify_logseq_manifest,
   cleanup_failed_import).  For any number of commands, files, edits of the folder,
   dry runs and failures. *)
THEOREM AllOrNothingTheorem == ImportSpec => AllOrNothing
<1>1. ImportInv /\ [ImportNext]_importVars =>
        ImportInv' /\ [WritesConfirmed /\ OwnWorkspace' /\ NoOrphans' /\ FlagsReleased']_importVars
  <2>1. ImportInv' => OwnWorkspace' /\ NoOrphans' /\ FlagsReleased'
    BY ImportInvKeeps, PTL
  <2> QED BY <2>1, ImportStep
<1> QED BY <1>1, ImportInitInv, PTL DEF ImportSpec, AllOrNothing
=============================================================================
