------------------------------ MODULE Workspace ------------------------------
(***************************************************************************)
(* One application process from startup to exit, with the physical restore *)
(* of a recovery backup in between (src-tauri lib.rs, startup.rs,          *)
(* workspace.rs, app_lock.rs, backup/recovery.rs, sync/lifecycle.rs), and  *)
(* a second process that waits for the same workspace lock.                *)
(*                                                                         *)
(* The database is a version number that grows with every committed write, *)
(* or Incoming once the restore has renamed its replacement over it.  Some *)
(* of its pages may sit in the WAL sidecar; a main file that is replaced   *)
(* while the old WAL is still there is not the database either side meant. *)
(***************************************************************************)
EXTENDS Integers, FiniteSets

CONSTANTS
    MaxWrites,   \* bound on the writes of commands, sync and ink
    MaxTokens    \* bound on the restores that are prepared

ASSUME WritesAssumption == MaxWrites \in Nat

VARIABLES
    boot,        \* startup task: next step, "done", "failed"
    bootAnswer,  \* Registration published the outcome
    appLock,     \* StartupLifecycle retains the application lock
    stopping,    \* StartupLifecycle::stopping
    storeState,  \* NotesStore: "none", "open", "closed"
    appState,    \* AppState is managed
    inkPhase,    \* WorkspaceRuntime: "open", "stopping", "closed"
    inkJobs,     \* admitted raw ink jobs
    syncTask,    \* SyncWorker: accepting flag and task
    drain,       \* WorkspaceShutdown: step of drain_application, or its outcome
    recov,       \* RuntimeState of the recovery runtime
    restore,     \* step of the accepted restore job
    outcome,     \* RecoveryRestoreStatus it reported
    exit,        \* exit request: "no", "restore", "begin", "drain", "leave", "exited"
    other,       \* the second process: "waiting", "using"
    database,    \* what the main file and its WAL hold together
    wal,         \* owner of the frames in the WAL sidecar, NoWal when empty
    beforeBackup,\* version captured by the before-restore backup, -1 for none
    bodies       \* the backup's blob bodies are installed

bootVars == <<boot, bootAnswer, appLock, stopping, storeState, appState>>
userVars == <<inkPhase, inkJobs, syncTask>>
fileVars == <<database, wal, beforeBackup, bodies>>
appVars == <<bootVars, userVars, drain, recov, restore, outcome, exit, other, fileVars>>

Incoming == -2
NoWal == "none"
NoToken == 0
Outcomes == {"token", "nothing", "error"}   \* what a finished drain returned

Running == exit # "exited"

AppInit ==
    /\ boot = "off" /\ bootAnswer = FALSE /\ appLock = FALSE /\ stopping = FALSE
    /\ storeState = "none" /\ appState = FALSE
    /\ inkPhase = "open" /\ inkJobs = 0
    /\ syncTask = [accepting |-> TRUE, runs |-> FALSE]
    /\ drain = "idle"
    /\ recov = [exiting |-> FALSE, preparing |-> FALSE, prepared |-> NoToken,
                issued |-> 0, restoring |-> FALSE]
    /\ restore = "none" /\ outcome = "none"
    /\ exit = "no"
    /\ other = "waiting"
    /\ database = 0 /\ wal = NoWal /\ beforeBackup = -1 /\ bodies = FALSE
-----------------------------------------------------------------------------
(* The lock.  A drained workspace's token keeps its own reference to it.   *)

LockHeld == Running /\ (appLock \/ drain = "token")

OtherTakesLock ==
    /\ other = "waiting"
    /\ ~LockHeld
    /\ other' = "using"
    /\ UNCHANGED <<bootVars, userVars, drain, recov, restore, outcome, exit, fileVars>>
-----------------------------------------------------------------------------
(* Startup: one task, whose every end publishes an outcome.                *)

BootStep(from, to) ==
    /\ Running
    /\ boot = from
    /\ boot' = to

\* setup registers the lifecycle and spawns the startup task.
Launch ==
    /\ BootStep("off", "lock")
    /\ UNCHANGED <<bootAnswer, appLock, stopping, storeState, appState, userVars, drain,
                   recov, restore, outcome, exit, other, fileVars>>

(* Mutant of LockFree: the wait for the lock ends in an open all the same. *)
LockFree_TimedOut == TRUE

\* try_lock succeeds; past the bounded wait it is an error, never an open.
LockFree == other # "using"

AcquireLock ==
    /\ BootStep("lock", "locked")
    /\ LockFree
    /\ appLock' = TRUE
    /\ UNCHANGED <<bootAnswer, stopping, storeState, appState, userVars, drain, recov,
                   restore, outcome, exit, other, fileVars>>

\* Settings do not load, the lock stays with another process past the retry,
\* or SQLite does not open.
BootFails ==
    /\ \E from \in {"lock", "open"} : BootStep(from, "failed")
    /\ UNCHANGED <<bootAnswer, appLock, stopping, storeState, appState, userVars, drain,
                   recov, restore, outcome, exit, other, fileVars>>

BeforeOpen ==
    /\ BootStep("locked", IF stopping THEN "done" ELSE "open")
    /\ UNCHANGED <<bootAnswer, appLock, stopping, storeState, appState, userVars, drain,
                   recov, restore, outcome, exit, other, fileVars>>

OpenStore ==
    /\ BootStep("open", "installed")
    /\ storeState' = "open"
    /\ appState' = TRUE
    /\ UNCHANGED <<bootAnswer, appLock, stopping, userVars, drain, recov, restore, outcome,
                   exit, other, fileVars>>

BeforeInk ==
    /\ BootStep("installed", IF stopping THEN "done" ELSE "recover")
    /\ UNCHANGED <<bootAnswer, appLock, stopping, storeState, appState, userVars, drain,
                   recov, restore, outcome, exit, other, fileVars>>

RecoverInk ==
    /\ BootStep("recover", "publish")
    /\ UNCHANGED <<bootAnswer, appLock, stopping, storeState, appState, userVars, drain,
                   recov, restore, outcome, exit, other, fileVars>>

\* The sync worker is spawned under the gate that the exit stop takes.
PublishReady ==
    /\ BootStep("publish", "done")
    /\ syncTask' = IF stopping \/ ~syncTask.accepting THEN syncTask
                   ELSE [syncTask EXCEPT !.runs = TRUE]
    /\ UNCHANGED <<bootAnswer, appLock, stopping, storeState, appState, inkPhase, inkJobs,
                   drain, recov, restore, outcome, exit, other, fileVars>>

(* Mutant of Answers: a failed startup keeps its completion to itself. *)
Answers_OkOnly == boot = "done"

\* The supervisor reports a failure and finishes the registration either way.
Answers == boot \in {"done", "failed"}

FinishBoot ==
    /\ Running
    /\ ~bootAnswer
    /\ Answers
    /\ bootAnswer' = TRUE
    /\ UNCHANGED <<boot, appLock, stopping, storeState, appState, userVars, drain, recov,
                   restore, outcome, exit, other, fileVars>>
-----------------------------------------------------------------------------
(* The users of the database.                                              *)

CommitWrite ==
    /\ database \in 0..(MaxWrites - 1)
    /\ database' = database + 1
    /\ wal' = "old"
    /\ UNCHANGED <<beforeBackup, bodies>>

MayWrite == CommitWrite \/ UNCHANGED fileVars

\* A command or the sync task writes through the store.
StoreWrite ==
    /\ Running
    /\ storeState = "open"
    /\ appState \/ syncTask.runs
    /\ CommitWrite
    /\ UNCHANGED <<bootVars, userVars, drain, recov, restore, outcome, exit, other>>

(* Mutant of InkAdmits: a retained session clone bypasses the gate. *)
InkAdmits_Always == TRUE

\* WorkspaceRuntime::admit.
InkAdmits == inkPhase = "open"

InkBegin ==
    /\ Running
    /\ appState
    /\ InkAdmits
    /\ inkJobs = 0
    /\ inkJobs' = 1
    /\ UNCHANGED <<bootVars, inkPhase, syncTask, drain, recov, restore, outcome, exit,
                   other, fileVars>>

\* A raw ink job writes on its own connection and then drops its permit.
InkEnd ==
    /\ Running
    /\ inkJobs = 1
    /\ inkJobs' = 0
    /\ MayWrite
    /\ UNCHANGED <<bootVars, inkPhase, syncTask, drain, recov, restore, outcome, exit, other>>
-----------------------------------------------------------------------------
(* The drain that exit and restore share; it starts at most once.          *)

BeginDrain == drain' = IF drain = "idle" THEN "startup" ELSE drain

DrainStartup ==
    /\ Running
    /\ drain = "startup"
    /\ bootAnswer
    /\ drain' = "ink"
    /\ inkPhase' = "stopping"
    /\ UNCHANGED <<bootVars, inkJobs, syncTask, recov, restore, outcome, exit, other, fileVars>>

\* ink.shutdown returns only after every admitted job has ended; it publishes
\* what the open sessions still hold.
DrainInk ==
    /\ Running
    /\ drain = "ink"
    /\ inkJobs = 0
    /\ inkPhase' = "closed"
    /\ drain' = "sync"
    /\ IF appState THEN MayWrite ELSE UNCHANGED fileVars
    /\ UNCHANGED <<bootVars, inkJobs, syncTask, recov, restore, outcome, exit, other>>

\* SyncWorker::shutdown, then the last upload through the store.
DrainSync ==
    /\ Running
    /\ drain = "sync"
    /\ syncTask' = [accepting |-> FALSE, runs |-> FALSE]
    /\ drain' = "store"
    /\ IF storeState = "open" THEN MayWrite ELSE UNCHANGED fileVars
    /\ UNCHANGED <<bootVars, inkPhase, inkJobs, recov, restore, outcome, exit, other>>

DrainStore(ok) ==
    /\ Running
    /\ drain = "store"
    /\ storeState' = IF storeState = "open" THEN "closed" ELSE storeState
    /\ drain' = IF ~ok /\ storeState = "open" THEN "error"
                ELSE IF appState THEN "token" ELSE "nothing"
    /\ UNCHANGED <<boot, bootAnswer, appLock, stopping, appState, userVars, recov, restore,
                   outcome, exit, other, fileVars>>
-----------------------------------------------------------------------------
(* Preparing, discarding and accepting a restore.                          *)

Prepare ==
    /\ Running
    /\ appState
    /\ recov.issued < MaxTokens
    /\ ~recov.exiting /\ ~recov.restoring /\ ~recov.preparing
    /\ recov' = [recov EXCEPT !.preparing = TRUE, !.prepared = NoToken]
    /\ UNCHANGED <<bootVars, userVars, drain, restore, outcome, exit, other, fileVars>>

PrepareEnds(ok) ==
    /\ Running
    /\ recov.preparing
    /\ recov' = IF ok /\ ~recov.exiting /\ ~recov.restoring
                THEN [recov EXCEPT !.preparing = FALSE, !.issued = @ + 1,
                                   !.prepared = recov.issued + 1]
                ELSE [recov EXCEPT !.preparing = FALSE]
    /\ UNCHANGED <<bootVars, userVars, drain, restore, outcome, exit, other, fileVars>>

Discard(token) ==
    /\ Running
    /\ recov.prepared = token
    /\ recov' = [recov EXCEPT !.prepared = NoToken]
    /\ UNCHANGED <<bootVars, userVars, drain, restore, outcome, exit, other, fileVars>>

\* accept_restore; the prepared state is consumed and the job owned by a task,
\* whose first step is to begin the shared drain.
AcceptRestore(token) ==
    /\ Running
    /\ ~recov.exiting /\ ~recov.restoring /\ ~recov.preparing
    /\ recov.prepared = token
    /\ recov' = [recov EXCEPT !.prepared = NoToken, !.restoring = TRUE]
    /\ restore' = "begin"
    /\ UNCHANGED <<bootVars, userVars, drain, outcome, exit, other, fileVars>>

BeginRestore ==
    /\ Running
    /\ restore = "begin"
    /\ restore' = "drain"
    /\ stopping' = TRUE
    /\ BeginDrain
    /\ UNCHANGED <<boot, bootAnswer, appLock, storeState, appState, userVars, recov, outcome,
                   exit, other, fileVars>>
-----------------------------------------------------------------------------
(* The restore job on the closed workspace.                                *)

RestoreStep(from, to) ==
    /\ Running
    /\ restore = from
    /\ restore' = to
    /\ UNCHANGED <<bootVars, userVars, drain, recov, exit, other>>

\* Without a token there is nothing to replace.
RestoreDrained ==
    /\ RestoreStep("drain", IF drain = "token" THEN "backup" ELSE "done")
    /\ drain \in Outcomes
    /\ outcome' = IF drain = "token" THEN outcome ELSE "unchanged"
    /\ UNCHANGED fileVars

\* The before-restore backup is complete or the restore ends here.
RestoreBackup(ok) ==
    /\ RestoreStep("backup", IF ok THEN "install" ELSE "done")
    /\ beforeBackup' = IF ok THEN database ELSE beforeBackup
    /\ outcome' = IF ok THEN outcome ELSE "unchanged"
    /\ UNCHANGED <<database, wal, bodies>>

\* install_blobs publishes every body of the manifest or fails.
RestoreInstall(ok) ==
    /\ RestoreStep("install", IF ok THEN "seal" ELSE "done")
    /\ bodies' = (bodies \/ ok)
    /\ outcome' = IF ok THEN outcome ELSE "unchanged"
    /\ UNCHANGED <<database, wal, beforeBackup>>

(* Mutant of WalAfterSeal: the sidecar is left to the next open. *)
WalAfterSeal_Kept == wal

\* seal_current_database checkpoints, closes and retires the sidecars.
WalAfterSeal == NoWal

RestoreSeal(ok) ==
    /\ RestoreStep("seal", IF ok THEN "rename" ELSE "done")
    /\ wal' = IF ok THEN WalAfterSeal ELSE wal
    /\ outcome' = IF ok THEN outcome ELSE "unchanged"
    /\ UNCHANGED <<database, beforeBackup, bodies>>

RestoreRename(ok) ==
    /\ RestoreStep("rename", IF ok THEN "sync" ELSE "done")
    /\ database' = IF ok THEN Incoming ELSE database
    /\ outcome' = IF ok THEN outcome ELSE "unchanged"
    /\ UNCHANGED <<wal, beforeBackup, bodies>>

(* Mutant of SyncReport: a failed directory sync is an ordinary error. *)
SyncReport_Error(ok) == IF ok THEN "restored" ELSE "unchanged"

\* After the rename a failing directory sync is not "unchanged" any more.
SyncReport(ok) == IF ok THEN "restored" ELSE "uncertain"

RestoreSync(ok) ==
    /\ RestoreStep("sync", "done")
    /\ outcome' = SyncReport(ok)
    /\ UNCHANGED fileVars

\* The job or its blocking publication panics: the state is reported unknown.
RestorePanics ==
    /\ \E from \in {"begin", "drain", "backup", "install", "seal", "rename", "sync"} :
          RestoreStep(from, "done")
    /\ outcome' = "unknown"
    /\ UNCHANGED fileVars
-----------------------------------------------------------------------------
(* Exit.                                                                   *)

(* Mutant of ExitFirst: the exit does not look for an accepted restore. *)
ExitFirst_Alone == "begin"

\* begin_exit hands out the completion of the restore accepted before it.
ExitFirst == IF recov.restoring THEN "restore" ELSE "begin"

\* ExitRequested: stop publication, close the restore gate, remember the
\* restore that was accepted before it.
RequestExit ==
    /\ exit = "no"
    /\ boot # "off"
    /\ stopping' = TRUE
    /\ recov' = [recov EXCEPT !.exiting = TRUE, !.prepared = NoToken]
    /\ exit' = ExitFirst
    /\ UNCHANGED <<boot, bootAnswer, appLock, storeState, appState, userVars, drain, restore,
                   outcome, other, fileVars>>

ExitAfterRestore ==
    /\ exit = "restore"
    /\ restore = "done"
    /\ exit' = "begin"
    /\ UNCHANGED <<bootVars, userVars, drain, recov, restore, outcome, other, fileVars>>

ExitBegins ==
    /\ exit = "begin"
    /\ exit' = "drain"
    /\ BeginDrain
    /\ UNCHANGED <<bootVars, userVars, recov, restore, outcome, other, fileVars>>

\* release_application_lock, unless the close could not be confirmed.
ExitDrained ==
    /\ exit = "drain"
    /\ drain \in Outcomes
    /\ exit' = "leave"
    /\ appLock' = (appLock /\ drain = "error")
    /\ UNCHANGED <<boot, bootAnswer, stopping, storeState, appState, userVars, drain, recov,
                   restore, outcome, other, fileVars>>

Exit ==
    /\ exit = "leave"
    /\ exit' = "exited"
    /\ UNCHANGED <<bootVars, userVars, drain, recov, restore, outcome, other, fileVars>>

\* The process dies without its drain: the lock goes with it, the files stay.
Crash ==
    /\ Running
    /\ boot # "off"
    /\ exit' = "exited"
    /\ UNCHANGED <<bootVars, userVars, drain, recov, restore, outcome, other, fileVars>>
-----------------------------------------------------------------------------
BootNext ==
    \/ AcquireLock \/ BootFails \/ BeforeOpen \/ OpenStore \/ BeforeInk
    \/ RecoverInk \/ PublishReady \/ FinishBoot

DrainNext ==
    DrainStartup \/ DrainInk \/ DrainSync \/ \E ok \in BOOLEAN : DrainStore(ok)

RestoreNext ==
    \/ BeginRestore \/ RestoreDrained \/ RestorePanics
    \/ \E ok \in BOOLEAN :
          \/ RestoreBackup(ok) \/ RestoreInstall(ok) \/ RestoreSeal(ok)
          \/ RestoreRename(ok) \/ RestoreSync(ok)

ExitNext == ExitAfterRestore \/ ExitBegins \/ ExitDrained \/ Exit

AppNext ==
    \/ OtherTakesLock
    \/ Launch
    \/ BootNext
    \/ StoreWrite \/ InkBegin \/ InkEnd
    \/ DrainNext
    \/ Prepare
    \/ \E ok \in BOOLEAN : PrepareEnds(ok)
    \/ \E token \in 1..MaxTokens : Discard(token) \/ AcceptRestore(token)
    \/ RestoreNext
    \/ RequestExit \/ ExitNext
    \/ Crash

AppSpec == AppInit /\ [][AppNext]_appVars

\* Every task that was spawned keeps being polled.
AppFairness ==
    /\ WF_appVars(BootNext)
    /\ WF_appVars(InkEnd)
    /\ WF_appVars(DrainNext)
    /\ WF_appVars(RestoreNext)
    /\ WF_appVars(ExitNext)

AppFairSpec == AppSpec /\ AppFairness
-----------------------------------------------------------------------------
\* Everything in this process that may touch the database files.
UsesDatabase ==
    /\ Running
    /\ \/ storeState = "open"
       \/ inkJobs > 0
       \/ restore \in {"backup", "install", "seal", "rename", "sync"}

\* Two processes never use the workspace at once, through startup, exit and the
\* whole of a restore (app_lock.rs:34, lib.rs:398).
Exclusive == other = "using" => ~UsesDatabase

\* When the old database is replaced, the before-restore backup holds its very
\* last committed version: nothing was written between the capture and the
\* rename (workspace.rs:13, recovery.rs:491).
NothingUnsaved ==
    database' = Incoming /\ database # Incoming => beforeBackup = database

\* The replacement is never published next to WAL frames of the database it
\* replaces, nor before its blob bodies are installed (recovery.rs:491, :74).
CleanReplacement == database = Incoming => wal # "old" /\ bodies

\* What the restore reports is what happened to the file, unless it says that it
\* does not know (recovery.rs:538).
TruthfulReport ==
    /\ outcome = "unchanged" => database # Incoming
    /\ outcome \in {"restored", "uncertain"} => database = Incoming

\* An orderly exit never ends the process in the middle of an accepted restore
\* (recovery.rs:236 begin_exit).
ExitSparesRestore ==
    Exit => restore \in {"none", "done"}

\* From its safety backup to its report nothing comes in between: no write, no
\* stroke and no exit.
RestoreUndisturbed == [][NothingUnsaved /\ ExitSparesRestore]_appVars

\* Whoever finds the data directory free finds one database in it: never two
\* processes, never a mixture of the old and the new files, never another one
\* than the restore reported.
RestoreSafe == Exclusive /\ CleanReplacement /\ TruthfulReport

\* An exit request ends in an exit, whatever startup, ink or a restore is doing
\* (lib.rs:363).
ExitCompletes == exit # "no" ~> exit = "exited"
=============================================================================
