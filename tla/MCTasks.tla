------------------------------ MODULE MCTasks ------------------------------
(***************************************************************************)
(* Model-checking instance of the long-running tasks of the app and the    *)
(* server, of the cycle breaker and of the document editor.  A behaviour   *)
(* follows one of them, chosen at the start; the variables of the others   *)
(* rest in their initial state, where none of their fair actions is        *)
(* enabled or the fairness is bound to the part.                           *)
(***************************************************************************)
EXTENDS SqliteWorker, InkRuntime, Workspace, SyncSocket

CONSTANTS
  Documents, MaxAiEdits, MaxAttempts, MaxConfigs, MaxResets,      \* AiIndex
  Page, Block, None,                                        \* CycleBreaking
  Note, Units, Windows, KeyMax, KeyStep, MaxUnits, MaxTicks, MaxForeignOps   \* PageDocument

ASSUME KeyAssumption == KeyStep \in 1 .. KeyMax

VARIABLES
  part,     \* the task this behaviour follows
  corpus, gens, tick, current, config, resets,
  given, parent, starts, proven, walking, path, cursor,
  doc, keyOf, base, asked, others, arrived

aiVars == <<corpus, gens, tick, current, config, resets>>
cycleVars == <<given, parent, starts, proven, walking, path, cursor>>
docVars == <<doc, keyOf, base, asked, others, arrived>>
vars == <<part, sqliteVars, appVars, drainVars, socketVars, aiVars, cycleVars, docVars>>

Ai == INSTANCE AiIndex WITH serving <- current
Cycles == INSTANCE CycleBreaking
Editor == INSTANCE PageDocument WITH Page <- {Note}, Block <- Units, Title <- {}, Journal <- {}

Init ==
  /\ part \in {"sqlite", "app", "ink", "socket", "ai", "cycles", "editor"}
  /\ SqliteInit /\ AppInit /\ InkInit /\ SocketInit /\ Ai!IndexInit /\ Cycles!Init
  /\ Editor!Init
  /\ part # "cycles" => given = [b \in Block |-> None]

(* The tasks a behaviour does not follow. *)
OthersRest ==
  /\ part # "sqlite" => UNCHANGED sqliteVars
  /\ part # "app" => UNCHANGED appVars
  /\ part # "ink" => UNCHANGED drainVars
  /\ part # "socket" => UNCHANGED socketVars
  /\ part # "ai" => UNCHANGED aiVars
  /\ part # "cycles" => UNCHANGED cycleVars
  /\ part # "editor" => UNCHANGED docVars

Next ==
  /\ UNCHANGED part /\ OthersRest
  /\ \/ part = "sqlite" /\ SqliteNext
     \/ part = "app" /\ AppNext
     \/ part = "ink" /\ InkNext
     \/ part = "socket" /\ SocketNext
     \/ part = "ai" /\ Ai!IndexNext
     \/ part = "cycles" /\ Cycles!Next
     \/ part = "editor" /\ Editor!Next

(* The executor polls every task that is ready, timers fire, and the semaphore
   and the lane serve their waiters in turn.  The actions of the socket and of
   the AI worker are enabled at the start, so their fairness names the part. *)
Following == part = "socket"

Fairness ==
  /\ SqliteFairness /\ AppFairness /\ InkFairness
  /\ WF_socketVars(Following /\ CatchUp) /\ WF_socketVars(Following /\ ConnectSocket)
  /\ WF_socketVars(Following /\ ReadBacklog) /\ WF_socketVars(Following /\ SendBacklog)
  /\ WF_socketVars(Following /\ ServePush) /\ WF_socketVars(Following /\ ServePing)
  /\ WF_socketVars(Following /\ Forward) /\ WF_socketVars(Following /\ Lagged)
  /\ WF_socketVars(Following /\ Receive) /\ WF_socketVars(Following /\ Fail)
  /\ WF_socketVars(Following /\ Isolate) /\ WF_socketVars(Following /\ Pong)
  /\ WF_socketVars(Following /\ Closed) /\ WF_socketVars(Following /\ Drain)
  /\ WF_socketVars(Following /\ Beat) /\ WF_socketVars(Following /\ BeatTimeout)
  /\ \A w \in 1 .. MaxConfigs : WF_aiVars(part = "ai" /\ Ai!Work(w))
  /\ WF_cycleVars(part = "cycles" /\ Cycles!Next)

Spec == Init /\ [][Next]_vars /\ Fairness
----------------------------------------------------------------------------
(* What is checked.  Each property is defined and explained in its module; an
   invariant is evaluated in the behaviours of its own part. *)
(* Every queued document is embedded, given up after its attempts or superseded
   (claim_jobs, fail_job). *)
JobsSettle == Ai!JobsSettle
(* The cycle breaker ends, with one result for every order of visits
   (break_structure_cycles). *)
OneResult == part = "cycles" => Cycles!OneResult
(* A replacement of a page is the draft and no more (replace_page_document). *)
ReplacementExact == Editor!ReplacementExact
============================================================================
