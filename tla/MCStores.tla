------------------------------ MODULE MCStores -----------------------------
(***************************************************************************)
(* Model-checking instance of the parts whose promises are safety: clocks, *)
(* workspaces, tokens, the undo history, files, drawings, indexes, imports *)
(* and links.  They share no state with one another here, so a behaviour   *)
(* follows one of them, chosen at the start, and the variables of the      *)
(* others rest in their initial state.                                     *)
(***************************************************************************)
EXTENDS HlcReplicas, History, OAuthStore, Blobs, BlobServer, InkRuntime, AiIndex,
        AiExtract, PageLinks, LogseqImport, InkVersions

CONSTANTS
  MaxOps, Devices, Servers, Nobody,                                   \* ReplicaInit
  FirstEncounter,                                                     \* BlobServer
  FirstScope,                                                         \* InkVersions
  Spellings, DateForms, IsoForm, MaxPlanFiles, MaxPlanBlocks          \* ImportPlan

ASSUME NobodyAssumption == Nobody \notin Devices \cup Servers
ASSUME HistoryAssumption ==
  HistoryLimit \in Nat \ {0} /\ FirstPage \in Page /\ FirstBlock \in Block
ASSUME ScopeAssumption == FirstScope \in InkScopes /\ FirstEncounter \in Encounters

VARIABLES
  part,     \* the part this behaviour follows
  box, dev, session, written,
  folder

replicaVars == <<box, dev, session, written>>
allVars == <<part, vars, replicaVars, oauthVars, historyVars, blobVars, uploadVars, drawingVars,
             drainVars, aiIndexVars, extractVars, importVars, folder, linkVars>>

Workspaces == INSTANCE ReplicaInit
Plan == INSTANCE ImportPlan

Parts == {"clocks", "workspaces", "oauth", "undo", "bodies", "uploads", "drawings", "drain",
          "index", "extract", "import", "plan", "links"}

StoresInit ==
  /\ part \in Parts
  /\ Init /\ Workspaces!ReplicaInitInit /\ OAuthInit /\ HistoryInit /\ BodiesInit
  /\ UploadsInit /\ DrawingInit /\ InkInit /\ IndexInit /\ ExtractInit /\ ImportInit
  /\ Plan!Init /\ LinksInit
  /\ part # "drawings" => scope = FirstScope
  /\ part # "uploads" => online = FirstEncounter

(* The parts a behaviour does not follow. *)
OthersRest ==
  /\ part # "clocks" => UNCHANGED vars
  /\ part # "workspaces" => UNCHANGED replicaVars
  /\ part # "oauth" => UNCHANGED oauthVars
  /\ part # "undo" => UNCHANGED historyVars
  /\ part # "bodies" => UNCHANGED blobVars
  /\ part # "uploads" => UNCHANGED uploadVars
  /\ part # "drawings" => UNCHANGED drawingVars
  /\ part # "drain" => UNCHANGED drainVars
  /\ part # "index" => UNCHANGED aiIndexVars
  /\ part # "extract" => UNCHANGED extractVars
  /\ part # "import" => UNCHANGED importVars
  /\ part # "plan" => UNCHANGED folder
  /\ part # "links" => UNCHANGED linkVars

StoresNext ==
  /\ UNCHANGED part /\ OthersRest
  /\ \/ part = "clocks" /\ Next
     \/ part = "workspaces" /\ Workspaces!ReplicaInitNext
     \/ part = "oauth" /\ OAuthNext
     \/ part = "undo" /\ HistoryNext
     \/ part = "bodies" /\ BodiesNext
     \/ part = "uploads" /\ UploadsNext
     \/ part = "drawings" /\ DrawingNext
     \/ part = "drain" /\ InkNext
     \/ part = "index" /\ IndexNext
     \/ part = "extract" /\ ExtractNext
     \/ part = "import" /\ ImportNext
     \/ part = "plan" /\ Plan!Next
     \/ part = "links" /\ LinksNext

StoresSpec == StoresInit /\ [][StoresNext]_allVars
----------------------------------------------------------------------------
CONSTANTS Tablet, FirstMark

(* How much of a drawing's life a behaviour covers: an eraser, a deletion of the
   note that is undone when there is room to publish it anew, or more publications. *)
PlainScope == [pens |-> InkDevices, strokes |-> Marks, erasers |-> {}, ops |-> 3, deletes |-> 0]
MCScopes == {[PlainScope EXCEPT !.pens = {Tablet}, !.erasers = {Tablet}, !.ops = 1, !.deletes = 1],
             [PlainScope EXCEPT !.strokes = {FirstMark}, !.erasers = {Tablet}, !.ops = 2],
             [PlainScope EXCEPT !.strokes = {FirstMark}, !.ops = 4, !.deletes = 1], PlainScope}

(* Titles that one, both or neither of the two normalisations take for equal. *)
Spelling(letter, width, upper) == [letter |-> letter, width |-> width, upper |-> upper]
MCSpellings == {Spelling("a", "narrow", FALSE), Spelling("a", "narrow", TRUE),
                Spelling("a", "wide", FALSE), Spelling("j", "narrow", FALSE)}
----------------------------------------------------------------------------
(* What is checked.  Each property is defined and explained in its module; it is
   evaluated in the behaviours of its own part. *)
(* Becoming one workspace loses no note (initialize_replica, bootstrap_replica). *)
JoinLossless == [][part = "workspaces" => Workspaces!JoinLossless]_allVars
(* A plan that may be confirmed is importable and means what the folder meant
   (prepare.rs, validate_batch). *)
PlanFaithful == part = "plan" => Plan!PlanFaithful
============================================================================
