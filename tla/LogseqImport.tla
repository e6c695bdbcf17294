---------------------------- MODULE LogseqImport ----------------------------
(***************************************************************************)
(* The import of a Logseq folder into the workspace: the dry run           *)
(* (prepare_logseq_import), the session it leaves behind, and the commit   *)
(* (commit_logseq_import), while the user keeps editing the folder, writes *)
(* notes, and a first synchronisation may replace the empty workspace      *)
(* (src-tauri/src/commands/logseq_import.rs, notes-import/src/scanner.rs,  *)
(* notes-core/src/external_import.rs).  A file is a number, documents      *)
(* before media, and its content is the number of edits it has seen: a     *)
(* hash is equal exactly when the content is.  What a plan makes of the    *)
(* contents is the subject of ImportPlan.                                  *)
(***************************************************************************)
EXTENDS Integers, Sequences

CONSTANTS
    Requests,       \* commands of the window that may run at once
    LastDocument,   \* files 1 .. LastDocument are documents,
    LastFile,       \*   LastDocument + 1 .. LastFile are media
    BadContents,    \* contents of a document with an error diagnostic
    MaxFolderEdits, \* bound: edits of the folder
    MaxDryRuns,     \* bound: sessions
    MaxImportFaults \* bound: failures, besides one crash

ASSUME FilesAssumption == LastDocument \in Nat /\ LastFile \in Nat

VARIABLES
    graph,      \* graph[f]: content of file f now
    since,      \* history: every state of the folder since the commit began
    request,    \* request[r]: the command r runs, how far it is and what it holds
    sessions,   \* LogseqImportSessionState: preparing, active, committing
    space,      \* the notes database: workspace, other rows, import and receipt
    stored,     \* media bodies <<file, content>> in the blob store
    shown,      \* history: shown[u]: the manifest session u was previewed with
    folderEdits,
    importFaults  \* how often a step failed, whether the app crashed

importVars == <<graph, since, request, sessions, space, stored, shown, folderEdits, importFaults>>

FolderFiles == 1 .. LastFile
Docs == 1 .. LastDocument
Media == LastDocument + 1 .. LastFile
Nothing == <<>>     \* no session, no receipt, no import, nothing read yet
NoId == 0

NoCommand == [stage |-> "idle", plan |-> Nothing, got |-> Nothing, receipt |-> Nothing,
              asked |-> NoId, published |-> {}]

ImportInit ==
    /\ graph = [f \in FolderFiles |-> 0]
    /\ since = {}
    /\ request = [r \in Requests |-> NoCommand]
    /\ sessions = [preparing |-> FALSE, active |-> Nothing, committing |-> NoId]
    /\ space = [ws |-> 0, notes |-> FALSE, import |-> Nothing, receipt |-> Nothing]
    /\ stored = {}
    /\ shown = <<>>
    /\ folderEdits = 0
    /\ importFaults = [failed |-> 0, crashed |-> FALSE]

At(r, stage) == request[r].stage = stage
Goes(r, state) == request' = [request EXCEPT ![r] = state]
Moves(r, stage) == Goes(r, [request[r] EXCEPT !.stage = stage])

\* Mutant of Released: a command that fails keeps its flag.
Released_Kept(s) == s

\* PreparingGuard and CommittingGuard are dropped on every way out.
Released(s) == [s EXCEPT !.preparing = FALSE, !.committing = NoId]

\* The command ends without a result.
Ends(r) == Goes(r, NoCommand) /\ sessions' = Released(sessions)
-----------------------------------------------------------------------------
\* The user edits the folder with another program; no edit restores an earlier
\* content.
EditFile(f) ==
    /\ folderEdits < MaxFolderEdits
    /\ folderEdits' = folderEdits + 1
    /\ graph' = [graph EXCEPT ![f] = @ + 1]
    /\ since' = since \cup {graph'}
    /\ UNCHANGED <<request, sessions, space, stored, shown, importFaults>>

HasImportState == space.notes \/ space.import # Nothing \/ space.receipt # Nothing

\* A note is written or arrives by synchronisation.
WriteNote ==
    /\ ~space.notes
    /\ space' = [space EXCEPT !.notes = TRUE]
    /\ UNCHANGED <<graph, since, request, sessions, stored, shown, folderEdits, importFaults>>

\* The first synchronisation gives an empty database the server's workspace.
AdoptWorkspace ==
    /\ space.ws = 0
    /\ ~HasImportState
    /\ space' = [space EXCEPT !.ws = 1]
    /\ UNCHANGED <<graph, since, request, sessions, stored, shown, folderEdits, importFaults>>
-----------------------------------------------------------------------------
\* The walk over the folder: config, pages, drawings, journals and assets in a
\* fixed order, each file hashed as it is at that moment.
Walk(r) ==
    LET got == request[r].got
    IN  /\ At(r, "scan") \/ At(r, "verify") \/ At(r, "verify1") \/ At(r, "verify2")
        /\ Len(got) < LastFile
        /\ Goes(r, [request[r] EXCEPT !.got = Append(got, graph[Len(got) + 1])])
        /\ UNCHANGED <<graph, since, sessions, space, stored, shown, folderEdits, importFaults>>

Walked(r, stage) == At(r, stage) /\ Len(request[r].got) = LastFile

\* Mutant of ManifestExact: only the media are compared again.
ManifestExact_Media(manifest, got) == \A f \in Media : got[f] = manifest[f]

\* ManifestVerification: Exact or Changed.
ManifestExact(manifest, got) == got = manifest

Busy == sessions.preparing \/ sessions.committing # NoId

BeginPreparing(r) ==
    /\ At(r, "idle")
    /\ Len(shown) < MaxDryRuns
    /\ ~Busy
    /\ sessions' = [sessions EXCEPT !.preparing = TRUE]
    /\ Moves(r, "pick")
    /\ UNCHANGED <<graph, since, space, stored, shown, folderEdits, importFaults>>

\* The folder dialog returns a folder, or nothing.
PickFolder(r) ==
    /\ At(r, "pick")
    /\ \/ Moves(r, "receipt") /\ UNCHANGED sessions
       \/ Ends(r)
    /\ UNCHANGED <<graph, since, space, stored, shown, folderEdits, importFaults>>

ReadReceipt(r) ==
    /\ At(r, "receipt")
    /\ Goes(r, [request[r] EXCEPT !.stage = "destination", !.receipt = space.receipt])
    /\ UNCHANGED <<graph, since, sessions, space, stored, shown, folderEdits, importFaults>>

\* The identity of the plan is the receipt's, or this workspace with a
\* namespace drawn for the session.
ReadDestination(r) ==
    LET receipt == request[r].receipt
        ident == IF receipt = Nothing THEN [ws |-> space.ws, ns |-> Len(shown) + 1]
                                      ELSE [ws |-> receipt.ws, ns |-> receipt.ns]
    IN  /\ At(r, "destination")
        /\ Goes(r, [request[r] EXCEPT
                      !.stage = "scan",
                      !.plan = [ident |-> ident, fits |-> receipt # Nothing \/ ~HasImportState,
                                manifest |-> Nothing]])
        /\ UNCHANGED <<graph, since, sessions, space, stored, shown, folderEdits, importFaults>>

\* The documents are read again and their bytes must have the scanned hash;
\* then the folder is walked a second time.
ParseDocuments(r) ==
    LET me == request[r]
    IN  /\ Walked(r, "scan")
        /\ IF \A f \in Docs : graph[f] = me.got[f]
           THEN /\ Goes(r, [me EXCEPT !.stage = "verify", !.got = Nothing,
                                      !.plan.manifest = me.got])
                /\ UNCHANGED sessions
           ELSE Ends(r)
        /\ UNCHANGED <<graph, since, space, stored, shown, folderEdits, importFaults>>

Committable(manifest) == \A f \in Docs : manifest[f] \notin BadContents

StaticCommitAllowed(plan, receipt) ==
    /\ Committable(plan.manifest)
    /\ plan.fits
    /\ receipt # Nothing => receipt.manifest = plan.manifest

\* The verified plan becomes the active session and replaces the previous one.
PublishSession(r) ==
    LET me == request[r]
        u == Len(shown) + 1
    IN  /\ Walked(r, "verify")
        /\ IF ManifestExact(me.plan.manifest, me.got)
           THEN /\ sessions' = [Released(sessions) EXCEPT
                                  !.active = [id |-> u, plan |-> me.plan,
                                              allowed |-> StaticCommitAllowed(me.plan, me.receipt)]]
                /\ shown' = Append(shown, me.plan.manifest)
                /\ Goes(r, NoCommand)
           ELSE Ends(r) /\ UNCHANGED shown
        /\ UNCHANGED <<graph, since, space, stored, folderEdits, importFaults>>

DiscardSession(u) ==
    /\ sessions.active # Nothing
    /\ sessions.active.id = u
    /\ sessions' = [sessions EXCEPT !.active = Nothing]
    /\ UNCHANGED <<graph, since, request, space, stored, shown, folderEdits, importFaults>>
-----------------------------------------------------------------------------
\* Mutant of TakesSession: whatever session is active is committed.
TakesSession_Active(u) == sessions.active # Nothing

TakesSession(u) == sessions.active # Nothing /\ sessions.active.id = u

\* begin_commit takes the session out; a session with blockers is consumed and
\* refused.
BeginCommit(r, u) ==
    /\ At(r, "idle")
    /\ ~Busy
    /\ TakesSession(u)
    /\ IF sessions.active.allowed
       THEN /\ sessions' = [sessions EXCEPT !.active = Nothing, !.committing = u]
            /\ Goes(r, [NoCommand EXCEPT !.stage = "check", !.plan = sessions.active.plan, !.asked = u])
            /\ since' = {graph}
       ELSE /\ sessions' = [sessions EXCEPT !.active = Nothing]
            /\ UNCHANGED <<request, since>>
    /\ UNCHANGED <<graph, space, stored, shown, folderEdits, importFaults>>

MatchesReceipt(plan) ==
    space.receipt = [manifest |-> plan.manifest, ws |-> plan.ident.ws, ns |-> plan.ident.ns]

\* The receipt and the emptiness of the workspace are read again.
CheckDestination(r) ==
    /\ At(r, "check")
    /\ IF IF space.receipt # Nothing THEN MatchesReceipt(request[r].plan) ELSE ~HasImportState
       THEN Moves(r, "verify1") /\ UNCHANGED sessions
       ELSE Ends(r)
    /\ UNCHANGED <<graph, since, space, stored, shown, folderEdits, importFaults>>

\* Verified before the media are read, each with its hash checked, and again
\* after: then the bodies are ready to be installed, a backup of the first
\* import's destination being written.
VerifyBefore(r) ==
    LET me == request[r]
    IN  /\ Walked(r, "verify1")
        /\ IF ManifestExact(me.plan.manifest, me.got)
           THEN Goes(r, [me EXCEPT !.stage = "media", !.got = Nothing]) /\ UNCHANGED sessions
           ELSE Ends(r)
        /\ UNCHANGED <<graph, since, space, stored, shown, folderEdits, importFaults>>

MaterializeMedia(r) ==
    /\ At(r, "media")
    /\ IF \A f \in Media : graph[f] = request[r].plan.manifest[f]
       THEN Moves(r, "verify2") /\ UNCHANGED sessions
       ELSE Ends(r)
    /\ UNCHANGED <<graph, since, space, stored, shown, folderEdits, importFaults>>

VerifyAfter(r) ==
    LET me == request[r]
    IN  /\ Walked(r, "verify2")
        /\ IF ManifestExact(me.plan.manifest, me.got)
           THEN Goes(r, [me EXCEPT !.stage = "install", !.got = Nothing]) /\ UNCHANGED sessions
           ELSE Ends(r)
        /\ UNCHANGED <<graph, since, space, stored, shown, folderEdits, importFaults>>

Body(plan, f) == <<f, plan.manifest[f]>>

\* One body at a time; those that were not there before are remembered.
InstallBlob(r) ==
    LET me == request[r]
        missing == {f \in Media : Body(me.plan, f) \notin stored}
    IN  /\ At(r, "install")
        /\ IF missing = {}
           THEN Moves(r, "apply") /\ UNCHANGED stored
           ELSE \E f \in missing :
                  /\ stored' = stored \cup {Body(me.plan, f)}
                  /\ Goes(r, [me EXCEPT !.published = @ \cup {Body(me.plan, f)}])
        /\ UNCHANGED <<graph, since, sessions, space, shown, folderEdits, importFaults>>

\* Mutant of MayApply: the emptiness read before the media is trusted.
MayApply_Trusting(plan) == plan.ident.ws = space.ws

\* Mutant of MayApply: the plan is not bound to the workspace it was made for.
MayApply_AnyWorkspace(plan) == ~HasImportState

MayApply(plan) == plan.ident.ws = space.ws /\ ~HasImportState

\* The transaction: the exact plan of the receipt changes nothing, any other
\* plan needs an empty workspace.  An error hands over to the clean-up.
ApplyImport(r) ==
    LET plan == request[r].plan
        receipt == [manifest |-> plan.manifest, ws |-> plan.ident.ws, ns |-> plan.ident.ns]
    IN  /\ At(r, "apply")
        /\ \/ /\ MatchesReceipt(plan)
              /\ Ends(r)
              /\ UNCHANGED space
           \/ /\ space.receipt = Nothing
              /\ MayApply(plan)
              /\ space' = [space EXCEPT !.import = [by |-> request[r].asked, holds |-> plan.manifest,
                                                    ws |-> plan.ident.ws],
                                        !.receipt = receipt]
              /\ Ends(r)
           \/ /\ IF space.receipt # Nothing THEN ~MatchesReceipt(plan) ELSE ~MayApply(plan)
              /\ Moves(r, "cleanup")
              /\ UNCHANGED <<space, sessions>>
        /\ UNCHANGED <<graph, since, stored, shown, folderEdits, importFaults>>

Referenced == IF space.import = Nothing THEN {}
              ELSE {<<f, space.import.holds[f]>> : f \in Media}

\* Mutant of CleanedUp: only a complete installation is undone.
CleanedUp_Complete(r) ==
    IF \A f \in Media : Body(request[r].plan, f) \in request[r].published
    THEN stored \ request[r].published ELSE stored

\* cleanup_unreferenced_attachment_blobs over the bodies this commit installed.
CleanedUp(r) == stored \ (request[r].published \ Referenced)

CleanUp(r) ==
    /\ At(r, "cleanup")
    /\ stored' = CleanedUp(r)
    /\ Ends(r)
    /\ UNCHANGED <<graph, since, space, shown, folderEdits, importFaults>>

\* A read, a write or the backup fails.  Once bodies are being installed the
\* clean-up runs first.
FailImport(r) ==
    /\ importFaults.failed < MaxImportFaults
    /\ importFaults' = [importFaults EXCEPT !.failed = @ + 1]
    /\ request[r].stage \notin {"idle", "pick", "cleanup"}
    /\ IF request[r].stage \in {"install", "apply"}
       THEN Moves(r, "cleanup") /\ UNCHANGED sessions
       ELSE Ends(r)
    /\ UNCHANGED <<graph, since, space, stored, shown, folderEdits>>

\* The app stops: sessions and commands are lost, the database, the blob store
\* and the folder stay.
CrashImport ==
    /\ ~importFaults.crashed
    /\ importFaults' = [importFaults EXCEPT !.crashed = TRUE]
    /\ request' = [r \in Requests |-> NoCommand]
    /\ sessions' = [preparing |-> FALSE, active |-> Nothing, committing |-> NoId]
    /\ UNCHANGED <<graph, since, space, stored, shown, folderEdits>>

ImportNext ==
    \/ \E f \in FolderFiles : EditFile(f)
    \/ WriteNote \/ AdoptWorkspace
    \/ \E r \in Requests :
         \/ BeginPreparing(r) \/ PickFolder(r) \/ ReadReceipt(r) \/ ReadDestination(r)
         \/ Walk(r) \/ ParseDocuments(r) \/ PublishSession(r)
         \/ \E u \in DOMAIN shown : BeginCommit(r, u)
         \/ CheckDestination(r) \/ VerifyBefore(r) \/ MaterializeMedia(r) \/ VerifyAfter(r)
         \/ InstallBlob(r) \/ ApplyImport(r) \/ CleanUp(r) \/ FailImport(r)
    \/ \E u \in DOMAIN shown : DiscardSession(u)
    \/ CrashImport

ImportSpec == ImportInit /\ [][ImportNext]_importVars
-----------------------------------------------------------------------------
\* A failed import leaves no body behind that no attachment refers to, unless
\* the app stopped in the middle (cleanup_failed_import).
NoOrphans ==
    (\A r \in Requests : request[r].stage \notin {"install", "apply", "cleanup"}) =>
      stored \subseteq Referenced \/ importFaults.crashed

\* The window is locked out exactly while a command is under way, however it
\* ends.
FlagsReleased ==
    Busy <=> \E r \in Requests : ~At(r, "idle")

\* What an import writes is the folder as it was at one moment after the user
\* confirmed - never a mixture of files from different moments, never what an
\* older dry run has seen (verify_logseq_manifest, read_manifest_document) - and
\* that is what the preview of the confirmed session was about, although a newer
\* dry run may have replaced it (begin_commit).  It never joins notes that are
\* already there, not even those written while the media were being read
\* (ensure_workspace_empty).
WritesConfirmed ==
    space'.import # space.import =>
      /\ space'.import.holds \in since
      /\ space'.import.holds = shown[space'.import.by]
      /\ ~space.notes /\ space.import = Nothing

\* Imported journals carry identities of the workspace they are in, also when
\* the first synchronisation changed it after the dry run.
OwnWorkspace == space.import # Nothing => space.import.ws = space.ws

\* An import is what was confirmed or nothing: whatever changes beside it and
\* however it ends, it leaves no mixture, no bodies and no locked window behind.
AllOrNothing ==
    [][WritesConfirmed /\ OwnWorkspace' /\ NoOrphans' /\ FlagsReleased']_importVars
=============================================================================
