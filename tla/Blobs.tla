-------------------------------- MODULE Blobs --------------------------------
(***************************************************************************)
(* Attachment bodies on a device (notes-blob lib.rs and lease.rs,          *)
(* src-tauri commands/attachments.rs, commands/data.rs and backup.rs,      *)
(* notes-core db/attachments.rs and store/backup.rs).  Bodies are          *)
(* content-addressed files; the attachment rows that name them live in     *)
(* SQLite and change only in transactions of the one writer.  Files are    *)
(* installed outside of it: by the attach command and the sync client      *)
(* before their row, and by an archive import inside its transaction.  A   *)
(* failed import removes again what it installed and nobody references.    *)
(* A recovery backup takes a lease on deletions, captures the rows, copies *)
(* every body it finds, and is published only if no captured row lacks one.*)
(***************************************************************************)
EXTENDS Integers, FiniteSets

CONSTANTS
    Hash,        \* blob hashes
    Attachers,   \* attach commands and downloads in flight
    Importers,   \* archive imports
    MaxBackups   \* bound on the backups that are started

VARIABLES
    bodyFiles,   \* hashes whose canonical file exists
    rows,        \* hashes an attachment row references
    leases,      \* DeletionGate::leases
    attaching,   \* attaching[a]: Nil or the hash whose body it has installed
    importing,   \* importing[i]: stage, archive and what it installed
    backup       \* the backup being written

blobVars == <<bodyFiles, rows, leases, attaching, importing, backup>>

Nil == "none"
NoBackup == [stage |-> Nil, goal |-> Nil, refs |-> {}, had |-> {}, todo |-> {},
             copied |-> {}, count |-> 0]

BodiesInit ==
    /\ bodyFiles = {}
    /\ rows = {}
    /\ leases = 0
    /\ attaching = [a \in Attachers |-> Nil]
    /\ importing = [i \in Importers |->
                      [stage |-> "idle", archive |-> {}, left |-> {}, published |-> {}]]
    /\ backup = NoBackup

\* An import's transaction occupies the writer from its rows to its commit.
WriterFree == \A i \in Importers : importing[i].stage # "tx"
-----------------------------------------------------------------------------
(* Attach and download: body first, row in a later transaction.            *)

InstallBody(a, h) ==
    /\ attaching[a] = Nil
    /\ bodyFiles' = bodyFiles \cup {h}
    /\ attaching' = [attaching EXCEPT ![a] = h]
    /\ UNCHANGED <<rows, leases, importing, backup>>

\* The row commits, or its owner is gone and the command fails; the body stays.
CommitRow(a, ok) ==
    /\ attaching[a] # Nil
    /\ WriterFree
    /\ rows' = IF ok THEN rows \cup {attaching[a]} ELSE rows
    /\ attaching' = [attaching EXCEPT ![a] = Nil]
    /\ UNCHANGED <<bodyFiles, leases, importing, backup>>
-----------------------------------------------------------------------------
(* Recovery backup, and the commands that begin with one.                  *)

\* create_backup, delete_attachment(h) and import_data(i) start it.
BeginBackup(goal) ==
    /\ backup.stage = Nil
    /\ backup.count < MaxBackups
    /\ leases' = leases + 1
    /\ backup' = [backup EXCEPT !.stage = "leased", !.goal = goal, !.count = @ + 1]
    /\ UNCHANGED <<bodyFiles, rows, attaching, importing>>

Capture ==
    /\ backup.stage = "leased"
    /\ WriterFree
    /\ backup' = [backup EXCEPT !.stage = "captured", !.refs = rows, !.had = bodyFiles]
    /\ UNCHANGED <<bodyFiles, rows, leases, attaching, importing>>

\* canonical_blobs lists the store, then each body is opened and copied.
ListBodies ==
    /\ backup.stage = "captured"
    /\ backup' = [backup EXCEPT !.stage = "copying", !.todo = bodyFiles, !.copied = {}]
    /\ UNCHANGED <<bodyFiles, rows, leases, attaching, importing>>

CopyBody(h) ==
    /\ backup.stage = "copying"
    /\ h \in backup.todo
    /\ backup' = IF h \in bodyFiles
                 THEN [backup EXCEPT !.todo = @ \ {h}, !.copied = @ \cup {h}]
                 ELSE [backup EXCEPT !.stage = "failed"]
    /\ UNCHANGED <<bodyFiles, rows, leases, attaching, importing>>

(* Mutant of ReferencesHeld: the manifest is not compared with the rows. *)
ReferencesHeld_Skip == TRUE

\* validate_references.
ReferencesHeld == backup.refs \subseteq backup.copied

Publish ==
    /\ backup.stage = "copying"
    /\ backup.todo = {}
    /\ backup' = [backup EXCEPT !.stage = IF ReferencesHeld THEN "published" ELSE "failed"]
    /\ UNCHANGED <<bodyFiles, rows, leases, attaching, importing>>

EndBackup == leases' = leases - 1 /\ backup' = [NoBackup EXCEPT !.count = backup.count]

\* A failed or merely manual backup ends here, with an error or a path.
CloseBackup ==
    /\ \/ backup.stage = "failed"
       \/ backup.stage = "published" /\ backup.goal = "manual"
    /\ EndBackup
    /\ UNCHANGED <<bodyFiles, rows, attaching, importing>>

\* delete_attachment removes metadata only.
DeleteRow(h) ==
    /\ backup.stage = "published"
    /\ backup.goal = h
    /\ WriterFree
    /\ rows' = rows \ {h}
    /\ EndBackup
    /\ UNCHANGED <<bodyFiles, attaching, importing>>
-----------------------------------------------------------------------------
(* Archive import.                                                         *)

BeginImport(i, archive) ==
    /\ backup.stage = "published"
    /\ backup.goal = i
    /\ importing[i].stage = "idle"
    /\ WriterFree
    /\ importing' = [importing EXCEPT ![i] =
           [stage |-> "tx", archive |-> archive, left |-> archive, published |-> {}]]
    /\ EndBackup
    /\ UNCHANGED <<bodyFiles, rows, attaching>>

\* publish_staged_blobs: only a body this call put there is its own.
PublishStaged(i, h) ==
    /\ importing[i].stage = "tx"
    /\ h \in importing[i].left
    /\ bodyFiles' = bodyFiles \cup {h}
    /\ importing' = [importing EXCEPT
           ![i].left = @ \ {h},
           ![i].published = IF h \in bodyFiles THEN @ ELSE @ \cup {h}]
    /\ UNCHANGED <<rows, leases, attaching, backup>>

CommitImport(i) ==
    /\ importing[i].stage = "tx"
    /\ importing[i].left = {}
    /\ rows' = rows \cup importing[i].archive
    /\ importing' = [importing EXCEPT ![i].stage = "done"]
    /\ UNCHANGED <<bodyFiles, leases, attaching, backup>>

\* A body is refused, the archive is invalid or the commit fails.
RollbackImport(i) ==
    /\ importing[i].stage = "tx"
    /\ importing' = [importing EXCEPT ![i].stage = "cleanup"]
    /\ UNCHANGED <<bodyFiles, rows, leases, attaching, backup>>

(* Mutant of Unreferenced: candidates are removed without a look at the rows. *)
Unreferenced_Unchecked(h) == TRUE

\* cleanup_unreferenced_attachment_blobs asks on the writer.
Unreferenced(h) == h \notin rows

(* Mutant of TryRemove: the removal does not ask for a lease. *)
TryRemove_NoLease(h) == bodyFiles \ {h}

\* remove_verified and DeletionGate::try_remove defer to a backup's lease.
TryRemove(h) == IF leases > 0 THEN bodyFiles ELSE bodyFiles \ {h}

Cleanup(i, h) ==
    /\ importing[i].stage = "cleanup"
    /\ h \in importing[i].published
    /\ WriterFree
    /\ bodyFiles' = IF Unreferenced(h) THEN TryRemove(h) ELSE bodyFiles
    /\ importing' = [importing EXCEPT ![i].published = @ \ {h}]
    /\ UNCHANGED <<rows, leases, attaching, backup>>
-----------------------------------------------------------------------------
BodiesNext ==
    \/ \E a \in Attachers, h \in Hash : InstallBody(a, h)
    \/ \E a \in Attachers, ok \in BOOLEAN : CommitRow(a, ok)
    \/ \E goal \in {"manual"} \cup Hash \cup Importers : BeginBackup(goal)
    \/ Capture \/ ListBodies \/ Publish \/ CloseBackup
    \/ \E h \in Hash : CopyBody(h) \/ DeleteRow(h)
    \/ \E i \in Importers :
          \/ \E archive \in SUBSET Hash \ {{}} : BeginImport(i, archive)
          \/ \E h \in Hash : PublishStaged(i, h) \/ Cleanup(i, h)
          \/ CommitImport(i)
          \/ RollbackImport(i)

BodiesSpec == BodiesInit /\ [][BodiesNext]_blobVars
-----------------------------------------------------------------------------
\* A backup fails only over a row that had already lost its body when the rows
\* were captured: no deletion that runs beside it, however the two interleave,
\* makes it miss one (backup.rs:88, lease.rs:45).
BackupUndisturbed == backup.stage = "failed" => ~(backup.refs \subseteq backup.had)

\* A published backup holds a body for every row it captured (backup.rs:183).
BackupComplete == backup.stage = "published" => backup.refs \subseteq backup.copied

\* A body is never removed in a state whose rows reference it
\* (attachments.rs:334).
NoBodyPulled == (bodyFiles \ bodyFiles') \cap rows = {}

\* No body is removed that something still needs: a row, or a backup that runs.
BodiesKept == [][NoBodyPulled /\ BackupUndisturbed' /\ BackupComplete']_blobVars
=============================================================================
