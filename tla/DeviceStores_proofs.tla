------------------------ MODULE DeviceStores_proofs -------------------------
(***************************************************************************)
(* Proofs about what keeps the files and the database of one device        *)
(* together: the bodies beside deletions and backups (Blobs), the thread   *)
(* every transaction goes through (SqliteWorker), and the links and change *)
(* sets the transactions leave (PageLinks).                                *)
(***************************************************************************)
EXTENDS Blobs, SqliteWorker, PageLinks, FiniteSetTheorems, TLAPS

-----------------------------------------------------------------------------
(***************************************************************************)
(* Proof that deletions and recovery backups leave each other alone        *)
(* (notes-blob lease.rs, src-tauri backup.rs, commands/data.rs), for every *)
(* set of hashes, of attach commands and of imports and for any number of  *)
(* backups.                                                                *)
(*                                                                         *)
(* What the three parts of BodiesKept rest on is the lease: it is held     *)
(* from before the rows are captured until the backup has ended, so no     *)
(* file goes away in between.  The inductive invariant counts the lease    *)
(* and follows the bodies that were there at the capture: they still are,  *)
(* and while the backup copies each of them is copied or still to come.    *)
(***************************************************************************)

BackupStages == {Nil, "leased", "captured", "copying", "published", "failed"}
Goals == {Nil, "manual"} \cup Hash \cup Importers

BodiesTyped ==
    /\ bodyFiles \in SUBSET Hash
    /\ rows \in SUBSET Hash
    /\ attaching \in [Attachers -> Hash \cup {Nil}]
    /\ importing \in [Importers -> [stage : {"idle", "tx", "done", "cleanup"},
                                    archive : SUBSET Hash, left : SUBSET Hash,
                                    published : SUBSET Hash]]
    /\ backup \in [stage : BackupStages, goal : Goals, refs : SUBSET Hash, had : SUBSET Hash,
                   todo : SUBSET Hash, copied : SUBSET Hash, count : Nat]

\* One lease from the start of a backup to its end, none without one.
LeaseHeld == leases = IF backup.stage = Nil THEN 0 ELSE 1

\* A body that was in the store when the rows were captured is there until the
\* backup has listed the store, and a listed one until it has been copied.
CaptureKept ==
    /\ backup.stage = "captured" => backup.had \subseteq bodyFiles
    /\ backup.stage = "copying" => /\ backup.todo \subseteq bodyFiles
                                   /\ backup.had \subseteq backup.todo \cup backup.copied

BodiesInv == /\ BodiesTyped
             /\ LeaseHeld
             /\ CaptureKept
             /\ BackupUndisturbed
             /\ BackupComplete
-----------------------------------------------------------------------------
LEMMA BodiesInitially == BodiesInit => BodiesInv
  BY DEF BodiesInit, BodiesInv, BodiesTyped, LeaseHeld, CaptureKept, BackupUndisturbed,
         BackupComplete, NoBackup, BackupStages, Goals, Nil

(* Ending a backup returns its lease and leaves nothing of it behind
   (Drop for DeletionLease). *)
LEMMA BackupEnds ==
  ASSUME BodiesInv, backup.stage # Nil, EndBackup
  PROVE  /\ backup' \in [stage : BackupStages, goal : Goals, refs : SUBSET Hash,
                         had : SUBSET Hash, todo : SUBSET Hash, copied : SUBSET Hash,
                         count : Nat]
         /\ LeaseHeld' /\ CaptureKept' /\ BackupUndisturbed' /\ BackupComplete'
  <1>1. backup' = [stage |-> Nil, goal |-> Nil, refs |-> {}, had |-> {}, todo |-> {},
                   copied |-> {}, count |-> backup.count] /\ leases' = 0
    BY DEF EndBackup, NoBackup, BodiesInv, LeaseHeld
  <1> QED
    BY <1>1 DEF BodiesInv, BodiesTyped, LeaseHeld, CaptureKept, BackupUndisturbed,
                BackupComplete, BackupStages, Goals, Nil

(* What a step that leaves the backup and its lease alone, and removes no body,
   keeps. *)
LEMMA BackupUntouched ==
  ASSUME BodiesInv, UNCHANGED <<leases, backup>>, bodyFiles \subseteq bodyFiles'
  PROVE  LeaseHeld' /\ CaptureKept' /\ BackupUndisturbed' /\ BackupComplete'
  BY DEF BodiesInv, LeaseHeld, CaptureKept, BackupUndisturbed, BackupComplete, ReferencesHeld

(* The cleanup of a failed import (cleanup_unreferenced_attachment_blobs,
   DeletionGate::try_remove) removes nothing while a backup holds its lease, and
   nothing a row references. *)
LEMMA CleanupSafe ==
  ASSUME BodiesInv, NEW i \in Importers, NEW h \in Hash, Cleanup(i, h)
  PROVE  BodiesInv' /\ NoBodyPulled
  <1>1. BodiesTyped'
    BY DEF BodiesInv, BodiesTyped, Cleanup, Unreferenced, TryRemove
  <1>2. NoBodyPulled
    BY DEF NoBodyPulled, Cleanup, Unreferenced, TryRemove
  <1>3. CASE backup.stage = Nil
    BY <1>1, <1>2, <1>3 DEF BodiesInv, Cleanup, LeaseHeld, CaptureKept, BackupUndisturbed,
                            BackupComplete, Nil
  <1>4. CASE backup.stage # Nil
    <2>1. leases = 1
      BY <1>4 DEF BodiesInv, LeaseHeld
    <2>2. bodyFiles' = bodyFiles
      BY <2>1 DEF Cleanup, TryRemove
    <2> QED
      BY <1>1, <1>2, <2>2, BackupUntouched DEF BodiesInv, Cleanup
  <1> QED
    BY <1>3, <1>4

LEMMA BodiesStep == BodiesInv /\ [BodiesNext]_blobVars => BodiesInv' /\ NoBodyPulled
  <1> SUFFICES ASSUME BodiesInv, [BodiesNext]_blobVars
               PROVE  BodiesInv' /\ NoBodyPulled
    OBVIOUS
  <1>1. ASSUME NEW a \in Attachers, NEW h \in Hash, InstallBody(a, h)
        PROVE  BodiesInv' /\ NoBodyPulled
    <2>1. BodiesTyped'
      BY <1>1 DEF BodiesInv, BodiesTyped, InstallBody
    <2> QED
      BY <1>1, <2>1, BackupUntouched DEF BodiesInv, InstallBody, NoBodyPulled
  <1>2. ASSUME NEW a \in Attachers, NEW ok \in BOOLEAN, CommitRow(a, ok)
        PROVE  BodiesInv' /\ NoBodyPulled
    <2>1. BodiesTyped'
      BY <1>2 DEF BodiesInv, BodiesTyped, CommitRow
    <2> QED
      BY <1>2, <2>1, BackupUntouched DEF BodiesInv, CommitRow, NoBodyPulled
  <1>3. ASSUME NEW goal \in {"manual"} \cup Hash \cup Importers, BeginBackup(goal)
        PROVE  BodiesInv' /\ NoBodyPulled
    <2>1. /\ backup.stage = Nil
          /\ backup' = [backup EXCEPT !.stage = "leased", !.goal = goal, !.count = backup.count + 1]
          /\ UNCHANGED <<bodyFiles, rows, attaching, importing>>
      BY <1>3 DEF BeginBackup
    <2>2. BodiesTyped' /\ backup'.stage = "leased"
      <3>1. backup.count + 1 \in Nat /\ goal \in Goals /\ "leased" \in BackupStages
        BY DEF BodiesInv, BodiesTyped, BackupStages, Goals
      <3>2. backup' \in [stage : BackupStages, goal : Goals, refs : SUBSET Hash, had : SUBSET Hash,
                         todo : SUBSET Hash, copied : SUBSET Hash, count : Nat]
            /\ backup'.stage = "leased"
        BY <2>1, <3>1 DEF BodiesInv, BodiesTyped
      <3> QED
        BY <2>1, <3>2 DEF BodiesInv, BodiesTyped
    <2>3. leases' = 1
      BY <1>3 DEF BeginBackup, BodiesInv, LeaseHeld
    <2> QED
      BY <2>1, <2>2, <2>3 DEF BodiesInv, LeaseHeld, CaptureKept, BackupUndisturbed,
                              BackupComplete, NoBodyPulled, Nil
  <1>4. CASE Capture
    BY <1>4 DEF BodiesInv, BodiesTyped, LeaseHeld, CaptureKept, BackupUndisturbed, BackupComplete,
                Capture, NoBodyPulled, BackupStages, Nil
  <1>5. CASE ListBodies
    BY <1>5 DEF BodiesInv, BodiesTyped, LeaseHeld, CaptureKept, BackupUndisturbed, BackupComplete,
                ListBodies, NoBodyPulled, BackupStages, Nil
  <1>6. CASE Publish
    BY <1>6 DEF BodiesInv, BodiesTyped, LeaseHeld, CaptureKept, BackupUndisturbed, BackupComplete,
                Publish, ReferencesHeld, NoBodyPulled, BackupStages, Nil
  <1>7. CASE CloseBackup
    <2>1. backup.stage # Nil
      BY <1>7 DEF CloseBackup, Nil
    <2> QED
      BY <1>7, <2>1, BackupEnds DEF BodiesInv, BodiesTyped, CloseBackup, NoBodyPulled
  <1>8. ASSUME NEW h \in Hash, CopyBody(h)
        PROVE  BodiesInv' /\ NoBodyPulled
    BY <1>8 DEF BodiesInv, BodiesTyped, LeaseHeld, CaptureKept, BackupUndisturbed, BackupComplete,
                CopyBody, NoBodyPulled, BackupStages, Nil
  <1>9. ASSUME NEW h \in Hash, DeleteRow(h)
        PROVE  BodiesInv' /\ NoBodyPulled
    <2>1. backup.stage # Nil
      BY <1>9 DEF DeleteRow, Nil
    <2> QED
      BY <1>9, <2>1, BackupEnds DEF BodiesInv, BodiesTyped, DeleteRow, NoBodyPulled
  <1>10. ASSUME NEW i \in Importers, NEW archive \in SUBSET Hash \ {{}}, BeginImport(i, archive)
         PROVE  BodiesInv' /\ NoBodyPulled
    <2>1. backup.stage # Nil
      BY <1>10 DEF BeginImport, Nil
    <2> QED
      BY <1>10, <2>1, BackupEnds DEF BodiesInv, BodiesTyped, BeginImport, NoBodyPulled
  <1>11. ASSUME NEW i \in Importers, NEW h \in Hash, PublishStaged(i, h)
         PROVE  BodiesInv' /\ NoBodyPulled
    <2>1. BodiesTyped'
      <3> DEFINE new == IF h \in bodyFiles THEN importing[i].published
                                          ELSE importing[i].published \cup {h}
      <3>1. importing[i] \in [stage : {"idle", "tx", "done", "cleanup"}, archive : SUBSET Hash,
                              left : SUBSET Hash, published : SUBSET Hash]
        BY DEF BodiesInv, BodiesTyped
      <3>2. [importing[i] EXCEPT !.left = importing[i].left \ {h}, !.published = new]
              \in [stage : {"idle", "tx", "done", "cleanup"}, archive : SUBSET Hash,
                   left : SUBSET Hash, published : SUBSET Hash]
        BY <3>1
      <3>3. importing' = [importing EXCEPT ![i] =
              [importing[i] EXCEPT !.left = importing[i].left \ {h}, !.published = new]]
        BY <1>11 DEF BodiesInv, BodiesTyped, PublishStaged
      <3> HIDE DEF new
      <3> QED
        BY <1>11, <3>2, <3>3 DEF BodiesInv, BodiesTyped, PublishStaged
    <2> QED
      BY <1>11, <2>1, BackupUntouched DEF BodiesInv, PublishStaged, NoBodyPulled
  <1>12. ASSUME NEW i \in Importers, CommitImport(i)
         PROVE  BodiesInv' /\ NoBodyPulled
    <2>1. BodiesTyped'
      BY <1>12 DEF BodiesInv, BodiesTyped, CommitImport
    <2> QED
      BY <1>12, <2>1, BackupUntouched DEF BodiesInv, CommitImport, NoBodyPulled
  <1>13. ASSUME NEW i \in Importers, RollbackImport(i)
         PROVE  BodiesInv' /\ NoBodyPulled
    <2>1. BodiesTyped'
      BY <1>13 DEF BodiesInv, BodiesTyped, RollbackImport
    <2> QED
      BY <1>13, <2>1, BackupUntouched DEF BodiesInv, RollbackImport, NoBodyPulled
  <1>14. CASE UNCHANGED blobVars
    BY <1>14 DEF blobVars, BodiesInv, BodiesTyped, LeaseHeld, CaptureKept, BackupUndisturbed,
                 BackupComplete, NoBodyPulled
  <1> QED
    BY <1>1, <1>2, <1>3, <1>4, <1>5, <1>6, <1>7, <1>8, <1>9, <1>10, <1>11, <1>12, <1>13, <1>14,
       CleanupSafe DEF BodiesNext
-----------------------------------------------------------------------------
(* A backup that is being written and the deletions beside it leave each other
   alone: however they interleave, no body goes that a row references, a backup
   fails only over a row that had already lost its body when it was captured, and
   a published one holds a body for every captured row (backup.rs:88, lease.rs:45). *)
THEOREM BodiesKeptTheorem == BodiesSpec => BodiesKept
  <1>1. BodiesInv /\ [BodiesNext]_blobVars => BackupUndisturbed' /\ BackupComplete'
    BY BodiesStep DEF BodiesInv
  <1>2. BodiesInv /\ [BodiesNext]_blobVars
          => [NoBodyPulled /\ BackupUndisturbed' /\ BackupComplete']_blobVars
    BY <1>1, BodiesStep
  <1>3. BodiesInv /\ [BodiesNext]_blobVars => BodiesInv'
    BY BodiesStep
  <1> QED
    BY BodiesInitially, <1>2, <1>3, PTL DEF BodiesSpec, BodiesKept
-----------------------------------------------------------------------------
(***************************************************************************)
(* Proof that closing the SQLite connection drops no accepted job and that *)
(* admission keeps its permits (notes-core sqlite.rs), for every finite    *)
(* set of callers and every capacity.                                      *)
(*                                                                         *)
(* JobsKept is not inductive.  It rests on what the channel holds: exactly *)
(* the accepted calls, each once, and Close only behind all of them, once  *)
(* the gate has given up the sender.  When the thread receives Close the   *)
(* channel therefore holds nothing else, and when the reaper answers no    *)
(* accepted call is left.                                                  *)
(***************************************************************************)

SqliteTyped ==
    /\ callStage \in [Callers -> Stages]
    /\ admitting \in BOOLEAN
    /\ permits \in Nat
    /\ sender \in BOOLEAN
    /\ inbox \in Seq(Callers \cup {CloseMessage})
    /\ worker \in {"opening", "running", "ended"}
    /\ closeStage \in {"no", "begun", "sent", "done"}

\* The channel holds the accepted calls and no other, each of them once.
InboxExact ==
    /\ \A c \in Accepted : \E k \in DOMAIN inbox : inbox[k] = c
    /\ \A k \in DOMAIN inbox : inbox[k] # CloseMessage => inbox[k] \in Accepted
    /\ \A j, k \in DOMAIN inbox : inbox[j] = inbox[k] => j = k

\* Close is behind every job, and nothing can be sent after it.
CloseLast ==
    /\ sender <=> closeStage \in {"no", "begun"}
    /\ \A k \in DOMAIN inbox : inbox[k] = CloseMessage => k = Len(inbox) /\ ~sender

\* Nothing is accepted before the thread runs or after it has ended, and a close
\* waiter is answered only after it has.
ThreadHonest ==
    /\ worker = "opening" => \A c \in Callers : callStage[c] = "idle"
    /\ worker = "ended" => Accepted = {}
    /\ closeStage = "done" => worker = "ended"

SqliteInv == /\ SqliteTyped
             /\ InboxExact
             /\ CloseLast
             /\ ThreadHonest
             /\ AdmissionBound
-----------------------------------------------------------------------------
(* Counting the calls in a stage: one that enters it, one that leaves it. *)
LEMMA CountCalls ==
  ASSUME NEW S \in SUBSET Callers, NEW c \in Callers
  PROVE  /\ Cardinality(S) \in Nat
         /\ Cardinality(S \cup {c}) = IF c \in S THEN Cardinality(S) ELSE Cardinality(S) + 1
         /\ Cardinality(S \ {c}) = IF c \in S THEN Cardinality(S) - 1 ELSE Cardinality(S)
  <1>1. IsFiniteSet(S)
    BY CallersAssumption, FS_Subset
  <1>2. Cardinality(S) \in Nat
    BY <1>1, FS_CardinalityType
  <1>3. Cardinality(S \cup {c}) = IF c \in S THEN Cardinality(S) ELSE Cardinality(S) + 1
    BY <1>1, FS_AddElement
  <1>4. Cardinality(S \ {c}) = IF c \in S THEN Cardinality(S) - 1 ELSE Cardinality(S)
    BY <1>1, FS_RemoveElement
  <1> QED
    BY <1>2, <1>3, <1>4

(* What a call that moves to another stage does to the two counted sets. *)
LEMMA CallMoves ==
  ASSUME SqliteTyped, NEW c \in Callers, NEW s \in Stages,
         callStage' = [callStage EXCEPT ![c] = s]
  PROVE  /\ Accepted' = IF s \in {"accepted", "unheard"} THEN Accepted \cup {c}
                                                         ELSE Accepted \ {c}
         /\ Permitted' = IF s = "permitted" THEN Permitted \cup {c} ELSE Permitted \ {c}
         /\ callStage' \in [Callers -> Stages]
  BY DEF SqliteTyped, Accepted, Permitted

LEMMA CountedSets ==
  ASSUME SqliteTyped
  PROVE  Accepted \in SUBSET Callers /\ Permitted \in SUBSET Callers
  BY DEF Accepted, Permitted

LEMMA SqliteInitially == SqliteInit => SqliteInv
  <1> SUFFICES ASSUME SqliteInit PROVE SqliteInv
    OBVIOUS
  <1>1. Accepted = {} /\ Permitted = {}
    BY DEF SqliteInit, Accepted, Permitted
  <1>2. AdmissionBound
    BY <1>1, FS_EmptySet, CallersAssumption DEF AdmissionBound, SqliteInit
  <1>3. SqliteTyped
    BY CallersAssumption DEF SqliteInit, SqliteTyped, Stages
  <1>4. InboxExact /\ CloseLast /\ ThreadHonest
    BY <1>1 DEF SqliteInit, InboxExact, CloseLast, ThreadHonest
  <1> QED
    BY <1>2, <1>3, <1>4 DEF SqliteInv
-----------------------------------------------------------------------------
(* The gate (AdmissionGate): a job joins the channel while the sender is there,
   behind the others; otherwise the call is refused and its permit returned. *)
LEMMA SubmitSafe ==
  ASSUME SqliteInv, NEW c \in Callers, Submit(c)
  PROVE  SqliteInv'
  <1> USE DEF SqliteInv
  <1>1. callStage[c] = "permitted" /\ c \in Permitted /\ c \notin Accepted
    BY DEF Submit, Permitted, Accepted
  <1>2. CASE GateOpen
    <2>1. /\ inbox' = Append(inbox, c)
          /\ callStage' = [callStage EXCEPT ![c] = "accepted"]
          /\ UNCHANGED <<permits, admitting, sender, worker, ran, closeStage>>
          /\ sender /\ worker # "ended"
      BY <1>2 DEF Submit, GateOpen
    <2>2. /\ Accepted' = Accepted \cup {c}
          /\ Permitted' = Permitted \ {c}
          /\ callStage' \in [Callers -> Stages]
      BY <2>1, CallMoves DEF Stages
    <2>3. SqliteTyped'
      BY <2>1, <2>2 DEF SqliteTyped
    <2>4. inbox \in Seq(Callers \cup {CloseMessage}) /\ c # CloseMessage
      BY CallersAssumption DEF SqliteTyped
    <2>5. /\ DOMAIN inbox' = 1 .. Len(inbox) + 1 /\ DOMAIN inbox = 1 .. Len(inbox)
          /\ Len(inbox) \in Nat /\ Len(inbox') = Len(inbox) + 1
          /\ \A k \in 1 .. Len(inbox) : inbox'[k] = inbox[k]
          /\ inbox'[Len(inbox) + 1] = c
      BY <2>1, <2>4
    <2>6. InboxExact'
      <3>1. \A d \in Accepted' : \E k \in DOMAIN inbox' : inbox'[k] = d
        BY <2>2, <2>5 DEF InboxExact
      <3>2. \A k \in DOMAIN inbox' : inbox'[k] # CloseMessage => inbox'[k] \in Accepted'
        BY <2>2, <2>5 DEF InboxExact
      <3>3. \A k \in 1 .. Len(inbox) : inbox[k] # c
        BY <2>4, <2>5, <1>1 DEF InboxExact
      <3>4. \A j, k \in DOMAIN inbox' : inbox'[j] = inbox'[k] => j = k
        BY <2>5, <3>3 DEF InboxExact
      <3> QED
        BY <3>1, <3>2, <3>4 DEF InboxExact
    <2>7. CloseLast'
      BY <2>1, <2>4, <2>5 DEF CloseLast
    <2>8. ThreadHonest'
      BY <2>1, <1>1 DEF ThreadHonest
    <2>9. AdmissionBound'
      <3>1. Cardinality(Accepted') = Cardinality(Accepted) + 1 /\ Cardinality(Accepted) \in Nat
        BY <2>2, <1>1, CountCalls, CountedSets
      <3>2. Cardinality(Permitted') = Cardinality(Permitted) - 1 /\ Cardinality(Permitted) \in Nat
        BY <2>2, <1>1, CountCalls, CountedSets
      <3> QED
        BY <2>1, <3>1, <3>2 DEF AdmissionBound, SqliteTyped
    <2> QED
      BY <2>3, <2>6, <2>7, <2>8, <2>9
  <1>3. CASE ~GateOpen
    <2>1. /\ callStage' = [callStage EXCEPT ![c] = "refused"]
          /\ permits' = permits + 1
          /\ UNCHANGED <<inbox, admitting, sender, worker, ran, closeStage>>
      BY <1>3 DEF Submit
    <2>2. /\ Accepted' = Accepted
          /\ Permitted' = Permitted \ {c}
          /\ callStage' \in [Callers -> Stages]
      <3>1. Accepted' = Accepted \ {c} /\ Permitted' = Permitted \ {c}
            /\ callStage' \in [Callers -> Stages]
        BY <2>1, CallMoves DEF Stages
      <3> QED
        BY <3>1, <1>1
    <2>3. SqliteTyped'
      BY <2>1, <2>2 DEF SqliteTyped
    <2>4. InboxExact' /\ CloseLast'
      BY <2>1, <2>2 DEF InboxExact, CloseLast
    <2>5. ThreadHonest'
      BY <2>1, <2>2, <1>1 DEF ThreadHonest
    <2>6. AdmissionBound'
      <3>1. Cardinality(Permitted') = Cardinality(Permitted) - 1 /\ Cardinality(Permitted) \in Nat
        BY <2>2, <1>1, CountCalls, CountedSets
      <3>2. Cardinality(Accepted) \in Nat
        BY CountCalls, CountedSets
      <3> QED
        BY <2>1, <2>2, <3>1, <3>2 DEF AdmissionBound, SqliteTyped
    <2> QED
      BY <2>3, <2>4, <2>5, <2>6
  <1> QED
    BY <1>2, <1>3

(* The thread runs the job at the head of the channel and gives its permit back,
   whether or not the caller still listens. *)
LEMMA RunJobSafe ==
  ASSUME SqliteInv, RunJob
  PROVE  SqliteInv'
  <1> USE DEF SqliteInv
  <1> DEFINE c == Head(inbox)
             s == IF callStage[c] = "unheard" THEN "dropped" ELSE "answered"
  <1>1. /\ inbox \in Seq(Callers \cup {CloseMessage}) /\ inbox # <<>>
        /\ DOMAIN inbox = 1 .. Len(inbox) /\ Len(inbox) \in Nat \ {0} /\ c = inbox[1]
        /\ inbox' = Tail(inbox) /\ Len(inbox') = Len(inbox) - 1
        /\ DOMAIN inbox' = 1 .. Len(inbox) - 1
        /\ \A k \in 1 .. Len(inbox) - 1 : inbox'[k] = inbox[k + 1]
    BY DEF RunJob, SqliteTyped
  <1>2. c # CloseMessage /\ c \in Accepted /\ c \in Callers /\ c \notin Permitted
    BY <1>1 DEF RunJob, InboxExact, Accepted, Permitted
  <1>3. /\ callStage' = [callStage EXCEPT ![c] = s] /\ s \in Stages \ {"accepted", "unheard", "permitted"}
        /\ permits' = permits + 1
        /\ worker = "running"
        /\ UNCHANGED <<admitting, sender, worker, closeStage>>
    BY <1>2 DEF RunJob, PermitsAfterJob, Stages, SqliteTyped
  <1> HIDE DEF c, s
  <1>4. /\ Accepted' = Accepted \ {c}
        /\ Permitted' = Permitted
        /\ callStage' \in [Callers -> Stages]
    <2>1. Accepted' = Accepted \ {c} /\ Permitted' = Permitted \ {c}
          /\ callStage' \in [Callers -> Stages]
      BY <1>2, <1>3, CallMoves
    <2> QED
      BY <2>1, <1>2
  <1>5. SqliteTyped'
    BY <1>1, <1>3, <1>4 DEF SqliteTyped
  <1>6. InboxExact'
    <2>1. \A d \in Accepted' : \E k \in DOMAIN inbox' : inbox'[k] = d
      <3>1. SUFFICES ASSUME NEW d \in Accepted' PROVE \E k \in DOMAIN inbox' : inbox'[k] = d
        OBVIOUS
      <3>2. PICK k \in DOMAIN inbox : inbox[k] = d
        BY <1>4 DEF InboxExact
      <3>3. k # 1 /\ k - 1 \in DOMAIN inbox' /\ inbox'[k - 1] = inbox[k]
        BY <1>1, <1>4, <3>2
      <3> QED
        BY <3>2, <3>3
    <2>2. \A k \in DOMAIN inbox' : k + 1 \in DOMAIN inbox /\ k + 1 # 1 /\ inbox'[k] = inbox[k + 1]
      BY <1>1
    <2>3. 1 \in DOMAIN inbox
      BY <1>1
    <2>4. \A k \in DOMAIN inbox' : inbox'[k] # CloseMessage => inbox'[k] \in Accepted'
      BY <1>1, <1>4, <2>2, <2>3 DEF InboxExact
    <2>5. \A j, k \in DOMAIN inbox' : inbox'[j] = inbox'[k] => j = k
      <3>1. SUFFICES ASSUME NEW j \in DOMAIN inbox', NEW k \in DOMAIN inbox', inbox'[j] = inbox'[k]
                     PROVE  j = k
        OBVIOUS
      <3>2. j + 1 = k + 1
        BY <3>1, <2>2 DEF InboxExact
      <3> QED
        BY <3>2, <1>1
    <2> QED
      BY <2>1, <2>4, <2>5 DEF InboxExact
  <1>7. CloseLast'
    BY <1>1, <1>3 DEF CloseLast
  <1>8. ThreadHonest'
    BY <1>3 DEF ThreadHonest
  <1>9. AdmissionBound'
    BY <1>2, <1>3, <1>4, CountCalls, CountedSets DEF AdmissionBound, SqliteTyped
  <1> QED
    BY <1>5, <1>6, <1>7, <1>8, <1>9

(* When the thread receives Close no accepted job is left behind it. *)
LEMMA ReceiveCloseSafe ==
  ASSUME SqliteInv, ReceiveClose
  PROVE  SqliteInv'
  <1> USE DEF SqliteInv
  <1>1. /\ inbox \in Seq(Callers \cup {CloseMessage}) /\ DOMAIN inbox = 1 .. Len(inbox)
        /\ Len(inbox) \in Nat \ {0} /\ inbox[1] = CloseMessage
    BY DEF ReceiveClose, SqliteTyped
  <1>2. Len(inbox) = 1
    BY <1>1 DEF CloseLast
  <1>3. Accepted = {}
    BY <1>1, <1>2, CallersAssumption DEF InboxExact, Accepted
  <1>4. UNCHANGED <<Accepted, Permitted>>
    BY DEF ReceiveClose, Accepted, Permitted
  <1>5. SqliteTyped'
    BY DEF ReceiveClose, SqliteTyped
  <1>6. InboxExact' /\ CloseLast' /\ ThreadHonest'
    BY <1>3, <1>4 DEF ReceiveClose, InboxExact, CloseLast, ThreadHonest
  <1>7. AdmissionBound'
    BY <1>4 DEF AdmissionBound, ReceiveClose
  <1> QED
    BY <1>5, <1>6, <1>7

(* begin_close: from here on the sender is gone and Close is the last message. *)
LEMMA CloseGateSafe ==
  ASSUME SqliteInv, CloseGate
  PROVE  SqliteInv'
  <1> USE DEF SqliteInv
  <1>1. UNCHANGED <<Accepted, Permitted, callStage, permits, worker, admitting>>
        /\ closeStage' = "sent" /\ sender' = FALSE /\ sender
    BY DEF CloseGate, Accepted, Permitted, CloseLast
  <1>2. ThreadHonest'
    BY <1>1 DEF ThreadHonest
  <1>3. AdmissionBound'
    BY <1>1 DEF AdmissionBound
  <1>4. CASE worker = "ended"
    <2>1. inbox' = inbox
      BY <1>4 DEF CloseGate
    <2>2. SqliteTyped' /\ InboxExact' /\ CloseLast'
      BY <1>1, <2>1 DEF SqliteTyped, InboxExact, CloseLast
    <2> QED
      BY <1>2, <1>3, <2>2
  <1>5. CASE worker # "ended"
    <2>1. inbox' = Append(inbox, CloseMessage) /\ inbox \in Seq(Callers \cup {CloseMessage})
      BY <1>5 DEF CloseGate, SqliteTyped
    <2>2. SqliteTyped'
      <3>1. inbox' \in Seq(Callers \cup {CloseMessage})
        BY <2>1
      <3> QED
        BY <1>1, <3>1 DEF SqliteTyped
    <2>3. /\ DOMAIN inbox' = 1 .. Len(inbox) + 1 /\ DOMAIN inbox = 1 .. Len(inbox)
          /\ Len(inbox) \in Nat /\ Len(inbox') = Len(inbox) + 1
          /\ \A k \in 1 .. Len(inbox) : inbox'[k] = inbox[k]
          /\ inbox'[Len(inbox) + 1] = CloseMessage
      BY <2>1
    <2>4. \A k \in 1 .. Len(inbox) : inbox[k] # CloseMessage
      BY <1>1, <2>3 DEF CloseLast
    <2>5. InboxExact'
      BY <1>1, <2>3, <2>4 DEF InboxExact
    <2>6. CloseLast'
      BY <1>1, <2>3, <2>4 DEF CloseLast
    <2> QED
      BY <1>2, <1>3, <2>2, <2>5, <2>6
  <1> QED
    BY <1>4, <1>5

(* A call that changes its stage outside the channel. *)
LEMMA CallSafe ==
  ASSUME SqliteInv, NEW c \in Callers,
         Call(c) \/ AcquirePermit(c) \/ RefusedAdmission(c) \/ DropFuture(c)
  PROVE  SqliteInv'
  <1> USE DEF SqliteInv
  <1>1. PICK s \in Stages : callStage' = [callStage EXCEPT ![c] = s]
    BY DEF Call, AcquirePermit, RefusedAdmission, DropFuture, Stages
  <1>2. UNCHANGED <<admitting, sender, inbox, worker, ran, closeStage>>
    BY DEF Call, AcquirePermit, RefusedAdmission, DropFuture
  <1>3. Accepted' = Accepted
    BY DEF Call, AcquirePermit, RefusedAdmission, DropFuture, Accepted, SqliteTyped
  <1>4. callStage' \in [Callers -> Stages]
    BY <1>1, CallMoves
  <1>5. worker # "opening"
    BY DEF Call, AcquirePermit, RefusedAdmission, DropFuture, ThreadHonest
  <1>6. permits' \in Nat /\ AdmissionBound'
    <2>1. CASE AcquirePermit(c)
      <3>1. c \notin Permitted /\ Permitted' = Permitted \cup {c} /\ permits' = permits - 1
            /\ permits > 0
        BY <2>1, CallMoves DEF AcquirePermit, Permitted, Stages
      <3> QED
        <4>1. Cardinality(Permitted') = Cardinality(Permitted) + 1 /\ Cardinality(Permitted) \in Nat
          BY <3>1, CountCalls, CountedSets
        <4>2. Cardinality(Accepted) \in Nat
          BY CountCalls, CountedSets
        <4> QED
          BY <3>1, <1>3, <4>1, <4>2 DEF AdmissionBound, SqliteTyped
    <2>2. CASE Call(c) \/ RefusedAdmission(c) \/ DropFuture(c)
      <3>1. Permitted' = Permitted /\ permits' = permits
        BY <2>2 DEF Call, RefusedAdmission, DropFuture, Permitted, SqliteTyped
      <3> QED
        BY <3>1, <1>3 DEF AdmissionBound, SqliteTyped
    <2> QED
      BY <2>1, <2>2
  <1>7. SqliteTyped'
    BY <1>2, <1>4, <1>6 DEF SqliteTyped
  <1>8. InboxExact' /\ CloseLast' /\ ThreadHonest'
    BY <1>2, <1>3, <1>5 DEF InboxExact, CloseLast, ThreadHonest
  <1> QED
    BY <1>6, <1>7, <1>8

LEMMA SqliteStep == SqliteInv /\ [SqliteNext]_sqliteVars => SqliteInv'
  <1> SUFFICES ASSUME SqliteInv, [SqliteNext]_sqliteVars PROVE SqliteInv'
    OBVIOUS
  <1>1. ASSUME NEW ok \in BOOLEAN, Opened(ok) PROVE SqliteInv'
    <2>1. UNCHANGED <<Accepted, Permitted>> /\ Accepted = {}
      BY <1>1 DEF Opened, Accepted, Permitted, SqliteInv, ThreadHonest
    <2>2. AdmissionBound'
      BY <1>1, <2>1 DEF AdmissionBound, Opened, SqliteInv
    <2> QED
      BY <1>1, <2>1, <2>2 DEF Opened, SqliteInv, SqliteTyped, InboxExact, CloseLast, ThreadHonest
  <1>2. CASE CloseAdmission
    <2>1. UNCHANGED <<Accepted, Permitted>>
      BY <1>2 DEF CloseAdmission, Accepted, Permitted
    <2>2. AdmissionBound'
      BY <1>2, <2>1 DEF AdmissionBound, CloseAdmission, SqliteInv
    <2> QED
      BY <1>2, <2>1, <2>2 DEF CloseAdmission, SqliteInv, SqliteTyped, InboxExact, CloseLast,
                              ThreadHonest
  <1>3. CASE Reap
    <2>1. UNCHANGED <<Accepted, Permitted>>
      BY <1>3 DEF Reap, Accepted, Permitted
    <2>2. AdmissionBound'
      BY <1>3, <2>1 DEF AdmissionBound, Reap, SqliteInv
    <2> QED
      BY <1>3, <2>1, <2>2 DEF Reap, SqliteInv, SqliteTyped, InboxExact, CloseLast, ThreadHonest
  <1>4. CASE UNCHANGED sqliteVars
    <2>1. UNCHANGED <<Accepted, Permitted>>
      BY <1>4 DEF sqliteVars, Accepted, Permitted
    <2>2. AdmissionBound'
      BY <1>4, <2>1 DEF AdmissionBound, sqliteVars, SqliteInv
    <2> QED
      BY <1>4, <2>1, <2>2 DEF sqliteVars, SqliteInv, SqliteTyped, InboxExact, CloseLast,
                              ThreadHonest
  <1> QED
    BY <1>1, <1>2, <1>3, <1>4, CallSafe, SubmitSafe, RunJobSafe, ReceiveCloseSafe, CloseGateSafe
       DEF SqliteNext
-----------------------------------------------------------------------------
(* Close never drops an accepted job, however submissions, dropped futures and
   the closing of semaphore and gate interleave, and permits are neither lost nor
   invented: what is admitted stays within MAX_ACCEPTED_JOBS (sqlite.rs:18, 240). *)
THEOREM JobsKeptTheorem == SqliteSpec => []JobsKept
  <1>1. SqliteInv => JobsKept
    BY DEF SqliteInv, ThreadHonest, JobsKept, AcceptedRun
  <1> QED
    BY SqliteInitially, SqliteStep, <1>1, PTL DEF SqliteSpec
-----------------------------------------------------------------------------
(***************************************************************************)
(* Proof that page links and change sets keep up with the texts and titles *)
(* (operation.rs ApplyEffects, changes.rs ChangeTracker), for every set of *)
(* pages, blocks and titles and any number of operations.                  *)
(*                                                                         *)
(* Inside a transaction the links are not right: a title may have changed  *)
(* hands whose links are still pending.  What every operation does keep is *)
(* SoundBut: the links are right except for the pending titles and texts,  *)
(* each pending text has a block, and each before-image shows its row as   *)
(* it was when the transaction began, rows without one being unchanged.    *)
(* finish_projections removes the exceptions; the change set follows from  *)
(* the images.                                                             *)
(***************************************************************************)

Partial(S, T) == UNION {[xs -> T] : xs \in SUBSET S}

NoteRow == [exist : Nat, title : LinkTitles \cup {NoPage}, titleHlc : Nat]
TextRow == [exist : Nat, page : LinkPages \cup {NoPage}, text : SUBSET LinkTitles, md : Nat]
LinkRow == LinkTitles \X (LinkPages \cup {NoPage})

LinkDb == [pages : [LinkPages -> NoteRow],
           blocks : [LinkBlocks -> TextRow],
           links : [LinkBlocks -> SUBSET LinkRow],
           aliases : [LinkPages \X LinkTitles -> [hlc : Nat, present : BOOLEAN]],
           tomb : [Rows -> Nat]]

Effects == [open : {TRUE}, deferred : BOOLEAN, refs : SUBSET LinkBlocks,
            aliases : SUBSET LinkTitles, pages : Partial(LinkPages, NoteRow),
            blocks : Partial(LinkBlocks, TextRow), graph : Partial(LinkBlocks, SUBSET LinkRow),
            failed : {FALSE}]

\* A row that is gone has no title.
Untitled(n) == \A p \in LinkPages : n.pages[p].exist = 0 => n.pages[p].title = NoPage

\* The links of a block are those of its text, and those whose title is outside
\* ts go to the page that answers to it.
BlockLinked(n, b, ts) ==
    /\ \A l \in n.links[b] :
         l[1] \in n.blocks[b].text /\ (l[1] \in ts \/ l[2] = ResolveAlias(n, l[1]))
    /\ \A t \in n.blocks[b].text : \E l \in n.links[b] : l[1] = t

LinkedBut(n, ts, bs) == \A b \in LinkBlocks \ bs : BlockLinked(n, b, ts)

\* The before-images are what the rows were when the transaction began, and a
\* row without one has not changed since.
ImagesOf(images, then, now) ==
    \A x \in DOMAIN now :
      IF x \in DOMAIN images THEN images[x] = then[x] ELSE now[x] = then[x]

Imaged(n, e) ==
    /\ ImagesOf(e.pages, before.pages, n.pages)
    /\ ImagesOf(e.blocks, before.blocks, n.blocks)
    /\ ImagesOf(e.graph, before.links, n.links)

Pending(n, e) == e.refs \subseteq LiveTexts(n)

\* What every operation of a transaction keeps, but for the links of the titles
\* ts and the blocks bs.
SoundBut(s, ts, bs) ==
    /\ s \in [n : LinkDb, e : Effects]
    /\ Untitled(s.n)
    /\ Imaged(s.n, s.e)
    /\ Pending(s.n, s.e)
    /\ LinkedBut(s.n, s.e.aliases \cup ts, s.e.refs \cup bs)

Sound(s) == SoundBut(s, {}, {})

(* A function on some of the members of S. *)
LEMMA PartialFun ==
  ASSUME NEW S, NEW T, NEW f \in Partial(S, T)
  PROVE  /\ DOMAIN f \subseteq S
         /\ f \in [DOMAIN f -> T]
<1>1. PICK xs \in SUBSET S : f \in [xs -> T]
  BY DEF Partial
<1> QED BY <1>1

(* Taking before-images adds rows to those that have one already. *)
LEMMA BeforeImagesFun ==
  ASSUME NEW S, NEW T, NEW f \in Partial(S, T), NEW xs \in SUBSET S, NEW now \in [xs -> T]
  PROVE  BeforeImages(f, now) \in Partial(S, T)
<1> DEFINE h == BeforeImages(f, now)
<1>1. h = [x \in (DOMAIN f) \cup xs |-> IF x \in DOMAIN f THEN f[x] ELSE now[x]]
  BY DEF BeforeImages
<1>2. \A x \in DOMAIN f \cup xs : h[x] = IF x \in DOMAIN f THEN f[x] ELSE now[x]
  BY <1>1
<1>3. DOMAIN h = DOMAIN f \cup xs /\ DOMAIN h \in SUBSET S
  BY <1>1, PartialFun
<1>4. h \in [DOMAIN h -> T]
  <2>1. \A x \in DOMAIN h : h[x] \in T
    BY <1>2, <1>3, PartialFun
  <2> QED BY <1>1, <1>3, <2>1
<1> QED BY <1>3, <1>4 DEF Partial

(* ChangeTracker::capture_page: the images stay those of the beginning, and a row
   that has none yet has not been changed before. *)
LEMMA CapturePagesSound ==
  ASSUME NEW n \in LinkDb, NEW e \in Effects, NEW xs \in SUBSET LinkPages
  PROVE  LET f == CapturePages(e, n, xs)
         IN /\ f \in Effects
            /\ DOMAIN f.pages = DOMAIN e.pages \cup xs
            /\ f.open = e.open /\ f.deferred = e.deferred /\ f.refs = e.refs /\ f.aliases = e.aliases
            /\ f.blocks = e.blocks /\ f.graph = e.graph /\ f.failed = e.failed
            /\ Imaged(n, e) => Imaged(n, f)
<1> DEFINE f == CapturePages(e, n, xs)
           now == [x \in xs |-> n.pages[x]]
           h == BeforeImages(e.pages, now)
<1>1. n.pages \in [LinkPages -> NoteRow] /\ e.pages \in Partial(LinkPages, NoteRow)
  BY DEF LinkDb, Effects
<1>2. now \in [xs -> NoteRow] /\ \A x \in xs : now[x] = n.pages[x]
  BY <1>1
<1> HIDE DEF now
<1>3. /\ h \in Partial(LinkPages, NoteRow) /\ DOMAIN h = DOMAIN e.pages \cup xs
      /\ \A x \in DOMAIN h : h[x] = IF x \in DOMAIN e.pages THEN e.pages[x] ELSE n.pages[x]
  <2>1. h \in Partial(LinkPages, NoteRow)
    BY <1>1, <1>2, BeforeImagesFun
  <2>2. DOMAIN now = xs
    BY <1>2
  <2>3. /\ DOMAIN h = DOMAIN e.pages \cup DOMAIN now
        /\ \A x \in DOMAIN e.pages \cup DOMAIN now :
             h[x] = IF x \in DOMAIN e.pages THEN e.pages[x] ELSE now[x]
    BY DEF BeforeImages
  <2> HIDE DEF h
  <2> QED BY <1>2, <2>1, <2>2, <2>3
<1>4. f = [e EXCEPT !.pages = h]
  BY DEF now, CapturePages
<1> HIDE DEF h, f
<1>5. /\ f \in Effects /\ f.pages = h
      /\ f.open = e.open /\ f.deferred = e.deferred /\ f.refs = e.refs /\ f.aliases = e.aliases
      /\ f.blocks = e.blocks /\ f.graph = e.graph /\ f.failed = e.failed
  BY <1>3, <1>4 DEF Effects
<1>6. Imaged(n, e) => Imaged(n, f)
  BY <1>1, <1>3, <1>5 DEF Imaged, ImagesOf
<1>7. DOMAIN f.pages = DOMAIN e.pages \cup xs
  BY <1>3, <1>5
<1> QED BY <1>5, <1>6, <1>7 DEF f

(* ChangeTracker::capture_block. *)
LEMMA CaptureBlocksSound ==
  ASSUME NEW n \in LinkDb, NEW e \in Effects, NEW xs \in SUBSET LinkBlocks
  PROVE  LET f == CaptureBlocks(e, n, xs)
         IN /\ f \in Effects
            /\ DOMAIN f.blocks = DOMAIN e.blocks \cup xs
            /\ f.open = e.open /\ f.deferred = e.deferred /\ f.refs = e.refs /\ f.aliases = e.aliases
            /\ f.pages = e.pages /\ f.graph = e.graph /\ f.failed = e.failed
            /\ Imaged(n, e) => Imaged(n, f)
<1> DEFINE f == CaptureBlocks(e, n, xs)
           now == [x \in xs |-> n.blocks[x]]
           h == BeforeImages(e.blocks, now)
<1>1. n.blocks \in [LinkBlocks -> TextRow] /\ e.blocks \in Partial(LinkBlocks, TextRow)
  BY DEF LinkDb, Effects
<1>2. now \in [xs -> TextRow] /\ \A x \in xs : now[x] = n.blocks[x]
  BY <1>1
<1> HIDE DEF now
<1>3. /\ h \in Partial(LinkBlocks, TextRow) /\ DOMAIN h = DOMAIN e.blocks \cup xs
      /\ \A x \in DOMAIN h : h[x] = IF x \in DOMAIN e.blocks THEN e.blocks[x] ELSE n.blocks[x]
  <2>1. h \in Partial(LinkBlocks, TextRow)
    BY <1>1, <1>2, BeforeImagesFun
  <2>2. DOMAIN now = xs
    BY <1>2
  <2>3. /\ DOMAIN h = DOMAIN e.blocks \cup DOMAIN now
        /\ \A x \in DOMAIN e.blocks \cup DOMAIN now :
             h[x] = IF x \in DOMAIN e.blocks THEN e.blocks[x] ELSE now[x]
    BY DEF BeforeImages
  <2> HIDE DEF h
  <2> QED BY <1>2, <2>1, <2>2, <2>3
<1>4. f = [e EXCEPT !.blocks = h]
  BY DEF now, CaptureBlocks
<1> HIDE DEF h, f
<1>5. /\ f \in Effects /\ f.blocks = h
      /\ f.open = e.open /\ f.deferred = e.deferred /\ f.refs = e.refs /\ f.aliases = e.aliases
      /\ f.pages = e.pages /\ f.graph = e.graph /\ f.failed = e.failed
  BY <1>3, <1>4 DEF Effects
<1>6. Imaged(n, e) => Imaged(n, f)
  BY <1>1, <1>3, <1>5 DEF Imaged, ImagesOf
<1>7. DOMAIN f.blocks = DOMAIN e.blocks \cup xs
  BY <1>3, <1>5
<1> QED BY <1>5, <1>6, <1>7 DEF f

(* ChangeTracker::capture_links. *)
LEMMA CaptureGraphSound ==
  ASSUME NEW n \in LinkDb, NEW e \in Effects, NEW xs \in SUBSET LinkBlocks
  PROVE  LET f == CaptureGraph(e, n, xs)
         IN /\ f \in Effects
            /\ DOMAIN f.graph = DOMAIN e.graph \cup xs
            /\ f.open = e.open /\ f.deferred = e.deferred /\ f.refs = e.refs /\ f.aliases = e.aliases
            /\ f.pages = e.pages /\ f.blocks = e.blocks /\ f.failed = e.failed
            /\ Imaged(n, e) => Imaged(n, f)
<1> DEFINE f == CaptureGraph(e, n, xs)
           now == [x \in xs |-> n.links[x]]
           h == BeforeImages(e.graph, now)
<1>1. n.links \in [LinkBlocks -> SUBSET LinkRow] /\ e.graph \in Partial(LinkBlocks, SUBSET LinkRow)
  BY DEF LinkDb, Effects
<1>2. now \in [xs -> SUBSET LinkRow] /\ \A x \in xs : now[x] = n.links[x]
  BY <1>1
<1> HIDE DEF now
<1>3. /\ h \in Partial(LinkBlocks, SUBSET LinkRow) /\ DOMAIN h = DOMAIN e.graph \cup xs
      /\ \A x \in DOMAIN h : h[x] = IF x \in DOMAIN e.graph THEN e.graph[x] ELSE n.links[x]
  <2>1. h \in Partial(LinkBlocks, SUBSET LinkRow)
    BY <1>1, <1>2, BeforeImagesFun
  <2>2. DOMAIN now = xs
    BY <1>2
  <2>3. /\ DOMAIN h = DOMAIN e.graph \cup DOMAIN now
        /\ \A x \in DOMAIN e.graph \cup DOMAIN now :
             h[x] = IF x \in DOMAIN e.graph THEN e.graph[x] ELSE now[x]
    BY DEF BeforeImages
  <2> HIDE DEF h
  <2> QED BY <1>2, <2>1, <2>2, <2>3
<1>4. f = [e EXCEPT !.graph = h]
  BY DEF now, CaptureGraph
<1> HIDE DEF h, f
<1>5. /\ f \in Effects /\ f.graph = h
      /\ f.open = e.open /\ f.deferred = e.deferred /\ f.refs = e.refs /\ f.aliases = e.aliases
      /\ f.pages = e.pages /\ f.blocks = e.blocks /\ f.failed = e.failed
  BY <1>3, <1>4 DEF Effects
<1>6. Imaged(n, e) => Imaged(n, f)
  BY <1>1, <1>3, <1>5 DEF Imaged, ImagesOf
<1>7. DOMAIN f.graph = DOMAIN e.graph \cup xs
  BY <1>3, <1>5
<1> QED BY <1>5, <1>6, <1>7 DEF f

(* Who answers to a title depends on the candidates for it only. *)
LEMMA CandidatesResolve ==
  ASSUME NEW m, NEW n, NEW t, Candidates(m, t) = Candidates(n, t)
  PROVE  ResolveAlias(m, t) = ResolveAlias(n, t)
BY DEF ResolveAlias

(* A title leads to a page that has it, or to none. *)
LEMMA ResolveType ==
  ASSUME NEW n, NEW t
  PROVE  /\ ResolveAlias(n, t) \in LinkPages \cup {NoPage}
         /\ ResolveAlias(n, t) # NoPage => ResolveAlias(n, t) \in Candidates(n, t)
<1>1. CASE Cardinality(Candidates(n, t)) = 1
  <2>1. Candidates(n, t) # {}
    BY <1>1, FS_EmptySet
  <2>2. (CHOOSE p \in Candidates(n, t) : TRUE) \in Candidates(n, t)
    BY <2>1
  <2>3. Candidates(n, t) \subseteq LinkPages
    BY DEF Candidates, LiveNotes
  <2> QED BY <1>1, <2>2, <2>3 DEF ResolveAlias
<1>2. CASE Cardinality(Candidates(n, t)) # 1
  BY <1>2 DEF ResolveAlias
<1> QED BY <1>1, <1>2

\* Who answers to a title depends on pages and aliases only.
LEMMA SameResolve ==
  ASSUME NEW m, NEW n, m.pages = n.pages, m.aliases = n.aliases, NEW t
  PROVE  ResolveAlias(m, t) = ResolveAlias(n, t)
<1>1. Candidates(m, t) = Candidates(n, t)
  BY DEF Candidates, LiveNotes
<1> QED BY <1>1, CandidatesResolve

(* reconcile_page_links_for_alias brings the links of the titles ts up to date and
   touches no other row than those Linking names. *)
LEMMA RetargetedSound ==
  ASSUME NEW n \in LinkDb, NEW ts \in SUBSET LinkTitles, NEW us, NEW bs,
         LinkedBut(n, ts \cup us, bs)
  PROVE  LET m == Retargeted(n, ts)
         IN /\ m \in LinkDb
            /\ m.pages = n.pages /\ m.blocks = n.blocks /\ m.aliases = n.aliases /\ m.tomb = n.tomb
            /\ \A b \in LinkBlocks \ Linking(n, ts) : m.links[b] = n.links[b]
            /\ LinkedBut(m, us, bs)
<1> DEFINE links == [b \in LinkBlocks |->
                       {IF l[1] \in ts THEN <<l[1], ResolveAlias(n, l[1])>> ELSE l : l \in n.links[b]}]
           m == Retargeted(n, ts)
<1>1. m = [n EXCEPT !.links = links]
  BY DEF Retargeted
<1>2. \A b \in LinkBlocks : n.links[b] \in SUBSET LinkRow
  BY DEF LinkDb
<1>3. links \in [LinkBlocks -> SUBSET LinkRow]
  <2> SUFFICES ASSUME NEW b \in LinkBlocks, NEW l \in n.links[b]
               PROVE  (IF l[1] \in ts THEN <<l[1], ResolveAlias(n, l[1])>> ELSE l) \in LinkRow
    OBVIOUS
  <2>1. l \in LinkRow
    BY <1>2
  <2> QED BY <2>1, ResolveType DEF LinkRow
<1>4. \A b \in LinkBlocks : links[b] =
         {IF l[1] \in ts THEN <<l[1], ResolveAlias(n, l[1])>> ELSE l : l \in n.links[b]}
  OBVIOUS
<1> HIDE DEF links, m
<1>5. /\ m \in LinkDb /\ m.links = links
      /\ m.pages = n.pages /\ m.blocks = n.blocks /\ m.aliases = n.aliases /\ m.tomb = n.tomb
  BY <1>1, <1>3 DEF LinkDb
<1>6. \A b \in LinkBlocks \ Linking(n, ts) : m.links[b] = n.links[b]
  <2> SUFFICES ASSUME NEW b \in LinkBlocks \ Linking(n, ts)
               PROVE  links[b] = n.links[b]
    BY <1>5
  <2>1. \A l \in n.links[b] : l[1] \notin ts
    BY DEF Linking
  <2> QED BY <1>4, <2>1
<1>7. \A t : ResolveAlias(m, t) = ResolveAlias(n, t)
  BY <1>5, SameResolve
<1>8. LinkedBut(m, us, bs)
  <2> SUFFICES ASSUME NEW b \in LinkBlocks \ bs
               PROVE  BlockLinked(m, b, us)
    BY DEF LinkedBut
  <2>1. BlockLinked(n, b, ts \cup us)
    BY DEF LinkedBut
  <2>2. ASSUME NEW l \in m.links[b]
        PROVE  l[1] \in n.blocks[b].text /\ (l[1] \in us \/ l[2] = ResolveAlias(n, l[1]))
    <3>1. PICK k \in n.links[b] : l = IF k[1] \in ts THEN <<k[1], ResolveAlias(n, k[1])>> ELSE k
      BY <1>4, <1>5
    <3>2. CASE k[1] \in ts
      <4>1. l[1] = k[1] /\ l[2] = ResolveAlias(n, k[1])
        BY <3>1, <3>2
      <4> QED BY <2>1, <4>1 DEF BlockLinked
    <3>3. CASE k[1] \notin ts
      BY <2>1, <3>1, <3>3 DEF BlockLinked
    <3> QED BY <3>2, <3>3
  <2>3. ASSUME NEW t \in n.blocks[b].text
        PROVE  \E l \in m.links[b] : l[1] = t
    <3>1. PICK k \in n.links[b] : k[1] = t
      BY <2>1 DEF BlockLinked
    <3> DEFINE l == IF k[1] \in ts THEN <<k[1], ResolveAlias(n, k[1])>> ELSE k
    <3>2. l \in m.links[b] /\ l[1] = t
      BY <1>4, <1>5, <3>1
    <3> QED BY <3>2
  <2> QED BY <1>5, <1>7, <2>2, <2>3 DEF BlockLinked
<1> QED BY <1>5, <1>6, <1>8 DEF m

(* replace_block_refs brings the links of the blocks xs up to date. *)
LEMMA RelinkedSound ==
  ASSUME NEW n \in LinkDb, NEW xs \in SUBSET LinkBlocks, NEW us, NEW bs,
         LinkedBut(n, us, xs \cup bs)
  PROVE  LET m == Relinked(n, xs)
         IN /\ m \in LinkDb
            /\ m.pages = n.pages /\ m.blocks = n.blocks /\ m.aliases = n.aliases /\ m.tomb = n.tomb
            /\ \A b \in LinkBlocks \ xs : m.links[b] = n.links[b]
            /\ LinkedBut(m, us, bs)
<1> DEFINE links == [b \in LinkBlocks |->
                       IF b \in xs THEN {<<t, ResolveAlias(n, t)>> : t \in n.blocks[b].text}
                       ELSE n.links[b]]
           m == Relinked(n, xs)
<1>1. m = [n EXCEPT !.links = links]
  BY DEF Relinked
<1>2. \A b \in LinkBlocks : n.blocks[b].text \in SUBSET LinkTitles /\ n.links[b] \in SUBSET LinkRow
  BY DEF LinkDb, TextRow
<1>3. links \in [LinkBlocks -> SUBSET LinkRow]
  BY <1>2, ResolveType DEF LinkRow
<1>4. \A b \in LinkBlocks : links[b] =
         IF b \in xs THEN {<<t, ResolveAlias(n, t)>> : t \in n.blocks[b].text} ELSE n.links[b]
  OBVIOUS
<1> HIDE DEF links, m
<1>5. /\ m \in LinkDb /\ m.links = links
      /\ m.pages = n.pages /\ m.blocks = n.blocks /\ m.aliases = n.aliases /\ m.tomb = n.tomb
  BY <1>1, <1>3 DEF LinkDb
<1>6. \A b \in LinkBlocks \ xs : m.links[b] = n.links[b]
  BY <1>4, <1>5
<1>7. \A t : ResolveAlias(m, t) = ResolveAlias(n, t)
  BY <1>5, SameResolve
<1>8. LinkedBut(m, us, bs)
  <2> SUFFICES ASSUME NEW b \in LinkBlocks \ bs
               PROVE  BlockLinked(m, b, us)
    BY DEF LinkedBut
  <2>1. CASE b \notin xs
    <3>1. BlockLinked(n, b, us)
      BY <2>1 DEF LinkedBut
    <3> QED BY <1>5, <1>6, <1>7, <2>1, <3>1 DEF BlockLinked
  <2>2. CASE b \in xs
    <3>1. ASSUME NEW l \in m.links[b]
          PROVE  l[1] \in n.blocks[b].text /\ l[2] = ResolveAlias(n, l[1])
      <4>1. PICK t \in n.blocks[b].text : l = <<t, ResolveAlias(n, t)>>
        BY <1>4, <1>5, <2>2
      <4>2. l[1] = t /\ l[2] = ResolveAlias(n, t)
        BY <4>1
      <4> QED BY <4>2
    <3>2. ASSUME NEW t \in n.blocks[b].text
          PROVE  \E l \in m.links[b] : l[1] = t
      <4>1. <<t, ResolveAlias(n, t)>> \in m.links[b] /\ <<t, ResolveAlias(n, t)>>[1] = t
        BY <1>4, <1>5, <2>2
      <4> QED BY <4>1
    <3> QED BY <1>5, <1>7, <3>1, <3>2 DEF BlockLinked
  <2> QED BY <2>1, <2>2
<1> QED BY <1>5, <1>6, <1>8 DEF m

\* Changing links only, with their before-images taken.
LEMMA LinksOnlyImaged ==
  ASSUME NEW n \in LinkDb, NEW m \in LinkDb, NEW e \in Effects, Imaged(n, e),
         m.pages = n.pages, m.blocks = n.blocks,
         \A b \in LinkBlocks \ DOMAIN e.graph : m.links[b] = n.links[b]
  PROVE  Imaged(m, e)
<1>1. DOMAIN m.links = LinkBlocks /\ DOMAIN n.links = LinkBlocks
  BY DEF LinkDb
<1> QED BY <1>1 DEF Imaged, ImagesOf

(* request_page_links: the links of ts are right again at once, or the titles are
   pending. *)
LEMMA RequestLinksSound ==
  ASSUME NEW s, NEW ts \in SUBSET LinkTitles, NEW us, NEW bs,
         SoundBut(s, ts \cup us, bs)
  PROVE  LET r == RequestLinks(s, ts)
         IN /\ SoundBut(r, us, bs)
            /\ r.n.pages = s.n.pages /\ r.n.blocks = s.n.blocks /\ r.n.aliases = s.n.aliases
            /\ r.n.tomb = s.n.tomb
            /\ DOMAIN r.e.pages = DOMAIN s.e.pages /\ DOMAIN r.e.blocks = DOMAIN s.e.blocks
<1> DEFINE r == RequestLinks(s, ts)
<1>1. /\ s.n \in LinkDb /\ s.e \in Effects /\ s = [n |-> s.n, e |-> s.e]
      /\ LinkedBut(s.n, s.e.aliases \cup (ts \cup us), s.e.refs \cup bs)
      /\ Untitled(s.n) /\ Imaged(s.n, s.e) /\ Pending(s.n, s.e)
  BY DEF SoundBut
<1>2. CASE s.e.deferred
  <2>1. r = [s EXCEPT !.e.aliases = @ \cup ts]
    BY <1>2 DEF RequestLinks
  <2> HIDE DEF r
  <2>2. /\ r.n = s.n /\ r.e \in Effects /\ r = [n |-> r.n, e |-> r.e]
        /\ r.e.aliases = s.e.aliases \cup ts /\ r.e.refs = s.e.refs
        /\ r.e.pages = s.e.pages /\ r.e.blocks = s.e.blocks /\ r.e.graph = s.e.graph
    BY <1>1, <2>1 DEF Effects
  <2>3. s.e.aliases \cup (ts \cup us) = r.e.aliases \cup us
    BY <2>2
  <2>4. SoundBut(r, us, bs)
    BY <1>1, <2>2, <2>3 DEF SoundBut, Imaged, Pending
  <2> QED BY <2>2, <2>4 DEF r
<1>3. CASE ~s.e.deferred
  <2> DEFINE m == Retargeted(s.n, ts)
             xs == Linking(s.n, ts)
             f == CaptureGraph(s.e, s.n, xs)
  <2>1. r = [n |-> m, e |-> f]
    BY <1>3 DEF RequestLinks
  <2>2. xs \in SUBSET LinkBlocks
    BY DEF Linking
  <2>3. LinkedBut(s.n, ts \cup (s.e.aliases \cup us), s.e.refs \cup bs)
    <3>1. s.e.aliases \cup (ts \cup us) = ts \cup (s.e.aliases \cup us)
      OBVIOUS
    <3> QED BY <1>1, <3>1
  <2>4. /\ m \in LinkDb
        /\ m.pages = s.n.pages /\ m.blocks = s.n.blocks /\ m.aliases = s.n.aliases /\ m.tomb = s.n.tomb
        /\ \A b \in LinkBlocks \ xs : m.links[b] = s.n.links[b]
        /\ LinkedBut(m, s.e.aliases \cup us, s.e.refs \cup bs)
    BY <1>1, <2>3, RetargetedSound
  <2>5. /\ f \in Effects /\ DOMAIN f.graph = DOMAIN s.e.graph \cup xs
        /\ f.refs = s.e.refs /\ f.aliases = s.e.aliases /\ f.pages = s.e.pages /\ f.blocks = s.e.blocks
        /\ Imaged(s.n, f)
    BY <1>1, <2>2, CaptureGraphSound
  <2> HIDE DEF m, f, xs
  <2>6. Imaged(m, f)
    BY <1>1, <2>4, <2>5, LinksOnlyImaged
  <2>7. SoundBut([n |-> m, e |-> f], us, bs)
    BY <1>1, <2>4, <2>5, <2>6 DEF SoundBut, Untitled, Pending, LiveTexts
  <2> QED BY <2>1, <2>4, <2>5, <2>7
<1>4. s.e.deferred \in BOOLEAN
  BY <1>1 DEF Effects
<1> QED BY <1>2, <1>3, <1>4

(* request_block_refs: the same for the text of a block. *)
LEMMA RequestRefsSound ==
  ASSUME NEW s, NEW b \in LinkBlocks, NEW us, NEW bs,
         SoundBut(s, us, {b} \cup bs), b \in LiveTexts(s.n)
  PROVE  LET r == RequestRefs(s, b)
         IN /\ SoundBut(r, us, bs)
            /\ r.n.pages = s.n.pages /\ r.n.blocks = s.n.blocks /\ r.n.aliases = s.n.aliases
<1> DEFINE r == RequestRefs(s, b)
<1>1. /\ s.n \in LinkDb /\ s.e \in Effects /\ s = [n |-> s.n, e |-> s.e]
      /\ LinkedBut(s.n, s.e.aliases \cup us, s.e.refs \cup ({b} \cup bs))
      /\ Untitled(s.n) /\ Imaged(s.n, s.e) /\ Pending(s.n, s.e)
  BY DEF SoundBut
<1>2. CASE s.e.deferred
  <2>1. r = [s EXCEPT !.e.refs = @ \cup {b}]
    BY <1>2 DEF RequestRefs
  <2> HIDE DEF r
  <2>2. /\ r.n = s.n /\ r.e \in Effects /\ r = [n |-> r.n, e |-> r.e]
        /\ r.e.aliases = s.e.aliases /\ r.e.refs = s.e.refs \cup {b}
        /\ r.e.pages = s.e.pages /\ r.e.blocks = s.e.blocks /\ r.e.graph = s.e.graph
    BY <1>1, <2>1 DEF Effects
  <2>3. s.e.refs \cup ({b} \cup bs) = r.e.refs \cup bs
    BY <2>2
  <2>4. SoundBut(r, us, bs)
    BY <1>1, <2>2, <2>3 DEF SoundBut, Imaged, Pending
  <2> QED BY <2>2, <2>4 DEF r
<1>3. CASE ~s.e.deferred
  <2> DEFINE m == Relinked(s.n, {b})
             f == CaptureGraph(s.e, s.n, {b})
  <2>1. r = [n |-> m, e |-> f]
    BY <1>3 DEF RequestRefs
  <2>2. {b} \in SUBSET LinkBlocks
    OBVIOUS
  <2>3. LinkedBut(s.n, s.e.aliases \cup us, {b} \cup (s.e.refs \cup bs))
    <3>1. s.e.refs \cup ({b} \cup bs) = {b} \cup (s.e.refs \cup bs)
      OBVIOUS
    <3> QED BY <1>1, <3>1
  <2>4. /\ m \in LinkDb
        /\ m.pages = s.n.pages /\ m.blocks = s.n.blocks /\ m.aliases = s.n.aliases /\ m.tomb = s.n.tomb
        /\ \A c \in LinkBlocks \ {b} : m.links[c] = s.n.links[c]
        /\ LinkedBut(m, s.e.aliases \cup us, s.e.refs \cup bs)
    BY <1>1, <2>2, <2>3, RelinkedSound
  <2>5. /\ f \in Effects /\ DOMAIN f.graph = DOMAIN s.e.graph \cup {b}
        /\ f.refs = s.e.refs /\ f.aliases = s.e.aliases /\ f.pages = s.e.pages /\ f.blocks = s.e.blocks
        /\ Imaged(s.n, f)
    BY <1>1, <2>2, CaptureGraphSound
  <2> HIDE DEF m, f
  <2>6. Imaged(m, f)
    BY <1>1, <2>4, <2>5, LinksOnlyImaged
  <2>7. SoundBut([n |-> m, e |-> f], us, bs)
    BY <1>1, <2>4, <2>5, <2>6 DEF SoundBut, Untitled, Pending, LiveTexts
  <2> QED BY <2>1, <2>4, <2>5, <2>7
<1>4. s.e.deferred \in BOOLEAN
  BY <1>1 DEF Effects
<1> QED BY <1>2, <1>3, <1>4

\* Links whose title still has the same candidates stay right.
LEMMA Recandidated ==
  ASSUME NEW n \in LinkDb, NEW m \in LinkDb, NEW ts, NEW us, NEW bs,
         m.links = n.links, m.blocks = n.blocks,
         \A t \in LinkTitles \ ts : Candidates(m, t) = Candidates(n, t),
         LinkedBut(n, us, bs)
  PROVE  LinkedBut(m, us \cup ts, bs)
<1> SUFFICES ASSUME NEW b \in LinkBlocks \ bs
             PROVE  BlockLinked(m, b, us \cup ts)
  BY DEF LinkedBut
<1>1. BlockLinked(n, b, us)
  BY DEF LinkedBut
<1>2. n.blocks[b].text \subseteq LinkTitles
  BY DEF LinkDb, TextRow
<1>3. \A t \in LinkTitles \ ts : ResolveAlias(m, t) = ResolveAlias(n, t)
  BY CandidatesResolve
<1> QED BY <1>1, <1>2, <1>3 DEF BlockLinked

(* apply_page_title: the old and the new title are the only ones whose candidates
   change, whoever wins. *)
LEMMA ApplyTitleSound ==
  ASSUME NEW s, NEW us, NEW bs, SoundBut(s, us, bs), NEW p \in LinkPages, p \in DOMAIN s.e.pages,
         NEW title \in LinkTitles \cup {NoPage}, NEW h \in Nat
  PROVE  LET r == ApplyTitle(s, p, title, h)
         IN /\ SoundBut(r, us, bs)
            /\ r.n.aliases = s.n.aliases
<1> DEFINE n == s.n
           rivals == {q \in LiveNotes(n) \ {p} : title # NoPage /\ n.pages[q].title = title}
           dirty == {n.pages[p].title, title} \ {NoPage}
           lost == \E q \in rivals : n.pages[q].titleHlc >= h
           pages == [q \in LinkPages |->
                       IF q = p THEN [n.pages[q] EXCEPT !.title = IF lost THEN NoPage ELSE title,
                                                        !.titleHlc = h]
                       ELSE IF q \in rivals /\ ~lost THEN [n.pages[q] EXCEPT !.title = NoPage]
                       ELSE n.pages[q]]
           named == [n EXCEPT !.pages = pages]
           e == IF lost THEN s.e ELSE CapturePages(s.e, n, rivals)
<1>1. /\ s.n \in LinkDb /\ s.e \in Effects /\ s = [n |-> s.n, e |-> s.e]
      /\ LinkedBut(s.n, s.e.aliases \cup us, s.e.refs \cup bs)
      /\ Untitled(s.n) /\ Imaged(s.n, s.e) /\ Pending(s.n, s.e)
  BY DEF SoundBut
<1>2. CASE n.pages[p].exist = 0 \/ n.pages[p].titleHlc >= h
  BY <1>2 DEF ApplyTitle
<1>3. CASE ~(n.pages[p].exist = 0 \/ n.pages[p].titleHlc >= h)
  <2>1. ApplyTitle(s, p, title, h) = RequestLinks([n |-> named, e |-> e], dirty)
    BY <1>3 DEF ApplyTitle
  <2>2. n.pages \in [LinkPages -> NoteRow]
    BY <1>1 DEF LinkDb
  <2>3. rivals \in SUBSET LinkPages /\ p \notin rivals
    BY DEF LiveNotes
  <2>4. \A q \in rivals : n.pages[q].exist # 0 /\ n.pages[q].title = title /\ title # NoPage
    BY DEF LiveNotes
  <2>5. dirty \in SUBSET LinkTitles
    BY <2>2 DEF NoteRow
  <2> DEFINE gone == IF lost THEN {} ELSE rivals
  <2>6. gone \in SUBSET rivals
    OBVIOUS
  <2>7. pages = [q \in LinkPages |->
                   IF q = p THEN [n.pages[q] EXCEPT !.title = IF lost THEN NoPage ELSE title,
                                                    !.titleHlc = h]
                   ELSE IF q \in gone THEN [n.pages[q] EXCEPT !.title = NoPage]
                   ELSE n.pages[q]]
    OBVIOUS
  <2>8. /\ e \in Effects /\ e.refs = s.e.refs /\ e.aliases = s.e.aliases
        /\ DOMAIN s.e.pages \subseteq DOMAIN e.pages /\ gone \subseteq DOMAIN e.pages
        /\ Imaged(n, e)
    <3>1. CASE lost
      BY <1>1, <3>1
    <3>2. CASE ~lost
      <4>1. e = CapturePages(s.e, n, rivals)
        BY <3>2
      <4>2. gone = rivals
        BY <3>2
      <4> HIDE DEF e, rivals, gone
      <4> QED BY <1>1, <2>3, <4>1, <4>2, CapturePagesSound
    <3> QED BY <3>1, <3>2
  <2> DEFINE fresh == IF lost THEN NoPage ELSE title
  <2>9. fresh \in {title, NoPage}
    OBVIOUS
  <2>10. /\ pages \in [LinkPages -> NoteRow]
         /\ \A q \in LinkPages : pages[q].exist = n.pages[q].exist
         /\ pages[p].title = fresh
         /\ \A q \in gone : pages[q].title = NoPage
         /\ \A q \in LinkPages \ (gone \cup {p}) : pages[q] = n.pages[q]
    <3> DEFINE row(q) == IF q = p THEN [n.pages[q] EXCEPT !.title = fresh, !.titleHlc = h]
                         ELSE IF q \in gone THEN [n.pages[q] EXCEPT !.title = NoPage]
                         ELSE n.pages[q]
    <3>1. pages = [q \in LinkPages |-> row(q)]
      BY <2>7
    <3> HIDE DEF pages, gone, fresh
    <3>2. fresh \in LinkTitles \cup {NoPage}
      BY <2>9
    <3>3. \A q \in LinkPages : row(q) \in NoteRow /\ row(q).exist = n.pages[q].exist
      BY <2>2, <3>2 DEF NoteRow
    <3>4. row(p).title = fresh /\ \A q \in gone : row(q).title = NoPage
      BY <2>2, <2>3, <2>6 DEF NoteRow
    <3>5. \A q \in LinkPages \ (gone \cup {p}) : row(q) = n.pages[q]
      OBVIOUS
    <3>6. gone \subseteq LinkPages
      BY <2>3, <2>6
    <3> HIDE DEF row
    <3> QED BY <3>1, <3>3, <3>4, <3>5, <3>6
  <2> HIDE DEF pages, gone, fresh, e, lost, rivals
  <2>11. /\ named \in LinkDb /\ named.pages = pages /\ named.blocks = n.blocks
         /\ named.links = n.links /\ named.aliases = n.aliases
    BY <1>1, <2>10 DEF LinkDb
  <2> HIDE DEF named
  <2>12. Untitled(named)
    BY <1>1, <1>3, <2>2, <2>3, <2>6, <2>10, <2>11 DEF Untitled, NoteRow
  <2>13. \A t \in LinkTitles \ dirty : Candidates(named, t) = Candidates(n, t)
    <3> SUFFICES ASSUME NEW t \in LinkTitles \ dirty, NEW q \in LinkPages
                 PROVE  named.pages[q].title = t <=> n.pages[q].title = t
      BY <2>10, <2>11 DEF Candidates, LiveNotes
    <3>1. t # NoPage /\ t # title /\ t # n.pages[p].title
      BY LinksAssumption
    <3>2. CASE q = p
      BY <2>9, <2>10, <2>11, <3>1, <3>2
    <3>3. CASE q \in gone
      BY <2>4, <2>6, <2>10, <2>11, <3>1, <3>3
    <3>4. CASE q \notin gone \cup {p}
      BY <2>10, <2>11, <3>4
    <3> QED BY <3>2, <3>3, <3>4
  <2>14. LinkedBut(named, (s.e.aliases \cup us) \cup dirty, s.e.refs \cup bs)
    BY <1>1, <2>11, <2>13, Recandidated
  <2>15. Imaged(named, e)
    <3>1. DOMAIN n.pages = LinkPages /\ DOMAIN named.pages = LinkPages
      BY <2>2, <2>10, <2>11
    <3> QED BY <2>8, <2>10, <2>11, <3>1 DEF Imaged, ImagesOf
  <2>16. SoundBut([n |-> named, e |-> e], dirty \cup us, bs)
    <3>1. (s.e.aliases \cup us) \cup dirty = e.aliases \cup (dirty \cup us)
      BY <2>8
    <3>2. Pending(named, e)
      BY <1>1, <2>8, <2>11 DEF Pending, LiveTexts
    <3> HIDE DEF dirty
    <3> QED BY <2>8, <2>11, <2>12, <2>14, <2>15, <3>1, <3>2 DEF SoundBut
  <2> DEFINE x == [n |-> named, e |-> e]
  <2> HIDE DEF dirty
  <2>17. x.n = named /\ SoundBut(x, dirty \cup us, bs)
    BY <2>16
  <2> HIDE DEF x
  <2>18. /\ SoundBut(RequestLinks(x, dirty), us, bs)
         /\ RequestLinks(x, dirty).n.aliases = named.aliases
    BY <2>5, <2>17, RequestLinksSound
  <2> QED BY <2>1, <2>11, <2>18 DEF x
<1> QED BY <1>2, <1>3

(* A tombstone only ever rises. *)
LEMMA BuriedType ==
  ASSUME NEW n \in LinkDb, NEW os, NEW h \in Nat
  PROVE  LET m == Buried(n, os, h)
         IN /\ m \in LinkDb
            /\ m.pages = n.pages /\ m.blocks = n.blocks /\ m.links = n.links /\ m.aliases = n.aliases
<1> DEFINE tomb == [o \in Rows |-> IF o \in os /\ n.tomb[o] < h THEN h ELSE n.tomb[o]]
<1>1. Buried(n, os, h) = [n EXCEPT !.tomb = tomb]
  BY DEF Buried
<1>2. tomb \in [Rows -> Nat]
  BY DEF LinkDb
<1> HIDE DEF tomb
<1> QED BY <1>1, <1>2 DEF LinkDb

\* Tombstones are not looked at.
LEMMA TombSound ==
  ASSUME NEW n \in LinkDb, NEW m \in LinkDb, NEW e, NEW us, NEW bs,
         SoundBut([n |-> n, e |-> e], us, bs),
         m.pages = n.pages, m.blocks = n.blocks, m.links = n.links, m.aliases = n.aliases
  PROVE  SoundBut([n |-> m, e |-> e], us, bs)
<1>1. /\ e \in Effects /\ LinkedBut(n, e.aliases \cup us, e.refs \cup bs)
      /\ Untitled(n) /\ Imaged(n, e) /\ Pending(n, e)
  BY DEF SoundBut
<1>2. \A t \in LinkTitles \ {} : Candidates(m, t) = Candidates(n, t)
  BY DEF Candidates, LiveNotes
<1>3. LinkedBut(m, (e.aliases \cup us) \cup {}, e.refs \cup bs)
  BY <1>1, <1>2, Recandidated
<1>4. (e.aliases \cup us) \cup {} = e.aliases \cup us
  OBVIOUS
<1>5. Untitled(m) /\ Imaged(m, e) /\ Pending(m, e)
  BY <1>1 DEF Untitled, Imaged, Pending, LiveTexts
<1> QED BY <1>1, <1>3, <1>4, <1>5 DEF SoundBut

\* One row of the texts is written, its before-image being there.
LEMMA TextWritten ==
  ASSUME NEW n \in LinkDb, NEW m \in LinkDb, NEW e, NEW b \in LinkBlocks,
         SoundBut([n |-> n, e |-> e], {}, {b}), b \in DOMAIN e.blocks,
         m.pages = n.pages, m.links = n.links, m.aliases = n.aliases,
         \A c \in LinkBlocks \ {b} : m.blocks[c] = n.blocks[c],
         m.blocks[b].exist # 0
  PROVE  SoundBut([n |-> m, e |-> e], {}, {b})
<1>1. /\ e \in Effects /\ LinkedBut(n, e.aliases \cup {}, e.refs \cup {b})
      /\ Untitled(n) /\ Imaged(n, e) /\ Pending(n, e)
  BY DEF SoundBut
<1>2. \A t : ResolveAlias(m, t) = ResolveAlias(n, t)
  BY SameResolve
<1>3. LinkedBut(m, e.aliases \cup {}, e.refs \cup {b})
  <2> SUFFICES ASSUME NEW c \in LinkBlocks \ (e.refs \cup {b})
               PROVE  BlockLinked(m, c, e.aliases \cup {})
    BY DEF LinkedBut
  <2>1. BlockLinked(n, c, e.aliases \cup {})
    BY <1>1 DEF LinkedBut
  <2> QED BY <1>2, <2>1 DEF BlockLinked
<1>4. Imaged(m, e)
  <2>1. DOMAIN m.blocks = LinkBlocks /\ DOMAIN n.blocks = LinkBlocks
    BY DEF LinkDb
  <2> QED BY <1>1, <2>1 DEF Imaged, ImagesOf
<1>5. Untitled(m) /\ Pending(m, e)
  BY <1>1 DEF Untitled, Pending, LiveTexts
<1> QED BY <1>1, <1>3, <1>4, <1>5 DEF SoundBut

(* Fewer links need be right when titles and blocks are excepted. *)
LEMMA SoundWeaker ==
  ASSUME NEW s, Sound(s), NEW us, NEW bs
  PROVE  SoundBut(s, us, bs)
<1>1. LinkedBut(s.n, s.e.aliases \cup {}, s.e.refs \cup {})
  BY DEF Sound, SoundBut
<1>2. LinkedBut(s.n, s.e.aliases \cup us, s.e.refs \cup bs)
  BY <1>1 DEF LinkedBut, BlockLinked
<1> QED BY <1>2 DEF Sound, SoundBut

(* Writing a text and asking for its links. *)
LEMMA MarkdownSound ==
  ASSUME NEW s, NEW b \in LinkBlocks, SoundBut(s, {}, {b}), b \in DOMAIN s.e.blocks,
         NEW text \in SUBSET LinkTitles, NEW h \in Nat,
         s.n.blocks[b].exist # 0, s.n.blocks[b].md < h
  PROVE  Sound(ApplyMarkdown(s, b, text, h))
<1> DEFINE x == [s EXCEPT !.n.blocks[b].text = text, !.n.blocks[b].md = h]
<1>1. s.n \in LinkDb /\ s.e \in Effects /\ s = [n |-> s.n, e |-> s.e]
  BY DEF SoundBut
<1>2. ~(s.n.blocks[b].exist = 0 \/ s.n.blocks[b].md >= h)
  BY <1>1 DEF LinkDb, TextRow
<1>3. ApplyMarkdown(s, b, text, h) = RequestRefs(x, b)
  BY <1>2 DEF ApplyMarkdown
<1>4. /\ x = [n |-> x.n, e |-> s.e] /\ x.n \in LinkDb
      /\ x.n.pages = s.n.pages /\ x.n.links = s.n.links /\ x.n.aliases = s.n.aliases
      /\ \A c \in LinkBlocks \ {b} : x.n.blocks[c] = s.n.blocks[c]
      /\ x.n.blocks[b].exist # 0
  <2> DEFINE row == [s.n.blocks[b] EXCEPT !.text = text, !.md = h]
             blocks == [s.n.blocks EXCEPT ![b] = row]
             m == [s.n EXCEPT !.blocks = blocks]
  <2>1. x = [s EXCEPT !.n = m]
    BY <1>1 DEF LinkDb, TextRow
  <2>2. x = [n |-> m, e |-> s.e]
    BY <1>1, <2>1
  <2>3. s.n.blocks \in [LinkBlocks -> TextRow]
    BY <1>1 DEF LinkDb
  <2>4. row \in TextRow /\ row.exist # 0
    BY <1>2, <2>3 DEF TextRow
  <2> HIDE DEF row, x
  <2>5. /\ blocks \in [LinkBlocks -> TextRow] /\ blocks[b].exist # 0
        /\ \A c \in LinkBlocks \ {b} : blocks[c] = s.n.blocks[c]
    BY <2>3, <2>4
  <2> HIDE DEF blocks
  <2> QED BY <1>1, <2>2, <2>5 DEF LinkDb
<1> HIDE DEF x
<1>5. SoundBut(x, {}, {b})
  BY <1>1, <1>4, TextWritten
<1>6. SoundBut(x, {}, {b} \cup {})
  <2>1. {b} \cup {} = {b}
    OBVIOUS
  <2> QED BY <1>5, <2>1
<1>7. b \in LiveTexts(x.n)
  BY <1>4 DEF LiveTexts
<1> QED BY <1>3, <1>6, <1>7, RequestRefsSound DEF Sound

(* apply_block_markdown. *)
LEMMA ApplyMarkdownSound ==
  ASSUME NEW s, NEW b \in LinkBlocks, Sound(s), b \in DOMAIN s.e.blocks,
         NEW text \in SUBSET LinkTitles, NEW h \in Nat
  PROVE  Sound(ApplyMarkdown(s, b, text, h))
<1>1. CASE s.n.blocks[b].exist = 0 \/ s.n.blocks[b].md >= h
  BY <1>1 DEF ApplyMarkdown
<1>2. CASE ~(s.n.blocks[b].exist = 0 \/ s.n.blocks[b].md >= h)
  <2>1. s.n.blocks[b].md \in Nat
    BY DEF Sound, SoundBut, LinkDb, TextRow
  <2>2. s.n.blocks[b].exist # 0 /\ s.n.blocks[b].md < h
    BY <1>2, <2>1
  <2> QED BY <2>2, SoundWeaker, MarkdownSound
<1> QED BY <1>1, <1>2

(* PageAliasSet: only the candidates for that alias change. *)
LEMMA AliasSetSound ==
  ASSUME NEW s, Sound(s), NEW p \in LinkPages, NEW t \in LinkTitles, NEW present \in BOOLEAN,
         NEW h \in Nat
  PROVE  Sound(AliasSet(s, p, t, present, h))
<1> DEFINE x == [s EXCEPT !.n.aliases[<<p, t>>] = [hlc |-> h, present |-> present]]
<1>1. /\ s.n \in LinkDb /\ s.e \in Effects /\ s = [n |-> s.n, e |-> s.e]
      /\ LinkedBut(s.n, s.e.aliases \cup {}, s.e.refs \cup {})
      /\ Untitled(s.n) /\ Imaged(s.n, s.e) /\ Pending(s.n, s.e)
  BY DEF Sound, SoundBut
<1>2. CASE s.n.aliases[<<p, t>>].hlc >= h
  BY <1>2 DEF AliasSet
<1>3. CASE ~(s.n.aliases[<<p, t>>].hlc >= h)
  <2>1. AliasSet(s, p, t, present, h) = RequestLinks(x, {t})
    BY <1>3 DEF AliasSet
  <2>2. /\ x = [n |-> x.n, e |-> s.e] /\ x.n \in LinkDb
        /\ x.n.pages = s.n.pages /\ x.n.links = s.n.links /\ x.n.blocks = s.n.blocks
        /\ \A k \in (LinkPages \X LinkTitles) \ {<<p, t>>} : x.n.aliases[k] = s.n.aliases[k]
    <3> DEFINE row == [hlc |-> h, present |-> present]
               aliases == [s.n.aliases EXCEPT ![<<p, t>>] = row]
               m == [s.n EXCEPT !.aliases = aliases]
    <3>1. x = [n |-> m, e |-> s.e]
      <4> HIDE DEF row
      <4>1. x = [s EXCEPT !.n = m]
        BY DEF row
      <4> HIDE DEF x, m
      <4> QED BY <1>1, <4>1
    <3>2. s.n.aliases \in [LinkPages \X LinkTitles -> [hlc : Nat, present : BOOLEAN]]
      BY <1>1 DEF LinkDb
    <3>3. row \in [hlc : Nat, present : BOOLEAN] /\ <<p, t>> \in LinkPages \X LinkTitles
      OBVIOUS
    <3> HIDE DEF row, x
    <3>4. /\ aliases \in [LinkPages \X LinkTitles -> [hlc : Nat, present : BOOLEAN]]
          /\ \A k \in (LinkPages \X LinkTitles) \ {<<p, t>>} : aliases[k] = s.n.aliases[k]
      BY <3>2, <3>3
    <3> HIDE DEF aliases
    <3> QED BY <1>1, <3>1, <3>4 DEF LinkDb
  <2> HIDE DEF x
  <2>3. \A u \in LinkTitles \ {t} : Candidates(x.n, u) = Candidates(s.n, u)
    <3> SUFFICES ASSUME NEW u \in LinkTitles \ {t}, NEW q \in LinkPages
                 PROVE  x.n.aliases[<<q, u>>] = s.n.aliases[<<q, u>>]
      BY <2>2 DEF Candidates, LiveNotes
    <3>1. <<q, u>> \in (LinkPages \X LinkTitles) \ {<<p, t>>}
      OBVIOUS
    <3> QED BY <2>2, <3>1
  <2>4. LinkedBut(x.n, (s.e.aliases \cup {}) \cup {t}, s.e.refs \cup {})
    BY <1>1, <2>2, <2>3, Recandidated
  <2>5. (s.e.aliases \cup {}) \cup {t} = s.e.aliases \cup ({t} \cup {})
    OBVIOUS
  <2>6. SoundBut(x, {t} \cup {}, {})
    <3>1. x.e = s.e /\ x \in [n : LinkDb, e : Effects]
      BY <1>1, <2>2
    <3>2. Untitled(x.n) /\ Imaged(x.n, s.e) /\ Pending(x.n, s.e)
      BY <1>1, <2>2 DEF Untitled, Imaged, Pending, LiveTexts
    <3> QED BY <2>4, <2>5, <3>1, <3>2 DEF SoundBut
  <2>7. {t} \in SUBSET LinkTitles
    OBVIOUS
  <2> QED BY <2>1, <2>6, <2>7, RequestLinksSound DEF Sound
<1> QED BY <1>2, <1>3

(* More before-images do no harm. *)
LEMMA RecapturedSound ==
  ASSUME NEW n, NEW e, NEW f \in Effects, Sound([n |-> n, e |-> e]),
         f.refs = e.refs, f.aliases = e.aliases, Imaged(n, f)
  PROVE  Sound([n |-> n, e |-> f])
BY DEF Sound, SoundBut, Pending

(* deleting_block. *)
LEMMA DeletingTextsSound ==
  ASSUME NEW n, NEW e, Sound([n |-> n, e |-> e]), NEW xs \in SUBSET LinkBlocks
  PROVE  LET f == DeletingTexts(e, n, xs)
         IN /\ Sound([n |-> n, e |-> f]) /\ f \in Effects
            /\ f.pages = e.pages /\ f.refs = e.refs /\ f.aliases = e.aliases
            /\ f.deferred = e.deferred
            /\ DOMAIN f.blocks = DOMAIN e.blocks \cup xs /\ DOMAIN f.graph = DOMAIN e.graph \cup xs
<1> DEFINE g == CaptureBlocks(e, n, xs)
           f == CaptureGraph(g, n, xs)
<1>1. n \in LinkDb /\ e \in Effects /\ Imaged(n, e)
  BY DEF Sound, SoundBut
<1>2. /\ g \in Effects /\ DOMAIN g.blocks = DOMAIN e.blocks \cup xs
      /\ g.pages = e.pages /\ g.refs = e.refs /\ g.aliases = e.aliases
      /\ g.graph = e.graph /\ g.deferred = e.deferred
      /\ Imaged(n, g)
  BY <1>1, CaptureBlocksSound
<1> HIDE DEF g
<1>3. /\ f \in Effects /\ DOMAIN f.graph = DOMAIN g.graph \cup xs
      /\ f.pages = g.pages /\ f.refs = g.refs /\ f.aliases = g.aliases
      /\ f.blocks = g.blocks /\ f.deferred = g.deferred
      /\ Imaged(n, f)
  BY <1>1, <1>2, CaptureGraphSound
<1>4. DeletingTexts(e, n, xs) = f
  BY DEF DeletingTexts, g
<1> HIDE DEF f
<1>5. Sound([n |-> n, e |-> f])
  BY <1>2, <1>3, RecapturedSound
<1> QED BY <1>2, <1>3, <1>4, <1>5

\* Texts go with their links and with what is pending for them.
LEMMA TextsGone ==
  ASSUME NEW n, NEW e, Sound([n |-> n, e |-> e]), NEW xs \in SUBSET LinkBlocks,
         xs \subseteq DOMAIN e.blocks, xs \subseteq DOMAIN e.graph
  PROVE  LET m == WithoutTexts(n, xs)
             f == DiscardRefs(e, xs)
         IN /\ Sound([n |-> m, e |-> f]) /\ m \in LinkDb /\ f \in Effects
            /\ m.pages = n.pages /\ m.aliases = n.aliases /\ m.tomb = n.tomb
            /\ f.pages = e.pages /\ f.graph = e.graph
            /\ \A c \in LinkBlocks : m.links[c] = IF c \in xs THEN {} ELSE n.links[c]
<1> DEFINE blocks == [b \in LinkBlocks |-> IF b \in xs THEN NoTextRow ELSE n.blocks[b]]
           links == [b \in LinkBlocks |-> IF b \in xs THEN {} ELSE n.links[b]]
           m == WithoutTexts(n, xs)
           f == DiscardRefs(e, xs)
<1>1. /\ n \in LinkDb /\ e \in Effects
      /\ LinkedBut(n, e.aliases \cup {}, e.refs \cup {})
      /\ Untitled(n) /\ Imaged(n, e) /\ Pending(n, e)
  BY DEF Sound, SoundBut
<1>2. m = [[n EXCEPT !.blocks = blocks] EXCEPT !.links = links]
  BY DEF WithoutTexts
<1>3. /\ blocks \in [LinkBlocks -> TextRow]
      /\ links \in [LinkBlocks -> SUBSET LinkRow]
  BY <1>1 DEF LinkDb, TextRow, NoTextRow
<1>4. /\ \A b \in LinkBlocks : blocks[b] = IF b \in xs THEN NoTextRow ELSE n.blocks[b]
      /\ \A b \in LinkBlocks : links[b] = IF b \in xs THEN {} ELSE n.links[b]
  OBVIOUS
<1> HIDE DEF blocks, links, m
<1>5. /\ m \in LinkDb /\ m.pages = n.pages /\ m.aliases = n.aliases /\ m.tomb = n.tomb
      /\ m.blocks = blocks /\ m.links = links
  BY <1>1, <1>2, <1>3 DEF LinkDb
<1>6. /\ f \in Effects /\ f.pages = e.pages /\ f.graph = e.graph /\ f.blocks = e.blocks
      /\ f.aliases = e.aliases /\ f.refs = e.refs \ xs
  BY <1>1 DEF DiscardRefs, Effects
<1> HIDE DEF f
<1>7. \A t : ResolveAlias(m, t) = ResolveAlias(n, t)
  BY <1>5, SameResolve
<1>8. LinkedBut(m, f.aliases \cup {}, f.refs \cup {})
  <2> SUFFICES ASSUME NEW b \in LinkBlocks \ f.refs
               PROVE  BlockLinked(m, b, e.aliases \cup {})
    BY <1>6 DEF LinkedBut
  <2>1. CASE b \in xs
    BY <1>4, <1>5, <2>1 DEF BlockLinked, NoTextRow
  <2>2. CASE b \notin xs
    <3>1. BlockLinked(n, b, e.aliases \cup {})
      BY <1>1, <1>6, <2>2 DEF LinkedBut
    <3> QED BY <1>4, <1>5, <1>7, <2>2, <3>1 DEF BlockLinked
  <2> QED BY <2>1, <2>2
<1>9. Imaged(m, f)
  <2>1. DOMAIN m.blocks = LinkBlocks /\ DOMAIN n.blocks = LinkBlocks
    BY <1>1, <1>5 DEF LinkDb
  <2>2. DOMAIN m.links = LinkBlocks /\ DOMAIN n.links = LinkBlocks
    BY <1>1, <1>5 DEF LinkDb
  <2> QED BY <1>1, <1>4, <1>5, <1>6, <2>1, <2>2 DEF Imaged, ImagesOf
<1>10. Untitled(m) /\ Pending(m, f)
  BY <1>1, <1>4, <1>5, <1>6 DEF Untitled, Pending, LiveTexts
<1>11. Sound([n |-> m, e |-> f])
  BY <1>5, <1>6, <1>8, <1>9, <1>10 DEF Sound, SoundBut
<1> QED BY <1>4, <1>5, <1>6, <1>11 DEF m, f

(* BlockDelete. *)
LEMMA TextDeletedSound ==
  ASSUME NEW n, NEW e, Sound([n |-> n, e |-> e]), NEW b \in LinkBlocks,
         b \in DOMAIN e.blocks, b \in DOMAIN e.graph, NEW h \in Nat
  PROVE  Sound(TextDeleted([n |-> n, e |-> e], b, h))
<1> DEFINE buried == Buried(n, {b}, h)
<1>1. n \in LinkDb /\ e \in Effects
  BY DEF Sound, SoundBut
<1>2. /\ buried \in LinkDb /\ buried.pages = n.pages /\ buried.blocks = n.blocks
      /\ buried.links = n.links /\ buried.aliases = n.aliases
  BY <1>1, BuriedType
<1>3. TextDeleted([n |-> n, e |-> e], b, h) \in
        {[n |-> n, e |-> e], [n |-> buried, e |-> e],
         [n |-> WithoutTexts(buried, {b}), e |-> DiscardRefs(e, {b})]}
  BY DEF TextDeleted
<1> HIDE DEF buried
<1>4. Sound([n |-> buried, e |-> e])
  BY <1>1, <1>2, TombSound DEF Sound
<1>5. {b} \in SUBSET LinkBlocks /\ {b} \subseteq DOMAIN e.blocks /\ {b} \subseteq DOMAIN e.graph
  OBVIOUS
<1>6. Sound([n |-> WithoutTexts(buried, {b}), e |-> DiscardRefs(e, {b})])
  BY <1>4, <1>5, TextsGone
<1> QED BY <1>3, <1>4, <1>6

(* BlockCreate. *)
LEMMA TextCreatedSound ==
  ASSUME NEW n, NEW e, Sound([n |-> n, e |-> e]), NEW b \in LinkBlocks, b \in DOMAIN e.blocks,
         NEW p \in LinkPages, NEW text \in SUBSET LinkTitles, NEW h \in Nat \ {0}
  PROVE  Sound(TextCreated([n |-> n, e |-> e], b, p, text, h))
<1> DEFINE s == [n |-> n, e |-> e]
           row == IF n.blocks[b].exist = 0 THEN [exist |-> h, page |-> p, text |-> text, md |-> 0]
                  ELSE [n.blocks[b] EXCEPT !.exist = IF @ < h THEN h ELSE @]
           x == [s EXCEPT !.n.blocks[b] = row, !.n.tomb[b] = 0]
           blocks == [n.blocks EXCEPT ![b] = row]
           tomb == [n.tomb EXCEPT ![b] = 0]
           m == [[n EXCEPT !.blocks = blocks] EXCEPT !.tomb = tomb]
<1>1. n \in LinkDb /\ e \in Effects
  BY DEF Sound, SoundBut
<1>2. \A os, g : g \in Nat => Sound([n |-> Buried(n, os, g), e |-> e])
  <2> SUFFICES ASSUME NEW os, NEW g \in Nat
               PROVE  Sound([n |-> Buried(n, os, g), e |-> e])
    OBVIOUS
  <2> DEFINE k == Buried(n, os, g)
  <2>1. k \in LinkDb /\ k.pages = n.pages /\ k.blocks = n.blocks /\ k.links = n.links /\ k.aliases = n.aliases
    BY <1>1, BuriedType
  <2> HIDE DEF k
  <2>2. Sound([n |-> k, e |-> e])
    BY <1>1, <2>1, TombSound DEF Sound
  <2> QED BY <2>2 DEF k
<1>3. n.tomb[p] \in Nat /\ n.pages[p].exist \in Nat
  BY <1>1 DEF LinkDb, NoteRow, Rows
<1>4. CASE n.tomb[b] >= h
  BY <1>4 DEF TextCreated
<1>5. CASE ~(n.tomb[b] >= h) /\ n.tomb[p] # 0
  <2>1. TextCreated(s, b, p, text, h) = [n |-> Buried(n, {b}, n.tomb[p]), e |-> e]
    BY <1>5 DEF TextCreated
  <2> QED BY <1>2, <1>3, <2>1
<1>6. CASE ~(n.tomb[b] >= h) /\ ~(n.tomb[p] # 0) /\ n.pages[p].exist > h
  <2>1. TextCreated(s, b, p, text, h) = [n |-> Buried(n, {b}, n.pages[p].exist), e |-> e]
    BY <1>6 DEF TextCreated
  <2> QED BY <1>2, <1>3, <2>1
<1>7. CASE ~(n.tomb[b] >= h) /\ ~(n.tomb[p] # 0) /\ ~(n.pages[p].exist > h)
  <2>1. TextCreated(s, b, p, text, h) = ApplyMarkdown(x, b, text, h)
    BY <1>7 DEF TextCreated
  <2>2. n.blocks \in [LinkBlocks -> TextRow] /\ n.tomb \in [Rows -> Nat]
    BY <1>1 DEF LinkDb
  <2>3. /\ row \in TextRow /\ row.exist # 0
        /\ n.blocks[b].exist = 0 => row.md < h
        /\ n.blocks[b].exist # 0 => row.text = n.blocks[b].text
    BY <2>2 DEF TextRow
  <2>4. x = [n |-> m, e |-> e]
    <3> HIDE DEF row
    <3> DEFINE k == [n EXCEPT !.blocks = blocks]
               y == [n |-> k, e |-> e]
    <3>1. [s EXCEPT !.n.blocks[b] = row] = y
      OBVIOUS
    <3>2. x = [y EXCEPT !.n.tomb[b] = 0]
      BY <3>1
    <3>3. k.tomb = n.tomb
      BY <1>1 DEF LinkDb
    <3> HIDE DEF k, x
    <3>4. x = [n |-> [k EXCEPT !.tomb = [k.tomb EXCEPT ![b] = 0]], e |-> e]
      BY <3>2
    <3> QED BY <3>3, <3>4 DEF k
  <2> HIDE DEF row, x
  <2>5. /\ blocks \in [LinkBlocks -> TextRow] /\ tomb \in [Rows -> Nat]
        /\ blocks[b] = row /\ \A c \in LinkBlocks \ {b} : blocks[c] = n.blocks[c]
    BY <2>2, <2>3
  <2> HIDE DEF blocks, tomb
  <2>6. /\ m \in LinkDb /\ m.pages = n.pages /\ m.links = n.links /\ m.aliases = n.aliases
        /\ m.blocks = blocks
    BY <1>1, <2>5 DEF LinkDb
  <2> HIDE DEF m
  <2>7. SoundBut([n |-> m, e |-> e], {}, {b})
    <3>1. SoundBut([n |-> n, e |-> e], {}, {b})
      BY SoundWeaker
    <3> QED BY <1>1, <2>3, <2>5, <2>6, <3>1, TextWritten
  <2>8. CASE n.blocks[b].exist = 0
    <3>1. x.n.blocks[b].exist # 0 /\ x.n.blocks[b].md < h /\ b \in DOMAIN x.e.blocks
      BY <2>3, <2>4, <2>5, <2>6, <2>8
    <3>2. SoundBut(x, {}, {b})
      BY <2>4, <2>7
    <3> QED BY <2>1, <3>1, <3>2, MarkdownSound
  <2>9. CASE n.blocks[b].exist # 0
    <3>1. LinkedBut(n, e.aliases \cup {}, e.refs \cup {})
      BY DEF Sound, SoundBut
    <3>2. \A t : ResolveAlias(m, t) = ResolveAlias(n, t)
      BY <2>6, SameResolve
    <3>3. \A c \in LinkBlocks : m.blocks[c].text = n.blocks[c].text
      BY <2>3, <2>5, <2>6, <2>9
    <3>4. LinkedBut(m, e.aliases \cup {}, e.refs \cup {})
      BY <2>6, <3>1, <3>2, <3>3 DEF LinkedBut, BlockLinked
    <3>5. Sound(x) /\ b \in DOMAIN x.e.blocks
      BY <2>4, <2>7, <3>4 DEF Sound, SoundBut
    <3> QED BY <2>1, <3>5, ApplyMarkdownSound
  <2> QED BY <2>8, <2>9
<1> QED BY <1>4, <1>5, <1>6, <1>7

\* Tombstones for xs, and the texts xs gone: what PageCreate and PageDelete do
\* to the blocks of the page.
LEMMA BlocksGone ==
  ASSUME NEW n, NEW e, Sound([n |-> n, e |-> e]), NEW xs \in SUBSET LinkBlocks,
         NEW os, NEW h \in Nat
  PROVE  LET m == WithoutTexts(Buried(n, os, h), xs)
             f == DiscardRefs(DeletingTexts(e, n, xs), xs)
         IN /\ Sound([n |-> m, e |-> f])
            /\ m.pages = n.pages /\ m.aliases = n.aliases
            /\ f.pages = e.pages /\ DOMAIN f.graph = DOMAIN e.graph \cup xs
            /\ \A c \in LinkBlocks : m.links[c] = IF c \in xs THEN {} ELSE n.links[c]
<1> DEFINE buried == Buried(n, os, h)
           g == DeletingTexts(e, n, xs)
<1>1. n \in LinkDb
  BY DEF Sound, SoundBut
<1>2. /\ buried \in LinkDb /\ buried.pages = n.pages /\ buried.blocks = n.blocks
      /\ buried.links = n.links /\ buried.aliases = n.aliases
  BY <1>1, BuriedType
<1>3. /\ Sound([n |-> n, e |-> g]) /\ g.pages = e.pages
      /\ DOMAIN g.blocks = DOMAIN e.blocks \cup xs /\ DOMAIN g.graph = DOMAIN e.graph \cup xs
  BY DeletingTextsSound
<1> HIDE DEF buried, g
<1>4. Sound([n |-> buried, e |-> g])
  BY <1>1, <1>2, <1>3, TombSound DEF Sound
<1>5. xs \subseteq DOMAIN g.blocks /\ xs \subseteq DOMAIN g.graph
  BY <1>3
<1>6. /\ Sound([n |-> WithoutTexts(buried, xs), e |-> DiscardRefs(g, xs)])
      /\ WithoutTexts(buried, xs).pages = buried.pages
      /\ WithoutTexts(buried, xs).aliases = buried.aliases
      /\ DiscardRefs(g, xs).pages = g.pages /\ DiscardRefs(g, xs).graph = g.graph
      /\ \A c \in LinkBlocks :
           WithoutTexts(buried, xs).links[c] = IF c \in xs THEN {} ELSE buried.links[c]
  BY <1>4, <1>5, TextsGone
<1> QED BY <1>2, <1>3, <1>6 DEF buried, g

(* PageDelete: the titles of the page are read before its row goes, and the links that
   pointed to it have their images because deleting_page took them. *)
LEMMA NoteDeletedSound ==
  ASSUME NEW n, NEW e, Sound([n |-> n, e |-> e]), NEW p \in LinkPages, p \in DOMAIN e.pages,
         \A b \in LinkBlocks : (\E l \in n.links[b] : l[2] = p) => b \in DOMAIN e.graph,
         NEW h \in Nat
  PROVE  Sound(NoteDeleted([n |-> n, e |-> e], p, h))
<1> DEFINE gone == {b \in LinkBlocks : n.blocks[b].exist # 0 /\ n.blocks[b].page = p}
           buried == Buried(n, gone \cup {p}, h)
           n2 == WithoutTexts(buried, gone)
           Cut(k) == IF k[2] = p THEN <<k[1], NoPage>> ELSE k
           links == [b \in LinkBlocks |-> {Cut(k) : k \in n2.links[b]}]
           pages == [n2.pages EXCEPT ![p] = NoNoteRow]
           n3 == [n2 EXCEPT !.pages[p] = NoNoteRow,
                            !.links = [b \in LinkBlocks |->
                               {IF l[2] = p THEN <<l[1], NoPage>> ELSE l : l \in @[b]}]]
           f == DiscardRefs(DeletingTexts(e, n, gone), gone)
           ts == ReferenceAliases(n, p)
<1>1. n \in LinkDb
  BY DEF Sound, SoundBut
<1>2. NoteDeleted([n |-> n, e |-> e], p, h) \in
        {[n |-> n, e |-> e], [n |-> buried, e |-> e], RequestLinks([n |-> n3, e |-> f], ts)}
  BY DEF NoteDeleted
<1>3. Sound([n |-> buried, e |-> e])
  <2>1. /\ buried \in LinkDb /\ buried.pages = n.pages /\ buried.blocks = n.blocks
        /\ buried.links = n.links /\ buried.aliases = n.aliases
    BY <1>1, BuriedType
  <2> HIDE DEF buried
  <2> QED BY <1>1, <2>1, TombSound DEF Sound
<1>4. /\ Sound([n |-> n2, e |-> f]) /\ n2.pages = n.pages /\ n2.aliases = n.aliases
      /\ f.pages = e.pages /\ DOMAIN f.graph = DOMAIN e.graph \cup gone
      /\ \A c \in LinkBlocks : n2.links[c] = IF c \in gone THEN {} ELSE n.links[c]
  <2>1. gone \in SUBSET LinkBlocks
    OBVIOUS
  <2> DEFINE os == gone \cup {p}
  <2> HIDE DEF gone, os
  <2>2. LET m == WithoutTexts(Buried(n, os, h), gone)
            g == DiscardRefs(DeletingTexts(e, n, gone), gone)
        IN /\ Sound([n |-> m, e |-> g])
           /\ m.pages = n.pages /\ m.aliases = n.aliases
           /\ g.pages = e.pages /\ DOMAIN g.graph = DOMAIN e.graph \cup gone
           /\ \A c \in LinkBlocks : m.links[c] = IF c \in gone THEN {} ELSE n.links[c]
    BY <2>1, BlocksGone
  <2>3. n2 = WithoutTexts(Buried(n, os, h), gone)
    BY DEF os
  <2> HIDE DEF n2
  <2> QED BY <2>2, <2>3
<1>5. n3 = [[n2 EXCEPT !.pages = pages] EXCEPT !.links = links]
  <2>1. n2.links = [n2 EXCEPT !.pages[p] = NoNoteRow].links
    <3>1. n2 \in LinkDb
      BY <1>4 DEF Sound, SoundBut
    <3> HIDE DEF n2
    <3> QED BY <3>1 DEF LinkDb
  <2> HIDE DEF n2
  <2> QED BY <2>1
<1>6. /\ n2 \in LinkDb /\ f \in Effects
      /\ LinkedBut(n2, f.aliases \cup {}, f.refs \cup {})
      /\ Untitled(n2) /\ Imaged(n2, f) /\ Pending(n2, f)
  BY <1>4 DEF Sound, SoundBut
<1>7. ts \in SUBSET LinkTitles
  BY <1>1 DEF ReferenceAliases, ExplicitAliases, LinkDb, NoteRow
<1>8. /\ \A t \in LinkTitles \ ts : ~n.aliases[<<p, t>>].present
      /\ \A t \in LinkTitles \ ts : n.pages[p].title # t
  BY LinksAssumption DEF ReferenceAliases, ExplicitAliases
<1> HIDE DEF n2, f, ts, gone, buried, n3
<1>9. /\ pages \in [LinkPages -> NoteRow] /\ pages[p] = NoNoteRow
      /\ \A q \in LinkPages \ {p} : pages[q] = n2.pages[q]
  BY <1>6 DEF LinkDb, NoNoteRow, NoteRow
<1>10. links \in [LinkBlocks -> SUBSET LinkRow]
  <2> SUFFICES ASSUME NEW b \in LinkBlocks, NEW k \in n2.links[b]
               PROVE  Cut(k) \in LinkRow
    OBVIOUS
  <2>1. k \in LinkRow
    BY <1>6 DEF LinkDb
  <2> QED BY <2>1 DEF LinkRow
<1>11. \A b \in LinkBlocks : links[b] = {Cut(k) : k \in n2.links[b]}
  OBVIOUS
<1> HIDE DEF pages, links
<1>12. /\ n3 \in LinkDb /\ n3.pages = pages /\ n3.links = links /\ n3.blocks = n2.blocks
       /\ n3.aliases = n2.aliases
  BY <1>5, <1>6, <1>9, <1>10 DEF LinkDb
<1>13. \A t \in LinkTitles \ ts : Candidates(n3, t) = Candidates(n2, t) /\ p \notin Candidates(n2, t)
  <2> SUFFICES ASSUME NEW t \in LinkTitles \ ts
               PROVE  Candidates(n3, t) = Candidates(n2, t) /\ p \notin Candidates(n2, t)
    OBVIOUS
  <2>1. p \notin Candidates(n2, t)
    BY <1>4, <1>8 DEF Candidates
  <2>2. p \notin Candidates(n3, t)
    BY <1>9, <1>12 DEF Candidates, LiveNotes, NoNoteRow
  <2>3. \A q \in LinkPages \ {p} : q \in Candidates(n3, t) <=> q \in Candidates(n2, t)
    BY <1>9, <1>12 DEF Candidates, LiveNotes
  <2>4. Candidates(n3, t) \subseteq LinkPages /\ Candidates(n2, t) \subseteq LinkPages
    BY DEF Candidates, LiveNotes
  <2> QED BY <2>1, <2>2, <2>3, <2>4
<1>14. \A t \in LinkTitles \ ts : ResolveAlias(n3, t) = ResolveAlias(n2, t) /\ ResolveAlias(n2, t) # p
  <2> SUFFICES ASSUME NEW t \in LinkTitles \ ts
               PROVE  ResolveAlias(n3, t) = ResolveAlias(n2, t) /\ ResolveAlias(n2, t) # p
    OBVIOUS
  <2> QED BY <1>13, CandidatesResolve, ResolveType, LinksAssumption
<1>15. LinkedBut(n3, f.aliases \cup (ts \cup {}), f.refs \cup {})
  <2> SUFFICES ASSUME NEW b \in LinkBlocks \ f.refs
               PROVE  BlockLinked(n3, b, f.aliases \cup (ts \cup {}))
    BY DEF LinkedBut
  <2>1. BlockLinked(n2, b, f.aliases \cup {})
    BY <1>6 DEF LinkedBut
  <2>2. n2.blocks[b].text \subseteq LinkTitles
    BY <1>6 DEF LinkDb, TextRow
  <2>3. ASSUME NEW l \in n3.links[b]
        PROVE  l[1] \in n2.blocks[b].text
               /\ (l[1] \in f.aliases \cup (ts \cup {}) \/ l[2] = ResolveAlias(n3, l[1]))
    <3>1. PICK k \in n2.links[b] : l = Cut(k)
      BY <1>11, <1>12
    <3>2. k[1] \in n2.blocks[b].text /\ (k[1] \in f.aliases \/ k[2] = ResolveAlias(n2, k[1]))
      BY <2>1 DEF BlockLinked
    <3>3. CASE k[2] = p
      <4>1. l[1] = k[1]
        BY <3>1, <3>3
      <4>2. k[1] \in f.aliases \cup ts
        BY <1>14, <2>2, <3>2, <3>3
      <4> QED BY <3>2, <4>1, <4>2
    <3>4. CASE k[2] # p
      <4>1. l = k
        BY <3>1, <3>4
      <4> QED BY <1>14, <2>2, <3>2, <4>1
    <3> QED BY <3>3, <3>4
  <2>4. ASSUME NEW t \in n2.blocks[b].text
        PROVE  \E l \in n3.links[b] : l[1] = t
    <3>1. PICK k \in n2.links[b] : k[1] = t
      BY <2>1 DEF BlockLinked
    <3>2. Cut(k) \in n3.links[b] /\ Cut(k)[1] = t
      BY <1>11, <1>12, <3>1
    <3> QED BY <3>2
  <2> QED BY <1>12, <2>3, <2>4 DEF BlockLinked
<1>16. Imaged(n3, f)
  <2>1. /\ DOMAIN n3.pages = LinkPages /\ DOMAIN n2.pages = LinkPages
        /\ DOMAIN n3.links = LinkBlocks /\ DOMAIN n2.links = LinkBlocks
    BY <1>6, <1>12 DEF LinkDb
  <2>2. ASSUME NEW b \in LinkBlocks, b \notin DOMAIN f.graph
        PROVE  n3.links[b] = n2.links[b]
    <3>1. \A k \in n2.links[b] : k[2] # p
      BY <1>4, <2>2
    <3> QED BY <1>11, <1>12, <3>1
  <2>3. ImagesOf(f.pages, before.pages, n3.pages)
    BY <1>4, <1>6, <1>9, <1>12, <2>1 DEF Imaged, ImagesOf
  <2>4. ImagesOf(f.graph, before.links, n3.links)
    BY <1>6, <2>1, <2>2 DEF Imaged, ImagesOf
  <2> QED BY <1>6, <1>12, <2>3, <2>4 DEF Imaged
<1>17. Untitled(n3) /\ Pending(n3, f)
  BY <1>6, <1>9, <1>12 DEF Untitled, Pending, LiveTexts, NoNoteRow
<1>18. SoundBut([n |-> n3, e |-> f], ts \cup {}, {})
  BY <1>6, <1>12, <1>15, <1>16, <1>17 DEF SoundBut
<1>19. Sound(RequestLinks([n |-> n3, e |-> f], ts))
  BY <1>7, <1>18, RequestLinksSound DEF Sound
<1> QED BY <1>2, <1>3, <1>19

(* PageCreate, the one that replaces the blocks of an older creation included. *)
LEMMA NoteCreatedSound ==
  ASSUME NEW s, Sound(s), NEW p \in LinkPages, p \in DOMAIN s.e.pages,
         NEW title \in LinkTitles \cup {NoPage}, NEW h \in Nat \ {0}
  PROVE  Sound(NoteCreated(s, p, title, h))
<1> DEFINE n == s.n
           stale == {b \in LinkBlocks : n.blocks[b].page = p /\ n.blocks[b].exist < h}
           replaces == n.pages[p].exist # 0 /\ n.pages[p].exist < h
           s1 == IF ~replaces THEN s
                 ELSE [n |-> WithoutTexts(Buried(n, stale, h), stale),
                       e |-> DiscardRefs(DeletingTexts(s.e, n, stale), stale)]
           n2 == [s1.n EXCEPT !.pages[p].exist = IF @ < h THEN h ELSE @,
                           !.tomb[p] = IF @ < h THEN 0 ELSE @]
           x == [s1 EXCEPT !.n = n2]
           s3 == ApplyTitle(x, p, title, h)
           ts == ExplicitAliases(s3.n, p)
<1>1. NoteCreated(s, p, title, h) = IF n.tomb[p] >= h THEN s ELSE RequestLinks(s3, ts)
  BY DEF NoteCreated
<1>2. stale \in SUBSET LinkBlocks
  OBVIOUS
<1>3. /\ Sound(s1) /\ s1.e.pages = s.e.pages
  <2>1. CASE replaces
    <3>1. s1 = [n |-> WithoutTexts(Buried(n, stale, h), stale),
                e |-> DiscardRefs(DeletingTexts(s.e, n, stale), stale)]
      BY <2>1
    <3> HIDE DEF s1, stale
    <3>a. Sound([n |-> n, e |-> s.e])
      BY DEF Sound, SoundBut
    <3>2. /\ Sound(s1)
          /\ DiscardRefs(DeletingTexts(s.e, n, stale), stale).pages = s.e.pages
      BY <1>2, <3>a, <3>1, BlocksGone
    <3> QED BY <3>1, <3>2
  <2>2. CASE ~replaces
    BY <2>2
  <2> QED BY <2>1, <2>2
<1> DEFINE m == s1.n
<1> HIDE DEF s1, stale, replaces
<1>4. /\ m \in LinkDb /\ s1.e \in Effects /\ s1 = [n |-> m, e |-> s1.e]
      /\ LinkedBut(m, s1.e.aliases \cup {}, s1.e.refs \cup {})
      /\ Untitled(m) /\ Imaged(m, s1.e) /\ Pending(m, s1.e)
  BY <1>3 DEF Sound, SoundBut
<1>m. n2 = [m EXCEPT !.pages[p].exist = IF @ < h THEN h ELSE @,
                      !.tomb[p] = IF @ < h THEN 0 ELSE @]
  OBVIOUS
<1> HIDE DEF m, n2
<1> DEFINE row == [m.pages[p] EXCEPT !.exist = IF @ < h THEN h ELSE @]
           pages == [m.pages EXCEPT ![p] = row]
           tomb == [m.tomb EXCEPT ![p] = IF @ < h THEN 0 ELSE @]
<1>5. n2 = [[m EXCEPT !.pages = pages] EXCEPT !.tomb = tomb]
  <2> DEFINE k == [m EXCEPT !.pages = pages]
  <2>1. [m EXCEPT !.pages[p].exist = IF @ < h THEN h ELSE @] = k
    OBVIOUS
  <2>2. n2 = [k EXCEPT !.tomb[p] = IF @ < h THEN 0 ELSE @]
    BY <1>m, <2>1
  <2>3. k.tomb = m.tomb
    BY <1>4 DEF LinkDb
  <2> HIDE DEF k, n2
  <2> QED BY <2>2, <2>3 DEF k
<1>6. m.pages \in [LinkPages -> NoteRow] /\ m.tomb \in [Rows -> Nat] /\ p \in Rows
  BY <1>4 DEF LinkDb, Rows
<1>7. row \in NoteRow /\ row.exist # 0 /\ row.title = m.pages[p].title
  BY <1>6 DEF NoteRow
<1> HIDE DEF row, n2
<1>8. /\ pages \in [LinkPages -> NoteRow] /\ tomb \in [Rows -> Nat]
      /\ pages[p] = row /\ \A q \in LinkPages \ {p} : pages[q] = m.pages[q]
  BY <1>6, <1>7
<1> HIDE DEF pages, tomb
<1>9. /\ n2 \in LinkDb /\ n2.pages = pages /\ n2.blocks = m.blocks /\ n2.links = m.links
      /\ n2.aliases = m.aliases
  BY <1>4, <1>5, <1>8 DEF LinkDb
<1> DEFINE us == ExplicitAliases(n2, p)
<1>10. \A t \in LinkTitles \ us : Candidates(n2, t) = Candidates(m, t)
  <2> SUFFICES ASSUME NEW t \in LinkTitles \ us, NEW q \in LinkPages
               PROVE  q \in Candidates(n2, t) <=> q \in Candidates(m, t)
    BY DEF Candidates, LiveNotes
  <2>1. CASE q # p
    BY <1>8, <1>9, <2>1 DEF Candidates, LiveNotes
  <2>2. CASE q = p
    <3>1. ~n2.aliases[<<p, t>>].present
      BY DEF ExplicitAliases
    <3>2. m.pages[p].exist = 0 => m.pages[p].title = NoPage
      BY <1>4 DEF Untitled
    <3> QED BY <1>7, <1>8, <1>9, <2>2, <3>1, <3>2, LinksAssumption DEF Candidates, LiveNotes
  <2> QED BY <2>1, <2>2
<1>11. LinkedBut(n2, (s1.e.aliases \cup {}) \cup us, s1.e.refs \cup {})
  BY <1>4, <1>9, <1>10, Recandidated
<1>12. (s1.e.aliases \cup {}) \cup us = s1.e.aliases \cup us
  OBVIOUS
<1>13. x = [n |-> n2, e |-> s1.e]
  BY <1>4
<1>14. Imaged(n2, s1.e)
  <2>1. DOMAIN n2.pages = LinkPages /\ DOMAIN m.pages = LinkPages
    BY <1>6, <1>8, <1>9
  <2> QED BY <1>3, <1>4, <1>8, <1>9, <2>1 DEF Imaged, ImagesOf
<1>15. Untitled(n2) /\ Pending(n2, s1.e)
  BY <1>4, <1>7, <1>8, <1>9 DEF Untitled, Pending, LiveTexts
<1> HIDE DEF x, us
<1>16. SoundBut(x, us, {}) /\ p \in DOMAIN x.e.pages /\ x.n = n2
  BY <1>3, <1>4, <1>9, <1>11, <1>12, <1>13, <1>14, <1>15 DEF SoundBut
<1>17. SoundBut(s3, us, {}) /\ s3.n.aliases = n2.aliases
  BY <1>16, ApplyTitleSound
<1>18. ts = us
  BY <1>17 DEF ExplicitAliases, us
<1>19. SoundBut(s3, ts \cup {}, {}) /\ ts \in SUBSET LinkTitles
  <2>1. us \cup {} = us /\ us \in SUBSET LinkTitles
    BY DEF us, ExplicitAliases
  <2> QED BY <1>17, <1>18, <2>1
<1> HIDE DEF ts, s3
<1>20. Sound(RequestLinks(s3, ts))
  BY <1>19, RequestLinksSound DEF Sound
<1> QED BY <1>1, <1>20

(* deleting_page. *)
LEMMA DeletingNoteSound ==
  ASSUME NEW n, NEW e, Sound([n |-> n, e |-> e]), NEW p \in LinkPages
  PROVE  LET f == DeletingNote(e, n, p)
         IN /\ Sound([n |-> n, e |-> f]) /\ p \in DOMAIN f.pages
            /\ \A b \in LinkBlocks : (\E l \in n.links[b] : l[2] = p) => b \in DOMAIN f.graph
<1> DEFINE xs == {b \in LinkBlocks : \E l \in n.links[b] : l[2] = p}
           g == CapturePages(e, n, {p})
           f == CaptureGraph(g, n, xs)
<1>1. n \in LinkDb /\ e \in Effects /\ Imaged(n, e)
  BY DEF Sound, SoundBut
<1>2. xs \in SUBSET LinkBlocks /\ {p} \in SUBSET LinkPages
  OBVIOUS
<1>3. /\ g \in Effects /\ p \in DOMAIN g.pages /\ g.refs = e.refs /\ g.aliases = e.aliases
      /\ Imaged(n, g)
  BY <1>1, <1>2, CapturePagesSound
<1> HIDE DEF g
<1>4. /\ f \in Effects /\ f.pages = g.pages /\ f.refs = g.refs /\ f.aliases = g.aliases
      /\ Imaged(n, f) /\ DOMAIN f.graph = DOMAIN g.graph \cup xs
  BY <1>1, <1>2, <1>3, CaptureGraphSound
<1>5. f = DeletingNote(e, n, p)
  BY DEF DeletingNote, g
<1> HIDE DEF f
<1>6. Sound([n |-> n, e |-> f])
  BY <1>3, <1>4, RecapturedSound
<1> QED BY <1>3, <1>4, <1>5, <1>6

\* The inductive invariant: while a transaction is open its links are right but
\* for what is pending; between transactions they are right.
LinksInv ==
    /\ stamps \subseteq Nat
    /\ IF effects.open THEN Sound(Tracked(effects))
       ELSE /\ effects = NoEffects
            /\ notes \in LinkDb
            /\ Untitled(notes)
            /\ LinkedBut(notes, {}, {})
            /\ GraphReported

(* The first database: one text, linked to the one page with its title. *)
LEMMA LinksInitInv ==
  ASSUME LinksInit
  PROVE  LinksInv
<1> USE LinksAssumption
<1>1. effects = NoEffects /\ ~effects.open /\ stamps \subseteq Nat
  BY DEF LinksInit, NoEffects
<1>2. notes \in LinkDb
  <2>1. notes.pages \in [LinkPages -> NoteRow]
    BY DEF LinksInit, NoteRow, NoNoteRow
  <2>2. notes.blocks \in [LinkBlocks -> TextRow]
    BY DEF LinksInit, TextRow, NoTextRow
  <2>3. notes.links \in [LinkBlocks -> SUBSET LinkRow]
    BY DEF LinksInit, LinkRow
  <2>4. notes.aliases \in [LinkPages \X LinkTitles -> [hlc : Nat, present : BOOLEAN]]
    BY DEF LinksInit
  <2>5. notes.tomb \in [Rows -> Nat]
    BY DEF LinksInit
  <2>6. notes = [pages |-> notes.pages, blocks |-> notes.blocks, links |-> notes.links,
                 aliases |-> notes.aliases, tomb |-> notes.tomb]
    BY DEF LinksInit
  <2> QED BY <2>1, <2>2, <2>3, <2>4, <2>5, <2>6 DEF LinkDb
<1>3. Untitled(notes)
  BY DEF LinksInit, Untitled, NoNoteRow
<1>4. ResolveAlias(notes, FirstTitle) = FirstNote
  <2>1. Candidates(notes, FirstTitle) = {FirstNote}
    BY DEF LinksInit, Candidates, LiveNotes, NoNoteRow
  <2>2. Cardinality({FirstNote}) = 1
    BY FS_Singleton
  <2> QED BY <2>1, <2>2 DEF ResolveAlias
<1>5. LinkedBut(notes, {}, {})
  <2> SUFFICES ASSUME NEW b \in LinkBlocks PROVE BlockLinked(notes, b, {})
    BY DEF LinkedBut
  <2>1. CASE b = FirstText
    <3>1. notes.links[b] = {<<FirstTitle, FirstNote>>} /\ notes.blocks[b].text = {FirstTitle}
      BY <2>1 DEF LinksInit
    <3> QED BY <3>1, <1>4 DEF BlockLinked
  <2>2. CASE b # FirstText
    <3>1. notes.links[b] = {} /\ notes.blocks[b].text = {}
      BY <2>2 DEF LinksInit, NoTextRow
    <3> QED BY <3>1 DEF BlockLinked
  <2> QED BY <2>1, <2>2
<1>6. GraphReported
  BY DEF LinksInit, GraphReported
<1> QED BY <1>1, <1>2, <1>3, <1>5, <1>6 DEF LinksInv

(* An operation that keeps Sound keeps the invariant. *)
LEMMA AppliedInv ==
  ASSUME LinksInv, NEW s, NEW h \in FreeStamps, Sound(Tracked(effects)) => Sound(s), Applied(s, h)
  PROVE  LinksInv'
<1>1. effects.open /\ notes' = s.n /\ effects' = s.e /\ stamps' = stamps \cup {h} /\ before' = before
  BY DEF Applied
<1>2. Sound(s) /\ s \in [n : LinkDb, e : Effects] /\ stamps \subseteq Nat
  BY <1>1 DEF LinksInv, Sound, SoundBut
<1>3. h \in Nat
  BY LinksAssumption DEF FreeStamps
<1>4. effects'.open
  BY <1>1, <1>2 DEF Effects
<1>5. s = [n |-> notes', e |-> effects']
  BY <1>1, <1>2
<1>6. Sound(Tracked(effects))'
  BY <1>1, <1>2, <1>5 DEF Tracked, Sound, SoundBut, Imaged
<1> QED BY <1>1, <1>2, <1>3, <1>4, <1>6 DEF LinksInv

(* Clocks are positive. *)
LEMMA StampNat ==
  ASSUME NEW h \in FreeStamps
  PROVE  h \in Nat \ {0}
BY LinksAssumption DEF FreeStamps

(* What Sound says of the open transaction. *)
LEMMA TrackedSound ==
  ASSUME Sound(Tracked(effects))
  PROVE  /\ Tracked(effects) = [n |-> notes, e |-> effects]
         /\ notes \in LinkDb /\ effects \in Effects /\ Imaged(notes, effects)
BY DEF Tracked, Sound, SoundBut

(* Before an operation on a page its image is taken (capture_kind). *)
LEMMA PageTracked ==
  ASSUME Sound(Tracked(effects)), NEW p \in LinkPages
  PROVE  LET s == Tracked(CapturePages(effects, notes, {p}))
         IN  Sound(s) /\ p \in DOMAIN s.e.pages
<1> DEFINE f == CapturePages(effects, notes, {p})
<1>1. notes \in LinkDb /\ effects \in Effects /\ Imaged(notes, effects)
  BY TrackedSound
<1>2. {p} \in SUBSET LinkPages
  OBVIOUS
<1>3. /\ f \in Effects /\ p \in DOMAIN f.pages /\ f.refs = effects.refs /\ f.aliases = effects.aliases
      /\ Imaged(notes, f)
  BY <1>1, <1>2, CapturePagesSound
<1> HIDE DEF f
<1>4. Sound([n |-> notes, e |-> f])
  BY <1>3, RecapturedSound, TrackedSound
<1> QED BY <1>3, <1>4 DEF Tracked, f

(* Before an operation on a text its image is taken. *)
LEMMA TextTracked ==
  ASSUME Sound(Tracked(effects)), NEW b \in LinkBlocks
  PROVE  LET s == Tracked(CaptureBlocks(effects, notes, {b}))
         IN  Sound(s) /\ b \in DOMAIN s.e.blocks
<1> DEFINE f == CaptureBlocks(effects, notes, {b})
<1>1. notes \in LinkDb /\ effects \in Effects /\ Imaged(notes, effects)
  BY TrackedSound
<1>2. {b} \in SUBSET LinkBlocks
  OBVIOUS
<1>3. /\ f \in Effects /\ b \in DOMAIN f.blocks /\ f.refs = effects.refs /\ f.aliases = effects.aliases
      /\ Imaged(notes, f)
  BY <1>1, <1>2, CaptureBlocksSound
<1> HIDE DEF f
<1>4. Sound([n |-> notes, e |-> f])
  BY <1>3, RecapturedSound, TrackedSound
<1> QED BY <1>3, <1>4 DEF Tracked, f

(* Before a text is created or deleted the image of its links is taken as well. *)
LEMMA TextDeleting ==
  ASSUME Sound(Tracked(effects)), NEW b \in LinkBlocks
  PROVE  LET f == DeletingTexts(effects, notes, {b})
         IN  Sound([n |-> notes, e |-> f]) /\ b \in DOMAIN f.blocks /\ b \in DOMAIN f.graph
<1>1. {b} \in SUBSET LinkBlocks
  OBVIOUS
<1>2. Sound([n |-> notes, e |-> effects])
  BY TrackedSound
<1> QED BY <1>1, <1>2, DeletingTextsSound

(* Every operation of a transaction, local or synchronised. *)
LEMMA OperationInv ==
  ASSUME LinksInv,
         \/ \E p \in LinkPages :
              \/ \E title \in LinkTitles \cup {NoPage} : CreateNote(p, title) \/ SetTitle(p, title)
              \/ \E t \in LinkTitles, present \in BOOLEAN : SetAlias(p, t, present)
              \/ DeleteNote(p)
         \/ \E b \in LinkBlocks, text \in SUBSET LinkTitles :
              \/ SetMarkdown(b, text)
              \/ \E p \in LinkPages : CreateText(b, p, text)
         \/ \E b \in LinkBlocks : DeleteText(b)
  PROVE  LinksInv'
<1>1. ASSUME NEW p \in LinkPages, NEW title \in LinkTitles \cup {NoPage}, CreateNote(p, title)
      PROVE  LinksInv'
  <2>1. PICK h \in FreeStamps :
          Applied(NoteCreated(Tracked(CapturePages(effects, notes, {p})), p, title, h), h)
    BY <1>1 DEF CreateNote
  <2>2. ASSUME Sound(Tracked(effects))
        PROVE  Sound(NoteCreated(Tracked(CapturePages(effects, notes, {p})), p, title, h))
    BY <2>2, PageTracked, StampNat, NoteCreatedSound
  <2> QED BY <2>1, <2>2, AppliedInv
<1>2. ASSUME NEW p \in LinkPages, NEW title \in LinkTitles \cup {NoPage}, SetTitle(p, title)
      PROVE  LinksInv'
  <2> DEFINE s(h) == ApplyTitle(Tracked(CapturePages(effects, notes, {p})), p, title, h)
             r(h) == IF notes.tomb[p] # 0 THEN Tracked(effects) ELSE s(h)
  <2>1. PICK h \in FreeStamps : Applied(r(h), h)
    BY <1>2 DEF SetTitle
  <2>2. ASSUME Sound(Tracked(effects))
        PROVE  Sound(s(h))
    <3>1. /\ Sound(Tracked(CapturePages(effects, notes, {p})))
          /\ p \in DOMAIN Tracked(CapturePages(effects, notes, {p})).e.pages
      BY <2>2, PageTracked
    <3> QED BY <3>1, StampNat, ApplyTitleSound DEF Sound
  <2> HIDE DEF s
  <2>3. Sound(Tracked(effects)) => Sound(r(h))
    BY <2>2
  <2> QED BY <2>1, <2>3, AppliedInv
<1>3. ASSUME NEW p \in LinkPages, NEW t \in LinkTitles, NEW present \in BOOLEAN,
             SetAlias(p, t, present)
      PROVE  LinksInv'
  <2>1. PICK h \in FreeStamps : Applied(AliasSet(Tracked(effects), p, t, present, h), h)
    BY <1>3 DEF SetAlias
  <2>2. Sound(Tracked(effects)) => Sound(AliasSet(Tracked(effects), p, t, present, h))
    BY StampNat, AliasSetSound
  <2> QED BY <2>1, <2>2, AppliedInv
<1>4. ASSUME NEW p \in LinkPages, DeleteNote(p)
      PROVE  LinksInv'
  <2>1. PICK h \in FreeStamps :
          Applied(NoteDeleted(Tracked(DeletingNote(effects, notes, p)), p, h), h)
    BY <1>4 DEF DeleteNote
  <2> DEFINE f == DeletingNote(effects, notes, p)
  <2>2. ASSUME Sound(Tracked(effects))
        PROVE  Sound(NoteDeleted(Tracked(f), p, h))
    <3>1. Sound([n |-> notes, e |-> effects])
      BY <2>2, TrackedSound
    <3>2. /\ Sound([n |-> notes, e |-> f]) /\ p \in DOMAIN f.pages
          /\ \A b \in LinkBlocks : (\E l \in notes.links[b] : l[2] = p) => b \in DOMAIN f.graph
      BY <3>1, DeletingNoteSound
    <3> HIDE DEF f
    <3>3. Sound(NoteDeleted([n |-> notes, e |-> f], p, h))
      BY <3>2, StampNat, NoteDeletedSound
    <3> QED BY <3>3 DEF Tracked
  <2> QED BY <2>1, <2>2, AppliedInv
<1>5. ASSUME NEW b \in LinkBlocks, NEW text \in SUBSET LinkTitles, SetMarkdown(b, text)
      PROVE  LinksInv'
  <2> DEFINE s(h) == ApplyMarkdown(Tracked(CaptureBlocks(effects, notes, {b})), b, text, h)
             r(h) == IF notes.tomb[b] # 0 THEN Tracked(effects) ELSE s(h)
  <2>1. PICK h \in FreeStamps : Applied(r(h), h)
    BY <1>5 DEF SetMarkdown
  <2>2. ASSUME Sound(Tracked(effects))
        PROVE  Sound(s(h))
    BY <2>2, TextTracked, StampNat, ApplyMarkdownSound
  <2> HIDE DEF s
  <2>3. Sound(Tracked(effects)) => Sound(r(h))
    BY <2>2
  <2> QED BY <2>1, <2>3, AppliedInv
<1>6. ASSUME NEW b \in LinkBlocks, NEW text \in SUBSET LinkTitles, NEW p \in LinkPages,
             CreateText(b, p, text)
      PROVE  LinksInv'
  <2> DEFINE f == DeletingTexts(effects, notes, {b})
  <2>1. PICK h \in FreeStamps : Applied(TextCreated(Tracked(f), b, p, text, h), h)
    BY <1>6 DEF CreateText
  <2>2. ASSUME Sound(Tracked(effects))
        PROVE  Sound(TextCreated(Tracked(f), b, p, text, h))
    <3>1. Sound([n |-> notes, e |-> f]) /\ b \in DOMAIN f.blocks
      BY <2>2, TextDeleting
    <3> HIDE DEF f
    <3>2. Sound(TextCreated([n |-> notes, e |-> f], b, p, text, h))
      BY <3>1, StampNat, TextCreatedSound
    <3> QED BY <3>2 DEF Tracked
  <2> QED BY <2>1, <2>2, AppliedInv
<1>7. ASSUME NEW b \in LinkBlocks, DeleteText(b)
      PROVE  LinksInv'
  <2> DEFINE f == DeletingTexts(effects, notes, {b})
  <2>1. PICK h \in FreeStamps : Applied(TextDeleted(Tracked(f), b, h), h)
    BY <1>7 DEF DeleteText
  <2>2. ASSUME Sound(Tracked(effects))
        PROVE  Sound(TextDeleted(Tracked(f), b, h))
    <3>1. Sound([n |-> notes, e |-> f]) /\ b \in DOMAIN f.blocks /\ b \in DOMAIN f.graph
      BY <2>2, TextDeleting
    <3> HIDE DEF f
    <3>2. Sound(TextDeleted([n |-> notes, e |-> f], b, h))
      BY <3>1, StampNat, TextDeletedSound
    <3> QED BY <3>2 DEF Tracked
  <2> QED BY <2>1, <2>2, AppliedInv
<1> QED BY <1>1, <1>2, <1>3, <1>4, <1>5, <1>6, <1>7

(* A transaction starts without before-images and with nothing pending. *)
LEMMA BeginLinksInv ==
  ASSUME LinksInv, BeginLinks
  PROVE  LinksInv'
<1>1. PICK deferred \in BOOLEAN : effects' = [NoEffects EXCEPT !.open = TRUE, !.deferred = deferred]
  BY DEF BeginLinks
<1>2. effects' = [open |-> TRUE, deferred |-> deferred, refs |-> {}, aliases |-> {},
                  pages |-> <<>>, blocks |-> <<>>, graph |-> <<>>, failed |-> FALSE]
  BY <1>1 DEF NoEffects
<1>3. /\ notes' = notes /\ before' = notes /\ stamps' = stamps /\ stamps \subseteq Nat
      /\ notes \in LinkDb /\ Untitled(notes) /\ LinkedBut(notes, {}, {})
  BY DEF BeginLinks, LinksInv
<1>4. \A T : <<>> \in [{} -> T] /\ DOMAIN <<>> = {}
  OBVIOUS
<1>5. \A S, T : <<>> \in Partial(S, T)
  BY <1>4 DEF Partial
<1>6. effects' \in Effects
  BY <1>2, <1>5 DEF Effects
<1>7. Imaged(notes, effects)'
  BY <1>2, <1>3, <1>4 DEF Imaged, ImagesOf
<1>8. Pending(notes', effects')
  BY <1>2 DEF Pending
<1>9. LinkedBut(notes', effects'.aliases \cup {}, effects'.refs \cup {})
  <2>1. effects'.aliases \cup {} = {} /\ effects'.refs \cup {} = {}
    BY <1>2
  <2>2. LinkedBut(notes', {}, {})
    BY <1>3
  <2> QED BY <2>1, <2>2
<1>10. Sound(Tracked(effects))'
  <2> DEFINE s == Tracked(effects)
  <2>1. s'.n = notes' /\ s'.e = effects' /\ s' \in [n : LinkDb, e : Effects]
    BY <1>3, <1>6 DEF Tracked
  <2>2. Untitled(notes')
    BY <1>3
  <2>3. Imaged(s.n, s.e)'
    BY <1>7 DEF Tracked, Imaged
  <2> HIDE DEF s
  <2>4. SoundBut(s, {}, {})'
    BY <2>1, <2>2, <2>3, <1>8, <1>9 DEF SoundBut
  <2> QED BY <2>4 DEF Sound, s
<1> QED BY <1>2, <1>3, <1>10 DEF LinksInv

(* Without exceptions the links are exactly those of the text. *)
LEMMA LinkedExactly ==
  ASSUME NEW n \in LinkDb, LinkedBut(n, {}, {}), NEW b \in LinkBlocks
  PROVE  n.links[b] = {<<t, ResolveAlias(n, t)>> : t \in n.blocks[b].text}
<1>1. BlockLinked(n, b, {})
  BY DEF LinkedBut
<1>2. \A l \in n.links[b] : l = <<l[1], l[2]>>
  BY DEF LinkDb, LinkRow
<1> QED BY <1>1, <1>2 DEF BlockLinked

(* What the change tracker says at the end of a transaction. *)
LEMMA NoticeReports ==
  ASSUME NEW n \in LinkDb, NEW e \in Effects, Imaged(n, e)
  PROVE  /\ \A b \in LinkBlocks : n.links[b] # before.links[b] =>
              b \in Notice(n, e).graph /\ n.blocks[b].page \in Notice(n, e).affected
         /\ \A p \in LinkPages : n.pages[p].title # before.pages[p].title =>
              p \in Notice(n, e).graph \cap Notice(n, e).affected
<1>1. DOMAIN n.links = LinkBlocks /\ DOMAIN n.pages = LinkPages
  BY DEF LinkDb
<1>2. ASSUME NEW b \in LinkBlocks, n.links[b] # before.links[b]
      PROVE  b \in DOMAIN e.graph /\ e.graph[b] # n.links[b]
  BY <1>1, <1>2 DEF Imaged, ImagesOf
<1>3. ASSUME NEW p \in LinkPages, n.pages[p].title # before.pages[p].title
      PROVE  p \in DOMAIN e.pages /\ e.pages[p].title # n.pages[p].title
  BY <1>1, <1>3 DEF Imaged, ImagesOf
<1> QED BY <1>2, <1>3 DEF Notice

(* finish_projections and finish: titles first, then texts against the final titles,
   and the change set from the images; no pending text is without its block. *)
LEMMA CommitLinksInv ==
  ASSUME LinksInv, CommitLinks
  PROVE  LinksInv'
<1> DEFINE ts == effects.aliases
           bs == effects.refs
           e1 == CaptureGraph(effects, notes, Linking(notes, ts))
           n1 == Retargeted(notes, ts)
           e2 == CaptureGraph(e1, n1, bs)
           n2 == Relinked(n1, bs)
<1>1. effects.open /\ Sound(Tracked(effects)) /\ stamps \subseteq Nat
  BY DEF CommitLinks, LinksInv
<1>2. /\ notes \in LinkDb /\ effects \in Effects /\ Imaged(notes, effects) /\ Untitled(notes)
      /\ bs \subseteq LiveTexts(notes) /\ LinkedBut(notes, ts \cup {}, bs \cup {})
  BY <1>1 DEF Tracked, Sound, SoundBut, Pending
<1>3. ts \in SUBSET LinkTitles /\ bs \in SUBSET LinkBlocks /\ Linking(notes, ts) \in SUBSET LinkBlocks
  BY <1>2 DEF Effects, Linking
<1>4. /\ notes' = n2 /\ notice' = Notice(n2, e2) /\ effects' = NoEffects
      /\ before' = before /\ stamps' = stamps
  BY <1>2 DEF CommitLinks
<1> HIDE DEF ts, bs
<1>5. /\ n1 \in LinkDb /\ n1.pages = notes.pages /\ n1.blocks = notes.blocks
      /\ \A b \in LinkBlocks \ Linking(notes, ts) : n1.links[b] = notes.links[b]
      /\ LinkedBut(n1, {}, bs \cup {})
  BY <1>2, <1>3, RetargetedSound
<1>6. e1 \in Effects /\ DOMAIN e1.graph = DOMAIN effects.graph \cup Linking(notes, ts) /\ Imaged(notes, e1)
  BY <1>2, <1>3, CaptureGraphSound
<1> HIDE DEF e1, n1
<1>7. Imaged(n1, e1)
  BY <1>2, <1>5, <1>6, LinksOnlyImaged
<1>8. /\ n2 \in LinkDb /\ n2.pages = n1.pages /\ n2.blocks = n1.blocks
      /\ \A b \in LinkBlocks \ bs : n2.links[b] = n1.links[b]
      /\ LinkedBut(n2, {}, {})
  BY <1>3, <1>5, RelinkedSound
<1>9. e2 \in Effects /\ DOMAIN e2.graph = DOMAIN e1.graph \cup bs /\ Imaged(n1, e2)
  BY <1>3, <1>5, <1>6, <1>7, CaptureGraphSound
<1> HIDE DEF e2, n2
<1>10. Imaged(n2, e2)
  BY <1>5, <1>8, <1>9, LinksOnlyImaged
<1>11. Untitled(n2)
  BY <1>2, <1>5, <1>8 DEF Untitled
<1>12. GraphReported'
  <2>1. /\ \A b \in LinkBlocks : n2.links[b] # before.links[b] =>
             b \in Notice(n2, e2).graph /\ n2.blocks[b].page \in Notice(n2, e2).affected
        /\ \A p \in LinkPages : n2.pages[p].title # before.pages[p].title =>
             p \in Notice(n2, e2).graph \cap Notice(n2, e2).affected
    BY <1>8, <1>9, <1>10, NoticeReports
  <2> QED BY <2>1, <1>4 DEF GraphReported
<1>13. ~effects'.open
  BY <1>4 DEF NoEffects
<1> QED BY <1>1, <1>4, <1>8, <1>11, <1>12, <1>13 DEF LinksInv

(* Whatever operations a transaction holds, in whatever order and under whichever
   projection policy, at its end every link goes to the one page that answers to its
   title, the change set names every block whose links changed and every page that
   got or lost a title, and no transaction fails over a text that was pending for a
   deleted block (operation.rs finish_projections, changes.rs finish); for any set of
   pages, blocks and titles and any number of operations. *)
THEOREM LinksHonestTheorem == LinksSpec => []LinksHonest
<1>1. LinksInit => LinksInv
  BY LinksInitInv
<1>2. LinksInv /\ [LinksNext]_linkVars => LinksInv'
  <2> SUFFICES ASSUME LinksInv, [LinksNext]_linkVars PROVE LinksInv'
    OBVIOUS
  <2>1. CASE BeginLinks
    BY <2>1, BeginLinksInv
  <2>2. CASE CommitLinks
    BY <2>2, CommitLinksInv
  <2>3. CASE UNCHANGED linkVars
    <3>1. /\ notes' = notes /\ effects' = effects /\ before' = before /\ notice' = notice
          /\ stamps' = stamps
      BY <2>3 DEF linkVars
    <3>2. GraphReported' <=> GraphReported
      BY <3>1 DEF GraphReported
    <3>3. Sound(Tracked(effects))' <=> Sound(Tracked(effects))
      BY <3>1 DEF Sound, SoundBut, Imaged, Tracked
    <3> QED BY <3>1, <3>2, <3>3 DEF LinksInv
  <2> QED BY <2>1, <2>2, <2>3, OperationInv DEF LinksNext
<1>3. LinksInv => LinksHonest
  <2> SUFFICES ASSUME LinksInv PROVE LinksHonest
    OBVIOUS
  <2>1. CASE effects.open
    <3>1. ~effects.failed
      BY <2>1 DEF LinksInv, Sound, SoundBut, Tracked, Effects
    <3> QED BY <2>1, <3>1 DEF LinksHonest, LinksCurrent, GraphReported, NothingDangling
  <2>2. CASE ~effects.open
    <3>1. LinksCurrent
      BY <2>2, LinkedExactly DEF LinksInv, LinksCurrent
    <3>2. ~effects.failed /\ GraphReported
      BY <2>2 DEF LinksInv, NoEffects
    <3> QED BY <3>1, <3>2 DEF LinksHonest, NothingDangling
  <2> QED BY <2>1, <2>2
<1> QED BY <1>1, <1>2, <1>3, PTL DEF LinksSpec
=============================================================================
