----------------------------- MODULE BlobServer -----------------------------
(***************************************************************************)
(* Attachment bodies and handwriting graphs on the server (server/src      *)
(* api.rs, api/ink.rs and blob_ownership.rs; notes-sync transport.rs and   *)
(* transport/ink.rs; src-tauri sync.rs).  Bodies of all users share one    *)
(* content-addressed directory; the ownership table says which user has    *)
(* uploaded which body and carries the quota.  A device uploads what an    *)
(* operation needs before it pushes the operation: a file always, of a     *)
(* handwriting graph only the blocks the server reports missing.  The      *)
(* server checks an upload in three steps - claim the ownership row,       *)
(* install the file, give a fresh row back when that failed - and a push   *)
(* in two, so uploads of two devices of one user interleave.  A device     *)
(* pulls another's operation only after it has downloaded its bodies.      *)
(***************************************************************************)
EXTENDS Integers, FiniteSets

CONSTANTS
    Phones,      \* devices
    Laptops,     \* devices of the same user as every phone
    Strangers,   \* devices of another user
    Files,       \* hashes of attachment bodies
    Roots,       \* hashes of handwriting roots
    Strokes,     \* hashes of the records and chunks every root refers to
    Encounters,  \* the sets of devices explored together
    BlobQuota    \* max_user_blob_bytes, in bodies

VARIABLES
    owned,       \* rows <<user, hash>> of blob_ownership
    disk,        \* bodies open_verified succeeds on
    upload,      \* upload[d]: what device d is publishing and how far it is
    published,   \* published[u]: files and roots operations of u's log refer to
    holding,      \* holding[d]: bodies device d holds
    sent,        \* <<user, hash>>: u's devices have transmitted the body
    served,      \* <<user, hash>>: the server has handed the body to u's devices
    online       \* the devices of this behaviour, a member of Encounters

uploadVars == <<owned, disk, upload, published, holding, sent, served, online>>

Machines == Phones \cup Laptops \cup Strangers
AccountOf(d) == IF d \in Strangers THEN "other" ELSE "owner"
Accounts == {AccountOf(d) : d \in Machines}
Bodies == Files \cup Roots \cup Strokes
Items == Files \cup Roots

\* The devices are known, and there are finitely many bodies.
ASSUME UploadsAssumption ==
    /\ Encounters \subseteq SUBSET Machines
    /\ IsFiniteSet(Bodies)
    /\ BlobQuota \in Nat

\* required_blobs plus the root itself; a file is its own body.
Graph(x) == IF x \in Roots THEN {x} \cup Strokes ELSE {x}

Quiet == [stage |-> "idle", item |-> "none", todo |-> {}, now |-> "none", fresh |-> FALSE]

UploadsInit ==
    /\ owned = {} /\ disk = {} /\ sent = {} /\ served = {}
    /\ upload = [d \in Machines |-> Quiet]
    /\ published = [u \in Accounts |-> {}]
    /\ holding = [d \in Machines |-> {}]
    /\ online \in Encounters

Owns(u, h) == <<u, h>> \in owned
-----------------------------------------------------------------------------
(* The device: an operation enters the outbox, its bodies go first.        *)

\* A command attaches a file or publishes a drawing; the outbox holds it.
QueueItem(d, x) ==
    /\ upload[d] = Quiet
    /\ x \notin published[AccountOf(d)]
    /\ holding' = [holding EXCEPT ![d] = @ \cup Graph(x)]
    /\ upload' = [upload EXCEPT ![d] = [Quiet EXCEPT !.stage = "prepare", !.item = x]]
    /\ UNCHANGED <<owned, disk, published, sent, served>>

\* ink::missing: not owned by this user or not readable.
Missing(u, hashes) == {h \in hashes : ~Owns(u, h) \/ h \notin disk}

\* A file is always transmitted; of a graph only what the server lacks.
ToUpload(d, x) == IF x \in Roots THEN Missing(AccountOf(d), Graph(x)) ELSE {x}

PrepareUpload(d) ==
    /\ upload[d].stage = "prepare"
    /\ upload' = [upload EXCEPT ![d].stage = "send", ![d].todo = ToUpload(d, upload[d].item)]
    /\ UNCHANGED <<owned, disk, published, holding, sent, served>>

\* Any error ends the attempt; the worker starts it again from the outbox.
Restart(d) == [upload[d] EXCEPT !.stage = "prepare", !.todo = {}, !.now = "none", !.fresh = FALSE]
-----------------------------------------------------------------------------
(* put_blob and ink::upload.                                               *)

\* Mutant of FitsQuota: compares the usage without the new body.
FitsQuota_Unadded(u) == Cardinality({h \in Bodies : Owns(u, h)}) <= BlobQuota

\* used + size > quota is refused; every body counts as one.
FitsQuota(u) == Cardinality({h \in Bodies : Owns(u, h)}) + 1 <= BlobQuota

\* stage_blob, then BlobOwnership::claim in one transaction.
Claim(d, h) ==
    /\ upload[d].stage = "send"
    /\ h \in upload[d].todo
    /\ sent' = sent \cup {<<AccountOf(d), h>>}
    /\ IF Owns(AccountOf(d), h)
         THEN /\ upload' = [upload EXCEPT ![d].stage = "claimed", ![d].now = h]
              /\ owned' = owned
         ELSE IF FitsQuota(AccountOf(d))
           THEN /\ owned' = owned \cup {<<AccountOf(d), h>>}
                /\ upload' = [upload EXCEPT ![d].stage = "claimed", ![d].now = h,
                                            ![d].fresh = TRUE]
           ELSE /\ owned' = owned
                /\ upload' = [upload EXCEPT ![d] = Restart(d)]
    /\ UNCHANGED <<disk, published, holding, served>>

Installed(d) ==
    /\ upload[d].stage = "claimed"
    /\ disk' = disk \cup {upload[d].now}
    /\ upload' = [upload EXCEPT ![d].stage = "send", ![d].todo = @ \ {upload[d].now},
                                ![d].now = "none", ![d].fresh = FALSE]
    /\ UNCHANGED <<owned, published, holding, sent, served>>

\* A row this request inserted is deleted again, if that succeeds.
RowsAfterFailure(d, rollback) ==
    IF upload[d].fresh /\ rollback THEN owned \ {<<AccountOf(d), upload[d].now>>} ELSE owned

\* The body could not be installed.
InstallFails(d, rollback) ==
    /\ upload[d].stage = "claimed"
    /\ owned' = RowsAfterFailure(d, rollback)
    /\ upload' = [upload EXCEPT ![d] = Restart(d)]
    /\ UNCHANGED <<disk, published, holding, sent, served>>

\* The connection drops after the claim: the handler is cancelled, the
\* blocking installation it started still runs or never did.
ConnectionLost(d, ran) ==
    /\ upload[d].stage \in {"claimed", "send", "checked"}
    /\ disk' = IF ran /\ upload[d].stage = "claimed" THEN disk \cup {upload[d].now} ELSE disk
    /\ upload' = [upload EXCEPT ![d] = Restart(d)]
    /\ UNCHANGED <<owned, published, holding, sent, served>>
-----------------------------------------------------------------------------
(* push_ops: validate_operation_blobs and ink::validate, then ingest.      *)

\* Mutant of Acceptable: only the root of a graph is looked up.
Acceptable_RootOnly(u, x) == x \in disk /\ (x \in Roots => Owns(u, x))

\* A declared file must be stored; a graph must be stored and owned whole.
Acceptable(u, x) ==
    /\ Graph(x) \subseteq disk
    /\ x \in Roots => \A h \in Graph(x) : Owns(u, h)

CheckPush(d) ==
    /\ upload[d].stage = "send" /\ upload[d].todo = {}
    /\ upload' = [upload EXCEPT ![d] = IF Acceptable(AccountOf(d), upload[d].item)
                                         THEN [@ EXCEPT !.stage = "checked"]
                                         ELSE Restart(d)]
    /\ UNCHANGED <<owned, disk, published, holding, sent, served>>

Ingest(d) ==
    /\ upload[d].stage = "checked"
    /\ published' = [published EXCEPT ![AccountOf(d)] = @ \cup {upload[d].item}]
    /\ upload' = [upload EXCEPT ![d] = Quiet]
    /\ UNCHANGED <<owned, disk, holding, sent, served>>

\* An operation may declare a body its device never uploaded: the server
\* validates it all the same.
PushUnsent(d, x) ==
    /\ upload[d] = Quiet
    /\ Acceptable(AccountOf(d), x)
    /\ published' = [published EXCEPT ![AccountOf(d)] = @ \cup {x}]
    /\ UNCHANGED <<owned, disk, upload, holding, sent, served>>
-----------------------------------------------------------------------------
(* get_blob and ink::download, before the pulled operation is applied.     *)

\* Mutant of Authorized: a reference alone opens the body.
Authorized_Referenced(u, x, h) == x \in published[u] /\ h \in disk

\* A file needs a reference in the user's notes and an ownership row, a
\* block of a graph the row.
Authorized(u, x, h) ==
    /\ x \in Files => x \in published[u]
    /\ Owns(u, h)
    /\ h \in disk

\* What the device holds already is not fetched; one refused body fails the
\* whole preparation and the page is pulled again later.
Download(d, x) ==
    /\ upload[d].stage \in {"idle", "prepare"}
    /\ x \in published[AccountOf(d)]
    /\ LET fetch == Graph(x) \ holding[d]
       IN /\ fetch # {}
          /\ \A h \in fetch : Authorized(AccountOf(d), x, h)
          /\ holding' = [holding EXCEPT ![d] = @ \cup fetch]
          /\ served' = served \cup {<<AccountOf(d), h>> : h \in fetch}
    /\ UNCHANGED <<owned, disk, upload, published, sent>>

UploadsNext ==
    /\ UNCHANGED online
    /\ \/ \E d \in online, x \in Items : QueueItem(d, x)
       \/ \E d \in online : PrepareUpload(d)
       \/ \E d \in online, h \in Bodies : Claim(d, h)
       \/ \E d \in online : Installed(d)
       \/ \E d \in online, rollback \in BOOLEAN : InstallFails(d, rollback)
       \/ \E d \in online, ran \in BOOLEAN : ConnectionLost(d, ran)
       \/ \E d \in online : CheckPush(d)
       \/ \E d \in online : Ingest(d)
       \/ \E d \in online, x \in Items : PushUnsent(d, x)
       \/ \E d \in online, x \in Items : Download(d, x)

UploadsSpec == UploadsInit /\ [][UploadsNext]_uploadVars
-----------------------------------------------------------------------------
\* No user's ownership rows ever exceed the quota, however uploads of the
\* user's devices interleave, fail, leak a row or are retried
\* (BlobOwnership::claim, blob_ownership.rs:83-103).
QuotaKept ==
    \A u \in Accounts : Cardinality({h \in Bodies : Owns(u, h)}) <= BlobQuota

\* A user is only ever handed bodies a device of that user has transmitted,
\* although every user's bodies share the directory and any operation may
\* declare any hash (open_authorized_blob, api.rs:829-856).
ServedOwn == served \subseteq sent

\* Whatever an accepted operation refers to is stored in full, so no replica
\* meets an operation whose bodies never arrived (ingest_ink_checked).
PublishedStored ==
    \A u \in Accounts : \A x \in published[u] : Graph(x) \subseteq disk

\* What the shared directory promises each user: no more than the quota, nobody
\* else's bodies, and every body an accepted operation needs.
BodiesGuarded == QuotaKept /\ ServedOwn /\ PublishedStored
=============================================================================
