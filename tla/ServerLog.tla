----------------------------- MODULE ServerLog -----------------------------
(***************************************************************************)
(* One user's half of the sync server (server/src/state.rs, oplog.rs): two *)
(* SQLite files - the oplog and the notes replica materialised from it -   *)
(* and one actor that serialises ingest.  The files commit separately: a   *)
(* batch is appended row by row, applied in one transaction, and taken off *)
(* the tail again when it does not apply.  Readers of the oplog do not go  *)
(* through the actor.                                                      *)
(***************************************************************************)
EXTENDS Replica, Sequences

CONSTANTS
  Client,        \* devices
  Server,        \* the server's own replica, which also authors operations
  Nobody,        \* a request whose caller went away
  Faults,        \* subset of FaultKinds that this instance lets happen
  Inapplicable,  \* operations that apply_one refuses on the server
  Batch,         \* 256: rows per push and per page
  MaxCrashes     \* bound: server crashes

Peer == Client \cup {Server}
FaultKinds == {"appendError", "applyError", "rollbackError", "snapshotError"}

ASSUME ServerAssumption == Server \notin Client /\ Nobody \notin Client \cup {Server}
ASSUME BatchAssumption == Batch \in Nat \ {0}
ASSUME FaultsAssumption == Faults \subseteq FaultKinds
ASSUME InapplicableAssumption == Inapplicable \subseteq OpId
ASSUME MaxCrashesAssumption == MaxCrashes \in Nat

VARIABLES
  oplog,     \* Seq(OpId): the row with seq i is oplog[i]
  row,       \* [Peer -> [OpId -> NoRow, Null or seq]], applied_ops
  cursor,    \* [Peer -> Nat], last_server_seq
  out,       \* [Peer -> SUBSET OpId], sync_outbox
  author,    \* history: [OpId -> Peer or Nobody]
  nextOp,    \* the next operation to be authored
  inbox,     \* requests waiting for the actor
  job,       \* what the actor works on
  up,        \* the server process is running
  crashes

serverVars == <<oplog, row, cursor, out, author, nextOp, inbox, job, up, crashes>>

(* UserCommand::Ingest with its oneshot; `tag` tells abandoned ones apart. *)
Request == [from : Peer \cup {Nobody}, ops : SUBSET OpId, tag : Nat]

(* The locals of ingest_operations: `todo` not appended yet, `base` the log's
   length at the start, so that the inserted rows are those above base. *)
NoJob == [phase |-> "idle", from |-> Nobody, ops |-> {}, todo |-> {}, base |-> 0,
          error |-> "none"]
Job == [phase : {"idle", "append", "rollback"}, from : Peer \cup {Nobody},
        ops : SUBSET OpId, todo : SUBSET OpId, base : Nat,
        error : {"none", "terminal", "transient"}]

InLog(o) == \E i \in 1 .. Len(oplog) : oplog[i] = o
SeqOf(o) == CHOOSE i \in 1 .. Len(oplog) : oplog[i] = o

(* The appends of the running batch as apply_sequenced_batch receives them. *)
Appended == {[seq |-> SeqOf(o), op |-> o] : o \in job.ops}

(* Rows since+1 .. since+limit of the oplog: Oplog::ops_since. *)
OpsSince(since, limit) ==
  {[seq |-> i, op |-> oplog[i]] : i \in {j \in 1 .. Len(oplog) :
                                            since < j /\ j <= since + limit}}

ServerInit ==
  /\ oplog = <<>>
  /\ row = [p \in Peer |-> [o \in OpId |-> NoRow]]
  /\ cursor = [p \in Peer |-> 0]
  /\ out = [p \in Peer |-> {}]
  /\ author = [o \in OpId |-> Nobody]
  /\ nextOp = 1
  /\ inbox = {}
  /\ job = NoJob
  /\ up = TRUE
  /\ crashes = 0

----------------------------------------------------------------------------
(* apply_local_kinds on a replica that publishes: one transaction applies the
   operation, adds its applied_ops row and queues it. *)
Author(p) ==
  /\ nextOp \in OpId
  /\ p = Server => up
  /\ nextOp' = nextOp + 1
  /\ author' = [author EXCEPT ![nextOp] = p]
  /\ row' = [row EXCEPT ![p][nextOp] = Null]
  /\ out' = [out EXCEPT ![p] = @ \cup {nextOp}]

(* UserState::ingest: hand a batch to the actor. *)
Enqueue(from, ops) == inbox' = inbox \cup {[from |-> from, ops |-> ops, tag |-> 0]}

(* publish_authored_ops, after a write or from the 30 s sweep. *)
PublishAuthored ==
  /\ up
  /\ out[Server] # {}
  /\ ~ \E r \in inbox : r.from = Server
  /\ Enqueue(Server, OutboxHead(out[Server], {}, Batch))
  /\ UNCHANGED <<oplog, row, cursor, out, author, nextOp, job, up, crashes>>

(* The actor takes the next command. *)
StartIngest ==
  /\ up /\ job.phase = "idle"
  /\ \E r \in inbox :
       /\ inbox' = inbox \ {r}
       /\ job' = [phase |-> "append", from |-> r.from, ops |-> r.ops,
                  todo |-> r.ops, base |-> Len(oplog), error |-> "none"]
  /\ UNCHANGED <<oplog, row, cursor, out, author, nextOp, up, crashes>>

(* Mutant of AppendOne: the duplicate check is gone. *)
AppendOne_NoDedup ==
  /\ up /\ job.phase = "append" /\ job.todo # {}
  /\ LET o == Oldest(job.todo) IN
       /\ job' = [job EXCEPT !.todo = @ \ {o}]
       /\ oplog' = Append(oplog, o)
  /\ UNCHANGED <<row, cursor, out, author, nextOp, inbox, up, crashes>>

(* Oplog::append of the next operation: a known op_id keeps its row, a new
   one gets MAX(seq) + 1 in a transaction of its own. *)
AppendOne ==
  /\ up /\ job.phase = "append" /\ job.todo # {}
  /\ LET o == Oldest(job.todo) IN
       /\ job' = [job EXCEPT !.todo = @ \ {o}]
       /\ oplog' = IF InLog(o) THEN oplog ELSE Append(oplog, o)
  /\ UNCHANGED <<row, cursor, out, author, nextOp, inbox, up, crashes>>

AppendFails ==
  /\ "appendError" \in Faults
  /\ up /\ job.phase = "append" /\ job.todo # {}
  /\ job' = [job EXCEPT !.phase = "rollback", !.error = "transient"]
  /\ UNCHANGED <<oplog, row, cursor, out, author, nextOp, inbox, up, crashes>>

(* apply_one refuses some operation of the batch; only operations that have no
   applied_ops row yet are handed to it. *)
Refuses(p, batch) ==
  \E e \in Fresh(cursor[p], batch) : e.op \in Inapplicable /\ row[p][e.op] = NoRow

(* apply_sequenced_batch on replica p would commit the batch. *)
Applies(p, batch) == ~ Refuses(p, batch) /\ BatchFits(row[p], cursor[p], batch)

(* The batch keeps the order of the request, oldest first, so a duplicate left
   above the cursor may come too late. *)
OutOfOrder ==
  \E e, f \in Fresh(cursor[Server], Appended) : e.op < f.op /\ f.seq < e.seq

IngestApplies == Applies(Server, Appended) /\ ~ OutOfOrder

(* Commit of the batch on a replica: rows, cursor and outbox together. *)
CommitOn(p, batch) ==
  /\ \E m \in {cursor[p]} \cup {e.seq : e \in batch} :
       /\ IsCursorAfter(m, cursor[p], batch)
       /\ cursor' = [cursor EXCEPT ![p] = m]
  /\ row' = [row EXCEPT ![p] = RowsAfter(@, cursor[p], batch)]
  /\ out' = [out EXCEPT ![p] = OutboxAfter(@, cursor[p], batch)]

(* The end of a successful ingest. *)
ApplyOk ==
  /\ up /\ job.phase = "append" /\ job.todo = {}
  /\ IngestApplies
  /\ CommitOn(Server, Appended)
  /\ job' = NoJob
  /\ UNCHANGED <<oplog, author, nextOp, inbox, up, crashes>>

(* The transaction returns a domain error (400 and 409 are terminal for the
   client, 404 is not) or the database fails. *)
ApplyFails ==
  /\ up /\ job.phase = "append" /\ job.todo = {}
  /\ \E error \in {"terminal", "transient"} :
       /\ \/ error = "terminal" /\ ~ IngestApplies
          \/ error = "transient" /\ (Refuses(Server, Appended) \/ "applyError" \in Faults)
       /\ job' = [job EXCEPT !.phase = "rollback", !.error = error]
  /\ UNCHANGED <<oplog, row, cursor, out, author, nextOp, inbox, up, crashes>>

(* Mutant of RemoveTail: the whole batch is taken off, duplicates included. *)
RemoveTail_AllOfBatch ==
  /\ up /\ job.phase = "rollback" /\ Len(oplog) > 0
  /\ oplog[Len(oplog)] \in job.ops
  /\ oplog' = SubSeq(oplog, 1, Len(oplog) - 1)
  /\ UNCHANGED <<row, cursor, out, author, nextOp, inbox, job, up, crashes>>

(* Oplog::remove_tail of the last row this batch inserted. *)
RemoveTail ==
  /\ up /\ job.phase = "rollback" /\ Len(oplog) > job.base
  /\ oplog' = SubSeq(oplog, 1, Len(oplog) - 1)
  /\ UNCHANGED <<row, cursor, out, author, nextOp, inbox, job, up, crashes>>

(* The rollback ends: with the batch's own error, or early with a 500 when
   remove_tail itself fails. *)
RolledBack ==
  /\ up /\ job.phase = "rollback"
  /\ Len(oplog) = job.base \/ "rollbackError" \in Faults
  /\ job' = NoJob
  /\ UNCHANGED <<oplog, row, cursor, out, author, nextOp, inbox, up, crashes>>

RollbackError == IF Len(oplog) = job.base THEN job.error ELSE "transient"

(* The process dies: queued commands, the running ingest and every open
   connection are gone; both database files stay as they are. *)
Crash ==
  /\ up /\ crashes < MaxCrashes
  /\ up' = FALSE /\ crashes' = crashes + 1
  /\ inbox' = {} /\ job' = NoJob
  /\ UNCHANGED <<oplog, row, cursor, out, author, nextOp>>

(* What the log holds beyond the materialised replica. *)
Unapplied == OpsSince(cursor[Server], Len(oplog))

(* UserState::open: replay_oplog applies the tail before anything is served,
   and an operation it refuses keeps the server from opening. *)
Restart ==
  /\ ~ up
  /\ Applies(Server, Unapplied)
  /\ CommitOn(Server, Unapplied)
  /\ up' = TRUE
  /\ UNCHANGED <<oplog, author, nextOp, inbox, job, crashes>>
============================================================================
