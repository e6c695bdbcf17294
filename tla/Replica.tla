------------------------------ MODULE Replica ------------------------------
(***************************************************************************)
(* The sync bookkeeping of one notes database, as                          *)
(* crates/notes-core/src/operation.rs keeps it: the table applied_ops      *)
(* (op_id -> seq, where seq may be NULL), the row sync_meta.last_server_seq*)
(* (the cursor) and the table sync_outbox.  An operation is a number: ids  *)
(* grow in the order operations are authored, so that the numeric order of *)
(* the operations of one replica is the rowid order of its outbox.         *)
(***************************************************************************)
EXTENDS Integers, FiniteSets

CONSTANT
  MaxOps      \* bound: how many operations are ever authored

ASSUME MaxOpsAssumption == MaxOps \in Nat

OpId == 1 .. MaxOps

NoRow == -1   \* applied_ops has no row for the operation
Null == 0     \* the row's seq is NULL: applied here, not sequenced yet

(* (seq, operation), a SequencedOp on the wire. *)
Entry == [seq : Nat \ {0}, op : OpId]

(* The entries above the cursor; the others are skipped as already applied. *)
Fresh(cursor, batch) == {e \in batch : e.seq > cursor}

(* `server sequence {seq} is assigned to multiple operations` *)
SeqReused(rows, cursor, batch) ==
  \E e \in batch : e.seq <= cursor /\ \E p \in OpId : p # e.op /\ rows[p] = e.seq

(* SyncSequenceGap: the fresh entries do not continue the cursor. *)
SeqGap(cursor, batch) ==
  \E e \in Fresh(cursor, batch) : \E i \in cursor + 1 .. e.seq :
    ~ \E f \in Fresh(cursor, batch) : f.seq = i

(* `operation {id} has server sequences {existing} and {seq}` *)
SeqChanged(rows, cursor, batch) ==
  \E e \in Fresh(cursor, batch) : rows[e.op] > 0 /\ rows[e.op] # e.seq

(* UNIQUE(seq) of applied_ops: a row above the cursor, acknowledged earlier,
   holds the number already. *)
SeqTaken(rows, cursor, batch) ==
  \E e \in Fresh(cursor, batch), p \in OpId : p # e.op /\ rows[p] = e.seq

(* apply_sequenced_batch commits; a batch lists its entries by growing seq. *)
BatchFits(rows, cursor, batch) ==
  /\ ~ SeqReused(rows, cursor, batch)
  /\ ~ SeqGap(cursor, batch)
  /\ ~ SeqChanged(rows, cursor, batch)
  /\ ~ SeqTaken(rows, cursor, batch)

(* applied_ops after the commit: every fresh operation has its seq. *)
RowsAfter(rows, cursor, batch) ==
  [o \in OpId |->
     IF \E e \in Fresh(cursor, batch) : e.op = o
       THEN (CHOOSE e \in Fresh(cursor, batch) : e.op = o).seq
       ELSE rows[o]]

(* last_server_seq after the commit: the cursor or the batch's highest seq. *)
IsCursorAfter(m, cursor, batch) ==
  /\ m \in {cursor} \cup {e.seq : e \in batch}
  /\ cursor <= m
  /\ \A e \in batch : e.seq <= m

(* Mutant of OutboxAfter: whatever is older than the batch leaves as well. *)
OutboxAfter_Older(out, cursor, batch) ==
  {o \in out : \A e \in Fresh(cursor, batch) : e.op < o}

(* sync_outbox after the commit: fresh operations leave it, skipped ones stay. *)
OutboxAfter(out, cursor, batch) == out \ {e.op : e \in Fresh(cursor, batch)}

(* acknowledge_server_ops: stamp the seq on rows that exist; the cursor stays. *)
Acknowledged(rows, acks) ==
  [o \in OpId |-> IF rows[o] # NoRow /\ \E e \in acks : e.op = o
                    THEN (CHOOSE e \in acks : e.op = o).seq
                    ELSE rows[o]]

(* acknowledge_server_ops commits: the updates, oldest operation first, never
   give two rows one number. *)
AcksFit(rows, acks) ==
  \A e \in acks, p \in OpId :
    /\ p # e.op /\ rows[e.op] # NoRow
    /\ ~ \E f \in acks : f.op = p /\ p < e.op
    => rows[p] # e.seq

(* Mutant of OutboxHead: the newest rows go first. *)
OutboxHead_Newest(out, quarantined, limit) ==
  LET pending == out \ quarantined
  IN {o \in pending : Cardinality({p \in pending : p > o}) < limit}

(* pending_outbox: the oldest `limit` rows that are not quarantined. *)
OutboxHead(out, quarantined, limit) ==
  LET pending == out \ quarantined
  IN {o \in pending : Cardinality({p \in pending : p < o}) < limit}

Oldest(ops) == CHOOSE o \in ops : \A p \in ops : o <= p
============================================================================
