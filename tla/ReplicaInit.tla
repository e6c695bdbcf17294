---------------------------- MODULE ReplicaInit ----------------------------
(***************************************************************************)
(* How a device and a server come to share one workspace:                  *)
(* initialize_replica of src-tauri/src/sync.rs, bootstrap_replica of       *)
(* server/src/state.rs and the sync_meta rows of notes-core/operation.rs.  *)
(* A write adds one note, named like the operation that made it; deleting  *)
(* leaves tombstones and never makes a workspace empty again.              *)
(***************************************************************************)
EXTENDS Replica, Sequences, SequencesExt

CONSTANTS Devices, Servers, Nobody

VARIABLES
  box,      \* per server: workspace uuid, imported notes, unpublished notes, oplog
  dev,      \* per device: its notes database and its sync_meta
  session,  \* per device: where initialize_replica is and what it has read
  written   \* the next operation anybody authors

initVars == <<box, dev, session, written>>

Idle == [pc |-> "idle", server |-> Nobody, local |-> Nobody]

(* The materialised notes of a server, published or not. *)
ServerNotes(s) == box[s].base \cup box[s].own \cup Range(box[s].log)

(* Every database is created with a workspace uuid of its own. *)
ReplicaInitInit ==
  /\ box = [s \in Servers |-> [ws |-> s, base |-> {}, own |-> {}, log |-> <<>>]]
  /\ dev = [d \in Devices |->
              [ws |-> d, url |-> Nobody, bound |-> Nobody, notes |-> {},
               rows |-> [o \in OpId |-> NoRow], out |-> {}, cursor |-> 0]]
  /\ session = [d \in Devices |-> Idle]
  /\ written = 1

----------------------------------------------------------------------------
(* A local write: publishes_authored_ops queues it once a server is configured. *)
WriteNote(d) ==
  /\ written \in OpId
  /\ written' = written + 1
  /\ dev' = [dev EXCEPT ![d].notes = @ \cup {written}, ![d].rows[written] = Null,
                        ![d].out = IF dev[d].url = Nobody THEN @ ELSE @ \cup {written}]
  /\ UNCHANGED <<box, session>>

(* The chat agent writes on the server; publish_authored_ops comes later. *)
ServerWrite(s) ==
  /\ written \in OpId
  /\ written' = written + 1
  /\ box' = [box EXCEPT ![s].own = @ \cup {written}]
  /\ UNCHANGED <<dev, session>>

Publish(s) ==
  /\ box[s].own # {}
  /\ box' = [box EXCEPT ![s].log = @ \o SetToSortSeq(box[s].own, <), ![s].own = {}]
  /\ UNCHANGED <<dev, session, written>>

(* New settings: the session in progress is dropped, configure_sync forgets
   the binding and keeps the cursor, the rows and the outbox. *)
ConfigureSync(d, s) ==
  /\ dev[d].url # s
  /\ dev' = [dev EXCEPT ![d].url = s, ![d].bound = Nobody]
  /\ session' = [session EXCEPT ![d] = Idle]
  /\ UNCHANGED <<box, written>>

(* A lost connection, a restart, or an explicit retry of a parked conflict. *)
StartOver(d) ==
  /\ session[d].pc # "idle"
  /\ session' = [session EXCEPT ![d] = Idle]
  /\ UNCHANGED <<box, dev, written>>

----------------------------------------------------------------------------
(* initialize_replica. *)

(* transport.snapshot, when sync_meta holds no binding. *)
FetchSnapshot(d) ==
  LET s == dev[d].url IN
  /\ session[d].pc = "idle" /\ s # Nobody /\ dev[d].bound = Nobody
  /\ session' = [session EXCEPT ![d].pc = "capture",
                   ![d].server = [ws |-> box[s].ws, seq |-> Len(box[s].log), notes |-> ServerNotes(s)]]
  /\ UNCHANGED <<box, dev, written>>

(* capture_sync_baseline: content and outbox in one read transaction. *)
CaptureBaseline(d) ==
  /\ session[d].pc = "capture"
  /\ session' = [session EXCEPT ![d].pc = "match",
                   ![d].local = [ws |-> dev[d].ws, notes |-> dev[d].notes, pending |-> dev[d].out]]
  /\ UNCHANGED <<box, dev, written>>

(* outbox_explains_snapshot_difference *)
OutboxExplains(server, local) ==
  local.pending # {} /\ server.notes \cup local.pending = local.notes

MatchCase(d, serverEmpty, localEmpty) ==
  /\ session[d].pc = "match"
  /\ serverEmpty = (session[d].server.notes = {})
  /\ localEmpty = (session[d].local.notes = {})

Goto(d, pc) == session' = [session EXCEPT ![d].pc = pc]

(* Mutant of MayBootstrap: only the oplog is looked at. *)
MayBootstrap_LogOnly(s) == box[s].log = <<>>

(* bootstrap_replica: neither operations nor notes on the server yet. *)
MayBootstrap(s) == box[s].log = <<>> /\ ServerNotes(s) = {}

(* transport.bootstrap: the server takes the identity and the notes of the
   device, or answers 409; the answer may get lost. *)
BootstrapServer(d) ==
  LET s == dev[d].url
      local == session[d].local
  IN /\ MatchCase(d, TRUE, FALSE)
     /\ IF MayBootstrap(s)
          THEN /\ box' = [box EXCEPT ![s] = [ws |-> local.ws, base |-> local.notes,
                                             own |-> {}, log |-> <<>>]]
               /\ Goto(d, "bind") \/ session' = [session EXCEPT ![d] = Idle]
          ELSE session' = [session EXCEPT ![d] = Idle] /\ UNCHANGED box
     /\ UNCHANGED <<dev, written>>

(* require_empty_replica, in the transaction of the replacement. *)
ReplicaEmpty(d) ==
  /\ dev[d].notes = {} /\ dev[d].out = {}
  /\ \A o \in OpId : dev[d].rows[o] = NoRow

(* bootstrap_sync_snapshot: replace content, identity and cursor; forget
   applied_ops and the outbox.  Also for two empty sides, where the server's
   identity is canonical. *)
AdoptSnapshot(d) ==
  LET server == session[d].server IN
  /\ MatchCase(d, TRUE, TRUE) \/ MatchCase(d, FALSE, TRUE)
  /\ IF ReplicaEmpty(d)
       THEN /\ dev' = [dev EXCEPT ![d].ws = server.ws, ![d].notes = server.notes, ![d].out = {},
                                  ![d].rows = [o \in OpId |-> NoRow], ![d].cursor = server.seq]
            /\ Goto(d, "bind")
       ELSE session' = [session EXCEPT ![d] = Idle] /\ UNCHANGED dev
  /\ UNCHANGED <<box, written>>

(* Two non-empty sides must be one workspace whose difference is the outbox;
   anything else parks the worker as a conflict. *)
CompareWorkspaces(d) ==
  LET server == session[d].server
      local == session[d].local
  IN /\ MatchCase(d, FALSE, FALSE)
     /\ IF /\ local.ws = server.ws
           /\ local.notes = server.notes \/ OutboxExplains(server, local)
          THEN Goto(d, "bind") ELSE Goto(d, "parked")
     /\ UNCHANGED <<box, dev, written>>

(* Mutant of BoundCursor: the sequence the server is at by now. *)
BoundCursor_Latest(d) == Len(box[dev[d].url].log)

(* server_seq, of the snapshot that was compared or adopted. *)
BoundCursor(d) == session[d].server.seq

(* transport.info and bind_sync_workspace. *)
BindWorkspace(d) ==
  /\ session[d].pc = "bind"
  /\ IF box[dev[d].url].ws = dev[d].ws
       THEN /\ dev' = [dev EXCEPT ![d].bound = dev[d].ws, ![d].cursor = BoundCursor(d)]
            /\ session' = [session EXCEPT ![d] = Idle]
       ELSE Goto(d, "parked") /\ UNCHANGED dev
  /\ UNCHANGED <<box, written>>

----------------------------------------------------------------------------
(* A session of a bound device (SyncHttp has its steps). *)

Connected(d) ==
  /\ session[d].pc = "idle" /\ dev[d].url # Nobody
  /\ dev[d].bound # Nobody /\ dev[d].bound = dev[d].ws /\ dev[d].bound = box[dev[d].url].ws

(* The server's identity is not the bound one: WorkspaceConflict. *)
RefuseForeign(d) ==
  /\ session[d].pc = "idle" /\ dev[d].bound # Nobody
  /\ dev[d].bound # dev[d].ws \/ dev[d].bound # box[dev[d].url].ws
  /\ Goto(d, "parked")
  /\ UNCHANGED <<box, dev, written>>

Missing(d) ==
  LET log == box[dev[d].url].log
  IN {[seq |-> i, op |-> log[i]] : i \in dev[d].cursor + 1 .. Len(log)}

Pull(d) ==
  LET batch == Missing(d) IN
  /\ Connected(d) /\ batch # {}
  /\ BatchFits(dev[d].rows, dev[d].cursor, batch)
  /\ dev' = [dev EXCEPT ![d].rows = RowsAfter(@, dev[d].cursor, batch),
                        ![d].out = OutboxAfter(@, dev[d].cursor, batch),
                        ![d].notes = @ \cup {e.op : e \in batch},
                        ![d].cursor = Len(box[dev[d].url].log)]
  /\ UNCHANGED <<box, session, written>>

(* The server sequences the outbox; the acknowledgement is lost, refused by
   UNIQUE(seq), or stamped. *)
Push(d) ==
  LET s == dev[d].url
      log == box[s].log \o SetToSortSeq(dev[d].out \ Range(box[s].log), <)
      acks == {[seq |-> i, op |-> log[i]] : i \in {j \in 1 .. Len(log) : log[j] \in dev[d].out}}
  IN /\ Connected(d) /\ dev[d].out # {}
     /\ box' = [box EXCEPT ![s].log = log]
     /\ \/ UNCHANGED dev
        \/ /\ AcksFit(dev[d].rows, acks)
           /\ dev' = [dev EXCEPT ![d].rows = Acknowledged(@, acks), ![d].out = {}]
     /\ UNCHANGED <<session, written>>

DeviceStep(d) ==
  \/ WriteNote(d) \/ FetchSnapshot(d) \/ CaptureBaseline(d) \/ BootstrapServer(d)
  \/ AdoptSnapshot(d) \/ CompareWorkspaces(d) \/ BindWorkspace(d) \/ RefuseForeign(d)
  \/ Pull(d) \/ Push(d) \/ StartOver(d)
  \/ \E s \in Servers : ConfigureSync(d, s)

ReplicaInitNext ==
  \/ \E d \in Devices : DeviceStep(d)
  \/ \E s \in Servers : ServerWrite(s) \/ Publish(s)

----------------------------------------------------------------------------
(* Establishing sync erases nothing, on either side, whatever is written while
   snapshots are being fetched, compared and imported: neither a note made
   between capture_sync_baseline and the import, nor one the server made before
   a device bootstraps it. *)
NoNoteErased ==
  /\ \A d \in Devices : dev[d].notes \subseteq dev'[d].notes
  /\ \A s \in Servers : ServerNotes(s) \subseteq ServerNotes(s)'

(* A device that is bound to the server's workspace agrees with it: what its
   cursor says it has is there or still comes from somebody's outbox, and what the
   server lacks is in its own.  So skipping the log below server_seq and sending
   only the outbox loses nothing.  (Somebody's: two devices that both found the
   server empty may share its identity, and one bootstraps it while the other
   binds to the empty snapshot; the operations follow the bootstrap.) *)
BoundAgrees ==
  \A d \in Devices :
    dev[d].bound # Nobody /\ dev[d].bound = box[dev[d].url].ws =>
      LET server == box[dev[d].url]
          coming == UNION {dev[e].out : e \in {f \in Devices : dev[f].url = dev[d].url}}
                      \cup {server.log[i] : i \in dev[d].cursor + 1 .. Len(server.log)}
      IN /\ server.base \cup {server.log[i] : i \in 1 .. dev[d].cursor} \subseteq dev[d].notes \cup coming
         /\ dev[d].notes \subseteq ServerNotes(dev[d].url) \cup dev[d].out

(* Becoming one workspace loses no note: none on the way, and none afterwards
   because somebody believes it had been exchanged. *)
JoinLossless == NoNoteErased /\ BoundAgrees'
============================================================================
