----------------------------- MODULE SyncSocket ----------------------------
(***************************************************************************)
(* The live half of sync: websocket_session of server/src/api.rs and the   *)
(* loop of synchronize_session in src-tauri/src/sync.rs, for one device.   *)
(* The server subscribes to the broadcast of committed operations, reads   *)
(* the backlog, then forwards; the device resends its outbox every 400 ms  *)
(* until it is acknowledged.  One ingest is one step here (ServerLog       *)
(* models its inside), and so is one run of synchronize_http (SyncHttp).   *)
(***************************************************************************)
EXTENDS Replica, Sequences, Functions

CONSTANTS
  ChannelSize,   \* 1024: operations a broadcast receiver may lag behind
  PageSize,      \* MAX_OPS_PAGE: rows of the backlog
  Refused,       \* operations the server refuses for good
  MaxCuts,       \* bound: connections that silently die
  MaxInFlight    \* bound: pushes on the wire and answers not read yet

ASSUME SocketAssumption ==
  ChannelSize \in Nat \ {0} /\ PageSize \in Nat \ {0} /\ Refused \subseteq OpId

VARIABLES
  wlog,      \* Seq(OpId): the oplog
  wrow,      \* applied_ops of the device
  wcursor,   \* last_server_seq of the device
  wout,      \* sync_outbox of the device
  wheld,     \* its quarantined rows
  wnext,     \* the next operation anybody authors
  phase,     \* the device: "off", "http" or "live"
  serving,   \* the server task of this socket
  channel,   \* what its broadcast receiver still holds, as sequence numbers
  lagged,    \* the receiver has lost operations
  down,      \* messages to the device
  upward,    \* messages to the server
  pinged,    \* heartbeat.sent_at is set
  alive,     \* the connection carries messages
  cuts

deviceVars == <<wrow, wcursor, wout, wheld>>
socketVars == <<wlog, wrow, wcursor, wout, wheld, wnext, phase, serving, channel, lagged,
                down, upward, pinged, alive, cuts>>

Gone == [pc |-> "gone", since |-> 0, backlog |-> {}]
Ops(entries) == [kind |-> "ops", entries |-> entries]
Ack(entries) == [kind |-> "ack", entries |-> entries]
Signal(kind) == [kind |-> kind, entries |-> {}]

Row(i) == [seq |-> i, op |-> wlog[i]]
Since(since, limit) == {Row(i) : i \in {j \in 1 .. Len(wlog) : since < j /\ j <= since + limit}}

SocketInit ==
  /\ wlog = <<>> /\ wnext = 1
  /\ wrow = [o \in OpId |-> NoRow] /\ wcursor = 0 /\ wout = {} /\ wheld = {}
  /\ phase = "off" /\ serving = Gone
  /\ channel = <<>> /\ lagged = FALSE
  /\ down = <<>> /\ upward = <<>> /\ pinged = FALSE /\ alive = FALSE /\ cuts = 0

----------------------------------------------------------------------------
(* Mutant of Subscribed: the task subscribes when it enters its loop. *)
Subscribed_Late == serving.pc = "loop"

(* user.subscribe() comes before the backlog is read. *)
Subscribed == serving.pc # "gone"

(* operations_tx.send for the rows above `base`; a full receiver drops its
   oldest operations. *)
Broadcast(base, log) ==
  LET fresh == [i \in 1 .. Len(log) - base |-> base + i]
      all == channel \o fresh
      excess == Len(all) - ChannelSize
  IN IF ~ Subscribed THEN UNCHANGED <<channel, lagged>>
     ELSE /\ channel' = IF excess > 0 THEN SubSeq(all, excess + 1, Len(all)) ELSE all
          /\ lagged' = (lagged \/ excess > 0)

(* The operations of a batch in the order they were authored in. *)
Ascending(ops) ==
  {rows \in [1 .. Cardinality(ops) -> ops] :
     /\ Range(rows) = ops
     /\ \A i, j \in DOMAIN rows : i < j => rows[i] < rows[j]}

(* Mutant of AppendAll: a resent operation gets a second row. *)
AppendAll_NoDedup(log, ops) == {log \o rows : rows \in Ascending(ops)}

(* Oplog::append of a batch: known operations keep their row.  The one log that
   results is the one member of this set. *)
AppendAll(log, ops) == {log \o rows : rows \in Ascending(ops \ Range(log))}

(* Another device's operation is committed by the actor. *)
OthersWrite ==
  /\ wnext \in OpId
  /\ wnext' = wnext + 1
  /\ wlog' = Append(wlog, wnext)
  /\ Broadcast(Len(wlog), wlog')
  /\ UNCHANGED <<deviceVars, phase, serving, down, upward, pinged, alive, cuts>>

LocalWrite ==
  /\ wnext \in OpId
  /\ wnext' = wnext + 1
  /\ wrow' = [wrow EXCEPT ![wnext] = Null]
  /\ wout' = wout \cup {wnext}
  /\ UNCHANGED <<wlog, wcursor, wheld, phase, serving, channel, lagged, down, upward, pinged,
                 alive, cuts>>

----------------------------------------------------------------------------
(* sync_until_idle: push what the server accepts, hold back what it refuses,
   and catch up with the whole log. *)
SynchronizeHttp ==
  LET pending == wout \ wheld
      refused == pending \cap Refused
  IN \E log \in AppendAll(wlog, pending \ Refused) :
       /\ wlog' = log
       /\ Broadcast(Len(wlog), log)
       /\ wcursor' = Len(log)
       /\ wrow' = [o \in OpId |-> IF \E i \in 1 .. Len(log) : log[i] = o
                                    THEN CHOOSE i \in 1 .. Len(log) : log[i] = o ELSE wrow[o]]
       /\ wout' = wout \ Range(log)
       /\ wheld' = (wheld \cup refused) \ Range(log)

(* synchronize_session up to its loop, before the socket. *)
CatchUp ==
  /\ phase = "off"
  /\ SynchronizeHttp
  /\ phase' = "http"
  /\ UNCHANGED <<wnext, serving, down, upward, pinged, alive, cuts>>

(* transport.connect(cursor): the upgrade starts a task that subscribes. *)
ConnectSocket ==
  /\ phase = "http"
  /\ phase' = "live"
  /\ serving' = [pc |-> "subscribed", since |-> wcursor, backlog |-> {}]
  /\ channel' = <<>> /\ lagged' = FALSE
  /\ down' = <<>> /\ upward' = <<>> /\ pinged' = FALSE /\ alive' = TRUE
  /\ UNCHANGED <<wlog, deviceVars, wnext, cuts>>

(* The session ends and the worker will reconnect; the socket is dropped, so
   the server task stops. *)
EndSession ==
  /\ phase' = "off" /\ serving' = Gone /\ channel' = <<>> /\ lagged' = FALSE
  /\ down' = <<>> /\ upward' = <<>> /\ pinged' = FALSE /\ alive' = FALSE

----------------------------------------------------------------------------
(* The server task. *)

ReadBacklog ==
  /\ serving.pc = "subscribed"
  /\ serving' = [serving EXCEPT !.pc = "backlog", !.backlog = Since(serving.since, PageSize)]
  /\ UNCHANGED <<wlog, deviceVars, wnext, phase, channel, lagged, down, upward, pinged, alive, cuts>>

Deliver(message) == down' = IF alive THEN Append(down, message) ELSE down

SendBacklog ==
  /\ serving.pc = "backlog"
  /\ IF serving.backlog = {} THEN UNCHANGED down ELSE Deliver(Ops(serving.backlog))
  /\ serving' = [serving EXCEPT !.pc = "loop"]
  /\ UNCHANGED <<wlog, deviceVars, wnext, phase, channel, lagged, upward, pinged, alive, cuts>>

(* ops_since fails: CatchUpFailed, and the task returns. *)
BacklogFails ==
  /\ serving.pc = "subscribed" /\ cuts < MaxCuts
  /\ cuts' = cuts + 1
  /\ Deliver(Signal("error"))
  /\ serving' = Gone
  /\ UNCHANGED <<wlog, deviceVars, wnext, phase, channel, lagged, upward, pinged, alive>>

(* ClientMessage::Push: ingest the batch and acknowledge it, or say why not. *)
ServePush ==
  /\ serving.pc = "loop" /\ upward # <<>> /\ Head(upward).kind = "push"
  /\ upward' = Tail(upward)
  /\ LET ops == Head(upward).ops IN
       IF ops \cap Refused # {}
         THEN /\ Deliver(Signal("terminal"))
              /\ UNCHANGED <<wlog, channel, lagged>>
         ELSE /\ wlog' \in AppendAll(wlog, ops)
              /\ Broadcast(Len(wlog), wlog')
              /\ Deliver(Ack({[seq |-> CHOOSE i \in 1 .. Len(wlog') : wlog'[i] = o, op |-> o] :
                                o \in ops}))
  /\ UNCHANGED <<deviceVars, wnext, phase, serving, pinged, alive, cuts>>

ServePing ==
  /\ serving.pc = "loop" /\ upward # <<>> /\ Head(upward).kind = "ping"
  /\ upward' = Tail(upward)
  /\ Deliver(Signal("pong"))
  /\ UNCHANGED <<wlog, deviceVars, wnext, phase, serving, channel, lagged, pinged, alive, cuts>>

(* operations.recv: the next operation, one per message. *)
Forward ==
  /\ serving.pc = "loop" /\ channel # <<>> /\ ~ lagged
  /\ channel' = Tail(channel)
  /\ Deliver(Ops({Row(Head(channel))}))
  /\ UNCHANGED <<wlog, deviceVars, wnext, phase, serving, lagged, upward, pinged, alive, cuts>>

(* RecvError::Lagged: ResyncRequired, and the task returns. *)
Lagged ==
  /\ serving.pc = "loop" /\ lagged
  /\ Deliver(Signal("error"))
  /\ serving' = Gone /\ channel' = <<>> /\ lagged' = FALSE
  /\ UNCHANGED <<wlog, deviceVars, wnext, phase, upward, pinged, alive, cuts>>

----------------------------------------------------------------------------
(* The device. *)

(* Mutant of AckOutbox: an acknowledgement clears what was pending. *)
AckOutbox_All(acks) == wout \cap wheld

(* acknowledge_server_ops takes the acknowledged rows off the outbox. *)
AckOutbox(acks) == wout \ {e.op : e \in acks}

(* handle_server_message for Ops and Ack: one transaction, or the session ends. *)
Receive ==
  LET m == Head(down) IN
  /\ phase = "live" /\ down # <<>>
  /\ \/ /\ m.kind = "ops" /\ BatchFits(wrow, wcursor, m.entries)
        /\ \E c \in {wcursor} \cup {e.seq : e \in m.entries} :
             IsCursorAfter(c, wcursor, m.entries) /\ wcursor' = c
        /\ wrow' = RowsAfter(wrow, wcursor, m.entries)
        /\ wout' = OutboxAfter(wout, wcursor, m.entries)
     \/ /\ m.kind = "ack" /\ AcksFit(wrow, m.entries)
        /\ wrow' = Acknowledged(wrow, m.entries)
        /\ wout' = AckOutbox(m.entries)
        /\ UNCHANGED wcursor
  /\ wheld' = wheld \cap wout'
  /\ down' = Tail(down)
  /\ UNCHANGED <<wlog, wnext, phase, serving, channel, lagged, upward, pinged, alive, cuts>>

(* SyncSequenceGap and the like, or a server error that is not a refusal. *)
Fail ==
  LET m == Head(down) IN
  /\ phase = "live" /\ down # <<>>
  /\ \/ m.kind = "ops" /\ ~ BatchFits(wrow, wcursor, m.entries)
     \/ m.kind = "ack" /\ ~ AcksFit(wrow, m.entries)
     \/ m.kind = "error"
  /\ EndSession
  /\ UNCHANGED <<wlog, deviceVars, wnext, cuts>>

(* A terminal refusal: isolate over HTTP and keep the socket. *)
Isolate ==
  /\ phase = "live" /\ down # <<>> /\ Head(down).kind = "terminal"
  /\ SynchronizeHttp
  /\ down' = Tail(down)
  /\ UNCHANGED <<wnext, phase, serving, upward, pinged, alive, cuts>>

Pong ==
  /\ phase = "live" /\ down # <<>> /\ Head(down).kind = "pong"
  /\ pinged' = FALSE
  /\ down' = Tail(down)
  /\ UNCHANGED <<wlog, deviceVars, wnext, phase, serving, channel, lagged, upward, alive, cuts>>

(* The server task returned and everything it sent has been read. *)
Closed ==
  /\ phase = "live" /\ down = <<>> /\ serving.pc = "gone" /\ alive
  /\ EndSession
  /\ UNCHANGED <<wlog, deviceVars, wnext, cuts>>

Transmit(message) == upward' = IF alive THEN Append(upward, message) ELSE upward

InFlight == Cardinality({i \in DOMAIN upward : upward[i].kind = "push"})
              + Cardinality({i \in DOMAIN down : down[i].kind \in {"ack", "terminal"}})

(* drain.tick: send the head of the outbox, acknowledged or not. *)
Drain ==
  /\ phase = "live" /\ wout \ wheld # {} /\ InFlight < MaxInFlight
  /\ Transmit([kind |-> "push", ops |-> OutboxHead(wout, wheld, PageSize)])
  /\ UNCHANGED <<wlog, deviceVars, wnext, phase, serving, channel, lagged, down, pinged, alive, cuts>>

(* heartbeat_tick: one ping at a time. *)
Beat ==
  /\ phase = "live" /\ ~ pinged
  /\ Transmit([kind |-> "ping", ops |-> {}])
  /\ pinged' = TRUE
  /\ UNCHANGED <<wlog, deviceVars, wnext, phase, serving, channel, lagged, down, alive, cuts>>

(* Mutant of BeatTimeout: a missing pong is never noticed. *)
BeatTimeout_Never == FALSE /\ UNCHANGED socketVars

(* should_send: no pong for HEARTBEAT_TIMEOUT, so the session ends.  Without
   clocks a ping that could still be answered may time out as well. *)
BeatTimeout ==
  /\ phase = "live" /\ pinged /\ down = <<>>
  /\ EndSession
  /\ UNCHANGED <<wlog, deviceVars, wnext, cuts>>

(* The network drops everything from now on and tells nobody. *)
Cut ==
  /\ alive /\ cuts < MaxCuts
  /\ cuts' = cuts + 1
  /\ alive' = FALSE /\ down' = <<>> /\ upward' = <<>>
  /\ UNCHANGED <<wlog, deviceVars, wnext, phase, serving, channel, lagged, pinged>>

SocketStep ==
  \/ CatchUp \/ ConnectSocket \/ ReadBacklog \/ SendBacklog \/ ServePush \/ ServePing \/ Forward
  \/ Lagged \/ Receive \/ Fail \/ Isolate \/ Pong \/ Closed \/ Drain \/ Beat \/ BeatTimeout

SocketNext == SocketStep \/ OthersWrite \/ LocalWrite \/ BacklogFails \/ Cut

SocketSpec == SocketInit /\ [][SocketNext]_socketVars

----------------------------------------------------------------------------
OnTheWay == {e.seq : e \in UNION {m.entries : m \in {n \in Range(down) : n.kind = "ops"}}}
              \cup Range(channel)
              \cup (IF serving.pc = "backlog" THEN {e.seq : e \in serving.backlog} ELSE {})

(* A full page may be a truncated backlog: the rest waits for the gap the next
   live operation shows the device, which then reconnects. *)
FullPage == serving.pc # "gone" /\ Cardinality(serving.backlog) = PageSize

(* Between the backlog and the live stream nothing falls through: on a healthy
   socket whose backlog did not fill a page, every operation the device lacks is
   on its way, whoever commits while the backlog is being read and whatever
   synchronize_http already applied behind the socket's back
   (api.rs websocket_session subscribes first). *)
StreamComplete ==
  phase = "live" /\ alive /\ serving.pc \in {"backlog", "loop"} /\ ~ lagged /\ ~ FullPage
  => \A i \in wcursor + 1 .. Len(wlog) : i \in OnTheWay

(* The drain timer resends what is not acknowledged yet; the log still holds
   every operation once (Oplog::append). *)
SentOnce == \A i, j \in 1 .. Len(wlog) : wlog[i] = wlog[j] => i = j

(* An operation of this device leaves the outbox only when the log holds it,
   however acknowledgements, broadcasts, refusals and reconnects interleave. *)
SocketKeeps == \A o \in OpId : wrow[o] # NoRow => o \in wout \cup Range(wlog)

(* Lag, a refusal, a failed backlog or a dead connection delay the device and
   never stop it: it ends up with the whole log and sends what it may, unless a
   full backlog page left it waiting for the next operation. *)
CatchesUp == (phase # "off") ~> (FullPage \/ (wcursor = Len(wlog) /\ wout \subseteq wheld))

(* The socket neither skips, nor doubles, nor drops an operation. *)
StreamExact == StreamComplete /\ SentOnce /\ SocketKeeps
============================================================================
