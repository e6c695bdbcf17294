----------------------------- MODULE SyncHttp ------------------------------
(***************************************************************************)
(* SyncClient (crates/notes-sync/src/machine.rs) on several devices        *)
(* against ServerLog over HTTP: catch up, push the outbox head,            *)
(* acknowledge, catch up again.  A connection may be lost at any await;    *)
(* the request it carried may still be queued or running on the server.    *)
(***************************************************************************)
EXTENDS ServerLog

CONSTANTS
  MissingBlob,  \* operations whose blob the server does not hold at first
  MaxDrops      \* bound: lost connections and killed apps

ASSUME MissingBlobAssumption == MissingBlob \subseteq OpId
ASSUME MaxDropsAssumption == MaxDrops \in Nat

VARIABLES
  quar,      \* [Client -> SUBSET OpId], rows with quarantined_at set
  sess,      \* [Client -> Session], the sync task's locals
  missing,   \* what validate_operation_blobs and ink::validate still refuse
  drops

vars == <<serverVars, quar, sess, missing, drops>>

Reply == [kind : {"none", "ok", "terminal", "transient"}, acks : SUBSET Entry]
NoReply == [kind |-> "none", acks |-> {}]
Terminal == [kind |-> "terminal", acks |-> {}]
Transient == [kind |-> "transient", acks |-> {}]

(* pc: the await the task stands at.  page: operations fetched and not applied;
   sent: the batch in flight; rest, accepted, progressed: isolate_rejected_batch. *)
Session == [pc : {"offline", "pull", "push", "wait", "isolate", "isoWait", "repull", "check"},
            page : SUBSET Entry, sent : SUBSET OpId, reply : Reply,
            rest : SUBSET OpId, accepted : SUBSET Entry, progressed : BOOLEAN]
Offline == [pc |-> "offline", page |-> {}, sent |-> {}, reply |-> NoReply,
            rest |-> {}, accepted |-> {}, progressed |-> FALSE]

Init ==
  /\ ServerInit
  /\ quar = [c \in Client |-> {}]
  /\ sess = [c \in Client |-> Offline]
  /\ missing = MissingBlob
  /\ drops = 0

clientVars == <<quar, sess, missing, drops>>

Become(c, s) == sess' = [sess EXCEPT ![c] = s]
At(c, pc) == sess[c].pc = pc

----------------------------------------------------------------------------
(* The server side, with the reply that a caller still waits for. *)

(* The oneshot response of the running ingest, if anyone listens. *)
Respond(kind, acks) ==
  sess' = [c \in Client |->
             IF job.from = c THEN [sess[c] EXCEPT !.reply = [kind |-> kind, acks |-> acks]]
                             ELSE sess[c]]

ServerAuthor == Author(Server) /\ UNCHANGED <<oplog, cursor, inbox, job, up, crashes>>
                               /\ UNCHANGED clientVars
ServerPublish == PublishAuthored /\ UNCHANGED clientVars
ServerStart == StartIngest /\ UNCHANGED clientVars
ServerAppend == (AppendOne \/ AppendFails) /\ UNCHANGED clientVars
(* A snapshot that cannot be written turns the answer into a 500 although the
   batch is committed. *)
ServerApply ==
  /\ ApplyOk
  /\ \/ Respond("ok", Appended)
     \/ "snapshotError" \in Faults /\ Respond("transient", {})
  /\ UNCHANGED <<quar, missing, drops>>
ServerRefuse == ApplyFails /\ UNCHANGED clientVars
ServerRollback == RemoveTail /\ UNCHANGED clientVars
ServerRolledBack ==
  RolledBack /\ Respond(RollbackError, {}) /\ UNCHANGED <<quar, missing, drops>>
(* Callers see the connection break; clients between two requests do not. *)
ServerCrash ==
  /\ Crash
  /\ sess' = [c \in Client |->
               IF sess[c].pc \in {"wait", "isoWait"} /\ sess[c].reply = NoReply
                 THEN [sess[c] EXCEPT !.reply = Transient] ELSE sess[c]]
  /\ UNCHANGED <<quar, missing, drops>>
ServerRestart == Restart /\ UNCHANGED clientVars

----------------------------------------------------------------------------
(* A local edit, at any time. *)
Edit(c) == Author(c) /\ UNCHANGED <<oplog, cursor, inbox, job, up, crashes>>
                     /\ UNCHANGED clientVars

(* A session starts: sync_until_idle calls sync_once. *)
Connect(c) ==
  /\ up /\ At(c, "offline")
  /\ Become(c, [Offline EXCEPT !.pc = "pull"])
  /\ UNCHANGED serverVars /\ UNCHANGED <<quar, missing, drops>>

AfterCatchUp(pc) == IF pc = "pull" THEN "push" ELSE "check"

(* A request to a server that is down ends the session. *)
Unreachable(c) ==
  /\ ~ up /\ sess[c].pc \in {"pull", "repull", "check"} /\ sess[c].page = {}
  /\ Become(c, Offline)
  /\ UNCHANGED serverVars /\ UNCHANGED <<quar, missing, drops>>

(* catch_up: GET /v1/ops reads the oplog beside the actor. *)
GetOps(c) ==
  /\ up /\ sess[c].pc \in {"pull", "repull"} /\ sess[c].page = {}
  /\ LET page == OpsSince(cursor[c], Batch) IN
       Become(c, IF page = {} THEN [sess[c] EXCEPT !.pc = AfterCatchUp(@)]
                              ELSE [sess[c] EXCEPT !.page = page])
  /\ UNCHANGED serverVars /\ UNCHANGED <<quar, missing, drops>>

(* catch_up: apply_sequenced_batch on the page, all of it or none. *)
ApplyPage(c) ==
  LET page == sess[c].page IN
  /\ page # {}
  /\ Applies(c, page)
  /\ CommitOn(c, page)
  /\ quar' = [quar EXCEPT ![c] = @ \cap out'[c]]
  /\ Become(c, [sess[c] EXCEPT !.page = {},
                  !.pc = IF Cardinality(page) = Batch THEN @ ELSE AfterCatchUp(@)])
  /\ UNCHANGED <<oplog, author, nextOp, inbox, job, up, crashes, missing, drops>>

(* catch_up: the page does not apply, and the session ends in an error. *)
RejectPage(c) ==
  LET page == sess[c].page IN
  /\ page # {}
  /\ ~ Applies(c, page)
  /\ Become(c, Offline)
  /\ UNCHANGED serverVars /\ UNCHANGED <<quar, missing, drops>>

(* POST /v1/ops: push_ops validates blobs first, then waits for the actor;
   `s` is the session that waits for the answer. *)
Post(c, ops, s) ==
  \/ /\ ~ up
     /\ Become(c, [s EXCEPT !.reply = Transient])
     /\ UNCHANGED serverVars
  \/ /\ up /\ ops \cap missing # {}
     /\ Become(c, [s EXCEPT !.reply = Terminal])
     /\ UNCHANGED serverVars
  \/ /\ up /\ ops \cap missing = {}
     /\ Become(c, s)
     /\ Enqueue(c, ops)
     /\ UNCHANGED <<oplog, row, cursor, out, author, nextOp, job, up, crashes>>

(* sync_once: push the head of the outbox. *)
Push(c) ==
  /\ At(c, "push")
  /\ LET batch == OutboxHead(out[c], quar[c], Batch)
     IN IF batch = {}
          THEN /\ Become(c, [sess[c] EXCEPT !.pc = "repull", !.sent = {}])
               /\ UNCHANGED serverVars
          ELSE Post(c, batch, [sess[c] EXCEPT !.pc = "wait", !.sent = batch])
  /\ UNCHANGED <<quar, missing, drops>>

(* Mutant of Acknowledge: the outbox row of every operation sent is deleted,
   acknowledged or not. *)
Acknowledge_AllSent(c, acks) ==
  /\ row' = [row EXCEPT ![c] = Acknowledged(@, acks)]
  /\ out' = [out EXCEPT ![c] = @ \ sess[c].sent]
  /\ quar' = [quar EXCEPT ![c] = @ \cap out'[c]]

(* acknowledge_server_ops, one transaction. *)
Acknowledge(c, acks) ==
  /\ row' = [row EXCEPT ![c] = Acknowledged(@, acks)]
  /\ out' = [out EXCEPT ![c] = @ \ {e.op : e \in acks}]
  /\ quar' = [quar EXCEPT ![c] = @ \cap out'[c]]

(* The acknowledgement commits and the task goes on, or it fails and the session
   ends in an error. *)
Settle(c, acks) ==
  IF AcksFit(row[c], acks)
    THEN /\ Acknowledge(c, acks)
         /\ Become(c, [sess[c] EXCEPT !.pc = "repull", !.reply = NoReply, !.accepted = {}])
    ELSE /\ Become(c, Offline)
         /\ UNCHANGED <<row, out, quar>>

(* The answer to a batch. *)
PushAnswered(c) ==
  /\ At(c, "wait")
  /\ \/ /\ sess[c].reply.kind = "ok"
        /\ Settle(c, sess[c].reply.acks)
     \/ /\ sess[c].reply.kind = "terminal"
        /\ Become(c, [sess[c] EXCEPT !.pc = "isolate", !.reply = NoReply,
                        !.rest = sess[c].sent, !.accepted = {}, !.progressed = FALSE])
        /\ UNCHANGED <<row, out, quar>>
     \/ /\ sess[c].reply.kind = "transient"
        /\ Become(c, Offline)
        /\ UNCHANGED <<row, out, quar>>
  /\ UNCHANGED <<oplog, cursor, author, nextOp, inbox, job, up, crashes, missing, drops>>

(* isolate_rejected_batch: resend the next operation alone. *)
PushOne(c) ==
  /\ At(c, "isolate") /\ sess[c].rest # {}
  /\ Post(c, {Oldest(sess[c].rest)}, [sess[c] EXCEPT !.pc = "isoWait"])
  /\ UNCHANGED <<quar, missing, drops>>

(* Mutant of HoldBack: nothing is held back. *)
HoldBack_None == {}

(* The answers that hold an operation back: 409, 400, 413, 422. *)
HoldBack == {"terminal"}

(* The answer to a lone operation: keep it for the acknowledgement, hold it
   back, or stop here; without progress a transient answer ends the session. *)
OneAnswered(c) ==
  LET s == sess[c]
      o == Oldest(s.rest)
      next == [s EXCEPT !.pc = "isolate", !.reply = NoReply, !.rest = @ \ {o},
                        !.progressed = TRUE]
  IN /\ At(c, "isoWait") /\ s.reply.kind # "none"
     /\ \/ /\ s.reply.kind = "ok"
           /\ Become(c, [next EXCEPT !.accepted = @ \cup s.reply.acks])
           /\ UNCHANGED quar
        \/ /\ s.reply.kind \in HoldBack
           /\ quar' = [quar EXCEPT ![c] = @ \cup ({o} \cap out[c])]
           /\ Become(c, next)
        \/ /\ s.reply.kind \notin HoldBack \cup {"ok"}
           /\ Become(c, IF s.progressed
                          THEN [s EXCEPT !.pc = "isolate", !.reply = NoReply, !.rest = {}]
                          ELSE Offline)
           /\ UNCHANGED quar
     /\ UNCHANGED serverVars /\ UNCHANGED <<missing, drops>>

(* isolate_rejected_batch returns: what was accepted is acknowledged. *)
Isolated(c) ==
  /\ At(c, "isolate") /\ sess[c].rest = {}
  /\ Settle(c, sess[c].accepted)
  /\ UNCHANGED <<oplog, cursor, author, nextOp, inbox, job, up, crashes, missing, drops>>

(* sync_until_idle: go round again after a full batch or when the log grew. *)
CheckIdle(c) ==
  /\ up /\ At(c, "check")
  /\ Become(c, IF Cardinality(sess[c].sent) = Batch \/ OpsSince(cursor[c], 1) # {}
                 THEN [Offline EXCEPT !.pc = "pull"]
                 ELSE Offline)
  /\ UNCHANGED serverVars /\ UNCHANGED <<quar, missing, drops>>

(* The connection is lost or the app is killed.  The request it carried stays
   with the server; nobody hears the answer. *)
Drop(c) ==
  /\ ~ At(c, "offline") /\ drops < MaxDrops
  /\ drops' = drops + 1
  /\ Become(c, Offline)
  /\ inbox' = {IF r.from = c THEN [r EXCEPT !.from = Nobody, !.tag = drops + 1] ELSE r :
                 r \in inbox}
  /\ job' = IF job.from = c THEN [job EXCEPT !.from = Nobody] ELSE job
  /\ UNCHANGED <<oplog, row, cursor, out, author, nextOp, up, crashes, quar, missing>>

(* release_quarantined_outbox: the user retries what was held back. *)
Release(c) ==
  /\ quar[c] # {}
  /\ quar' = [quar EXCEPT ![c] = {}]
  /\ UNCHANGED serverVars /\ UNCHANGED <<sess, missing, drops>>

(* The cause of a refusal goes away: the blob is uploaded. *)
BlobArrives ==
  /\ \E o \in missing : missing' = missing \ {o}
  /\ UNCHANGED serverVars /\ UNCHANGED <<quar, sess, drops>>

(* The actor's own work, which nothing outside it can hold up. *)
ActorStep ==
  \/ ServerStart \/ ServerAppend \/ ServerApply \/ ServerRefuse
  \/ ServerRollback \/ ServerRolledBack

(* One step of the sync task of a client. *)
TaskStep(c) ==
  \/ Connect(c) \/ Unreachable(c) \/ GetOps(c) \/ ApplyPage(c) \/ RejectPage(c)
  \/ Push(c) \/ PushAnswered(c) \/ PushOne(c) \/ OneAnswered(c) \/ Isolated(c)
  \/ CheckIdle(c)

Next ==
  \/ ActorStep \/ ServerAuthor \/ ServerPublish \/ ServerCrash \/ ServerRestart
  \/ BlobArrives
  \/ \E c \in Client : TaskStep(c) \/ Edit(c) \/ Drop(c) \/ Release(c)

Spec == Init /\ [][Next]_vars

(* The actor and the publisher are tasks that always run again, a worker
   reconnects with a backoff, and the service manager restarts the server. *)
Fairness ==
  /\ WF_vars(ActorStep) /\ WF_vars(ServerPublish) /\ WF_vars(ServerRestart)
  /\ \A c \in Client : WF_vars(TaskStep(c))

FairSpec == Spec /\ Fairness

----------------------------------------------------------------------------
(* Type invariant of both database files, the actor and the sessions. *)
TypeOK ==
  /\ oplog \in Seq(OpId)
  /\ row \in [Peer -> [OpId -> Nat \cup {NoRow}]]
  /\ cursor \in [Peer -> Nat]
  /\ out \in [Peer -> SUBSET OpId]
  /\ author \in [OpId -> Peer \cup {Nobody}]
  /\ nextOp \in 1 .. MaxOps + 1
  /\ inbox \subseteq Request
  /\ job \in Job
  /\ up \in BOOLEAN
  /\ crashes \in 0 .. MaxCrashes
  /\ quar \in [Client -> SUBSET OpId]
  /\ sess \in [Client -> Session]
  /\ missing \subseteq OpId
  /\ drops \in 0 .. MaxDrops

(* Retries, abandoned requests, crashes and rollbacks never give one operation
   two rows of the oplog. *)
LogUnique ==
  \A i, j \in 1 .. Len(oplog) : oplog[i] = oplog[j] => i = j

(* The server replica is what the log materialises up to its cursor: the two
   files disagree only in a tail that is still being appended. *)
Materialised ==
  /\ cursor[Server] <= Len(oplog)
  /\ \A i \in 1 .. cursor[Server] : row[Server][oplog[i]] = i

(* A rollback never takes back a row the replica has materialised. *)
CommittedStable ==
  [][/\ cursor[Server] <= cursor'[Server]
     /\ cursor[Server] <= Len(oplog')
     /\ \A i \in 1 .. cursor[Server] : oplog'[i] = oplog[i]]_vars

(* `applied_ops rows with a null seq and no matching sync_outbox row are a
   bug`: on no replica is an operation applied, unsequenced and unqueued. *)
NoneStranded ==
  \A p \in Peer, o \in OpId : row[p][o] = Null => o \in out[p]

(* What was written reaches the log or is still queued by its author, however
   often connections break and whatever is held back. *)
NothingLost ==
  \A o \in OpId : author[o] # Nobody => o \in out[author[o]] \/ InLog(o)

(* A client's cursor means that it holds exactly that prefix of the log. *)
PrefixAgreement ==
  \A c \in Client :
    /\ cursor[c] <= Len(oplog)
    /\ \A i \in 1 .. cursor[c] : row[c][oplog[i]] = i

(* Nothing the server hands out is ever refused as a gap or a conflict. *)
PagesFit ==
  \A c \in Client : BatchFits(row[c], cursor[c], sess[c].page)

(* The log keeps each author's order, so an operation never precedes the one
   it builds on; only what was refused may be overtaken. *)
AuthorOrder ==
  \A a, b \in OpId :
    /\ a < b /\ author[a] = author[b] /\ a \notin MissingBlob \cup Inapplicable
    /\ InLog(b)
    => InLog(a) /\ SeqOf(a) < SeqOf(b)

(* No outbox loses or reorders what its author wrote, whatever is refused,
   released, acknowledged late or sent twice. *)
OutboxKept == NoneStranded /\ AuthorOrder

(* A server that stopped at any point can open again: `server replay resumes
   from the materialized replica cursor`. *)
CanReopen == ~ up => Applies(Server, Unapplied)

(* Every operation the server does not refuse is sequenced and reaches every
   replica. *)
Delivery ==
  \A o \in OpId : author[o] # Nobody /\ o \notin MissingBlob
    ~> \A p \in Peer : row[p][o] > 0

(* Sync over HTTP implements the shared log: what the oplog holds, what each
   replica's applied_ops lists and how far its cursor got. *)
Abstract == INSTANCE SharedLog WITH
  log <- oplog,
  known <- [p \in Peer |-> {o \in OpId : row[p][o] # NoRow}],
  pos <- cursor,
  written <- {o \in OpId : author[o] # Nobody}

(* Every step of the clients, the actor and the network is a step of the
   shared log or none: nothing is sequenced twice or taken back, and a replica
   never skips part of the log. *)
ImplementsSharedLog == Abstract!Spec

----------------------------------------------------------------------------
(* The running ingest: its inserted rows lie above everything materialised,
   and what it has appended is in the log. *)
JobSound ==
  /\ job.phase # "idle" =>
       /\ up
       /\ cursor[Server] <= job.base
       /\ job.base <= Len(oplog)
       /\ job.todo \subseteq job.ops
  /\ job.phase = "append" => \A o \in job.ops \ job.todo : InLog(o)

(* Only authored operations travel: a fresh id is in no table, request or log. *)
Born == 1 .. nextOp - 1
OnlyBorn ==
  /\ \A o \in OpId : author[o] # Nobody <=> o \in Born
  /\ \A i \in 1 .. Len(oplog) : oplog[i] \in Born
  /\ \A p \in Peer : out[p] \subseteq Born
  /\ \A r \in inbox : r.ops \subseteq Born
  /\ job.ops \subseteq Born
  /\ \A c \in Client : sess[c].sent \subseteq Born /\ sess[c].rest \subseteq Born

(* The inductive invariant of the two files, whatever fails. *)
LogInv == TypeOK /\ LogUnique /\ Materialised /\ JobSound /\ OnlyBorn

(* Without a refused or failed apply the log only ever runs ahead of the
   replica by the batch being ingested, or by what a crash left behind. *)
NoRollback ==
  /\ job.phase # "rollback"
  /\ up /\ job.phase = "idle" => cursor[Server] = Len(oplog)
  /\ job.phase = "append" =>
       /\ job.base = cursor[Server]
       /\ \A i \in job.base + 1 .. Len(oplog) :
            /\ oplog[i] \in job.ops \ job.todo
            /\ \A o \in job.todo : oplog[i] < o
            /\ \A j \in i + 1 .. Len(oplog) : oplog[i] < oplog[j]

Listed(e) == e.seq <= Len(oplog) /\ oplog[e.seq] = e.op

(* Every sequence number a replica has stored is the log's, and the server's
   are all materialised. *)
RowsListed ==
  /\ \A p \in Peer, o \in OpId :
       row[p][o] > 0 => row[p][o] <= Len(oplog) /\ oplog[row[p][o]] = o
  /\ \A o \in OpId : row[Server][o] <= cursor[Server]

(* Whatever is on its way to a client is still what the log says. *)
AnswersListed ==
  \A c \in Client :
    /\ \A e \in sess[c].page : Listed(e)
    /\ \A e \in sess[c].reply.acks : Listed(e)
    /\ \A e \in sess[c].accepted : Listed(e)

(* A page continues the cursor it was asked for. *)
PageContinues ==
  \A c \in Client : \A e \in sess[c].page :
    /\ cursor[c] < e.seq
    /\ \A i \in cursor[c] + 1 .. e.seq : \E f \in sess[c].page : f.seq = i

(* The inductive invariant when every batch applies. *)
CleanInv ==
  /\ LogInv
  /\ NoRollback
  /\ RowsListed
  /\ AnswersListed
  /\ PageContinues
  /\ PrefixAgreement
  /\ NothingLost
============================================================================
