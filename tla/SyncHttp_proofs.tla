-------------------------- MODULE SyncHttp_proofs --------------------------
(***************************************************************************)
(* Proofs about SyncHttp for any set of clients, any number of operations  *)
(* and any batch size, over every interleaving, crash and lost connection, *)
(* and about SyncSocket for any page and channel size.                     *)
(***************************************************************************)
EXTENDS SyncHttp, SyncSocket, SequenceTheorems, FiniteSetTheorems, WellFoundedInduction, TLAPS

(* A non-empty set of operations has an oldest member. *)
LEMMA OldestLemma ==
  ASSUME NEW ops \in SUBSET OpId, ops # {}
  PROVE  /\ Oldest(ops) \in ops /\ Oldest(ops) \in OpId
         /\ \A o \in ops : Oldest(ops) <= o
<1>1. ops \subseteq Nat
  BY MaxOpsAssumption DEF OpId
<1> DEFINE R == {ss \in Nat \X Nat : ss[1] < ss[2]}
<1>2. IsWellFoundedOn(R, Nat)
  BY NatLessThanWellFounded, Zenon DEF OpToRel
<1>3. PICK x \in ops : \A y \in ops : <<y, x>> \notin R
  <2> HIDE DEF R
  <2> QED BY <1>1, <1>2, WFMin
<1>4. ASSUME NEW y \in ops PROVE x <= y
  <2>1. x \in Nat /\ y \in Nat
    BY <1>1, Zenon
  <2>2. ~ (<<y, x>>[1] < <<y, x>>[2])
    <3>1. <<y, x>> \notin R
      BY <1>3
    <3>2. <<y, x>> \in Nat \X Nat
      BY <2>1
    <3> QED BY <3>1, <3>2, Zenon
  <2> QED BY <2>1, <2>2
<1> QED BY <1>4 DEF Oldest

(* remove_tail drops the last row and nothing else. *)
LEMMA DropLast ==
  ASSUME oplog \in Seq(OpId), Len(oplog) > 0
  PROVE  LET short == SubSeq(oplog, 1, Len(oplog) - 1)
         IN /\ short \in Seq(OpId)
            /\ Len(short) = Len(oplog) - 1
            /\ \A i \in 1 .. Len(oplog) - 1 : short[i] = oplog[i]
<1> DEFINE n == Len(oplog) - 1
<1>1. n \in Nat /\ \A i \in 1 .. n : oplog[i] \in OpId
  OBVIOUS
<1> HIDE DEF n
<1>2. /\ SubSeq(oplog, 1, n) \in Seq(OpId)
      /\ Len(SubSeq(oplog, 1, n)) = IF 1 <= n THEN n - 1 + 1 ELSE 0
      /\ \A i \in 1 .. n - 1 + 1 : SubSeq(oplog, 1, n)[i] = oplog[1 + i - 1]
  BY <1>1, SubSeqProperties
<1>3. Len(SubSeq(oplog, 1, n)) = n /\ \A i \in 1 .. n : SubSeq(oplog, 1, n)[i] = oplog[i]
  BY <1>1, <1>2
<1> QED BY <1>2, <1>3 DEF n

(* SeqOf finds the row of an operation that is in the log. *)
LEMMA SeqOfLemma ==
  ASSUME NEW o, InLog(o)
  PROVE  SeqOf(o) \in 1 .. Len(oplog) /\ oplog[SeqOf(o)] = o
  BY DEF InLog, SeqOf

(* A page of the oplog lists its rows, above `since` and without a hole. *)
LEMMA OpsSinceLemma ==
  ASSUME oplog \in Seq(OpId), NEW since \in Nat, NEW limit \in Nat
  PROVE  /\ OpsSince(since, limit) \subseteq Entry
         /\ \A e \in OpsSince(since, limit) :
              /\ since < e.seq
              /\ Listed(e)
              /\ \A i \in since + 1 .. e.seq :
                   \E f \in OpsSince(since, limit) : f.seq = i
<1>1. \A i \in 1 .. Len(oplog) : oplog[i] \in OpId
  OBVIOUS
<1>2. \A i \in 1 .. Len(oplog) :
        since < i /\ i <= since + limit =>
          [seq |-> i, op |-> oplog[i]] \in OpsSince(since, limit)
  BY DEF OpsSince
<1>3. ASSUME NEW e \in OpsSince(since, limit)
      PROVE  e \in Entry /\ since < e.seq /\ Listed(e) /\
             \A i \in since + 1 .. e.seq :
               \E f \in OpsSince(since, limit) : f.seq = i
  <2>1. PICK j \in 1 .. Len(oplog) :
          since < j /\ j <= since + limit /\ e = [seq |-> j, op |-> oplog[j]]
    BY DEF OpsSince
  <2>2. e \in Entry /\ since < e.seq /\ Listed(e)
    BY <2>1, <1>1 DEF Entry, Listed
  <2>3. ASSUME NEW i \in since + 1 .. e.seq
        PROVE  \E f \in OpsSince(since, limit) : f.seq = i
    <3>1. i \in 1 .. Len(oplog) /\ since < i /\ i <= since + limit
      BY <2>1
    <3> QED BY <3>1, <1>2
  <2> QED BY <2>2, <2>3
<1> QED BY <1>3

(* What an ingest hands to the apply transaction are rows of the log. *)
LEMMA AppendedLemma ==
  ASSUME oplog \in Seq(OpId), \A o \in job.ops : InLog(o), job.ops \subseteq OpId
  PROVE  Appended \subseteq Entry /\ \A e \in Appended : Listed(e)
<1>1. ASSUME NEW e \in Appended PROVE e \in Entry /\ Listed(e)
  <2>1. PICK o \in job.ops : e = [seq |-> SeqOf(o), op |-> o]
    BY DEF Appended
  <2>2. SeqOf(o) \in 1 .. Len(oplog) /\ oplog[SeqOf(o)] = o
    BY SeqOfLemma
  <2> QED BY <2>1, <2>2 DEF Entry, Listed
<1> QED BY <1>1

(* A committed batch leaves the three tables well typed. *)
LEMMA CommitTypes ==
  ASSUME NEW p \in Peer, NEW batch \in SUBSET Entry, CommitOn(p, batch),
         row \in [Peer -> [OpId -> Nat \cup {NoRow}]],
         cursor \in [Peer -> Nat], out \in [Peer -> SUBSET OpId]
  PROVE  /\ row' \in [Peer -> [OpId -> Nat \cup {NoRow}]]
         /\ cursor' \in [Peer -> Nat]
         /\ out' \in [Peer -> SUBSET OpId]
<1>1. Fresh(cursor[p], batch) \subseteq Entry
  BY DEF Fresh
<1>2. RowsAfter(row[p], cursor[p], batch) \in [OpId -> Nat \cup {NoRow}]
  <2>1. ASSUME NEW o \in OpId
        PROVE  RowsAfter(row[p], cursor[p], batch)[o] \in Nat \cup {NoRow}
    <3>1. CASE \E e \in Fresh(cursor[p], batch) : e.op = o
      <4> DEFINE e == CHOOSE e \in Fresh(cursor[p], batch) : e.op = o
      <4>1. e \in Entry
        BY <3>1, <1>1
      <4>2. RowsAfter(row[p], cursor[p], batch)[o] = e.seq
        BY <3>1 DEF RowsAfter
      <4> QED BY <4>1, <4>2 DEF Entry
    <3>2. CASE ~ \E e \in Fresh(cursor[p], batch) : e.op = o
      BY <3>2 DEF RowsAfter
    <3> QED BY <3>1, <3>2
  <2> QED BY <2>1 DEF RowsAfter
<1>3. row' \in [Peer -> [OpId -> Nat \cup {NoRow}]]
  BY <1>2 DEF CommitOn
<1>4. cursor' \in [Peer -> Nat]
  BY DEF CommitOn, Entry
<1>5. out' \in [Peer -> SUBSET OpId]
  BY DEF CommitOn, OutboxAfter
<1> QED BY <1>3, <1>4, <1>5

(* A fresh entry's sequence number is the row the commit stores. *)
LEMMA RowsAfterLemma ==
  ASSUME NEW rows \in [OpId -> Nat \cup {NoRow}], NEW k \in Nat,
         NEW batch \in SUBSET Entry, NEW o \in OpId
  PROVE  \/ /\ RowsAfter(rows, k, batch)[o] = rows[o]
            /\ \A e \in Fresh(k, batch) : e.op # o
         \/ \E e \in Fresh(k, batch) :
              e.op = o /\ RowsAfter(rows, k, batch)[o] = e.seq
  BY DEF RowsAfter

----------------------------------------------------------------------------
(* Type correctness of the server's variables only. *)
ServerTypes ==
  /\ oplog \in Seq(OpId)
  /\ row \in [Peer -> [OpId -> Nat \cup {NoRow}]]
  /\ cursor \in [Peer -> Nat]
  /\ out \in [Peer -> SUBSET OpId]
  /\ author \in [OpId -> Peer \cup {Nobody}]
  /\ nextOp \in 1 .. MaxOps + 1
  /\ inbox \subseteq Request
  /\ job \in Job
  /\ up \in BOOLEAN
  /\ crashes \in 0 .. MaxCrashes

(* ... and of the clients'. *)
ClientTypes ==
  /\ quar \in [Client -> SUBSET OpId]
  /\ sess \in [Client -> Session]
  /\ missing \subseteq OpId
  /\ drops \in 0 .. MaxDrops

(* The type invariant, in its two halves. *)
LEMMA TypesSplit == TypeOK <=> ServerTypes /\ ClientTypes
  BY DEF TypeOK, ServerTypes, ClientTypes

(* An idle actor is well typed. *)
LEMMA NoJobType == NoJob \in Job
  BY DEF NoJob, Job

(* So is a task that is offline, and every answer without acknowledgements. *)
LEMMA OfflineType == Offline \in Session /\ NoReply \in Reply /\ Terminal \in Reply
                     /\ Transient \in Reply
  BY DEF Offline, Session, NoReply, Reply, Terminal, Transient

(* A local edit keeps the tables well typed. *)
LEMMA AuthorTypes ==
  ASSUME ServerTypes, NEW p \in Peer, Author(p),
         UNCHANGED <<oplog, cursor, inbox, job, up, crashes>>
  PROVE  ServerTypes'
<1>1. nextOp \in OpId /\ nextOp' \in 1 .. MaxOps + 1
  BY MaxOpsAssumption DEF Author, OpId, ServerTypes
<1>2. author' \in [OpId -> Peer \cup {Nobody}] /\ out' \in [Peer -> SUBSET OpId]
  BY <1>1 DEF Author, ServerTypes
<1>3. row' \in [Peer -> [OpId -> Nat \cup {NoRow}]]
  BY <1>1 DEF Author, ServerTypes, Null
<1> QED BY <1>1, <1>2, <1>3 DEF ServerTypes

(* So does handing a batch to the actor. *)
LEMMA EnqueueTypes ==
  ASSUME ServerTypes, NEW p \in Peer, NEW ops \in SUBSET OpId, Enqueue(p, ops)
  PROVE  inbox' \subseteq Request
  BY DEF ServerTypes, Enqueue, Request

(* The server's variables stay well typed through every step of its own. *)
LEMMA ActorTypes ==
  ASSUME ServerTypes, JobSound,
         \/ PublishAuthored \/ StartIngest \/ AppendOne \/ AppendFails \/ ApplyOk
         \/ ApplyFails \/ RemoveTail \/ RolledBack \/ Crash \/ Restart
  PROVE  ServerTypes'
<1> USE DEF ServerTypes
<1>1. CASE PublishAuthored
  <2>1. OutboxHead(out[Server], {}, Batch) \in SUBSET OpId
    BY DEF OutboxHead, Peer
  <2>2. inbox' \subseteq Request
    BY <1>1, <2>1, EnqueueTypes DEF PublishAuthored, Peer
  <2> QED BY <1>1, <2>2 DEF PublishAuthored
<1>2. CASE StartIngest
  <2>1. job' \in Job /\ inbox' \subseteq Request
    BY <1>2 DEF StartIngest, Request, Job
  <2> QED BY <1>2, <2>1 DEF StartIngest
<1>3. CASE AppendOne
  <2>1. job' \in Job
    BY <1>3 DEF AppendOne, Job
  <2>2. Oldest(job.todo) \in OpId
    BY <1>3, OldestLemma DEF AppendOne, Job
  <2>3. oplog' \in Seq(OpId)
    BY <1>3, <2>2 DEF AppendOne
  <2> QED BY <1>3, <2>1, <2>3 DEF AppendOne
<1>4. CASE AppendFails
  BY <1>4 DEF AppendFails, Job
<1>5. CASE ApplyOk
  <2>1. job.ops \subseteq OpId /\ \A o \in job.ops : InLog(o)
    BY <1>5 DEF ApplyOk, JobSound, Job
  <2>2. Appended \subseteq Entry
    BY <2>1, AppendedLemma
  <2>3. /\ row' \in [Peer -> [OpId -> Nat \cup {NoRow}]]
        /\ cursor' \in [Peer -> Nat]
        /\ out' \in [Peer -> SUBSET OpId]
    BY <1>5, <2>2, CommitTypes DEF ApplyOk, Peer
  <2> QED BY <1>5, <2>3, NoJobType DEF ApplyOk
<1>6. CASE ApplyFails
  BY <1>6 DEF ApplyFails, Job
<1>7. CASE RemoveTail
  <2>1. Len(oplog) > 0
    BY <1>7 DEF RemoveTail, Job
  <2>2. oplog' \in Seq(OpId)
    BY <1>7, <2>1, DropLast DEF RemoveTail
  <2> QED BY <1>7, <2>2 DEF RemoveTail
<1>8. CASE RolledBack
  BY <1>8, NoJobType DEF RolledBack
<1>9. CASE Crash
  <2>1. crashes' \in 0 .. MaxCrashes
    BY <1>9, MaxCrashesAssumption DEF Crash
  <2>2. up' \in BOOLEAN
    BY <1>9 DEF Crash
  <2> QED BY <1>9, <2>1, <2>2, NoJobType DEF Crash
<1>10. CASE Restart
  <2>1. Unapplied \subseteq Entry
    BY OpsSinceLemma DEF Unapplied, Peer
  <2>2. /\ row' \in [Peer -> [OpId -> Nat \cup {NoRow}]]
        /\ cursor' \in [Peer -> Nat]
        /\ out' \in [Peer -> SUBSET OpId]
    BY <1>10, <2>1, CommitTypes DEF Restart, Peer
  <2> QED BY <1>10, <2>2 DEF Restart
<1> QED BY <1>1, <1>2, <1>3, <1>4, <1>5, <1>6, <1>7, <1>8, <1>9, <1>10

(* Replacing one session by a well-typed one. *)
LEMMA BecomeTypes ==
  ASSUME NEW c \in Client, NEW s \in Session, Become(c, s), sess \in [Client -> Session]
  PROVE  sess' \in [Client -> Session]
  BY DEF Become

(* An answer for one session, or for none. *)
LEMMA RespondTypes ==
  ASSUME NEW kind \in {"none", "ok", "terminal", "transient"}, NEW acks \in SUBSET Entry,
         Respond(kind, acks), sess \in [Client -> Session]
  PROVE  sess' \in [Client -> Session]
<1>1. ASSUME NEW c \in Client
      PROVE  [sess[c] EXCEPT !.reply = [kind |-> kind, acks |-> acks]] \in Session
  BY DEF Session, Reply
<1> QED BY <1>1 DEF Respond

(* A posted request and the session that waits for it. *)
LEMMA PostTypes ==
  ASSUME TypeOK, NEW c \in Client, NEW ops \in SUBSET OpId, NEW s \in Session,
         Post(c, ops, s)
  PROVE  ServerTypes' /\ sess' \in [Client -> Session]
<1> USE DEF TypeOK
<1>1. [s EXCEPT !.reply = Transient] \in Session /\ [s EXCEPT !.reply = Terminal] \in Session
  BY OfflineType DEF Session
<1>2. sess' \in [Client -> Session]
  BY <1>1, BecomeTypes DEF Post
<1>3. CASE UNCHANGED serverVars
  BY <1>2, <1>3 DEF serverVars, ServerTypes
<1>4. CASE Enqueue(c, ops) /\ UNCHANGED <<oplog, row, cursor, out, author, nextOp, job, up, crashes>>
  <2>1. inbox' \subseteq Request
    BY <1>4, EnqueueTypes, TypesSplit DEF Peer
  <2> QED BY <1>2, <1>4, <2>1 DEF ServerTypes
<1> QED BY <1>3, <1>4 DEF Post

(* Acknowledging keeps the tables well typed. *)
LEMMA AcknowledgeTypes ==
  ASSUME TypeOK, NEW c \in Client, NEW acks \in SUBSET Entry, Acknowledge(c, acks)
  PROVE  /\ row' \in [Peer -> [OpId -> Nat \cup {NoRow}]]
         /\ out' \in [Peer -> SUBSET OpId]
         /\ quar' \in [Client -> SUBSET OpId]
<1> USE DEF TypeOK
<1>1. c \in Peer
  BY DEF Peer
<1>2. ASSUME NEW o \in OpId PROVE Acknowledged(row[c], acks)[o] \in Nat \cup {NoRow}
  <2>1. CASE \E e \in acks : e.op = o
    <3> DEFINE e == CHOOSE e \in acks : e.op = o
    <3>1. e \in Entry
      BY <2>1
    <3>2. e.seq \in Nat
      BY <3>1 DEF Entry
    <3> QED BY <1>1, <3>2, <2>1 DEF Acknowledged
  <2>2. CASE ~ \E e \in acks : e.op = o
    BY <1>1, <2>2 DEF Acknowledged
  <2> QED BY <2>1, <2>2
<1>3. Acknowledged(row[c], acks) \in [OpId -> Nat \cup {NoRow}]
  BY <1>2 DEF Acknowledged
<1> QED BY <1>1, <1>3 DEF Acknowledge

(* The clients' variables stay well typed through every step of a session. *)
LEMMA TaskTypes ==
  ASSUME TypeOK, NEW c \in Client, TaskStep(c)
  PROVE  TypeOK'
<1> USE DEF TypeOK
<1>a. sess[c] \in Session /\ c \in Peer /\ cursor[c] \in Nat
  BY DEF Peer
<1>b. ASSUME NEW s \in Session, Become(c, s), UNCHANGED serverVars,
             UNCHANGED <<quar, missing, drops>>
      PROVE  TypeOK'
  BY <1>b, BecomeTypes DEF serverVars
<1>1. CASE Connect(c)
  <2>1. [Offline EXCEPT !.pc = "pull"] \in Session
    BY OfflineType DEF Session
  <2> QED BY <1>1, <2>1, <1>b DEF Connect
<1>2. CASE Unreachable(c)
  BY <1>2, <1>b, OfflineType DEF Unreachable
<1>3. CASE GetOps(c)
  <2> DEFINE page == OpsSince(cursor[c], Batch)
  <2>1. page \subseteq Entry
    BY <1>a, OpsSinceLemma, BatchAssumption
  <2> HIDE DEF page
  <2>2. /\ [sess[c] EXCEPT !.pc = AfterCatchUp(@)] \in Session
        /\ [sess[c] EXCEPT !.page = page] \in Session
    BY <1>a, <2>1 DEF Session, AfterCatchUp
  <2>3. Become(c, IF page = {} THEN [sess[c] EXCEPT !.pc = AfterCatchUp(@)]
                              ELSE [sess[c] EXCEPT !.page = page])
    BY <1>3 DEF GetOps, page
  <2> QED BY <1>3, <2>2, <2>3, <1>b DEF GetOps
<1>4. CASE ApplyPage(c)
  <2>1. sess[c].page \in SUBSET Entry
    BY <1>a DEF Session
  <2>2. /\ row' \in [Peer -> [OpId -> Nat \cup {NoRow}]]
        /\ cursor' \in [Peer -> Nat]
        /\ out' \in [Peer -> SUBSET OpId]
    BY <1>4, <1>a, <2>1, CommitTypes DEF ApplyPage
  <2>3. PICK pc \in {"pull", "push", "check", "repull", "offline", "wait", "isolate", "isoWait"} :
          Become(c, [sess[c] EXCEPT !.page = {}, !.pc = pc])
    BY <1>4, <1>a DEF ApplyPage, AfterCatchUp, Session
  <2>4. [sess[c] EXCEPT !.page = {}, !.pc = pc] \in Session
    BY <1>a DEF Session
  <2>5. sess' \in [Client -> Session]
    BY <2>3, <2>4, BecomeTypes
  <2>6. quar' \in [Client -> SUBSET OpId]
    BY <1>4 DEF ApplyPage
  <2> QED BY <1>4, <2>2, <2>5, <2>6 DEF ApplyPage
<1>5. CASE RejectPage(c)
  BY <1>5, <1>b, OfflineType DEF RejectPage
<1>6. CASE Push(c)
  <2> DEFINE batch == OutboxHead(out[c], quar[c], Batch)
  <2>1. batch \in SUBSET OpId
    BY <1>a DEF OutboxHead
  <2> HIDE DEF batch
  <2>2. /\ [sess[c] EXCEPT !.pc = "repull", !.sent = {}] \in Session
        /\ [sess[c] EXCEPT !.pc = "wait", !.sent = batch] \in Session
    BY <1>a, <2>1 DEF Session
  <2>3. CASE batch = {}
    BY <1>6, <2>2, <2>3, <1>b DEF Push, batch
  <2>4. CASE batch # {}
    <3>1. Post(c, batch, [sess[c] EXCEPT !.pc = "wait", !.sent = batch])
      BY <1>6, <2>4 DEF Push, batch
    <3>2. ServerTypes' /\ sess' \in [Client -> Session]
      BY <3>1, <2>1, <2>2, PostTypes
    <3> QED BY <1>6, <3>2 DEF Push, ServerTypes
  <2> QED BY <2>3, <2>4
<1>7. CASE PushAnswered(c)
  <2>1. /\ [sess[c] EXCEPT !.pc = "repull", !.reply = NoReply, !.accepted = {}] \in Session
        /\ [sess[c] EXCEPT !.pc = "isolate", !.reply = NoReply, !.rest = sess[c].sent,
              !.accepted = {}, !.progressed = FALSE] \in Session
        /\ sess[c].reply.acks \in SUBSET Entry
    BY <1>a, OfflineType DEF Session, Reply
  <2>2. sess' \in [Client -> Session]
    BY <1>7, <2>1, BecomeTypes, OfflineType DEF PushAnswered, Settle
  <2>3. /\ row' \in [Peer -> [OpId -> Nat \cup {NoRow}]]
        /\ out' \in [Peer -> SUBSET OpId]
        /\ quar' \in [Client -> SUBSET OpId]
    <3>1. CASE Acknowledge(c, sess[c].reply.acks)
      BY <3>1, <2>1, <1>a, AcknowledgeTypes
    <3>2. CASE UNCHANGED <<row, out, quar>>
      BY <3>2
    <3> QED BY <1>7, <3>1, <3>2 DEF PushAnswered, Settle
  <2> QED BY <1>7, <2>2, <2>3 DEF PushAnswered, Settle
<1>8. CASE PushOne(c)
  <2>1. {Oldest(sess[c].rest)} \in SUBSET OpId
    <3>1. sess[c].rest \in SUBSET OpId /\ sess[c].rest # {}
      BY <1>8, <1>a DEF PushOne, Session
    <3> QED BY <3>1, OldestLemma
  <2>2. [sess[c] EXCEPT !.pc = "isoWait"] \in Session
    BY <1>a DEF Session
  <2>3. ServerTypes' /\ sess' \in [Client -> Session]
    BY <1>8, <2>1, <2>2, PostTypes DEF PushOne
  <2> QED BY <1>8, <2>3 DEF PushOne, ServerTypes
<1>9. CASE OneAnswered(c)
  <2> DEFINE s == sess[c]
             o == Oldest(s.rest)
             next == [s EXCEPT !.pc = "isolate", !.reply = NoReply, !.rest = @ \ {o},
                               !.progressed = TRUE]
  <2>1. next \in Session /\ next.accepted = s.accepted
    BY <1>a, OfflineType DEF Session
  <2>2. s.reply.acks \in SUBSET Entry /\ s.accepted \in SUBSET Entry
    BY <1>a DEF Session, Reply
  <2>3. [next EXCEPT !.accepted = @ \cup s.reply.acks] \in Session
    <3> HIDE DEF next
    <3> QED BY <2>1, <2>2 DEF Session
  <2>4. [s EXCEPT !.pc = "isolate", !.reply = NoReply, !.rest = {}] \in Session
    BY <1>a, OfflineType DEF Session
  <2>5. /\ \/ Become(c, [next EXCEPT !.accepted = @ \cup s.reply.acks])
           \/ Become(c, next)
           \/ Become(c, IF s.progressed
                          THEN [s EXCEPT !.pc = "isolate", !.reply = NoReply, !.rest = {}]
                          ELSE Offline)
        /\ quar' = quar \/ quar' = [quar EXCEPT ![c] = @ \cup ({o} \cap out[c])]
        /\ UNCHANGED serverVars /\ UNCHANGED <<missing, drops>>
    BY <1>9 DEF OneAnswered
  <2>6. sess' \in [Client -> Session]
    <3> HIDE DEF next, s
    <3>1. Offline \in Session
      BY OfflineType
    <3> QED BY <2>1, <2>3, <2>4, <2>5, <3>1, BecomeTypes
  <2>7. quar' \in [Client -> SUBSET OpId]
    BY <2>5, <1>a
  <2> QED BY <2>5, <2>6, <2>7 DEF serverVars
<1>10. CASE Isolated(c)
  <2>1. /\ [sess[c] EXCEPT !.pc = "repull", !.reply = NoReply, !.accepted = {}] \in Session
        /\ sess[c].accepted \in SUBSET Entry
    BY <1>a, OfflineType DEF Session
  <2>2. sess' \in [Client -> Session]
    BY <1>10, <2>1, BecomeTypes, OfflineType DEF Isolated, Settle
  <2>3. /\ row' \in [Peer -> [OpId -> Nat \cup {NoRow}]]
        /\ out' \in [Peer -> SUBSET OpId]
        /\ quar' \in [Client -> SUBSET OpId]
    <3>1. CASE Acknowledge(c, sess[c].accepted)
      BY <3>1, <2>1, <1>a, AcknowledgeTypes
    <3>2. CASE UNCHANGED <<row, out, quar>>
      BY <3>2
    <3> QED BY <1>10, <3>1, <3>2 DEF Isolated, Settle
  <2> QED BY <1>10, <2>2, <2>3 DEF Isolated, Settle
<1>11. CASE CheckIdle(c)
  <2>1. [Offline EXCEPT !.pc = "pull"] \in Session
    BY OfflineType DEF Session
  <2> QED BY <1>11, <2>1, <1>b, OfflineType DEF CheckIdle
<1> QED
  BY <1>1, <1>2, <1>3, <1>4, <1>5, <1>6, <1>7, <1>8, <1>9, <1>10, <1>11 DEF TaskStep

(* Every step keeps the type invariant. *)
LEMMA StepTypes ==
  ASSUME TypeOK, JobSound, Next
  PROVE  TypeOK'
<1> SUFFICES ServerTypes' /\ ClientTypes'
  BY DEF TypeOK, ServerTypes, ClientTypes
<1>0. ServerTypes /\ ClientTypes
  BY TypesSplit
<1>1. CASE ServerAuthor
  <2>1. ServerTypes'
    BY <1>0, <1>1, AuthorTypes DEF ServerAuthor, Peer
  <2> QED BY <1>0, <1>1, <2>1 DEF ServerAuthor, clientVars, ClientTypes
<1>2. CASE \E c \in Client : Edit(c)
  <2>1. ServerTypes'
    BY <1>0, <1>2, AuthorTypes DEF Edit, Peer
  <2> QED BY <1>0, <1>2, <2>1 DEF Edit, clientVars, ClientTypes
<1>3. CASE ServerPublish \/ ServerStart \/ ServerAppend \/ ServerRefuse \/ ServerRollback
           \/ ServerRestart
  <2>1. ServerTypes'
    BY <1>0, <1>3, ActorTypes
    DEF ServerPublish, ServerStart, ServerAppend, ServerRefuse, ServerRollback, ServerRestart
  <2>2. UNCHANGED clientVars
    BY <1>3
    DEF ServerPublish, ServerStart, ServerAppend, ServerRefuse, ServerRollback, ServerRestart
  <2> QED BY <1>0, <2>1, <2>2 DEF clientVars, ClientTypes
<1>4. CASE ServerApply
  <2>1. ServerTypes'
    BY <1>0, <1>4, ActorTypes DEF ServerApply
  <2>2. Appended \in SUBSET Entry
    BY <1>0, <1>4, AppendedLemma DEF ServerApply, ApplyOk, JobSound, ServerTypes, Job
  <2>3. sess' \in [Client -> Session]
    BY <1>0, <1>4, <2>2, RespondTypes DEF ServerApply, ClientTypes
  <2> QED BY <1>0, <1>4, <2>1, <2>3 DEF ServerApply, ClientTypes
<1>5. CASE ServerRolledBack
  <2>1. ServerTypes'
    BY <1>0, <1>5, ActorTypes DEF ServerRolledBack
  <2>2. RollbackError \in {"none", "ok", "terminal", "transient"}
    BY <1>0 DEF RollbackError, ServerTypes, Job
  <2>3. sess' \in [Client -> Session]
    BY <1>0, <1>5, <2>2, RespondTypes DEF ServerRolledBack, ClientTypes
  <2> QED BY <1>0, <1>5, <2>1, <2>3 DEF ServerRolledBack, ClientTypes
<1>6. CASE ServerCrash
  <2>1. ServerTypes'
    BY <1>0, <1>6, ActorTypes DEF ServerCrash
  <2>2. \A c \in Client : [sess[c] EXCEPT !.reply = Transient] \in Session
    BY <1>0, OfflineType DEF ClientTypes, Session
  <2>3. sess' \in [Client -> Session]
    BY <1>0, <1>6, <2>2 DEF ServerCrash, ClientTypes
  <2> QED BY <1>0, <1>6, <2>1, <2>3 DEF ServerCrash, ClientTypes
<1>7. CASE BlobArrives
  BY <1>0, <1>7 DEF BlobArrives, serverVars, ServerTypes, ClientTypes
<1>8. CASE \E c \in Client : TaskStep(c)
  BY <1>8, TaskTypes DEF TypeOK, ServerTypes, ClientTypes
<1>9. ASSUME NEW c \in Client, Drop(c) PROVE ServerTypes' /\ ClientTypes'
  <2>0. drops \in 0 .. MaxDrops /\ drops < MaxDrops /\ drops' = drops + 1
    BY <1>0, <1>9 DEF Drop, ClientTypes
  <2>1. drops' \in 0 .. MaxDrops /\ drops + 1 \in Nat
    BY <2>0, MaxDropsAssumption
  <2>2. sess' \in [Client -> Session]
    BY <1>0, <1>9, BecomeTypes, OfflineType DEF Drop, ClientTypes
  <2>3. inbox' \subseteq Request
    <3>1. ASSUME NEW r \in inbox
          PROVE  [r EXCEPT !.from = Nobody, !.tag = drops + 1] \in Request
      <4>1. r \in Request
        BY <1>0 DEF ServerTypes
      <4> QED BY <2>1, <4>1 DEF Request
    <3> QED BY <1>0, <1>9, <3>1 DEF Drop, ServerTypes
  <2>4. job' \in Job
    BY <1>0, <1>9 DEF Drop, ServerTypes, Job
  <2> QED BY <1>0, <1>9, <2>1, <2>2, <2>3, <2>4 DEF Drop, ServerTypes, ClientTypes
<1>10. CASE \E c \in Client : Release(c)
  BY <1>0, <1>10 DEF Release, serverVars, ServerTypes, ClientTypes
<1> QED
  BY <1>1, <1>2, <1>3, <1>4, <1>5, <1>6, <1>7, <1>8, <1>9, <1>10 DEF Next, ActorStep

----------------------------------------------------------------------------
(* Committing listed entries on top of a materialised prefix materialises a
   longer prefix: the check for gaps is what carries this. *)
LEMMA CommitMaterialises ==
  ASSUME ServerTypes, LogUnique, NEW p \in Peer, NEW batch \in SUBSET Entry,
         \A e \in batch : Listed(e),
         cursor[p] <= Len(oplog), \A i \in 1 .. cursor[p] : row[p][oplog[i]] = i,
         Applies(p, batch), CommitOn(p, batch)
  PROVE  /\ cursor[p] <= cursor'[p] /\ cursor'[p] <= Len(oplog)
         /\ \A i \in 1 .. cursor'[p] : row'[p][oplog[i]] = i
<1> DEFINE k == cursor[p]
           m == cursor'[p]
<1>1. k \in Nat /\ row[p] \in [OpId -> Nat \cup {NoRow}] /\ oplog \in Seq(OpId)
  BY DEF ServerTypes
<1>2. m \in {k} \cup {e.seq : e \in batch} /\ k <= m
  BY DEF CommitOn, IsCursorAfter, ServerTypes
<1>3. m \in Nat /\ m <= Len(oplog)
  BY <1>1, <1>2 DEF Listed, Entry
<1>4. row'[p] = RowsAfter(row[p], k, batch)
  BY DEF CommitOn, ServerTypes
<1>5. ASSUME NEW i \in 1 .. m PROVE row'[p][oplog[i]] = i
  <2>1. i \in 1 .. Len(oplog) /\ oplog[i] \in OpId
    BY <1>1, <1>3
  <2>2. ASSUME NEW e \in Fresh(k, batch), e.op = oplog[i] PROVE e.seq = i
    <3>1. e \in Entry /\ Listed(e)
      BY DEF Fresh
    <3>2. e.seq \in 1 .. Len(oplog) /\ oplog[e.seq] = oplog[i]
      BY <1>1, <2>2, <3>1 DEF Entry, Listed
    <3> QED BY <2>1, <3>2 DEF LogUnique
  <2>3. CASE i <= k
    <3>1. row[p][oplog[i]] = i
      BY <1>1, <2>3
    <3> QED BY <1>1, <1>4, <2>1, <2>2, <3>1, RowsAfterLemma
  <2>4. CASE i > k
    <3>1. PICK e \in batch : m = e.seq
      BY <1>1, <1>2, <1>3, <2>4
    <3>2. e \in Fresh(k, batch) /\ i \in k + 1 .. e.seq
      BY <1>1, <1>3, <2>4, <3>1 DEF Fresh
    <3>3. PICK f \in Fresh(k, batch) : f.seq = i
      BY <3>2 DEF Applies, BatchFits, SeqGap
    <3>4. f.op = oplog[i]
      BY <3>3 DEF Fresh, Listed
    <3> QED BY <1>1, <1>4, <2>1, <2>2, <3>3, <3>4, RowsAfterLemma
  <2> QED BY <1>1, <1>3, <2>3, <2>4
<1> QED BY <1>2, <1>3, <1>5

(* A client's sync task writes its own database and the inbox, never the
   server's files or the running ingest. *)
LEMMA TaskFrame ==
  ASSUME TypeOK, NEW c \in Client, TaskStep(c)
  PROVE  /\ UNCHANGED <<oplog, job, up, author, nextOp, crashes>>
         /\ \A p \in Peer \ {c} : row'[p] = row[p] /\ cursor'[p] = cursor[p] /\ out'[p] = out[p]
<1> USE DEF TypeOK
<1>1. CASE Connect(c) \/ Unreachable(c) \/ GetOps(c) \/ RejectPage(c) \/ OneAnswered(c)
           \/ CheckIdle(c)
  BY <1>1 DEF Connect, Unreachable, GetOps, RejectPage, OneAnswered, CheckIdle, serverVars
<1>2. CASE ApplyPage(c)
  BY <1>2 DEF ApplyPage, CommitOn
<1>3. CASE Push(c) \/ PushOne(c)
  BY <1>3 DEF Push, PushOne, Post, serverVars
<1>4. CASE PushAnswered(c) \/ Isolated(c)
  BY <1>4 DEF PushAnswered, Isolated, Settle, Acknowledge
<1> QED BY <1>1, <1>2, <1>3, <1>4 DEF TaskStep

(* The two files and the running ingest, without the types. *)
FilesAgree == LogUnique /\ Materialised /\ JobSound

(* What FilesAgree reads, left alone. *)
LEMMA FilesFrame ==
  ASSUME FilesAgree, oplog' = oplog, cursor'[Server] = cursor[Server],
         row'[Server] = row[Server], up' = up,
         job'.phase = job.phase, job'.base = job.base, job'.ops = job.ops, job'.todo = job.todo
  PROVE  FilesAgree'
  BY DEF FilesAgree, LogUnique, Materialised, JobSound, InLog

(* An append: a known operation keeps its row, a new one gets the next. *)
LEMMA AppendKeepsFiles ==
  ASSUME ServerTypes, FilesAgree, AppendOne
  PROVE  FilesAgree'
<1> DEFINE o == Oldest(job.todo)
<1>1. /\ o \in OpId /\ oplog \in Seq(OpId) /\ cursor[Server] \in Nat
      /\ job.base \in Nat /\ job.todo \subseteq job.ops
  BY OldestLemma DEF AppendOne, ServerTypes, Job, Peer, FilesAgree, JobSound
<1>2. /\ job'.phase = "append" /\ job'.base = job.base /\ job'.ops = job.ops
      /\ job'.todo = job.todo \ {o} /\ up' /\ UNCHANGED <<row, cursor>>
  BY DEF AppendOne, ServerTypes, Job
<1>3. CASE InLog(o)
  <2>1. oplog' = oplog
    BY <1>3 DEF AppendOne
  <2>2. JobSound'
    BY <1>2, <1>3, <2>1 DEF FilesAgree, JobSound, InLog, AppendOne
  <2> QED BY <1>2, <2>1, <2>2 DEF FilesAgree, LogUnique, Materialised
<1>4. CASE ~ InLog(o)
  <2>1. oplog' = Append(oplog, o)
    BY <1>4 DEF AppendOne
  <2> HIDE DEF o
  <2>2. /\ Len(oplog') = Len(oplog) + 1 /\ Len(oplog) \in Nat
        /\ oplog'[Len(oplog) + 1] = o
        /\ \A i \in 1 .. Len(oplog) : oplog'[i] = oplog[i]
    BY <1>1, <2>1
  <2>3. LogUnique'
    BY <1>4, <2>2 DEF FilesAgree, LogUnique, InLog
  <2>4. Materialised'
    BY <1>1, <1>2, <2>2 DEF FilesAgree, Materialised
  <2>5. \A x \in job'.ops \ job'.todo : \E i \in 1 .. Len(oplog') : oplog'[i] = x
    <3>1. ASSUME NEW x \in job.ops \ job.todo PROVE \E i \in 1 .. Len(oplog') : oplog'[i] = x
      <4>1. PICK i \in 1 .. Len(oplog) : oplog[i] = x
        BY DEF FilesAgree, JobSound, InLog, AppendOne
      <4> QED BY <2>2, <4>1
    <3> QED BY <1>2, <2>2, <3>1
  <2>6. JobSound'
    <3>1. cursor'[Server] <= job'.base /\ job'.base <= Len(oplog') /\ job'.todo \subseteq job'.ops
      BY <1>1, <1>2, <2>2 DEF FilesAgree, JobSound, AppendOne
    <3> QED BY <1>2, <2>5, <3>1 DEF JobSound, InLog
  <2> QED BY <2>3, <2>4, <2>6 DEF FilesAgree
<1> QED BY <1>3, <1>4

(* A removed tail row was inserted by this batch, above what is materialised. *)
LEMMA RemoveKeepsFiles ==
  ASSUME ServerTypes, FilesAgree, RemoveTail
  PROVE  FilesAgree'
<1>1. /\ oplog \in Seq(OpId) /\ Len(oplog) \in Nat /\ job.base \in Nat
      /\ cursor[Server] \in Nat
      /\ cursor[Server] <= job.base /\ job.base < Len(oplog)
  BY DEF RemoveTail, ServerTypes, FilesAgree, JobSound, Job, Peer
<1>2. /\ Len(oplog') = Len(oplog) - 1
      /\ \A i \in 1 .. Len(oplog) - 1 : oplog'[i] = oplog[i]
  BY <1>1, DropLast DEF RemoveTail
<1>3. LogUnique'
  BY <1>1, <1>2 DEF FilesAgree, LogUnique
<1>4. Materialised'
  BY <1>1, <1>2 DEF FilesAgree, Materialised, RemoveTail
<1>5. JobSound'
  BY <1>1, <1>2 DEF FilesAgree, JobSound, RemoveTail
<1> QED BY <1>3, <1>4, <1>5 DEF FilesAgree

(* Every step keeps the two files in agreement. *)
LEMMA StepFiles ==
  ASSUME TypeOK, FilesAgree, OnlyBorn, Next
  PROVE  FilesAgree'
<1>0. ServerTypes /\ Server \in Peer /\ cursor[Server] \in Nat /\ oplog \in Seq(OpId)
      /\ job \in Job /\ Len(oplog) \in Nat
  BY TypesSplit DEF Peer, ServerTypes
<1>1. CASE ServerAuthor
  <2>1. \A i \in 1 .. Len(oplog) : oplog[i] # nextOp /\ oplog[i] \in OpId
    BY <1>0 DEF OnlyBorn, Born, ServerTypes
  <2>2. Materialised'
    <3>1. ASSUME NEW i \in 1 .. cursor[Server]
          PROVE  row'[Server][oplog[i]] = row[Server][oplog[i]]
      BY <1>0, <1>1, <2>1 DEF ServerAuthor, Author, ServerTypes, FilesAgree, Materialised
    <3> QED BY <1>1, <3>1 DEF ServerAuthor, FilesAgree, Materialised
  <2> QED BY <1>1, <2>2 DEF ServerAuthor, FilesAgree, LogUnique, JobSound, InLog
<1>2. CASE ServerPublish
  BY <1>2, FilesFrame DEF ServerPublish, PublishAuthored
<1>3. CASE ServerStart
  <2>1. job.phase = "idle" /\ UNCHANGED <<oplog, row, cursor, up>> /\ up
        /\ job'.phase = "append" /\ job'.base = Len(oplog) /\ job'.todo = job'.ops
    BY <1>3 DEF ServerStart, StartIngest
  <2> QED BY <1>0, <2>1 DEF FilesAgree, LogUnique, Materialised, JobSound
<1>4. CASE ServerAppend
  <2>1. CASE AppendFails
    <3>1. /\ job'.phase = "rollback" /\ job'.base = job.base /\ job'.ops = job.ops
          /\ job'.todo = job.todo /\ UNCHANGED <<oplog, row, cursor, up>> /\ job.phase = "append"
      BY <1>0, <2>1 DEF AppendFails, Job
    <3> QED BY <3>1 DEF FilesAgree, LogUnique, Materialised, JobSound
  <2> QED BY <1>0, <1>4, <2>1, AppendKeepsFiles DEF ServerAppend
<1>5. CASE ServerApply
  <2>1. /\ Appended \in SUBSET Entry /\ \A e \in Appended : Listed(e)
        /\ Applies(Server, Appended) /\ CommitOn(Server, Appended)
        /\ job' = NoJob /\ oplog' = oplog
    BY <1>0, <1>5, AppendedLemma DEF ServerApply, ApplyOk, IngestApplies, FilesAgree, JobSound, Job
  <2>2. Materialised'
    BY <1>0, <2>1, CommitMaterialises DEF FilesAgree, Materialised
  <2> QED BY <2>1, <2>2 DEF FilesAgree, LogUnique, JobSound, NoJob
<1>6. CASE ServerRefuse
  <2>1. /\ job'.phase = "rollback" /\ job'.base = job.base /\ job'.ops = job.ops
        /\ job'.todo = job.todo /\ UNCHANGED <<oplog, row, cursor, up>> /\ job.phase = "append"
    BY <1>0, <1>6 DEF ServerRefuse, ApplyFails, Job
  <2> QED BY <2>1 DEF FilesAgree, LogUnique, Materialised, JobSound
<1>7. CASE ServerRollback
  BY <1>0, <1>7, RemoveKeepsFiles DEF ServerRollback
<1>8. CASE ServerRolledBack \/ ServerCrash
  BY <1>8 DEF ServerRolledBack, RolledBack, ServerCrash, Crash, FilesAgree, LogUnique,
              Materialised, JobSound, NoJob
<1>9. CASE ServerRestart
  <2>1. Unapplied \in SUBSET Entry /\ \A e \in Unapplied : Listed(e)
    BY <1>0, OpsSinceLemma DEF Unapplied
  <2>2. Materialised'
    BY <1>0, <1>9, <2>1, CommitMaterialises
    DEF ServerRestart, Restart, FilesAgree, Materialised
  <2>3. job.phase = "idle" /\ UNCHANGED <<oplog, job>>
    BY <1>0, <1>9 DEF ServerRestart, Restart, FilesAgree, JobSound, Job
  <2> QED BY <2>2, <2>3 DEF FilesAgree, LogUnique, JobSound
<1>10. CASE BlobArrives \/ \E c \in Client : Release(c)
  BY <1>10, FilesFrame DEF BlobArrives, Release, serverVars
<1>11. ASSUME NEW c \in Client, TaskStep(c) PROVE FilesAgree'
  <2>1. Server \in Peer \ {c}
    BY <1>0, ServerAssumption
  <2> QED BY <1>11, <2>1, TaskFrame, FilesFrame
<1>12. ASSUME NEW c \in Client, Edit(c) PROVE FilesAgree'
  <2>1. c # Server
    BY ServerAssumption
  <2>2. row'[Server] = row[Server]
    BY <1>0, <1>12, <2>1 DEF Edit, Author, ServerTypes
  <2> QED BY <1>12, <2>2, FilesFrame DEF Edit
<1>13. ASSUME NEW c \in Client, Drop(c) PROVE FilesAgree'
  <2>1. job'.phase = job.phase /\ job'.base = job.base /\ job'.ops = job.ops
        /\ job'.todo = job.todo
    BY <1>0, <1>13 DEF Drop, Job
  <2> QED BY <1>13, <2>1, FilesFrame DEF Drop
<1> QED
  BY <1>1, <1>2, <1>3, <1>4, <1>5, <1>6, <1>7, <1>8, <1>9, <1>10, <1>11, <1>12, <1>13
  DEF Next, ActorStep

(* The batch being pushed and what is left of it only hold authored operations. *)
LEMMA OutboxHeadLemma ==
  ASSUME NEW queue, NEW held, NEW limit
  PROVE  OutboxHead(queue, held, limit) \subseteq queue
  BY DEF OutboxHead

(* A committed or acknowledged outbox is a part of what it was. *)
LEMMA TaskOutbox ==
  ASSUME TypeOK, NEW c \in Client, TaskStep(c), NEW p \in Peer
  PROVE  out'[p] \subseteq out[p]
<1> USE DEF TypeOK
<1>1. CASE p # c
  BY <1>1, TaskFrame
<1>2. CASE p = c
  <2>1. CASE Connect(c) \/ Unreachable(c) \/ GetOps(c) \/ RejectPage(c) \/ OneAnswered(c)
             \/ CheckIdle(c) \/ Push(c) \/ PushOne(c)
    BY <2>1 DEF Connect, Unreachable, GetOps, RejectPage, OneAnswered, CheckIdle, Push,
                PushOne, Post, serverVars
  <2>2. CASE ApplyPage(c)
    BY <1>2, <2>2 DEF ApplyPage, CommitOn, OutboxAfter
  <2>3. CASE PushAnswered(c) \/ Isolated(c)
    BY <1>2, <2>3 DEF PushAnswered, Isolated, Settle, Acknowledge
  <2> QED BY <2>1, <2>2, <2>3 DEF TaskStep
<1> QED BY <1>1, <1>2

(* The requests and sessions of OnlyBorn. *)
CarriedBorn ==
  /\ \A r \in inbox : r.ops \subseteq Born
  /\ \A c \in Client : sess[c].sent \subseteq Born /\ sess[c].rest \subseteq Born

(* A sync task only carries what its outbox held. *)
LEMMA TaskCarries ==
  ASSUME TypeOK, OnlyBorn, NEW c \in Client, TaskStep(c)
  PROVE  CarriedBorn'
<1> USE DEF TypeOK
<1>a. /\ sess[c] \in Session /\ c \in Peer /\ out[c] \subseteq Born
      /\ sess[c].sent \subseteq Born /\ sess[c].rest \subseteq Born /\ nextOp' = nextOp
  BY TaskFrame DEF Peer, OnlyBorn
<1>b. ASSUME NEW s, s.sent \subseteq Born, s.rest \subseteq Born, Become(c, s), inbox' = inbox
      PROVE  CarriedBorn'
  BY <1>a, <1>b DEF Become, CarriedBorn, OnlyBorn, Born
<1>c. ASSUME NEW s \in Session, NEW ops \in SUBSET Born,
             s.sent \subseteq Born, s.rest \subseteq Born, Post(c, ops, s)
      PROVE  CarriedBorn'
  <2> DEFINE t == [s EXCEPT !.reply = Transient]
             u == [s EXCEPT !.reply = Terminal]
  <2>1. t.sent = s.sent /\ t.rest = s.rest /\ u.sent = s.sent /\ u.rest = s.rest
    BY <1>c DEF Session
  <2>2. CASE (Become(c, t) \/ Become(c, u)) /\ UNCHANGED serverVars
    <3> HIDE DEF t, u
    <3> QED BY <1>b, <1>c, <2>1, <2>2 DEF serverVars
  <2>3. CASE Become(c, s) /\ Enqueue(c, ops)
    BY <1>a, <1>c, <2>3 DEF Become, Enqueue, CarriedBorn, OnlyBorn, Born
  <2> QED BY <1>c, <2>2, <2>3 DEF Post
<1>d. Offline.sent = {} /\ Offline.rest = {}
  BY DEF Offline
<1>1. CASE Connect(c) \/ CheckIdle(c) \/ Unreachable(c) \/ RejectPage(c)
  <2> DEFINE s == [Offline EXCEPT !.pc = "pull"]
  <2>1. s.sent = {} /\ s.rest = {}
    BY DEF Offline
  <2>2. Become(c, s) \/ Become(c, Offline)
    BY <1>1 DEF Connect, CheckIdle, Unreachable, RejectPage
  <2>3. inbox' = inbox
    BY <1>1 DEF Connect, CheckIdle, Unreachable, RejectPage, serverVars
  <2> HIDE DEF s
  <2> QED BY <1>b, <1>d, <2>1, <2>2, <2>3
<1>2. CASE GetOps(c)
  <2> DEFINE page == OpsSince(cursor[c], Batch)
             s == IF page = {} THEN [sess[c] EXCEPT !.pc = AfterCatchUp(@)]
                               ELSE [sess[c] EXCEPT !.page = page]
  <2>1. s.sent = sess[c].sent /\ s.rest = sess[c].rest
    BY <1>a DEF Session
  <2>2. Become(c, s) /\ inbox' = inbox
    BY <1>2 DEF GetOps, serverVars
  <2> HIDE DEF s
  <2> QED BY <1>a, <1>b, <2>1, <2>2
<1>3. CASE ApplyPage(c)
  <2> DEFINE s == [sess[c] EXCEPT !.page = {},
                     !.pc = IF Cardinality(sess[c].page) = Batch THEN @ ELSE AfterCatchUp(@)]
  <2>1. s.sent = sess[c].sent /\ s.rest = sess[c].rest
    BY <1>a DEF Session
  <2>2. Become(c, s) /\ inbox' = inbox
    BY <1>3 DEF ApplyPage
  <2> HIDE DEF s
  <2> QED BY <1>a, <1>b, <2>1, <2>2
<1>4. CASE Push(c)
  <2> DEFINE batch == OutboxHead(out[c], quar[c], Batch)
             s == [sess[c] EXCEPT !.pc = "repull", !.sent = {}]
             t == [sess[c] EXCEPT !.pc = "wait", !.sent = batch]
  <2>1. batch \subseteq Born /\ batch \in SUBSET OpId
    BY <1>a, OutboxHeadLemma
  <2>2. s.sent = {} /\ s.rest = sess[c].rest /\ t.sent = batch /\ t.rest = sess[c].rest
        /\ t \in Session
    <3> HIDE DEF batch
    <3> QED BY <1>a, <2>1 DEF Session
  <2>3. \/ Become(c, s) /\ UNCHANGED serverVars
        \/ Post(c, batch, t)
    BY <1>4 DEF Push
  <2> HIDE DEF s, t, batch
  <2> QED BY <1>a, <1>b, <1>c, <2>1, <2>2, <2>3 DEF serverVars
<1>5. CASE PushAnswered(c)
  <2> DEFINE s == [sess[c] EXCEPT !.pc = "repull", !.reply = NoReply, !.accepted = {}]
             t == [sess[c] EXCEPT !.pc = "isolate", !.reply = NoReply, !.rest = sess[c].sent,
                     !.accepted = {}, !.progressed = FALSE]
  <2>1. s.sent = sess[c].sent /\ s.rest = sess[c].rest /\ t.sent = sess[c].sent
        /\ t.rest = sess[c].sent
    BY <1>a DEF Session
  <2>2. (Become(c, s) \/ Become(c, t) \/ Become(c, Offline)) /\ inbox' = inbox
    BY <1>5 DEF PushAnswered, Settle
  <2> HIDE DEF s, t
  <2> QED BY <1>a, <1>b, <1>d, <2>1, <2>2
<1>6. CASE PushOne(c)
  <2> DEFINE s == [sess[c] EXCEPT !.pc = "isoWait"]
  <2>1. Oldest(sess[c].rest) \in sess[c].rest
    BY <1>6, <1>a, OldestLemma DEF PushOne, Session
  <2>2. s \in Session /\ s.sent = sess[c].sent /\ s.rest = sess[c].rest
    BY <1>a DEF Session
  <2>3. Post(c, {Oldest(sess[c].rest)}, s)
    BY <1>6 DEF PushOne
  <2> HIDE DEF s
  <2> QED BY <1>a, <1>c, <2>1, <2>2, <2>3
<1>7. CASE OneAnswered(c)
  <2> DEFINE s == sess[c]
             o == Oldest(s.rest)
             next == [s EXCEPT !.pc = "isolate", !.reply = NoReply, !.rest = @ \ {o},
                               !.progressed = TRUE]
             more == [next EXCEPT !.accepted = @ \cup s.reply.acks]
             stop == [s EXCEPT !.pc = "isolate", !.reply = NoReply, !.rest = {}]
  <2>1. next.sent = s.sent /\ next.rest = s.rest \ {o} /\ stop.sent = s.sent
        /\ stop.rest = {} /\ next \in Session
    BY <1>a, OfflineType DEF Session
  <2>2. more.sent = next.sent /\ more.rest = next.rest
    <3> HIDE DEF next
    <3> QED BY <2>1 DEF Session
  <2>3. /\ Become(c, more) \/ Become(c, next) \/ Become(c, IF s.progressed THEN stop ELSE Offline)
        /\ UNCHANGED serverVars
    BY <1>7 DEF OneAnswered
  <2>4. Become(c, more) \/ Become(c, next) \/ Become(c, stop) \/ Become(c, Offline)
    BY <2>3
  <2>5. inbox' = inbox
    BY <2>3 DEF serverVars
  <2> HIDE DEF s, next, more, stop
  <2>6. s.sent \subseteq Born /\ s.rest \subseteq Born
    BY <1>a DEF s
  <2> QED BY <1>b, <1>d, <2>1, <2>2, <2>4, <2>5, <2>6
<1>8. CASE Isolated(c)
  <2> DEFINE s == [sess[c] EXCEPT !.pc = "repull", !.reply = NoReply, !.accepted = {}]
  <2>1. s.sent = sess[c].sent /\ s.rest = sess[c].rest
    BY <1>a DEF Session
  <2>2. (Become(c, s) \/ Become(c, Offline)) /\ inbox' = inbox
    BY <1>8 DEF Isolated, Settle
  <2> HIDE DEF s
  <2> QED BY <1>a, <1>b, <1>d, <2>1, <2>2
<1> QED BY <1>1, <1>2, <1>3, <1>4, <1>5, <1>6, <1>7, <1>8 DEF TaskStep

(* A local edit takes an identifier nobody has seen. *)
LEMMA AuthorBorn ==
  ASSUME TypeOK, OnlyBorn, NEW p \in Peer, Author(p),
         UNCHANGED <<oplog, cursor, inbox, job, up, crashes>>, UNCHANGED clientVars
  PROVE  OnlyBorn'
<1>1. /\ nextOp \in OpId /\ nextOp \in Nat \ {0} /\ nextOp' = nextOp + 1
      /\ \A o \in OpId : o \in Nat \ {0}
  BY MaxOpsAssumption DEF Author, OpId, TypeOK
<1>2. Born' = Born \cup {nextOp}
  BY <1>1 DEF Born
<1>3. ASSUME NEW o \in OpId PROVE author'[o] # Nobody <=> o \in Born'
  <2>1. author'[o] = IF o = nextOp THEN p ELSE author[o]
    BY <1>1 DEF Author, TypeOK
  <2>2. p # Nobody
    BY ServerAssumption DEF Peer
  <2> QED BY <1>2, <2>1, <2>2 DEF OnlyBorn
<1>4. \A q \in Peer : out'[q] \subseteq Born'
  BY <1>2 DEF Author, OnlyBorn, TypeOK
<1> QED BY <1>2, <1>3, <1>4 DEF OnlyBorn, clientVars

(* Steps of the server that author nothing. *)
LEMMA ActorBorn ==
  ASSUME TypeOK, OnlyBorn, JobSound,
         UNCHANGED <<author, nextOp>>,
         \A c \in Client : sess'[c].sent = sess[c].sent /\ sess'[c].rest = sess[c].rest,
         \/ PublishAuthored \/ StartIngest \/ AppendOne \/ AppendFails \/ ApplyOk
         \/ ApplyFails \/ RemoveTail \/ RolledBack \/ Crash \/ Restart
  PROVE  OnlyBorn'
<1>0. ServerTypes /\ Born' = Born /\ Server \in Peer
  BY TypesSplit DEF Born, Peer
<1>1. CASE PublishAuthored
  <2>1. OutboxHead(out[Server], {}, Batch) \subseteq Born
    BY <1>0, OutboxHeadLemma DEF OnlyBorn
  <2>2. \A r \in inbox' : r.ops \subseteq Born
    BY <1>1, <2>1 DEF PublishAuthored, Enqueue, OnlyBorn
  <2> QED BY <1>0, <1>1, <2>2 DEF PublishAuthored, OnlyBorn
<1>2. CASE StartIngest
  BY <1>0, <1>2 DEF StartIngest, OnlyBorn
<1>3. CASE AppendOne
  <2>1. Oldest(job.todo) \in job.ops /\ Oldest(job.todo) \in OpId /\ oplog \in Seq(OpId)
        /\ job'.ops = job.ops
    BY <1>0, <1>3, OldestLemma DEF AppendOne, ServerTypes, Job, JobSound
  <2>2. ASSUME NEW i \in 1 .. Len(oplog') PROVE oplog'[i] \in Born
    <3> DEFINE o == Oldest(job.todo)
    <3>1. oplog' = oplog \/ oplog' = Append(oplog, o)
      BY <1>3 DEF AppendOne
    <3> HIDE DEF o
    <3>2. o \in Born /\ o \in OpId
      BY <2>1 DEF OnlyBorn, o
    <3> QED BY <2>1, <3>1, <3>2 DEF OnlyBorn
  <2> QED BY <1>0, <1>3, <2>1, <2>2 DEF AppendOne, OnlyBorn
<1>4. CASE AppendFails \/ ApplyFails
  <2>1. job'.ops = job.ops /\ UNCHANGED <<oplog, out, inbox>>
    BY <1>0, <1>4 DEF AppendFails, ApplyFails, ServerTypes, Job
  <2> QED BY <1>0, <2>1 DEF OnlyBorn
<1>5. CASE ApplyOk \/ Restart
  <2>1. \A p \in Peer : out'[p] \subseteq out[p]
    BY <1>0, <1>5 DEF ApplyOk, Restart, CommitOn, OutboxAfter, ServerTypes
  <2>2. UNCHANGED <<oplog, inbox>> /\ (job' = NoJob \/ job' = job)
    BY <1>5 DEF ApplyOk, Restart
  <2> QED BY <1>0, <2>1, <2>2 DEF OnlyBorn, NoJob
<1>6. CASE RemoveTail
  <2>1. oplog \in Seq(OpId) /\ Len(oplog) > 0 /\ Len(oplog) \in Nat
    BY <1>0, <1>6 DEF RemoveTail, ServerTypes, Job
  <2>2. /\ Len(oplog') = Len(oplog) - 1
        /\ \A i \in 1 .. Len(oplog) - 1 : oplog'[i] = oplog[i]
    BY <1>6, <2>1, DropLast DEF RemoveTail
  <2> QED BY <1>0, <1>6, <2>1, <2>2 DEF RemoveTail, OnlyBorn
<1>7. CASE RolledBack \/ Crash
  BY <1>0, <1>7 DEF RolledBack, Crash, OnlyBorn, NoJob
<1> QED BY <1>1, <1>2, <1>3, <1>4, <1>5, <1>6, <1>7

(* Every step keeps fresh identifiers out of every table, request and log. *)
LEMMA StepBorn ==
  ASSUME TypeOK, JobSound, OnlyBorn, Next
  PROVE  OnlyBorn'
<1>0. \A c \in Client : sess[c] \in Session
  BY DEF TypeOK
<1>1. CASE ServerAuthor
  BY <1>1, AuthorBorn DEF ServerAuthor, Peer
<1>2. CASE \E c \in Client : Edit(c)
  BY <1>2, AuthorBorn DEF Edit, Peer
<1>3. CASE ServerPublish \/ ServerStart \/ ServerAppend \/ ServerRefuse \/ ServerRollback
           \/ ServerRestart
  <2>1. UNCHANGED <<sess, author, nextOp>>
    BY <1>3
    DEF ServerPublish, ServerStart, ServerAppend, ServerRefuse, ServerRollback, ServerRestart,
        PublishAuthored, StartIngest, AppendOne, AppendFails, ApplyFails, RemoveTail, Restart,
        clientVars
  <2> QED BY <1>3, <2>1, ActorBorn
    DEF ServerPublish, ServerStart, ServerAppend, ServerRefuse, ServerRollback, ServerRestart
<1>4. CASE ServerApply \/ ServerRolledBack \/ ServerCrash
  <2>1. ASSUME NEW c \in Client PROVE sess'[c].sent = sess[c].sent /\ sess'[c].rest = sess[c].rest
    <3>1. PICK a : sess'[c] = sess[c] \/ sess'[c] = [sess[c] EXCEPT !.reply = a]
      BY <1>4 DEF ServerApply, ServerRolledBack, ServerCrash, Respond
    <3> QED BY <1>0, <3>1 DEF Session
  <2>2. UNCHANGED <<author, nextOp>>
    BY <1>4 DEF ServerApply, ServerRolledBack, ServerCrash, ApplyOk, RolledBack, Crash
  <2> QED BY <1>4, <2>1, <2>2, ActorBorn DEF ServerApply, ServerRolledBack, ServerCrash
<1>5. CASE BlobArrives \/ \E c \in Client : Release(c)
  BY <1>5 DEF BlobArrives, Release, serverVars, OnlyBorn, Born
<1>6. ASSUME NEW c \in Client, TaskStep(c) PROVE OnlyBorn'
  <2>1. UNCHANGED <<oplog, job, author, nextOp>> /\ \A p \in Peer : out'[p] \subseteq out[p]
    BY <1>6, TaskFrame, TaskOutbox
  <2> QED BY <1>6, <2>1, TaskCarries DEF OnlyBorn, CarriedBorn, Born
<1>7. ASSUME NEW c \in Client, Drop(c) PROVE OnlyBorn'
  <2>1. job'.ops = job.ops
    BY <1>7 DEF Drop, TypeOK, Job
  <2>2. \A d \in Client : sess'[d] = sess[d] \/ sess'[d] = Offline
    BY <1>7 DEF Drop, Become, TypeOK
  <2>3. ASSUME NEW r \in inbox' PROVE \E q \in inbox : r.ops = q.ops
    <3>1. PICK q \in inbox : r = q \/ r = [q EXCEPT !.from = Nobody, !.tag = drops + 1]
      BY <1>7 DEF Drop
    <3>2. q \in Request
      BY DEF TypeOK
    <3> QED BY <3>1, <3>2 DEF Request
  <2>4. Born' = Born /\ UNCHANGED <<oplog, out, author>>
    BY <1>7 DEF Drop, Born
  <2> QED BY <2>1, <2>2, <2>3, <2>4 DEF OnlyBorn, Offline
<1> QED BY <1>1, <1>2, <1>3, <1>4, <1>5, <1>6, <1>7 DEF Next, ActorStep

----------------------------------------------------------------------------
(* At the start nothing is authored, logged or on its way. *)
LEMMA InitLogInv ==
  ASSUME Init
  PROVE  LogInv
<1>1. TypeOK
  <2>1. <<>> \in Seq(OpId) /\ 1 \in 1 .. MaxOps + 1 /\ 0 \in 0 .. MaxCrashes
        /\ 0 \in 0 .. MaxDrops
    BY MaxOpsAssumption, MaxCrashesAssumption, MaxDropsAssumption
  <2> QED BY <2>1, NoJobType, OfflineType, MissingBlobAssumption
    DEF Init, ServerInit, TypeOK, NoRow
<1>2. LogUnique /\ Materialised /\ JobSound
  BY DEF Init, ServerInit, LogUnique, Materialised, JobSound, NoJob, Peer
<1>3. OnlyBorn
  BY DEF Init, ServerInit, OnlyBorn, Born, NoJob, Offline
<1> QED BY <1>1, <1>2, <1>3 DEF LogInv

(* The inductive step: types, the two files and the authored identifiers. *)
LEMMA StepLogInv ==
  ASSUME LogInv, [Next]_vars
  PROVE  LogInv'
<1>1. CASE Next
  <2>1. TypeOK'
    BY <1>1, StepTypes DEF LogInv
  <2>2. FilesAgree'
    BY <1>1, StepFiles DEF LogInv, FilesAgree
  <2>3. OnlyBorn'
    BY <1>1, StepBorn DEF LogInv
  <2> QED BY <2>1, <2>2, <2>3 DEF LogInv, FilesAgree
<1>2. CASE UNCHANGED vars
  BY <1>2 DEF vars, serverVars, LogInv, TypeOK, LogUnique, Materialised, JobSound, OnlyBorn,
              Born, InLog
<1> QED BY <1>1, <1>2

(* Whatever is lost, retried, refused, half rolled back or cut short by a
   crash, the oplog and the server replica agree (UserState, Oplog). *)
THEOREM LogInvariant == Spec => []LogInv
<1>1. Init => LogInv
  BY InitLogInv
<1>2. LogInv /\ [Next]_vars => LogInv'
  BY StepLogInv
<1> QED BY <1>1, <1>2, PTL DEF Spec

(* No operation ever has two sequence numbers. *)
THEOREM LogUniqueTheorem == Spec => []LogUnique
<1>1. LogInv => LogUnique
  BY DEF LogInv
<1> QED BY <1>1, LogInvariant, PTL

(* The server replica is the log up to its cursor. *)
THEOREM MaterialisedTheorem == Spec => []Materialised
<1>1. LogInv => Materialised
  BY DEF LogInv
<1> QED BY <1>1, LogInvariant, PTL

(* What CommittedStable says of one step. *)
Stable ==
  /\ cursor[Server] <= cursor'[Server]
  /\ cursor[Server] <= Len(oplog')
  /\ \A i \in 1 .. cursor[Server] : oplog'[i] = oplog[i]

(* A step that leaves log and cursor of the server alone. *)
LEMMA StableFrame ==
  ASSUME LogInv, UNCHANGED oplog, cursor'[Server] = cursor[Server]
  PROVE  Stable
  BY DEF Stable, LogInv, Materialised, TypeOK, Peer

(* No step takes back a row at or below the server's cursor. *)
LEMMA StepStable ==
  ASSUME LogInv, Next
  PROVE  Stable
<1>0. /\ TypeOK /\ ServerTypes /\ Server \in Peer /\ cursor[Server] \in Nat
      /\ oplog \in Seq(OpId) /\ Len(oplog) \in Nat /\ job \in Job
      /\ cursor[Server] <= Len(oplog)
  BY TypesSplit DEF LogInv, Peer, ServerTypes, Materialised
<1>1. CASE ServerAuthor \/ ServerPublish \/ ServerStart \/ ServerRefuse \/ ServerRolledBack
           \/ ServerCrash \/ BlobArrives
  BY <1>1, StableFrame
  DEF ServerAuthor, ServerPublish, ServerStart, ServerRefuse, ServerRolledBack, ServerCrash,
      BlobArrives, PublishAuthored, StartIngest, ApplyFails, RolledBack, Crash, serverVars
<1>2. CASE ServerAppend
  <2>1. CASE AppendFails
    BY <2>1, StableFrame DEF AppendFails
  <2>2. CASE AppendOne
    <3> DEFINE o == Oldest(job.todo)
    <3>1. o \in OpId /\ cursor' = cursor /\ (oplog' = oplog \/ oplog' = Append(oplog, o))
      BY <1>0, <2>2, OldestLemma DEF AppendOne, Job
    <3> HIDE DEF o
    <3> QED BY <1>0, <3>1 DEF Stable
  <2> QED BY <1>2, <2>1, <2>2 DEF ServerAppend
<1>3. CASE ServerApply
  <2>1. /\ Appended \in SUBSET Entry /\ \A e \in Appended : Listed(e)
        /\ Applies(Server, Appended) /\ CommitOn(Server, Appended) /\ oplog' = oplog
    BY <1>0, <1>3, AppendedLemma DEF ServerApply, ApplyOk, IngestApplies, LogInv, JobSound, Job
  <2>2. cursor[Server] <= cursor'[Server]
    BY <1>0, <2>1, CommitMaterialises DEF LogInv, Materialised
  <2> QED BY <1>0, <2>1, <2>2 DEF Stable
<1>4. CASE ServerRestart
  <2>1. Unapplied \in SUBSET Entry /\ \A e \in Unapplied : Listed(e)
    BY <1>0, OpsSinceLemma DEF Unapplied
  <2>2. cursor[Server] <= cursor'[Server] /\ oplog' = oplog
    BY <1>0, <1>4, <2>1, CommitMaterialises DEF ServerRestart, Restart, LogInv, Materialised
  <2> QED BY <1>0, <2>2 DEF Stable
<1>5. CASE ServerRollback
  <2>1. /\ cursor[Server] <= job.base /\ job.base < Len(oplog) /\ job.base \in Nat
        /\ cursor' = cursor
    BY <1>0, <1>5 DEF ServerRollback, RemoveTail, LogInv, JobSound, Job
  <2>2. /\ Len(oplog') = Len(oplog) - 1
        /\ \A i \in 1 .. Len(oplog) - 1 : oplog'[i] = oplog[i]
    BY <1>0, <1>5, <2>1, DropLast DEF ServerRollback, RemoveTail
  <2> QED BY <1>0, <2>1, <2>2 DEF Stable
<1>6. ASSUME NEW c \in Client, TaskStep(c) PROVE Stable
  <2>1. Server \in Peer \ {c}
    BY <1>0, ServerAssumption
  <2> QED BY <1>0, <1>6, <2>1, TaskFrame, StableFrame
<1>7. ASSUME NEW c \in Client, Edit(c) \/ Drop(c) \/ Release(c) PROVE Stable
  BY <1>7, StableFrame DEF Edit, Drop, Release, serverVars
<1> QED BY <1>1, <1>2, <1>3, <1>4, <1>5, <1>6, <1>7 DEF Next, ActorStep

(* A rollback never takes back a materialised row (ingest_operations,
   Oplog::remove_tail), whatever fails around it. *)
THEOREM CommittedStableTheorem == Spec => CommittedStable
<1>1. LogInv /\ [Next]_vars => [Stable]_vars
  BY StepStable
<1> QED BY <1>1, LogInvariant, PTL DEF Spec, CommittedStable, Stable

----------------------------------------------------------------------------
(* The live stream of SyncSocket: the device's and the server's tables, what the
   queues of the socket hold, and what of it the device still lacks. *)

(* What travels on the socket, and the server task. *)
SocketMessage == [kind : {"ops", "ack", "pong", "error", "terminal"}, entries : SUBSET Entry]
SocketRequest == [kind : {"push", "ping"}, ops : SUBSET OpId]
ServerTask == [pc : {"gone", "subscribed", "backlog", "loop"}, since : Nat, backlog : SUBSET Entry]

(* The log holds the entry at its number. *)
LogHolds(e) == e.seq \in 1 .. Len(wlog) /\ wlog[e.seq] = e.op

(* The log and the device's own tables. *)
TablesInv ==
    /\ wlog \in Seq(OpId) /\ wnext \in Nat
    /\ wrow \in [OpId -> Int] /\ wcursor \in 0 .. Len(wlog) /\ wout \in SUBSET OpId
    /\ \A i \in 1 .. Len(wlog) : wlog[i] < wnext
    /\ \A o \in wout : o < wnext
    /\ SentOnce /\ SocketKeeps

(* The socket: what the server sends is in its log, what the device sends is authored. *)
LinkInv ==
    /\ phase \in {"off", "http", "live"} /\ serving \in ServerTask
    /\ channel \in Seq(Nat) /\ lagged \in BOOLEAN /\ alive \in BOOLEAN
    /\ down \in Seq(SocketMessage) /\ upward \in Seq(SocketRequest)
    /\ \A m \in Range(down) : \A e \in m.entries : LogHolds(e)
    /\ \A e \in serving.backlog : LogHolds(e)
    /\ Range(channel) \subseteq 1 .. Len(wlog)
    /\ \A r \in Range(upward) : \A o \in r.ops : o < wnext

(* The operation with this number still reaches the device. *)
OnWay(i) ==
    \/ \E m \in Range(down) : m.kind = "ops" /\ \E e \in m.entries : e.seq = i
    \/ i \in Range(channel)
    \/ serving.pc = "backlog" /\ \E e \in serving.backlog : e.seq = i

(* The stream misses nothing; while the task has only subscribed, what it will
   read starts no later than the cursor. *)
Streaming ==
    phase = "live" /\ alive /\ ~lagged =>
      /\ serving.pc = "subscribed" => serving.since <= wcursor
      /\ serving.pc \in {"backlog", "loop"} /\ ~FullPage =>
           \A i \in wcursor + 1 .. Len(wlog) : OnWay(i)

(* The inductive invariant of the socket. *)
SocketInv == TablesInv /\ LinkInv /\ Streaming

(* OnTheWay, spelled out. *)
LEMMA OnWayIff ==
  ASSUME NEW i
  PROVE  OnWay(i) <=> i \in OnTheWay
<1>1. (\E m \in Range(down) : m.kind = "ops" /\ \E e \in m.entries : e.seq = i)
        <=> i \in {e.seq : e \in UNION {m.entries : m \in {n \in Range(down) : n.kind = "ops"}}}
  OBVIOUS
<1>2. (serving.pc = "backlog" /\ \E e \in serving.backlog : e.seq = i)
        <=> i \in (IF serving.pc = "backlog" THEN {e.seq : e \in serving.backlog} ELSE {})
  OBVIOUS
<1> QED BY <1>1, <1>2 DEF OnWay, OnTheWay

(* What a queue holds after a message is appended. *)
LEMMA RangeAppend ==
  ASSUME NEW S, NEW s \in Seq(S), NEW e \in S
  PROVE  Append(s, e) \in Seq(S) /\ Range(Append(s, e)) = Range(s) \cup {e}
<1>1. PICK t : t = <<e>>
  OBVIOUS
<1>2. t \in Seq(S) /\ Len(t) = 1 /\ t[1] = e
  BY <1>1
<1>3. Range(t) = {t[i] : i \in 1 .. 1}
  BY <1>2, RangeEquality
<1>4. Range(t) = {e}
  BY <1>2, <1>3
<1>5. Append(s, e) = s \o t
  BY <1>1, AppendIsConcat
<1>6. Range(s \o t) = Range(s) \cup Range(t)
  BY <1>2, RangeConcatenation
<1>7. Append(s, e) \in Seq(S)
  BY AppendProperties
<1> QED BY <1>4, <1>5, <1>6, <1>7

(* What a queue holds after its head is taken. *)
LEMMA RangeTail ==
  ASSUME NEW S, NEW s \in Seq(S), s # <<>>
  PROVE  /\ Head(s) \in S /\ Head(s) \in Range(s) /\ Tail(s) \in Seq(S)
         /\ Range(Tail(s)) \subseteq Range(s)
         /\ \A x \in Range(s) : x = Head(s) \/ x \in Range(Tail(s))
<1>1. /\ Head(s) \in S /\ Tail(s) \in Seq(S) /\ Len(Tail(s)) = Len(s) - 1
      /\ \A i \in 1 .. Len(Tail(s)) : Tail(s)[i] = s[i + 1]
  BY HeadTailProperties
<1>2. Len(s) \in Nat /\ Len(s) # 0 /\ Head(s) = s[1]
  OBVIOUS
<1>3. Range(s) = {s[i] : i \in 1 .. Len(s)}
  BY RangeEquality
<1>4. Range(Tail(s)) = {Tail(s)[i] : i \in 1 .. Len(Tail(s))}
  BY <1>1, RangeEquality
<1>5. \A i \in 1 .. Len(Tail(s)) : i + 1 \in 1 .. Len(s)
  BY <1>1, <1>2
<1>6. \A i \in 1 .. Len(s) : i # 1 => i - 1 \in 1 .. Len(Tail(s)) /\ i - 1 + 1 = i
  BY <1>1, <1>2
<1>7. 1 \in 1 .. Len(s)
  BY <1>2
<1>8. Head(s) \in Range(s)
  BY <1>2, <1>3, <1>7
<1>9. Range(Tail(s)) \subseteq Range(s)
  BY <1>1, <1>3, <1>4, <1>5
<1>10. ASSUME NEW x \in Range(s), x # Head(s) PROVE x \in Range(Tail(s))
  <2>1. PICK i \in 1 .. Len(s) : x = s[i]
    BY <1>3
  <2>2. i # 1
    BY <2>1, <1>2, <1>10
  <2>3. Tail(s)[i - 1] = x
    BY <2>1, <2>2, <1>1, <1>6
  <2> QED BY <2>2, <2>3, <1>4, <1>6
<1> QED BY <1>1, <1>8, <1>9, <1>10

(* The inductive invariant implies the property. *)
LEMMA SocketInvStreams == SocketInv => StreamExact
<1> SUFFICES ASSUME SocketInv PROVE StreamExact
  OBVIOUS
<1>1. StreamComplete
  BY OnWayIff DEF SocketInv, Streaming, StreamComplete
<1> QED BY <1>1 DEF SocketInv, TablesInv, StreamExact

(* Sets of operations are finite. *)
LEMMA OpsFinite ==
  ASSUME NEW ops \in SUBSET OpId
  PROVE  IsFiniteSet(ops) /\ Cardinality(ops) \in Nat
<1>1. IsFiniteSet(OpId)
  BY FS_Interval, MaxOpsAssumption DEF OpId
<1> QED BY <1>1, FS_Subset, FS_CardinalityType

(* What the log is after a batch. *)
Grown(log, ops) ==
    /\ log \in Seq(OpId) /\ Len(wlog) <= Len(log) /\ Len(log) \in Nat
    /\ \A i \in 1 .. Len(wlog) : log[i] = wlog[i]
    /\ \A i \in 1 .. Len(log) : i > Len(wlog) => log[i] \in ops
    /\ \A o \in ops : \E i \in 1 .. Len(log) : log[i] = o
    /\ \A i, j \in 1 .. Len(log) : log[i] = log[j] => i = j

(* Oplog::append keeps every row, adds each new operation once and invents none. *)
LEMMA AppendAllGrows ==
  ASSUME wlog \in Seq(OpId), SentOnce, NEW ops \in SUBSET OpId, NEW log \in AppendAll(wlog, ops)
  PROVE  Grown(log, ops)
<1> DEFINE new == ops \ Range(wlog)
           n == Cardinality(new)
<1>1. n \in Nat
  BY OpsFinite
<1> HIDE DEF n
<1>2. PICK rows : /\ rows \in [1 .. n -> new] /\ Range(rows) = new
                  /\ \A i, j \in DOMAIN rows : i < j => rows[i] < rows[j]
                  /\ log = wlog \o rows
  BY DEF AppendAll, Ascending, n
<1>3. rows \in Seq(OpId) /\ Len(rows) = n /\ DOMAIN rows = 1 .. n
  BY <1>1, <1>2
<1>4. DOMAIN wlog = 1 .. Len(wlog) /\ Len(wlog) \in Nat
  OBVIOUS
<1>5. /\ log \in Seq(OpId) /\ Len(log) = Len(wlog) + n
      /\ \A i \in 1 .. Len(log) : log[i] = IF i <= Len(wlog) THEN wlog[i] ELSE rows[i - Len(wlog)]
  BY <1>2, <1>3, ConcatProperties
<1>6. \A i \in 1 .. n : rows[i] \in ops /\ rows[i] \in OpId /\ \A k \in 1 .. Len(wlog) : wlog[k] # rows[i]
  BY <1>2, <1>4 DEF Range
<1>7. \A i, j \in 1 .. n : rows[i] = rows[j] => i = j
  <2> SUFFICES ASSUME NEW i \in 1 .. n, NEW j \in 1 .. n, i < j PROVE rows[i] # rows[j]
    BY <1>1
  <2>1. rows[i] < rows[j] /\ rows[i] \in Int /\ rows[j] \in Int
    BY <1>2, <1>3, <1>6 DEF OpId
  <2> QED BY <2>1
<1>8. \A i \in 1 .. Len(log) : i > Len(wlog) => i - Len(wlog) \in 1 .. n /\ log[i] = rows[i - Len(wlog)]
  BY <1>1, <1>4, <1>5
<1>9. \A i \in 1 .. Len(wlog) : i \in 1 .. Len(log) /\ log[i] = wlog[i]
  BY <1>1, <1>4, <1>5
<1>10. \A i, j \in 1 .. Len(log) : log[i] = log[j] => i = j
  <2> SUFFICES ASSUME NEW i \in 1 .. Len(log), NEW j \in 1 .. Len(log), log[i] = log[j], i <= j
               PROVE  i = j
    BY <1>1, <1>4, <1>5
  <2>1. CASE j <= Len(wlog)
    BY <2>1, <1>4, <1>9 DEF SentOnce
  <2>2. CASE i > Len(wlog)
    <3>1. i - Len(wlog) = j - Len(wlog)
      BY <2>2, <1>4, <1>7, <1>8
    <3> QED BY <3>1, <1>4
  <2>3. CASE i <= Len(wlog) /\ j > Len(wlog)
    BY <2>3, <1>4, <1>6, <1>8, <1>9
  <2> QED BY <2>1, <2>2, <2>3, <1>4
<1>11. \A o \in ops : \E i \in 1 .. Len(log) : log[i] = o
  <2> SUFFICES ASSUME NEW o \in ops PROVE \E i \in 1 .. Len(log) : log[i] = o
    OBVIOUS
  <2>1. CASE o \in Range(wlog)
    BY <2>1, <1>4, <1>9 DEF Range
  <2>2. CASE o \in new
    <3>1. PICK k \in 1 .. n : rows[k] = o
      BY <2>2, <1>2, <1>3 DEF Range
    <3>2. Len(wlog) + k \in 1 .. Len(log) /\ Len(wlog) + k > Len(wlog) /\ Len(wlog) + k - Len(wlog) = k
      BY <1>1, <1>4, <1>5
    <3> QED BY <3>1, <3>2, <1>8
  <2> QED BY <2>1, <2>2
<1> QED BY <1>1, <1>4, <1>5, <1>6, <1>8, <1>9, <1>10, <1>11 DEF Grown

(* The numbers from b + 1 to n in order. *)
CountsUp(fresh, b, n) == fresh \in Seq(Nat) /\ Len(fresh) = n - b /\ \A i \in 1 .. n - b : fresh[i] = b + i

(* The sequence numbers a broadcast sends. *)
LEMMA FreshSeq ==
  ASSUME NEW b \in Nat, NEW n \in Nat, b <= n
  PROVE  CountsUp([i \in 1 .. n - b |-> b + i], b, n)
<1>1. PICK fresh : fresh = [i \in 1 .. n - b |-> b + i]
  OBVIOUS
<1>2. fresh \in Seq(Nat) /\ Len(fresh) = n - b /\ \A i \in 1 .. n - b : fresh[i] = b + i
  BY <1>1
<1> QED BY <1>1, <1>2 DEF CountsUp

(* The receiver's queue with them appended. *)
LEMMA Joined ==
  ASSUME NEW held \in Seq(Nat), NEW b \in Nat, NEW n \in Nat, b <= n,
         NEW fresh, CountsUp(fresh, b, n)
  PROVE  held \o fresh \in Seq(Nat) /\ Range(held \o fresh) = Range(held) \cup (b + 1 .. n)
<1>2. fresh \in Seq(Nat) /\ Len(fresh) = n - b /\ \A i \in 1 .. n - b : fresh[i] = b + i
  BY DEF CountsUp
<1>3. Range(fresh) = {fresh[i] : i \in 1 .. n - b}
  BY <1>2, RangeEquality
<1>4. Range(fresh) \subseteq b + 1 .. n
  BY <1>2, <1>3
<1>5. ASSUME NEW i \in b + 1 .. n PROVE i \in Range(fresh)
  <2>1. i - b \in 1 .. n - b /\ fresh[i - b] = i
    BY <1>2
  <2> QED BY <2>1, <1>3
<1>6. Range(fresh) = b + 1 .. n
  BY <1>4, <1>5
<1>8. Range(held \o fresh) = Range(held) \cup Range(fresh)
  BY <1>2, RangeConcatenation
<1>9. held \o fresh \in Seq(Nat)
  BY <1>2, ConcatProperties
<1> QED BY <1>6, <1>8, <1>9

(* A full receiver keeps only what it was sent. *)
LEMMA LastOnes ==
  ASSUME NEW all \in Seq(Nat), NEW m \in Nat \ {0}
  PROVE  /\ SubSeq(all, m, Len(all)) \in Seq(Nat)
         /\ Range(SubSeq(all, m, Len(all))) \subseteq Range(all)
<1>1. PICK n \in Nat : n = Len(all)
  OBVIOUS
<1>2. Range(all) = {all[i] : i \in 1 .. n}
  BY <1>1, RangeEquality
<1>3. \A i \in 1 .. n : all[i] \in Nat
  BY <1>1
<1>4. PICK q : q = SubSeq(all, m, n)
  OBVIOUS
<1>5. /\ q \in Seq(Nat)
      /\ Len(q) = IF m <= n THEN n - m + 1 ELSE 0
      /\ \A i \in 1 .. n - m + 1 : q[i] = all[m + i - 1]
  BY <1>3, <1>4, SubSeqProperties
<1>6. Range(q) = {q[i] : i \in 1 .. Len(q)}
  BY <1>5, RangeEquality
<1>7. \A i \in 1 .. Len(q) : i \in 1 .. n - m + 1 /\ m + i - 1 \in 1 .. n
  BY <1>5
<1>8. Range(q) \subseteq Range(all)
  BY <1>2, <1>5, <1>6, <1>7
<1> QED BY <1>1, <1>4, <1>5, <1>8

(* The receiver after a broadcast. *)
BroadcastReached(n) ==
    /\ channel' \in Seq(Nat) /\ lagged' \in BOOLEAN
    /\ Range(channel') \subseteq Range(channel) \cup (Len(wlog) + 1 .. n)
    /\ Subscribed /\ ~lagged' => ~lagged /\ Range(channel') = Range(channel) \cup (Len(wlog) + 1 .. n)

(* operations_tx.send: unless the receiver lags it holds every new row. *)
LEMMA BroadcastHeard ==
  ASSUME wlog \in Seq(OpId), channel \in Seq(Nat), lagged \in BOOLEAN,
         NEW log \in Seq(OpId), Len(wlog) <= Len(log), Broadcast(Len(wlog), log)
  PROVE  BroadcastReached(Len(log))
<1>1. Len(wlog) \in Nat /\ Len(log) \in Nat /\ ChannelSize \in Nat
  BY SocketAssumption
<1>2. CASE ~Subscribed
  BY <1>2 DEF Broadcast, BroadcastReached
<1>3. CASE Subscribed
  <2>9. PICK b \in Nat, n \in Nat, held \in Seq(Nat) : b = Len(wlog) /\ n = Len(log) /\ held = channel /\ b <= n
    BY <1>1
  <2>0. PICK fresh : fresh = [i \in 1 .. n - b |-> b + i]
    OBVIOUS
  <2>1. PICK all : all = held \o fresh
    OBVIOUS
  <2>7. all \in Seq(Nat) /\ Range(all) = Range(held) \cup (b + 1 .. n)
    <3>1. /\ held \o fresh \in Seq(Nat)
          /\ Range(held \o fresh) = Range(held) \cup (b + 1 .. n)
      <4>1. CountsUp(fresh, b, n)
        BY <2>0, <2>9, FreshSeq
      <4> QED BY <4>1, <2>9, Joined
    <3> QED BY <3>1, <2>1
  <2>2. all \in Seq(Nat) /\ Range(all) = Range(channel) \cup (Len(wlog) + 1 .. Len(log))
    BY <2>7, <2>9
  <2>8. Len(all) \in Nat
    BY <2>2
  <2>3. PICK x \in Int : x = Len(all) - ChannelSize
    <3>1. Len(all) - ChannelSize \in Int
      BY <2>8, <1>1
    <3> QED BY <3>1
  <2>4. /\ channel' = IF x > 0 THEN SubSeq(all, x + 1, Len(all)) ELSE all
        /\ lagged' = (lagged \/ x > 0)
    BY <1>3, <2>0, <2>1, <2>3, <2>9 DEF Broadcast
  <2>5. CASE x > 0
    <3>1. x + 1 \in Nat \ {0}
      BY <2>5
    <3>2. channel' \in Seq(Nat) /\ Range(channel') \subseteq Range(all)
      BY <3>1, <2>2, <2>4, <2>5, LastOnes
    <3> QED BY <3>2, <2>2, <2>4, <2>5 DEF BroadcastReached
  <2>6. CASE ~(x > 0)
    BY <2>6, <2>2, <2>4 DEF BroadcastReached
  <2> QED BY <2>5, <2>6
<1> QED BY <1>2, <1>3

(* A message to a device on a live connection is on its way. *)
LEMMA DeliverGoes ==
  ASSUME LinkInv, NEW m \in SocketMessage, Deliver(m)
  PROVE  /\ down' \in Seq(SocketMessage)
         /\ Range(down) \subseteq Range(down') /\ Range(down') \subseteq Range(down) \cup {m}
         /\ alive => m \in Range(down')
<1>1. PICK d \in Seq(SocketMessage) : d = down
  BY DEF LinkInv
<1>2. Append(d, m) \in Seq(SocketMessage) /\ Range(Append(d, m)) = Range(d) \cup {m}
  BY RangeAppend
<1> QED BY <1>1, <1>2 DEF Deliver

(* A message to the server is what the device sent. *)
LEMMA TransmitGoes ==
  ASSUME LinkInv, NEW r \in SocketRequest, Transmit(r)
  PROVE  upward' \in Seq(SocketRequest) /\ Range(upward') \subseteq Range(upward) \cup {r}
<1>1. PICK u \in Seq(SocketRequest) : u = upward
  BY DEF LinkInv
<1>2. Append(u, r) \in Seq(SocketRequest) /\ Range(Append(u, r)) = Range(u) \cup {r}
  BY RangeAppend
<1> QED BY <1>1, <1>2 DEF Transmit

(* Reading the next message to the device. *)
LEMMA HeadDown ==
  ASSUME LinkInv, down # <<>>
  PROVE  /\ Head(down) \in SocketMessage /\ Head(down) \in Range(down)
         /\ Tail(down) \in Seq(SocketMessage) /\ Range(Tail(down)) \subseteq Range(down)
         /\ \A m \in Range(down) : m = Head(down) \/ m \in Range(Tail(down))
<1>1. PICK d \in Seq(SocketMessage) : d = down
  BY DEF LinkInv
<1>2. d # <<>>
  BY <1>1
<1>3. /\ Head(d) \in SocketMessage /\ Head(d) \in Range(d) /\ Tail(d) \in Seq(SocketMessage)
      /\ Range(Tail(d)) \subseteq Range(d)
      /\ \A m \in Range(d) : m = Head(d) \/ m \in Range(Tail(d))
  BY <1>2, RangeTail
<1> QED BY <1>1, <1>3

(* Reading the next message to the server. *)
LEMMA HeadUp ==
  ASSUME LinkInv, upward # <<>>
  PROVE  /\ Head(upward) \in SocketRequest /\ Head(upward) \in Range(upward)
         /\ Tail(upward) \in Seq(SocketRequest) /\ Range(Tail(upward)) \subseteq Range(upward)
<1>1. PICK u \in Seq(SocketRequest) : u = upward
  BY DEF LinkInv
<1>2. u # <<>>
  BY <1>1
<1>3. /\ Head(u) \in SocketRequest /\ Head(u) \in Range(u) /\ Tail(u) \in Seq(SocketRequest)
      /\ Range(Tail(u)) \subseteq Range(u)
  BY <1>2, RangeTail
<1> QED BY <1>1, <1>3

(* operations.recv takes one operation and leaves the others. *)
LEMMA HeadChannel ==
  ASSUME LinkInv, channel # <<>>
  PROVE  /\ Head(channel) \in Range(channel)
         /\ Tail(channel) \in Seq(Nat) /\ Range(Tail(channel)) \subseteq Range(channel)
         /\ \A i \in Range(channel) : i = Head(channel) \/ i \in Range(Tail(channel))
<1>1. PICK c \in Seq(Nat) : c = channel
  BY DEF LinkInv
<1>2. c # <<>>
  BY <1>1
<1>3. /\ Head(c) \in Range(c) /\ Tail(c) \in Seq(Nat)
      /\ Range(Tail(c)) \subseteq Range(c)
      /\ \A i \in Range(c) : i = Head(c) \/ i \in Range(Tail(c))
  BY <1>2, RangeTail
<1> QED BY <1>1, <1>3

(* An empty queue holds nothing. *)
LEMMA Silence == ASSUME NEW S PROVE <<>> \in Seq(S) /\ Range(<<>>) = {}
<1>1. PICK q : q = <<>>
  OBVIOUS
<1>2. q \in Seq(S) /\ Len(q) = 0
  BY <1>1
<1>3. Range(q) = {q[i] : i \in 1 .. 0}
  BY <1>2, RangeEquality
<1> QED BY <1>1, <1>2, <1>3

(* The invariant holds before the first session. *)
LEMMA InitSocket == SocketInit => SocketInv
<1> SUFFICES ASSUME SocketInit PROVE SocketInv
  OBVIOUS
<1> USE DEF SocketInit
<1>1. TablesInv
  BY Silence DEF TablesInv, SentOnce, SocketKeeps, NoRow
<1>2. Gone \in ServerTask
  BY DEF Gone, ServerTask
<1>3. LinkInv
  BY <1>2, Silence DEF LinkInv, Gone
<1>4. Streaming
  BY DEF Streaming
<1> QED BY <1>1, <1>3, <1>4 DEF SocketInv

(* A step that touches neither log nor tables. *)
LEMMA QuietTables ==
  ASSUME SocketInv, UNCHANGED <<wlog, deviceVars, wnext>>
  PROVE  TablesInv'
BY DEF SocketInv, TablesInv, deviceVars, SentOnce, SocketKeeps

(* Fail, Closed and BeatTimeout end the session. *)
LEMMA EndSessionKeeps ==
  ASSUME SocketInv, EndSession, UNCHANGED <<wlog, deviceVars, wnext, cuts>>
  PROVE  SocketInv'
<1>1. TablesInv'
  BY QuietTables
<1>2. Gone \in ServerTask
  BY DEF Gone, ServerTask
<1>3. LinkInv'
  BY <1>2, Silence DEF EndSession, LinkInv, Gone
<1>4. Streaming'
  BY DEF EndSession, Streaming
<1> QED BY <1>1, <1>3, <1>4 DEF SocketInv

(* transport.connect starts at the device's cursor. *)
LEMMA ConnectSocketKeeps == ASSUME SocketInv, ConnectSocket PROVE SocketInv'
<1>1. TablesInv'
  BY QuietTables DEF ConnectSocket
<1>2. serving' \in ServerTask
  BY DEF ConnectSocket, ServerTask, SocketInv, TablesInv
<1>3. LinkInv'
  BY <1>2, Silence DEF ConnectSocket, LinkInv
<1>4. Streaming'
  BY DEF ConnectSocket, Streaming, SocketInv, TablesInv, deviceVars
<1> QED BY <1>1, <1>3, <1>4 DEF SocketInv

(* A dead connection promises nothing. *)
LEMMA CutKeeps == ASSUME SocketInv, Cut PROVE SocketInv'
<1>1. TablesInv'
  BY QuietTables DEF Cut
<1>2. LinkInv'
  BY Silence DEF Cut, SocketInv, LinkInv, LogHolds
<1>3. Streaming'
  BY DEF Cut, Streaming
<1> QED BY <1>1, <1>2, <1>3 DEF SocketInv

(* A row of the log is what the log holds there. *)
LEMMA RowHolds ==
  ASSUME TablesInv, NEW i \in 1 .. Len(wlog)
  PROVE  Row(i) \in Entry /\ LogHolds(Row(i)) /\ Row(i).seq = i
<1>1. i \in Nat \ {0} /\ wlog[i] \in OpId
  BY DEF TablesInv
<1> QED BY <1>1 DEF Row, Entry, LogHolds

(* A backlog shorter than a page reaches the end of the log. *)
LEMMA PageOfBacklog ==
  ASSUME TablesInv, NEW s \in Nat, Cardinality(Since(s, PageSize)) # PageSize
  PROVE  \A i \in s + 1 .. Len(wlog) : Row(i) \in Since(s, PageSize)
<1>1. PICK n \in Nat : n = Len(wlog)
  BY DEF TablesInv
<1>2. PageSize \in Nat \ {0}
  BY SocketAssumption
<1>3. PICK J : J = {j \in 1 .. n : s < j /\ j <= s + PageSize}
  OBVIOUS
<1>4. PICK S : S = Since(s, PageSize) /\ S = {Row(i) : i \in J}
  BY <1>1, <1>3 DEF Since
<1>5. CASE n <= s + PageSize
  BY <1>1, <1>2, <1>3, <1>4, <1>5
<1>6. CASE n > s + PageSize
  <2>1. J = s + 1 .. s + PageSize
    BY <1>2, <1>3, <1>6
  <2>2. IsFiniteSet(J) /\ Cardinality(J) = PageSize
    BY <2>1, <1>2, FS_Interval
  <2>3. PICK rowAt : rowAt = [i \in J |-> Row(i)]
    OBVIOUS
  <2>4. rowAt \in [J -> S] /\ \A t \in S : \E i \in J : rowAt[i] = t
    BY <1>4, <2>3
  <2>5. \A i, j \in J : rowAt[i] = rowAt[j] => i = j
    <3>1. \A i \in J : rowAt[i].seq = i
      BY <2>3 DEF Row
    <3> QED BY <3>1
  <2>6. rowAt \in Bijection(J, S)
    BY <2>4, <2>5, Zenon DEF Bijection, Injection, Surjection, IsInjective
  <2>7. ExistsBijection(J, S)
    BY <2>6 DEF ExistsBijection
  <2>8. Cardinality(S) = PageSize
    BY <2>2, <2>7, FS_Bijection
  <2> QED BY <2>8, <1>4
<1> QED BY <1>1, <1>2, <1>5, <1>6

(* ops_since reads rows of the log. *)
LEMMA SinceRows ==
  ASSUME TablesInv, NEW s \in Nat
  PROVE  /\ Since(s, PageSize) \in SUBSET Entry
         /\ \A e \in Since(s, PageSize) : LogHolds(e)
BY RowHolds DEF Since

(* The backlog holds all the device lacks, or fills a page. *)
LEMMA ReadBacklogKeeps == ASSUME SocketInv, ReadBacklog PROVE SocketInv'
<1>1. TablesInv'
  BY QuietTables DEF ReadBacklog
<1>2. /\ serving \in ServerTask /\ serving.pc = "subscribed" /\ serving.since \in Nat
      /\ serving' = [serving EXCEPT !.pc = "backlog", !.backlog = Since(serving.since, PageSize)]
  BY DEF SocketInv, LinkInv, ReadBacklog, ServerTask
<1>3. PICK s \in Nat : s = serving.since
  BY <1>2
<1>4. PICK B : B = Since(s, PageSize)
  OBVIOUS
<1>5. TablesInv
  BY DEF SocketInv
<1>6. B \in SUBSET Entry /\ (\A e \in B : LogHolds(e))
  BY <1>4, <1>5, SinceRows
<1>7. serving' = [pc |-> "backlog", since |-> s, backlog |-> B]
  BY <1>2, <1>3, <1>4 DEF ServerTask
<1>10. serving' \in ServerTask
  BY <1>6, <1>7 DEF ServerTask
<1>8. LinkInv'
  <2>5. serving'.backlog = B
    BY <1>7
  <2>6. UNCHANGED <<wlog, wnext, phase, channel, lagged, down, upward, alive>>
    BY DEF ReadBacklog
  <2>1. serving'.backlog = B /\ UNCHANGED <<wlog, wnext, phase, channel, lagged, down, upward, alive>>
    BY <2>5, <2>6
  <2>2. LinkInv
    BY DEF SocketInv
  <2>3. \A e \in serving'.backlog : LogHolds(e)'
    BY <1>6, <2>1 DEF LogHolds
  <2>4. \A m \in Range(down') : \A e \in m.entries : LogHolds(e)'
    BY <2>1, <2>2 DEF LinkInv, LogHolds
  <2> QED BY <1>10, <2>1, <2>2, <2>3, <2>4 DEF LinkInv
<1>9. Streaming'
  <2> SUFFICES ASSUME (phase = "live" /\ alive /\ ~lagged)', ~FullPage', NEW i \in wcursor + 1 .. Len(wlog)
               PROVE  OnWay(i)'
    BY <1>7 DEF Streaming, ReadBacklog, deviceVars
  <2>1. s <= wcursor /\ wcursor \in Nat
    BY <1>2, <1>3, <1>5 DEF SocketInv, TablesInv, Streaming, ReadBacklog
  <2>2. Cardinality(B) # PageSize
    BY <1>7 DEF FullPage
  <2>3. i \in s + 1 .. Len(wlog) /\ i \in 1 .. Len(wlog)
    BY <2>1, <1>3, <1>5 DEF TablesInv
  <2>4. Row(i) \in B /\ Row(i).seq = i
    BY <2>2, <2>3, <1>4, <1>5, PageOfBacklog, RowHolds
  <2> QED BY <2>4, <1>7 DEF OnWay
<1> QED BY <1>1, <1>8, <1>9 DEF SocketInv

(* The backlog moves onto the wire. *)
LEMMA SendBacklogKeeps == ASSUME SocketInv, SendBacklog PROVE SocketInv'
<1>1. TablesInv'
  BY QuietTables DEF SendBacklog
<1>2. /\ serving \in ServerTask /\ serving.pc = "backlog"
      /\ serving' = [serving EXCEPT !.pc = "loop"]
  BY DEF SocketInv, LinkInv, SendBacklog
<1>3. PICK B \in SUBSET Entry : B = serving.backlog
  BY <1>2 DEF ServerTask
<1>4. PICK m : m = Ops(B)
  OBVIOUS
<1>5. m \in SocketMessage /\ m.kind = "ops" /\ m.entries = B
  BY <1>4 DEF Ops, SocketMessage
<1>6. LinkInv
  BY DEF SocketInv
<1>7. /\ down' \in Seq(SocketMessage)
      /\ Range(down) \subseteq Range(down') /\ Range(down') \subseteq Range(down) \cup {m}
      /\ alive => B = {} \/ m \in Range(down')
  <2>1. CASE B = {}
    BY <2>1, <1>3, <1>6 DEF SendBacklog, LinkInv
  <2>2. CASE B # {}
    <3>1. Deliver(m)
      BY <2>2, <1>3, <1>4 DEF SendBacklog
    <3> QED BY <3>1, <1>5, <1>6, DeliverGoes
  <2> QED BY <2>1, <2>2
<1>8. serving' = [pc |-> "loop", since |-> serving.since, backlog |-> B]
  BY <1>2, <1>3 DEF ServerTask
<1>9. serving' \in ServerTask
  BY <1>2, <1>8 DEF ServerTask
<1>10. LinkInv'
  BY <1>3, <1>5, <1>6, <1>7, <1>8, <1>9 DEF SendBacklog, LinkInv, LogHolds
<1>11. Streaming'
  <2> SUFFICES ASSUME (phase = "live" /\ alive /\ ~lagged)', ~FullPage', NEW i \in wcursor + 1 .. Len(wlog)
               PROVE  OnWay(i)'
    BY <1>8 DEF Streaming, SendBacklog, deviceVars
  <2>1. ~FullPage
    BY <1>2, <1>3, <1>8 DEF FullPage
  <2>2. OnWay(i)
    BY <2>1, <1>2 DEF SocketInv, Streaming, SendBacklog
  <2>3. alive
    BY DEF SendBacklog
  <2> QED BY <2>2, <2>3, <1>3, <1>5, <1>7 DEF OnWay, SendBacklog
<1> QED BY <1>1, <1>10, <1>11 DEF SocketInv

(* Messages without entries. *)
LEMMA SignalIn ==
  ASSUME NEW k \in {"pong", "error", "terminal"}
  PROVE  Signal(k) \in SocketMessage /\ Signal(k).entries = {}
BY DEF Signal, SocketMessage

(* CatchUpFailed ends the task. *)
LEMMA BacklogFailsKeeps == ASSUME SocketInv, BacklogFails PROVE SocketInv'
<1>1. TablesInv'
  BY QuietTables DEF BacklogFails
<1>2. Gone \in ServerTask
  BY DEF Gone, ServerTask
<1>3. LinkInv
  BY DEF SocketInv
<1>4. PICK m \in SocketMessage : m = Signal("error") /\ m.entries = {}
  BY SignalIn
<1>5. down' \in Seq(SocketMessage) /\ Range(down') \subseteq Range(down) \cup {m}
  BY <1>3, <1>4, DeliverGoes DEF BacklogFails
<1>6. LinkInv'
  BY <1>2, <1>3, <1>4, <1>5 DEF BacklogFails, LinkInv, LogHolds, Gone
<1>7. Streaming'
  BY DEF BacklogFails, Streaming, Gone
<1> QED BY <1>1, <1>6, <1>7 DEF SocketInv

(* ResyncRequired ends the task. *)
LEMMA LaggedKeeps == ASSUME SocketInv, Lagged PROVE SocketInv'
<1>1. TablesInv'
  BY QuietTables DEF Lagged
<1>2. Gone \in ServerTask
  BY DEF Gone, ServerTask
<1>3. LinkInv
  BY DEF SocketInv
<1>4. PICK m \in SocketMessage : m = Signal("error") /\ m.entries = {}
  BY SignalIn
<1>5. down' \in Seq(SocketMessage) /\ Range(down') \subseteq Range(down) \cup {m}
  BY <1>3, <1>4, DeliverGoes DEF Lagged
<1>6. LinkInv'
  BY <1>2, <1>3, <1>4, <1>5, Silence DEF Lagged, LinkInv, LogHolds, Gone
<1>7. Streaming'
  BY DEF Lagged, Streaming, Gone
<1> QED BY <1>1, <1>6, <1>7 DEF SocketInv

(* A pong changes nothing else. *)
LEMMA ServePingKeeps == ASSUME SocketInv, ServePing PROVE SocketInv'
<1>1. TablesInv'
  BY QuietTables DEF ServePing
<1>3. LinkInv
  BY DEF SocketInv
<1>4. PICK m \in SocketMessage : m = Signal("pong") /\ m.entries = {}
  BY SignalIn
<1>5. /\ down' \in Seq(SocketMessage)
      /\ Range(down) \subseteq Range(down') /\ Range(down') \subseteq Range(down) \cup {m}
  BY <1>3, <1>4, DeliverGoes DEF ServePing
<1>6. LinkInv'
  <2>1. upward' \in Seq(SocketRequest) /\ Range(upward') \subseteq Range(upward)
    BY <1>3, HeadUp DEF ServePing
  <2> QED BY <2>1, <1>3, <1>4, <1>5 DEF ServePing, LinkInv, LogHolds
<1>7. Streaming'
  BY <1>5 DEF ServePing, SocketInv, Streaming, FullPage, OnWay, deviceVars
<1> QED BY <1>1, <1>6, <1>7 DEF SocketInv

(* An operation moves from the receiver onto the wire. *)
LEMMA ForwardKeeps == ASSUME SocketInv, Forward PROVE SocketInv'
<1>1. TablesInv'
  BY QuietTables DEF Forward
<1>2. TablesInv /\ LinkInv
  BY DEF SocketInv
<1>3. PICK h : h = Head(channel)
  OBVIOUS
<1>4. /\ h \in Range(channel) /\ channel' \in Seq(Nat) /\ Range(channel') \subseteq Range(channel)
      /\ \A i \in Range(channel) : i = h \/ i \in Range(channel')
  BY <1>2, <1>3, HeadChannel DEF Forward
<1>5. Row(h) \in Entry /\ LogHolds(Row(h)) /\ Row(h).seq = h
  BY <1>2, <1>4, RowHolds DEF LinkInv
<1>6. PICK m : m = Ops({Row(h)})
  OBVIOUS
<1>7. m \in SocketMessage /\ m.kind = "ops" /\ m.entries = {Row(h)}
  BY <1>5, <1>6 DEF Ops, SocketMessage
<1>8. /\ down' \in Seq(SocketMessage)
      /\ Range(down) \subseteq Range(down') /\ Range(down') \subseteq Range(down) \cup {m}
      /\ alive => m \in Range(down')
  BY <1>2, <1>3, <1>6, <1>7, DeliverGoes DEF Forward
<1>9. LinkInv'
  BY <1>2, <1>4, <1>5, <1>7, <1>8 DEF Forward, LinkInv, LogHolds
<1>10. Streaming'
  BY <1>4, <1>5, <1>7, <1>8 DEF Forward, SocketInv, Streaming, FullPage, OnWay, deviceVars
<1> QED BY <1>1, <1>9, <1>10 DEF SocketInv

(* A pong carries no operations. *)
LEMMA PongKeeps == ASSUME SocketInv, Pong PROVE SocketInv'
<1>1. TablesInv'
  BY QuietTables DEF Pong
<1>2. LinkInv
  BY DEF SocketInv
<1>3. /\ down' \in Seq(SocketMessage) /\ Range(down') \subseteq Range(down)
      /\ \A m \in Range(down) : m = Head(down) \/ m \in Range(down')
  BY <1>2, HeadDown DEF Pong
<1>4. LinkInv'
  BY <1>2, <1>3 DEF Pong, LinkInv, LogHolds
<1>5. Streaming'
  BY <1>3 DEF Pong, SocketInv, Streaming, FullPage, OnWay, deviceVars
<1> QED BY <1>1, <1>4, <1>5 DEF SocketInv

(* What the device sends is authored already. *)
LEMMA AskKeeps ==
  ASSUME SocketInv, NEW r \in SocketRequest, Transmit(r), \A o \in r.ops : o < wnext,
         UNCHANGED <<wlog, deviceVars, wnext, phase, serving, channel, lagged, down, alive>>
  PROVE  SocketInv'
<1>1. TablesInv'
  BY QuietTables
<1>2. LinkInv
  BY DEF SocketInv
<1>3. upward' \in Seq(SocketRequest) /\ Range(upward') \subseteq Range(upward) \cup {r}
  BY <1>2, TransmitGoes
<1>4. LinkInv'
  BY <1>2, <1>3 DEF LinkInv, LogHolds
<1>5. Streaming'
  BY DEF SocketInv, Streaming, FullPage, OnWay, deviceVars
<1> QED BY <1>1, <1>4, <1>5 DEF SocketInv

(* drain.tick sends rows of the outbox. *)
LEMMA DrainKeeps == ASSUME SocketInv, Drain PROVE SocketInv'
<1>1. PICK r : r = [kind |-> "push", ops |-> OutboxHead(wout, wheld, PageSize)]
  OBVIOUS
<1>2. r.ops \subseteq wout
  BY <1>1 DEF OutboxHead
<1>3. r \in SocketRequest /\ \A o \in r.ops : o < wnext
  BY <1>1, <1>2 DEF SocketRequest, SocketInv, TablesInv
<1>4. Transmit(r) /\ UNCHANGED <<wlog, deviceVars, wnext, phase, serving, channel, lagged, down, alive>>
  BY <1>1 DEF Drain
<1> QED BY <1>3, <1>4, AskKeeps

(* A ping carries no operations. *)
LEMMA BeatKeeps == ASSUME SocketInv, Beat PROVE SocketInv'
<1>1. PICK r : r = [kind |-> "ping", ops |-> {}]
  OBVIOUS
<1>2. r \in SocketRequest /\ r.ops = {}
  BY <1>1 DEF SocketRequest
<1>3. Transmit(r) /\ UNCHANGED <<wlog, deviceVars, wnext, phase, serving, channel, lagged, down, alive>>
  BY <1>1 DEF Beat
<1> QED BY <1>2, <1>3, AskKeeps

(* What the old log held the new one holds. *)
LEMMA GrownKeeps ==
  ASSUME wlog \in Seq(OpId), NEW ops, Grown(wlog', ops)
  PROVE  /\ \A e : LogHolds(e) => LogHolds(e)'
         /\ Range(wlog) \subseteq Range(wlog') /\ ops \subseteq Range(wlog')
         /\ Range(wlog') \subseteq Range(wlog) \cup ops
<1>1. Len(wlog) \in Nat /\ Len(wlog') \in Nat /\ Len(wlog) <= Len(wlog')
  BY DEF Grown
<1>2. \A i \in 1 .. Len(wlog) : i \in 1 .. Len(wlog') /\ wlog'[i] = wlog[i]
  BY <1>1 DEF Grown
<1>3. \A e : LogHolds(e) => LogHolds(e)'
  BY <1>2 DEF LogHolds
<1>4. Range(wlog) = {wlog[i] : i \in 1 .. Len(wlog)}
  <2>1. PICK l \in Seq(OpId) : l = wlog
    OBVIOUS
  <2>2. Range(l) = {l[i] : i \in 1 .. Len(l)}
    BY RangeEquality
  <2> QED BY <2>1, <2>2
<1>5. Range(wlog') = {wlog'[i] : i \in 1 .. Len(wlog')}
  <2>1. PICK l \in Seq(OpId) : l = wlog'
    BY DEF Grown
  <2>2. Range(l) = {l[i] : i \in 1 .. Len(l)}
    BY RangeEquality
  <2> QED BY <2>1, <2>2
<1>6. Range(wlog) \subseteq Range(wlog')
  BY <1>2, <1>4, <1>5
<1>7. ops \subseteq Range(wlog')
  BY <1>5 DEF Grown
<1>8. ASSUME NEW o \in Range(wlog'), o \notin ops PROVE o \in Range(wlog)
  <2>1. PICK i \in 1 .. Len(wlog') : o = wlog'[i]
    BY <1>5
  <2>2. i \in 1 .. Len(wlog)
    BY <2>1, <1>1, <1>8 DEF Grown
  <2> QED BY <2>1, <2>2, <1>2, <1>4
<1> QED BY <1>3, <1>6, <1>7, <1>8

(* The log grows and the device's tables stay. *)
LEMMA TablesGrow ==
  ASSUME TablesInv, NEW ops \in SUBSET OpId, Grown(wlog', ops),
         wnext <= wnext', wnext' \in Nat, \A o \in ops : o < wnext', UNCHANGED deviceVars
  PROVE  TablesInv'
<1>1. /\ wlog \in Seq(OpId) /\ wnext \in Nat /\ wcursor \in 0 .. Len(wlog) /\ Len(wlog) \in Nat
      /\ wrow \in [OpId -> Int] /\ wout \in SUBSET OpId
      /\ \A i \in 1 .. Len(wlog) : wlog[i] < wnext /\ wlog[i] \in Int
      /\ \A o \in wout : o < wnext /\ o \in Int
      /\ SocketKeeps
  <2>1. \A o \in OpId : o \in Int
    BY DEF OpId
  <2>2. Len(wlog) \in Nat /\ \A i \in 1 .. Len(wlog) : wlog[i] \in OpId
    BY DEF TablesInv
  <2> QED BY <2>1, <2>2 DEF TablesInv
<1>2. /\ wlog' \in Seq(OpId) /\ Len(wlog) <= Len(wlog') /\ Len(wlog') \in Nat
      /\ \A i \in 1 .. Len(wlog) : wlog'[i] = wlog[i]
      /\ \A i \in 1 .. Len(wlog') : i > Len(wlog) => wlog'[i] \in ops
      /\ SentOnce'
  BY DEF Grown, SentOnce
<1>3. \A i \in 1 .. Len(wlog') : wlog'[i] < wnext'
  <2> SUFFICES ASSUME NEW i \in 1 .. Len(wlog') PROVE wlog'[i] < wnext'
    OBVIOUS
  <2>1. CASE i <= Len(wlog)
    <3>1. i \in 1 .. Len(wlog)
      BY <2>1, <1>1
    <3> QED BY <3>1, <1>1, <1>2
  <2>2. CASE i > Len(wlog)
    BY <2>2, <1>2
  <2> QED BY <2>1, <2>2, <1>1, <1>2
<1>4. \A o \in wout : o < wnext'
  BY <1>1
<1>5. SocketKeeps'
  BY <1>1, GrownKeeps DEF SocketKeeps, deviceVars
<1>6. wcursor' \in 0 .. Len(wlog')
  BY <1>1, <1>2 DEF deviceVars
<1> QED BY <1>1, <1>2, <1>3, <1>4, <1>5, <1>6 DEF TablesInv, deviceVars

(* Rows committed beside the stream reach its receiver, or it lags. *)
LEMMA StreamGrows ==
  ASSUME SocketInv, BroadcastReached(Len(wlog')), Len(wlog') \in Nat, Len(wlog) <= Len(wlog'),
         Range(down) \subseteq Range(down'), UNCHANGED <<deviceVars, phase, serving, alive>>
  PROVE  Streaming'
<1> SUFFICES ASSUME phase = "live", alive, ~lagged'
             PROVE  /\ serving.pc = "subscribed" => serving.since <= wcursor
                    /\ serving.pc \in {"backlog", "loop"} /\ ~FullPage =>
                         \A i \in wcursor + 1 .. Len(wlog') : OnWay(i)'
  BY DEF Streaming, deviceVars, FullPage
<1>1. ASSUME serving.pc \in {"subscribed", "backlog", "loop"}
      PROVE  ~lagged /\ Range(channel') = Range(channel) \cup (Len(wlog) + 1 .. Len(wlog'))
  BY <1>1 DEF BroadcastReached, Subscribed
<1>2. ASSUME serving.pc = "subscribed" PROVE serving.since <= wcursor
  BY <1>1, <1>2 DEF SocketInv, Streaming
<1>3. ASSUME serving.pc \in {"backlog", "loop"}, ~FullPage, NEW i \in wcursor + 1 .. Len(wlog')
      PROVE  OnWay(i)'
  <2>1. Len(wlog) \in Nat /\ wcursor \in Nat
    BY DEF SocketInv, TablesInv
  <2>2. CASE i <= Len(wlog)
    <3>1. i \in wcursor + 1 .. Len(wlog)
      BY <2>1, <2>2
    <3>2. OnWay(i)
      BY <3>1, <1>1, <1>3 DEF SocketInv, Streaming
    <3> QED BY <3>2, <1>1, <1>3 DEF OnWay
  <2>3. CASE i > Len(wlog)
    <3>1. i \in Len(wlog) + 1 .. Len(wlog')
      BY <2>1, <2>3
    <3> QED BY <3>1, <1>1, <1>3 DEF OnWay
  <2> QED BY <2>1, <2>2, <2>3
<1> QED BY <1>2, <1>3

(* Another device's operation is committed. *)
LEMMA OthersWriteKeeps == ASSUME SocketInv, OthersWrite PROVE SocketInv'
<1>1. TablesInv /\ LinkInv
  BY DEF SocketInv
<1>2. PICK o \in OpId : o = wnext
  BY DEF OthersWrite
<1>3. PICK l \in Seq(OpId) : l = wlog
  BY <1>1 DEF TablesInv
<1>4. PICK log : log = Append(l, o)
  OBVIOUS
<1>5. /\ log \in Seq(OpId) /\ Len(log) = Len(l) + 1 /\ Len(l) \in Nat
      /\ \A i \in 1 .. Len(l) : log[i] = l[i]
      /\ log[Len(l) + 1] = o
  BY <1>4, AppendProperties
<1>6. wlog' = log /\ wnext' = wnext + 1 /\ Broadcast(Len(wlog), log)
  BY <1>2, <1>3, <1>4 DEF OthersWrite
<1>7. wnext \in Nat /\ (\A i \in 1 .. Len(l) : l[i] < wnext) /\ SentOnce
  BY <1>1, <1>3 DEF TablesInv
<1>8. Grown(log, {o})
  <2>1. \A i \in 1 .. Len(log) : i > Len(l) => i = Len(l) + 1
    BY <1>5
  <2>2. \A i, j \in 1 .. Len(log) : log[i] = log[j] => i = j
    <3> SUFFICES ASSUME NEW i \in 1 .. Len(log), NEW j \in 1 .. Len(log), log[i] = log[j]
                 PROVE  i = j
      OBVIOUS
    <3>1. ASSUME NEW k \in 1 .. Len(log), k # Len(l) + 1
          PROVE  k \in 1 .. Len(l) /\ log[k] = l[k] /\ log[k] # o
      <4>1. k \in 1 .. Len(l)
        BY <3>1, <1>5
      <4>2. l[k] \in OpId /\ l[k] < wnext
        BY <4>1, <1>7
      <4> QED BY <4>1, <4>2, <1>2, <1>5, <1>7 DEF OpId
    <3>2. CASE i = Len(l) + 1 \/ j = Len(l) + 1
      BY <3>1, <3>2, <1>5
    <3>3. CASE i # Len(l) + 1 /\ j # Len(l) + 1
      BY <3>1, <3>3, <1>3, <1>7 DEF SentOnce
    <3> QED BY <3>2, <3>3
  <2>3. Len(l) + 1 \in 1 .. Len(log)
    BY <1>5
  <2> QED BY <2>1, <2>2, <2>3, <1>3, <1>5 DEF Grown
<1>9. BroadcastReached(Len(log))
  BY <1>1, <1>3, <1>5, <1>6, BroadcastHeard DEF TablesInv, LinkInv
<1>10. TablesInv'
  <2>1. {o} \in SUBSET OpId /\ Grown(wlog', {o}) /\ UNCHANGED deviceVars
    BY <1>6, <1>8 DEF OthersWrite
  <2>2. wnext <= wnext' /\ wnext' \in Nat /\ \A p \in {o} : p < wnext'
    BY <1>2, <1>6, <1>7
  <2> QED BY <2>1, <2>2, <1>1, TablesGrow
<1>11. LinkInv'
  <2>1. \A e : LogHolds(e) => LogHolds(e)'
    BY <1>3, <1>6, <1>8, GrownKeeps
  <2>2. channel' \in Seq(Nat) /\ lagged' \in BOOLEAN /\ Range(channel') \subseteq 1 .. Len(wlog')
    BY <1>1, <1>3, <1>5, <1>6, <1>9 DEF BroadcastReached, LinkInv
  <2>3. \A r \in Range(upward) : \A p \in r.ops : p < wnext'
    <3>1. \A r \in Range(upward) : r.ops \subseteq OpId
      <4>1. PICK u \in Seq(SocketRequest) : u = upward
        BY <1>1 DEF LinkInv
      <4>2. Range(u) \subseteq SocketRequest
        BY RangeOfSeq
      <4> QED BY <4>1, <4>2 DEF SocketRequest
    <3> QED BY <3>1, <1>1, <1>6, <1>7 DEF LinkInv, OpId
  <2> QED BY <2>1, <2>2, <2>3, <1>1 DEF OthersWrite, LinkInv
<1>12. Streaming'
  BY <1>3, <1>5, <1>6, <1>9, StreamGrows DEF OthersWrite
<1> QED BY <1>10, <1>11, <1>12 DEF SocketInv

(* A push is appended once, however often it is resent. *)
LEMMA ServePushKeeps == ASSUME SocketInv, ServePush PROVE SocketInv'
<1>1. TablesInv /\ LinkInv
  BY DEF SocketInv
<1>2. PICK ops : ops = Head(upward).ops
  OBVIOUS
<1>3. /\ ops \in SUBSET OpId /\ \A o \in ops : o < wnext
      /\ upward' \in Seq(SocketRequest) /\ Range(upward') \subseteq Range(upward)
  <2>1. upward # <<>> /\ upward' = Tail(upward)
    BY DEF ServePush
  <2>2. Head(upward) \in SocketRequest /\ Head(upward) \in Range(upward)
    BY <2>1, <1>1, HeadUp
  <2>3. upward' \in Seq(SocketRequest) /\ Range(upward') \subseteq Range(upward)
    BY <2>1, <1>1, HeadUp
  <2> QED BY <2>2, <2>3, <1>1, <1>2 DEF SocketRequest, LinkInv
<1>4. CASE ops \cap Refused # {}
  <2>1. Deliver(Signal("terminal")) /\ UNCHANGED <<wlog, deviceVars, wnext, phase, serving, channel, lagged, alive>>
    BY <1>2, <1>4 DEF ServePush
  <2>2. PICK m \in SocketMessage : m = Signal("terminal") /\ m.entries = {}
    BY SignalIn
  <2>3. /\ down' \in Seq(SocketMessage)
        /\ Range(down) \subseteq Range(down') /\ Range(down') \subseteq Range(down) \cup {m}
    BY <1>1, <2>1, <2>2, DeliverGoes
  <2>4. TablesInv'
    BY <2>1, QuietTables
  <2>5. LinkInv'
    BY <1>1, <1>3, <2>1, <2>2, <2>3 DEF LinkInv, LogHolds
  <2>6. Streaming'
    BY <2>1, <2>3 DEF SocketInv, Streaming, FullPage, OnWay, deviceVars
  <2> QED BY <2>4, <2>5, <2>6 DEF SocketInv
<1>5. CASE ops \cap Refused = {}
  <2>1. PICK acks : acks = {[seq |-> CHOOSE i \in 1 .. Len(wlog') : wlog'[i] = o, op |-> o] : o \in ops}
    OBVIOUS
  <2>2. /\ wlog' \in AppendAll(wlog, ops) /\ Broadcast(Len(wlog), wlog') /\ Deliver(Ack(acks))
        /\ UNCHANGED <<deviceVars, wnext, phase, serving, alive>>
    BY <1>2, <1>5, <2>1 DEF ServePush
  <2>3. PICK log : log = wlog'
    OBVIOUS
  <2>4. Grown(log, ops)
    BY <1>1, <1>3, <2>2, <2>3, AppendAllGrows DEF TablesInv
  <2>5. log \in Seq(OpId) /\ Len(wlog) <= Len(log) /\ Len(log) \in Nat
    BY <2>4 DEF Grown
  <2>6. BroadcastReached(Len(log))
    BY <1>1, <2>2, <2>3, <2>5, BroadcastHeard DEF TablesInv, LinkInv
  <2>7. \A e \in acks : e \in Entry /\ LogHolds(e)'
    <3> SUFFICES ASSUME NEW o \in ops, NEW e, e = [seq |-> CHOOSE i \in 1 .. Len(log) : log[i] = o, op |-> o]
                 PROVE  e \in Entry /\ LogHolds(e)'
      BY <2>1, <2>3
    <3>1. PICK i \in 1 .. Len(log) : log[i] = o
      BY <2>4 DEF Grown
    <3>2. PICK c : c = CHOOSE k \in 1 .. Len(log) : log[k] = o
      OBVIOUS
    <3>3. c \in 1 .. Len(log) /\ log[c] = o
      BY <3>1, <3>2
    <3>4. e.seq = c /\ e.op = o /\ e = [seq |-> c, op |-> o]
      BY <3>2
    <3>5. c \in Nat \ {0} /\ o \in OpId
      BY <3>3, <2>5, <1>3
    <3>6. e \in Entry
      BY <3>4, <3>5 DEF Entry
    <3> QED BY <3>3, <3>4, <3>6, <2>3 DEF LogHolds
  <2>8. PICK m : m = Ack(acks)
    OBVIOUS
  <2>9. m \in SocketMessage /\ m.kind = "ack" /\ m.entries = acks
    BY <2>7, <2>8 DEF Ack, SocketMessage
  <2>10. /\ down' \in Seq(SocketMessage)
         /\ Range(down) \subseteq Range(down') /\ Range(down') \subseteq Range(down) \cup {m}
    BY <1>1, <2>2, <2>8, <2>9, DeliverGoes
  <2>11. TablesInv'
    <3>1. wnext \in Nat /\ wnext' = wnext
      BY <1>1, <2>2 DEF TablesInv
    <3>2. wnext <= wnext' /\ wnext' \in Nat /\ \A o \in ops : o < wnext'
      BY <3>1, <1>3
    <3>3. Grown(wlog', ops) /\ UNCHANGED deviceVars
      BY <2>2, <2>3, <2>4
    <3> QED BY <3>2, <3>3, <1>1, <1>3, TablesGrow
  <2>12. LinkInv'
    <3>1. wlog \in Seq(OpId) /\ Grown(wlog', ops)
      BY <1>1, <2>3, <2>4 DEF TablesInv
    <3>2. \A e : LogHolds(e) => LogHolds(e)'
      BY <3>1, GrownKeeps
    <3>3. Len(wlog) \in Nat
      BY <3>1
    <3>4. channel' \in Seq(Nat) /\ lagged' \in BOOLEAN /\ Range(channel') \subseteq 1 .. Len(wlog')
      BY <3>3, <1>1, <2>3, <2>5, <2>6 DEF BroadcastReached, LinkInv
    <3>5. \A x \in Range(down') : \A e \in x.entries : LogHolds(e)'
      BY <3>2, <1>1, <2>7, <2>9, <2>10 DEF LinkInv
    <3>6. \A e \in serving'.backlog : LogHolds(e)'
      BY <3>2, <1>1, <2>2 DEF LinkInv
    <3>7. serving' \in ServerTask /\ phase' \in {"off", "http", "live"} /\ alive' \in BOOLEAN /\ wnext' = wnext
      BY <1>1, <2>2 DEF LinkInv
    <3>8. \A r \in Range(upward') : \A o \in r.ops : o < wnext'
      BY <3>7, <1>1, <1>3 DEF LinkInv
    <3> QED BY <3>4, <3>5, <3>6, <3>7, <3>8, <1>3, <2>10 DEF LinkInv
  <2>13. Streaming'
    BY <2>2, <2>3, <2>5, <2>6, <2>10, StreamGrows
  <2> QED BY <2>11, <2>12, <2>13 DEF SocketInv
<1> QED BY <1>4, <1>5

(* A local operation enters the outbox with its row. *)
LEMMA LocalWriteKeeps == ASSUME SocketInv, LocalWrite PROVE SocketInv'
<1>1. TablesInv /\ LinkInv
  BY DEF SocketInv
<1>2. /\ wnext \in OpId /\ wnext' = wnext + 1 /\ wrow' = [wrow EXCEPT ![wnext] = Null]
      /\ wout' = wout \cup {wnext}
      /\ UNCHANGED <<wlog, wcursor, phase, serving, channel, lagged, down, upward, alive>>
  BY DEF LocalWrite
<1>3. \A o \in OpId : o \in Int
  BY DEF OpId
<1>4. wnext \in Nat /\ wnext' \in Nat /\ \A i \in Int : i < wnext => i < wnext'
  BY <1>1, <1>2 DEF TablesInv
<1>5. \A i \in 1 .. Len(wlog) : wlog[i] \in OpId
  BY <1>1 DEF TablesInv
<1>6. TablesInv'
  <2>1. wrow' \in [OpId -> Int]
    BY <1>1, <1>2 DEF TablesInv, Null
  <2>2. wout' \in SUBSET OpId /\ \A o \in wout' : o < wnext'
    BY <1>1, <1>2, <1>3, <1>4 DEF TablesInv
  <2>3. SentOnce' /\ SocketKeeps'
    BY <1>1, <1>2 DEF TablesInv, SentOnce, SocketKeeps
  <2>4. \A i \in 1 .. Len(wlog) : wlog[i] < wnext'
    BY <1>1, <1>3, <1>4, <1>5 DEF TablesInv
  <2>5. wlog' \in Seq(OpId) /\ wcursor' \in 0 .. Len(wlog')
    BY <1>1, <1>2 DEF TablesInv
  <2> QED BY <2>1, <2>2, <2>3, <2>4, <2>5, <1>2, <1>4 DEF TablesInv
<1>7. LinkInv'
  <2>1. \A r \in Range(upward) : r.ops \subseteq OpId
    <3>1. PICK u \in Seq(SocketRequest) : u = upward
      BY <1>1 DEF LinkInv
    <3>2. Range(u) \subseteq SocketRequest
      BY RangeOfSeq
    <3> QED BY <3>1, <3>2 DEF SocketRequest
  <2>2. \A r \in Range(upward) : \A p \in r.ops : p < wnext'
    BY <2>1, <1>1, <1>3, <1>4 DEF LinkInv
  <2>3. \A m \in Range(down') : \A e \in m.entries : LogHolds(e)'
    BY <1>1, <1>2 DEF LinkInv, LogHolds
  <2>4. \A e \in serving'.backlog : LogHolds(e)'
    BY <1>1, <1>2 DEF LinkInv, LogHolds
  <2> QED BY <2>2, <2>3, <2>4, <1>1, <1>2 DEF LinkInv
<1>8. Streaming'
  BY <1>2 DEF SocketInv, Streaming, FullPage, OnWay
<1> QED BY <1>6, <1>7, <1>8 DEF SocketInv

(* synchronize_http leaves the device with the whole log. *)
LEMMA SynchronizeHttpKeeps ==
  ASSUME SocketInv, SynchronizeHttp, UNCHANGED wnext
  PROVE  /\ TablesInv' /\ wcursor' = Len(wlog') /\ wcursor <= wcursor' /\ BroadcastReached(Len(wlog'))
         /\ \A e : LogHolds(e) => LogHolds(e)'
         /\ Len(wlog') \in Nat /\ Len(wlog) <= Len(wlog')
<1>1. TablesInv /\ LinkInv
  BY DEF SocketInv
<1>2. PICK ops : ops = (wout \ wheld) \ Refused
  OBVIOUS
<1>3. ops \in SUBSET OpId /\ \A o \in ops : o < wnext
  BY <1>1, <1>2 DEF TablesInv
<1>4. PICK log \in AppendAll(wlog, ops) :
        /\ wlog' = log /\ Broadcast(Len(wlog), log) /\ wcursor' = Len(log)
        /\ wrow' = [o \in OpId |-> IF \E i \in 1 .. Len(log) : log[i] = o
                                     THEN CHOOSE i \in 1 .. Len(log) : log[i] = o ELSE wrow[o]]
        /\ wout' = wout \ Range(log)
  BY <1>2 DEF SynchronizeHttp
<1>5. Grown(log, ops)
  BY <1>1, <1>3, AppendAllGrows DEF TablesInv
<1>6. log \in Seq(OpId) /\ Len(wlog) <= Len(log) /\ Len(log) \in Nat /\ Len(wlog) \in Nat
  BY <1>1, <1>5 DEF Grown, TablesInv
<1>7. BroadcastReached(Len(log))
  BY <1>1, <1>4, <1>6, BroadcastHeard DEF TablesInv, LinkInv
<1>8. /\ \A e : LogHolds(e) => LogHolds(e)'
      /\ Range(wlog) \subseteq Range(log) /\ Range(log) \subseteq Range(wlog) \cup ops
  <2>1. wlog \in Seq(OpId) /\ Grown(wlog', ops)
    BY <1>1, <1>4, <1>5 DEF TablesInv
  <2> QED BY <2>1, <1>4, GrownKeeps
<1>9. Range(log) = {log[i] : i \in 1 .. Len(log)}
  BY <1>6, RangeEquality
<1>10. \A i \in 1 .. Len(log) : log[i] < wnext
  <2>1. \A o \in Range(wlog) : o < wnext
    <3>1. PICK l \in Seq(OpId) : l = wlog
      BY <1>1 DEF TablesInv
    <3>2. Range(l) = {l[i] : i \in 1 .. Len(l)}
      BY RangeEquality
    <3> QED BY <3>1, <3>2, <1>1 DEF TablesInv
  <2> QED BY <2>1, <1>3, <1>8, <1>9
<1>11. wrow' \in [OpId -> Int]
  <2> SUFFICES ASSUME NEW o \in OpId PROVE wrow'[o] \in Int
    BY <1>4
  <2>1. CASE \E i \in 1 .. Len(log) : log[i] = o
    <3>1. PICK c : c = CHOOSE i \in 1 .. Len(log) : log[i] = o
      OBVIOUS
    <3>2. c \in 1 .. Len(log)
      BY <2>1, <3>1
    <3> QED BY <2>1, <3>1, <3>2, <1>4
  <2>2. CASE ~ \E i \in 1 .. Len(log) : log[i] = o
    BY <2>2, <1>1, <1>4 DEF TablesInv
  <2> QED BY <2>1, <2>2
<1>12. SocketKeeps'
  <2> SUFFICES ASSUME NEW o \in OpId, wrow'[o] # NoRow, o \notin Range(log) PROVE o \in wout'
    BY <1>4 DEF SocketKeeps
  <2>1. ~ \E i \in 1 .. Len(log) : log[i] = o
    BY <1>9
  <2>2. wrow[o] # NoRow
    BY <2>1, <1>4
  <2>3. o \in wout
    BY <2>2, <1>1, <1>8 DEF TablesInv, SocketKeeps
  <2> QED BY <2>3, <1>4
<1>13. SentOnce'
  BY <1>4, <1>5 DEF Grown, SentOnce
<1>14. wcursor' \in 0 .. Len(wlog') /\ wcursor' = Len(wlog') /\ wcursor <= wcursor'
  BY <1>1, <1>4, <1>6 DEF TablesInv
<1>15. wout' \in SUBSET OpId /\ \A o \in wout' : o < wnext
  BY <1>1, <1>4 DEF TablesInv
<1>16. TablesInv'
  BY <1>1, <1>4, <1>6, <1>10, <1>11, <1>12, <1>13, <1>14, <1>15 DEF TablesInv
<1> QED BY <1>4, <1>6, <1>7, <1>8, <1>14, <1>16

(* What the receiver holds after a broadcast is in the log. *)
LEMMA HeardRows ==
  ASSUME LinkInv, BroadcastReached(Len(wlog')), Len(wlog) \in Nat, Len(wlog') \in Nat, Len(wlog) <= Len(wlog')
  PROVE  channel' \in Seq(Nat) /\ lagged' \in BOOLEAN /\ Range(channel') \subseteq 1 .. Len(wlog')
BY DEF BroadcastReached, LinkInv

(* The catch-up before the socket. *)
LEMMA CatchUpKeeps == ASSUME SocketInv, CatchUp PROVE SocketInv'
<1>1. TablesInv /\ LinkInv
  BY DEF SocketInv
<1>2. SynchronizeHttp /\ UNCHANGED wnext
  BY DEF CatchUp
<1>3. /\ TablesInv' /\ BroadcastReached(Len(wlog')) /\ \A e : LogHolds(e) => LogHolds(e)'
      /\ Len(wlog') \in Nat /\ Len(wlog) <= Len(wlog')
  BY <1>2, SynchronizeHttpKeeps
<1>4. channel' \in Seq(Nat) /\ lagged' \in BOOLEAN /\ Range(channel') \subseteq 1 .. Len(wlog')
  BY <1>1, <1>3, HeardRows DEF TablesInv
<1>5. phase' = "http" /\ UNCHANGED <<wnext, serving, down, upward, alive>>
  BY DEF CatchUp
<1>6. LinkInv'
  BY <1>1, <1>3, <1>4, <1>5 DEF LinkInv
<1>7. Streaming'
  BY <1>5 DEF Streaming
<1> QED BY <1>3, <1>6, <1>7 DEF SocketInv

(* A terminal refusal moves the cursor past what the socket will still deliver. *)
LEMMA IsolateKeeps == ASSUME SocketInv, Isolate PROVE SocketInv'
<1>1. TablesInv /\ LinkInv
  BY DEF SocketInv
<1>2. SynchronizeHttp /\ UNCHANGED wnext
  BY DEF Isolate
<1>3. /\ TablesInv' /\ BroadcastReached(Len(wlog')) /\ \A e : LogHolds(e) => LogHolds(e)'
      /\ Len(wlog') \in Nat /\ Len(wlog) <= Len(wlog')
      /\ wcursor' = Len(wlog') /\ wcursor <= wcursor'
  BY <1>2, SynchronizeHttpKeeps
<1>4. channel' \in Seq(Nat) /\ lagged' \in BOOLEAN /\ Range(channel') \subseteq 1 .. Len(wlog')
  BY <1>1, <1>3, HeardRows DEF TablesInv
<1>5. UNCHANGED <<wnext, phase, serving, upward, alive>>
  BY DEF Isolate
<1>6. down' \in Seq(SocketMessage) /\ Range(down') \subseteq Range(down)
  BY <1>1, HeadDown DEF Isolate
<1>7. LinkInv'
  BY <1>1, <1>3, <1>4, <1>5, <1>6 DEF LinkInv
<1>8. Streaming'
  <2> SUFFICES ASSUME phase = "live", alive, ~lagged'
               PROVE  /\ serving.pc = "subscribed" => serving.since <= wcursor'
                      /\ \A i \in wcursor' + 1 .. Len(wlog') : FALSE
    BY <1>5 DEF Streaming
  <2>1. ASSUME serving.pc = "subscribed" PROVE serving.since <= wcursor
    BY <2>1, <1>3 DEF BroadcastReached, Subscribed, SocketInv, Streaming
  <2>2. serving.since \in Nat /\ wcursor \in Nat /\ wcursor' \in Nat
    BY <1>1, <1>3 DEF LinkInv, TablesInv, ServerTask
  <2> QED BY <2>1, <2>2, <1>3
<1> QED BY <1>3, <1>7, <1>8 DEF SocketInv

(* The device applies a batch or an acknowledgement. *)
LEMMA ReceiveKeeps == ASSUME SocketInv, Receive PROVE SocketInv'
<1>1. TablesInv /\ LinkInv
  BY DEF SocketInv
<1>2. PICK m : m = Head(down)
  OBVIOUS
<1>3. /\ m \in SocketMessage /\ (\A e \in m.entries : LogHolds(e) /\ e \in Entry)
      /\ down' \in Seq(SocketMessage) /\ Range(down') \subseteq Range(down)
      /\ \A x \in Range(down) : x = m \/ x \in Range(down')
  <2>1. down # <<>> /\ down' = Tail(down)
    BY DEF Receive
  <2>2. /\ m \in SocketMessage /\ m \in Range(down) /\ down' \in Seq(SocketMessage) /\ Range(down') \subseteq Range(down)
        /\ \A x \in Range(down) : x = m \/ x \in Range(down')
    BY <2>1, <1>1, <1>2, HeadDown
  <2>3. \A e \in m.entries : LogHolds(e)
    BY <2>2, <1>1 DEF LinkInv
  <2>4. m.entries \subseteq Entry
    BY <2>2 DEF SocketMessage
  <2> QED BY <2>2, <2>3, <2>4
<1>4. UNCHANGED <<wlog, wnext, phase, serving, channel, lagged, upward, alive>>
  BY DEF Receive
<1>5. \A e \in m.entries : e.seq \in 1 .. Len(wlog) /\ e.op \in OpId /\ e.op \in Range(wlog) /\ e.seq \in Int
  <2>1. PICK l \in Seq(OpId) : l = wlog
    BY <1>1 DEF TablesInv
  <2>2. Range(l) = {l[i] : i \in 1 .. Len(l)}
    BY RangeEquality
  <2> QED BY <2>1, <2>2, <1>3 DEF LogHolds, Entry
<1>6. /\ wrow' \in [OpId -> Int] /\ wout' \subseteq wout /\ wout \subseteq wout' \cup Range(wlog)
      /\ \A o \in OpId : wrow'[o] # NoRow => wrow[o] # NoRow \/ o \in Range(wlog)
      /\ wcursor' \in wcursor .. Len(wlog)
      /\ m.kind = "ops" => \A e \in m.entries : e.seq <= wcursor'
  <2>0. wrow \in [OpId -> Int] /\ wcursor \in 0 .. Len(wlog) /\ Len(wlog) \in Nat
    BY <1>1 DEF TablesInv
  <2>1. CASE /\ m.kind = "ops"
             /\ \E c \in {wcursor} \cup {e.seq : e \in m.entries} :
                  IsCursorAfter(c, wcursor, m.entries) /\ wcursor' = c
             /\ wrow' = RowsAfter(wrow, wcursor, m.entries)
             /\ wout' = OutboxAfter(wout, wcursor, m.entries)
    <3>1. PICK fresh : fresh = Fresh(wcursor, m.entries)
      OBVIOUS
    <3>2. fresh \subseteq m.entries
      BY <3>1 DEF Fresh
    <3>3. wrow' = [o \in OpId |-> IF \E e \in fresh : e.op = o
                                    THEN (CHOOSE e \in fresh : e.op = o).seq ELSE wrow[o]]
      BY <2>1, <3>1 DEF RowsAfter
    <3>4. wrow' \in [OpId -> Int]
      <4> SUFFICES ASSUME NEW o \in OpId PROVE wrow'[o] \in Int
        BY <3>3
      <4>1. CASE \E e \in fresh : e.op = o
        <5>1. PICK c : c = CHOOSE e \in fresh : e.op = o
          OBVIOUS
        <5>2. c \in fresh
          BY <4>1, <5>1
        <5>3. c.seq \in Int
          BY <5>2, <3>2, <1>5
        <5> QED BY <4>1, <5>1, <5>3, <3>3
      <4>2. CASE ~ \E e \in fresh : e.op = o
        BY <4>2, <2>0, <3>3
      <4> QED BY <4>1, <4>2
    <3>5. \A o \in OpId : wrow'[o] # NoRow => wrow[o] # NoRow \/ o \in Range(wlog)
      BY <3>2, <3>3, <1>5
    <3>6. wout' \subseteq wout /\ wout \subseteq wout' \cup Range(wlog)
      BY <2>1, <3>1, <3>2, <1>5 DEF OutboxAfter
    <3>7. wcursor' \in wcursor .. Len(wlog) /\ \A e \in m.entries : e.seq <= wcursor'
      <4>1. PICK c \in {wcursor} \cup {e.seq : e \in m.entries} :
              IsCursorAfter(c, wcursor, m.entries) /\ wcursor' = c
        BY <2>1
      <4>2. c \in 0 .. Len(wlog)
        BY <4>1, <2>0, <1>5
      <4>3. wcursor <= c /\ \A e \in m.entries : e.seq <= c
        BY <4>1 DEF IsCursorAfter
      <4> QED BY <4>1, <4>2, <4>3, <2>0
    <3> QED BY <3>4, <3>5, <3>6, <3>7
  <2>2. CASE /\ m.kind = "ack" /\ wrow' = Acknowledged(wrow, m.entries)
             /\ wout' = AckOutbox(m.entries) /\ UNCHANGED wcursor
    <3>1. PICK acks : acks = m.entries
      OBVIOUS
    <3>2. wrow' = [o \in OpId |-> IF wrow[o] # NoRow /\ \E e \in acks : e.op = o
                                    THEN (CHOOSE e \in acks : e.op = o).seq ELSE wrow[o]]
      BY <2>2, <3>1 DEF Acknowledged
    <3>3. wrow' \in [OpId -> Int]
      <4> SUFFICES ASSUME NEW o \in OpId PROVE wrow'[o] \in Int
        BY <3>2
      <4>1. CASE wrow[o] # NoRow /\ \E e \in acks : e.op = o
        <5>1. PICK c : c = CHOOSE e \in acks : e.op = o
          OBVIOUS
        <5>2. c \in acks
          BY <4>1, <5>1
        <5>3. c.seq \in Int
          BY <5>2, <3>1, <1>5
        <5> QED BY <4>1, <5>1, <5>3, <3>2
      <4>2. CASE ~ (wrow[o] # NoRow /\ \E e \in acks : e.op = o)
        BY <4>2, <2>0, <3>2
      <4> QED BY <4>1, <4>2
    <3>4. \A o \in OpId : wrow'[o] # NoRow => wrow[o] # NoRow
      BY <3>2
    <3>5. wout' \subseteq wout /\ wout \subseteq wout' \cup Range(wlog)
      BY <2>2, <1>5 DEF AckOutbox
    <3>6. wcursor' \in wcursor .. Len(wlog)
      BY <2>0, <2>2
    <3> QED BY <2>2, <3>3, <3>4, <3>5, <3>6
  <2> QED BY <2>1, <2>2, <1>2 DEF Receive
<1>7. TablesInv'
  <2>1. wcursor \in 0 .. Len(wlog) /\ Len(wlog) \in Nat
    BY <1>1 DEF TablesInv
  <2>2. wcursor' \in 0 .. Len(wlog')
    BY <2>1, <1>4, <1>6
  <2>3. SocketKeeps'
    BY <1>1, <1>4, <1>6 DEF TablesInv, SocketKeeps
  <2> QED BY <2>2, <2>3, <1>1, <1>4, <1>6 DEF TablesInv, SentOnce
<1>8. LinkInv'
  BY <1>1, <1>3, <1>4 DEF LinkInv, LogHolds
<1>9. Streaming'
  <2> SUFFICES ASSUME phase = "live", alive, ~lagged
               PROVE  /\ serving.pc = "subscribed" => serving.since <= wcursor'
                      /\ serving.pc \in {"backlog", "loop"} /\ ~FullPage =>
                           \A i \in wcursor' + 1 .. Len(wlog) : OnWay(i)'
    BY <1>4 DEF Streaming, FullPage
  <2>0. serving.since \in Nat /\ wcursor \in Nat /\ Len(wlog) \in Nat
    BY <1>1 DEF LinkInv, TablesInv, ServerTask
  <2>4. wcursor' \in Nat /\ wcursor <= wcursor'
    BY <2>0, <1>6
  <2>1. serving.since \in Nat /\ wcursor \in Nat /\ Len(wlog) \in Nat /\ wcursor' \in Nat /\ wcursor <= wcursor'
    BY <2>0, <2>4
  <2>2. ASSUME serving.pc = "subscribed" PROVE serving.since <= wcursor'
    <3>1. serving.since <= wcursor
      BY <2>2 DEF SocketInv, Streaming
    <3> QED BY <3>1, <2>1
  <2>5. PICK n \in Nat : n = Len(wlog)
    BY <2>1
  <2>6. PICK w \in Nat, v \in Nat : w = wcursor /\ v = wcursor' /\ w <= v
    BY <2>1
  <2>7. w <= v
    BY <2>6
  <2>3. ASSUME serving.pc \in {"backlog", "loop"}, ~FullPage, NEW i \in v + 1 .. n
        PROVE  OnWay(i)'
    <3>1. i \in w + 1 .. n
      BY <2>7
    <3>4. \A j \in w + 1 .. n : OnWay(j)
      BY <2>3, <2>5, <2>6 DEF SocketInv, Streaming
    <3>2. OnWay(i)
      BY <3>1, <3>4
    <3>3. \A e \in m.entries : m.kind = "ops" => e.seq # i
      <4> SUFFICES ASSUME NEW e \in m.entries, m.kind = "ops", e.seq = i PROVE FALSE
        OBVIOUS
      <4>1. i <= v
        BY <1>6, <2>6
      <4> QED BY <4>1
    <3> QED BY <3>2, <3>3, <1>3, <1>4 DEF OnWay
  <2> QED BY <2>2, <2>3, <2>5, <2>6
<1> QED BY <1>7, <1>8, <1>9 DEF SocketInv

(* The live stream neither skips, nor doubles, nor drops an operation, however the
   backlog, the broadcast, lag, refusals, acknowledgements, dead connections and
   reconnects interleave (websocket_session, synchronize_session). *)
THEOREM StreamExactTheorem == SocketSpec => []StreamExact
<1>1. SocketInit => SocketInv
  BY InitSocket
<1>2. SocketInv /\ [SocketNext]_socketVars => SocketInv'
  <2> SUFFICES ASSUME SocketInv, [SocketNext]_socketVars PROVE SocketInv'
    OBVIOUS
  <2>1. CASE UNCHANGED socketVars
    BY <2>1 DEF socketVars, SocketInv, TablesInv, LinkInv, Streaming, SentOnce, SocketKeeps, LogHolds,
               OnWay, FullPage, deviceVars
  <2>2. CASE Fail
    BY <2>2, EndSessionKeeps DEF Fail
  <2>3. CASE Closed
    BY <2>3, EndSessionKeeps DEF Closed
  <2>4. CASE BeatTimeout
    BY <2>4, EndSessionKeeps DEF BeatTimeout
  <2>5. CASE SocketStep
    BY <2>5, <2>2, <2>3, <2>4, CatchUpKeeps, ConnectSocketKeeps, ReadBacklogKeeps, SendBacklogKeeps,
       ServePushKeeps, ServePingKeeps, ForwardKeeps, LaggedKeeps, ReceiveKeeps, IsolateKeeps,
       PongKeeps, DrainKeeps, BeatKeeps DEF SocketStep
  <2> QED BY <2>1, <2>5, OthersWriteKeeps, LocalWriteKeeps, BacklogFailsKeeps, CutKeeps DEF SocketNext
<1>3. SocketInv => StreamExact
  BY SocketInvStreams
<1> QED BY <1>1, <1>2, <1>3, PTL DEF SocketSpec
============================================================================
