------------------------ MODULE SyncReliable_proofs ------------------------
(***************************************************************************)
(* Proofs about SyncHttp where no append, apply or rollback fails and no   *)
(* operation is refused by apply_one: crashes, lost connections, abandoned *)
(* and repeated requests, failed snapshots, missing blobs and quarantine   *)
(* all remain.                                                             *)
(***************************************************************************)
EXTENDS SyncHttp_proofs, FiniteSetTheorems

(* The instances these theorems are about. *)
Reliable == Faults \subseteq {"snapshotError"} /\ Inapplicable = {}

(* What a session carries is the log's, and its page continues the cursor. *)
Carries(c) ==
  /\ \A e \in sess[c].page :
       /\ Listed(e) /\ cursor[c] < e.seq
       /\ \A i \in cursor[c] + 1 .. e.seq : \E f \in sess[c].page : f.seq = i
  /\ \A e \in sess[c].reply.acks : Listed(e)
  /\ \A e \in sess[c].accepted : Listed(e)

(* The two conjuncts of CleanInv about sessions, session by session. *)
LEMMA CarriesSplit == (AnswersListed /\ PageContinues) <=> \A c \in Client : Carries(c)
  BY DEF AnswersListed, PageContinues, Carries

(* An entry that is listed is an operation in the log. *)
LEMMA ListedInLog ==
  ASSUME TypeOK, NEW e \in Entry, Listed(e)
  PROVE  InLog(e.op) /\ e.seq \in 1 .. Len(oplog)
  BY DEF TypeOK, Entry, Listed, InLog

(* The operation at i is at no other place. *)
LEMMA UniqueSeq ==
  ASSUME TypeOK, LogUnique, NEW i \in 1 .. Len(oplog)
  PROVE  SeqOf(oplog[i]) = i
<1>1. InLog(oplog[i])
  BY DEF InLog
<1> QED BY <1>1, SeqOfLemma DEF LogUnique

(* A batch of listed entries without a hole above the cursor applies. *)
LEMMA ListedFits ==
  ASSUME Reliable, TypeOK, LogUnique, RowsListed, NEW p \in Peer, NEW batch \in SUBSET Entry,
         \A e \in batch : Listed(e), ~ SeqGap(cursor[p], batch)
  PROVE  Applies(p, batch)
<1>0. cursor[p] \in Nat /\ row[p] \in [OpId -> Nat \cup {NoRow}] /\ oplog \in Seq(OpId)
  BY DEF TypeOK
<1>1. ~ Refuses(p, batch)
  BY DEF Refuses, Reliable
<1>2. ASSUME NEW e \in batch, NEW o \in OpId, row[p][o] = e.seq PROVE o = e.op
  BY <1>2 DEF Listed, Entry, RowsListed
<1>3. ASSUME NEW e \in batch, row[p][e.op] > 0 PROVE row[p][e.op] = e.seq
  <2>1. e \in Entry /\ Listed(e) /\ e.op \in OpId
    BY DEF Entry
  <2>2. /\ row[p][e.op] \in 1 .. Len(oplog) /\ oplog[row[p][e.op]] = e.op
        /\ e.seq \in 1 .. Len(oplog) /\ oplog[e.seq] = e.op
    BY <1>0, <1>3, <2>1 DEF RowsListed, Listed, Entry, NoRow
  <2> QED BY <2>2 DEF LogUnique
<1>4. ~ SeqReused(row[p], cursor[p], batch)
  BY <1>2 DEF SeqReused
<1>5. ~ SeqChanged(row[p], cursor[p], batch)
  BY <1>3 DEF SeqChanged, Fresh
<1>6. ~ SeqTaken(row[p], cursor[p], batch)
  BY <1>2 DEF SeqTaken, Fresh
<1> QED BY <1>1, <1>4, <1>5, <1>6 DEF Applies, BatchFits

(* The batch of an ingest whose appends are done always applies. *)
LEMMA IngestFits ==
  ASSUME Reliable, CleanInv, job.phase = "append", job.todo = {}
  PROVE  /\ IngestApplies /\ Appended \in SUBSET Entry
         /\ \A e \in Appended : Listed(e)
         /\ \A i \in cursor[Server] + 1 .. Len(oplog) : \E e \in Appended : e.seq = i
<1>0. /\ TypeOK /\ LogUnique /\ RowsListed /\ Server \in Peer /\ cursor[Server] \in Nat
      /\ oplog \in Seq(OpId) /\ Len(oplog) \in Nat
  BY DEF CleanInv, LogInv, TypeOK, Peer
<1>1. Appended \in SUBSET Entry /\ \A e \in Appended : Listed(e)
  BY AppendedLemma DEF CleanInv, LogInv, TypeOK, JobSound, Job
<1>2. ASSUME NEW i \in cursor[Server] + 1 .. Len(oplog) PROVE \E e \in Appended : e.seq = i
  <2>1. i \in 1 .. Len(oplog) /\ oplog[i] \in job.ops
    BY <1>0 DEF CleanInv, NoRollback
  <2>2. SeqOf(oplog[i]) = i
    BY <1>0, <2>1, UniqueSeq
  <2>3. [seq |-> SeqOf(oplog[i]), op |-> oplog[i]] \in Appended
    BY <2>1 DEF Appended
  <2> QED BY <2>2, <2>3
<1>3. ~ SeqGap(cursor[Server], Appended)
  <2> SUFFICES ASSUME NEW e \in Fresh(cursor[Server], Appended),
                      NEW i \in cursor[Server] + 1 .. e.seq
               PROVE  \E f \in Fresh(cursor[Server], Appended) : f.seq = i
    BY DEF SeqGap
  <2>1. e.seq \in Nat /\ e.seq <= Len(oplog)
    BY <1>1 DEF Fresh, Listed, Entry
  <2>2. i \in cursor[Server] + 1 .. Len(oplog) /\ i > cursor[Server]
    BY <1>0, <2>1
  <2>3. PICK f \in Appended : f.seq = i
    BY <1>2, <2>2
  <2> QED BY <2>2, <2>3 DEF Fresh
<1>4. Applies(Server, Appended)
  BY <1>0, <1>1, <1>3, ListedFits
<1>5. ~ OutOfOrder
  <2> SUFFICES ASSUME NEW e \in Fresh(cursor[Server], Appended),
                      NEW f \in Fresh(cursor[Server], Appended), e.op < f.op, f.seq < e.seq
               PROVE  FALSE
    BY DEF OutOfOrder
  <2>1. /\ e.seq \in cursor[Server] + 1 .. Len(oplog) /\ oplog[e.seq] = e.op
        /\ f.seq \in cursor[Server] + 1 .. Len(oplog) /\ oplog[f.seq] = f.op
        /\ e.op \in Nat /\ f.op \in Nat
    BY <1>0, <1>1, MaxOpsAssumption DEF Fresh, Listed, Entry, OpId
  <2>2. e.seq \in f.seq + 1 .. Len(oplog)
    BY <1>0, <2>1
  <2>3. oplog[f.seq] < oplog[e.seq]
    BY <1>0, <2>1, <2>2 DEF CleanInv, NoRollback
  <2> QED BY <2>1, <2>3
<1> QED BY <1>1, <1>2, <1>4, <1>5 DEF IngestApplies

(* Nothing is ever rolled back: the log only changes by an append. *)
LEMMA OnlyAppends ==
  ASSUME Reliable, CleanInv, Next
  PROVE  UNCHANGED oplog \/ AppendOne
<1>1. ~ RemoveTail
  BY DEF CleanInv, NoRollback, RemoveTail
<1>2. ASSUME NEW c \in Client, TaskStep(c) PROVE UNCHANGED oplog
  BY <1>2, TaskFrame DEF CleanInv, LogInv
<1>3. CASE ServerAuthor \/ ServerPublish \/ ServerStart \/ ServerApply \/ ServerRefuse
           \/ ServerRolledBack \/ ServerCrash \/ ServerRestart \/ BlobArrives
  BY <1>3
  DEF ServerAuthor, ServerPublish, ServerStart, ServerApply, ServerRefuse, ServerRolledBack,
      ServerCrash, ServerRestart, BlobArrives, PublishAuthored, StartIngest, ApplyOk, ApplyFails,
      RolledBack, Crash, Restart, serverVars
<1>4. ASSUME NEW c \in Client, Edit(c) \/ Drop(c) \/ Release(c) PROVE UNCHANGED oplog
  BY <1>4 DEF Edit, Drop, Release, serverVars
<1>5. CASE AppendFails
  BY <1>5 DEF AppendFails
<1> QED BY <1>1, <1>2, <1>3, <1>4, <1>5 DEF Next, ActorStep, ServerAppend, ServerRollback

(* The log only grows. *)
LEMMA LogGrows ==
  ASSUME Reliable, CleanInv, Next
  PROVE  /\ Len(oplog) <= Len(oplog')
         /\ \A i \in 1 .. Len(oplog) : oplog'[i] = oplog[i]
<1>0. oplog \in Seq(OpId) /\ Len(oplog) \in Nat /\ job \in Job
  BY DEF CleanInv, LogInv, TypeOK
<1>1. CASE UNCHANGED oplog
  BY <1>0, <1>1
<1>2. CASE AppendOne
  <2> DEFINE o == Oldest(job.todo)
  <2>1. o \in OpId /\ (oplog' = oplog \/ oplog' = Append(oplog, o))
    BY <1>0, <1>2, OldestLemma DEF AppendOne, Job
  <2> HIDE DEF o
  <2> QED BY <1>0, <2>1
<1> QED BY <1>1, <1>2, OnlyAppends

(* A commit that covers the whole log moves the cursor to its end. *)
LEMMA CommitReachesEnd ==
  ASSUME TypeOK, NEW p \in Peer, NEW batch \in SUBSET Entry, \A e \in batch : Listed(e),
         cursor[p] <= Len(oplog),
         \A i \in cursor[p] + 1 .. Len(oplog) : \E e \in batch : e.seq = i,
         CommitOn(p, batch)
  PROVE  cursor'[p] = Len(oplog)
<1>0. cursor[p] \in Nat /\ Len(oplog) \in Nat
  BY DEF TypeOK
<1>1. IsCursorAfter(cursor'[p], cursor[p], batch)
  BY DEF CommitOn, TypeOK
<1>2. cursor'[p] \in Nat /\ cursor'[p] <= Len(oplog)
  BY <1>0, <1>1 DEF IsCursorAfter, Listed, Entry
<1>3. CASE cursor[p] = Len(oplog)
  BY <1>0, <1>1, <1>2, <1>3 DEF IsCursorAfter
<1>4. CASE cursor[p] < Len(oplog)
  <2>1. PICK e \in batch : e.seq = Len(oplog)
    BY <1>0, <1>4
  <2> QED BY <1>0, <1>1, <1>2, <2>1 DEF IsCursorAfter
<1> QED BY <1>0, <1>3, <1>4

(* What one step of a sync task does to its own database. *)
LEMMA TaskTables ==
  ASSUME TypeOK, NEW c \in Client, TaskStep(c)
  PROVE  \/ UNCHANGED <<row, cursor, out>>
         \/ /\ Applies(c, sess[c].page) /\ CommitOn(c, sess[c].page)
         \/ /\ UNCHANGED cursor
            /\ \E acks \in {sess[c].reply.acks, sess[c].accepted} : Acknowledge(c, acks)
<1>1. CASE Connect(c) \/ Unreachable(c) \/ GetOps(c) \/ RejectPage(c) \/ OneAnswered(c)
           \/ CheckIdle(c) \/ Push(c) \/ PushOne(c)
  BY <1>1 DEF Connect, Unreachable, GetOps, RejectPage, OneAnswered, CheckIdle, Push,
              PushOne, Post, serverVars
<1>2. CASE ApplyPage(c)
  BY <1>2 DEF ApplyPage
<1>3. CASE PushAnswered(c) \/ Isolated(c)
  BY <1>3 DEF PushAnswered, Isolated, Settle
<1> QED BY <1>1, <1>2, <1>3 DEF TaskStep

(* What one step of a sync task does to its session: pages come from the log,
   acknowledgements from the answer. *)
NewSession(c, s) ==
  /\ Become(c, s)
  /\ \/ s.page = {}
     \/ s.page \in {sess[c].page, OpsSince(cursor[c], Batch)} /\ UNCHANGED cursor
  /\ s.reply.acks \subseteq sess[c].reply.acks
  /\ s.accepted \subseteq sess[c].accepted \cup sess[c].reply.acks

(* Every step of a task is such a change. *)
LEMMA TaskSession ==
  ASSUME TypeOK, NEW c \in Client, TaskStep(c)
  PROVE  \E s : NewSession(c, s)
<1>a. sess[c] \in Session /\ sess[c].reply \in Reply
  BY DEF TypeOK, Session
<1>b. ASSUME Become(c, Offline) PROVE \E s : NewSession(c, s)
  <2>1. Offline.page = {} /\ Offline.reply.acks = {} /\ Offline.accepted = {}
    BY DEF Offline, NoReply
  <2> QED BY <1>b, <2>1 DEF NewSession
<1>c. ASSUME Become(c, [Offline EXCEPT !.pc = "pull"]) PROVE \E s : NewSession(c, s)
  <2> DEFINE s == [Offline EXCEPT !.pc = "pull"]
  <2>1. s.page = {} /\ s.reply.acks = {} /\ s.accepted = {}
    BY DEF Offline, NoReply
  <2>2. Become(c, s)
    BY <1>c
  <2> HIDE DEF s
  <2> QED BY <2>1, <2>2 DEF NewSession
<1>d. ASSUME NEW t \in Session, NEW ops, Post(c, ops, t), UNCHANGED cursor,
             t.page = sess[c].page, t.reply = sess[c].reply, t.accepted = sess[c].accepted
      PROVE  \E s : NewSession(c, s)
  <2> DEFINE u == [t EXCEPT !.reply = Transient]
             v == [t EXCEPT !.reply = Terminal]
  <2>1. /\ u.page = sess[c].page /\ u.reply.acks = {} /\ u.accepted = sess[c].accepted
        /\ v.page = sess[c].page /\ v.reply.acks = {} /\ v.accepted = sess[c].accepted
    BY <1>d DEF Session, Transient, Terminal
  <2>2. Become(c, u) \/ Become(c, v) \/ Become(c, t)
    BY <1>d DEF Post
  <2> HIDE DEF u, v
  <2> QED BY <1>d, <2>1, <2>2 DEF NewSession
<1>1. CASE Connect(c) \/ CheckIdle(c) \/ Unreachable(c) \/ RejectPage(c)
  BY <1>1, <1>b, <1>c DEF Connect, CheckIdle, Unreachable, RejectPage
<1>2. CASE GetOps(c)
  <2> DEFINE page == OpsSince(cursor[c], Batch)
             s == [sess[c] EXCEPT !.pc = AfterCatchUp(@)]
             t == [sess[c] EXCEPT !.page = page]
  <2>1. /\ s.page = sess[c].page /\ s.reply = sess[c].reply /\ s.accepted = sess[c].accepted
        /\ t.page = page /\ t.reply = sess[c].reply /\ t.accepted = sess[c].accepted
    BY <1>a DEF Session
  <2>2. (Become(c, s) \/ Become(c, t)) /\ UNCHANGED cursor
    BY <1>2 DEF GetOps, serverVars
  <2> HIDE DEF s, t
  <2> QED BY <2>1, <2>2 DEF NewSession
<1>3. CASE ApplyPage(c)
  <2> DEFINE s == [sess[c] EXCEPT !.page = {},
                     !.pc = IF Cardinality(sess[c].page) = Batch THEN @ ELSE AfterCatchUp(@)]
  <2>1. s.page = {} /\ s.reply = sess[c].reply /\ s.accepted = sess[c].accepted
    BY <1>a DEF Session
  <2>2. Become(c, s)
    BY <1>3 DEF ApplyPage
  <2> HIDE DEF s
  <2> QED BY <2>1, <2>2 DEF NewSession
<1>4. CASE Push(c)
  <2> DEFINE batch == OutboxHead(out[c], quar[c], Batch)
             s == [sess[c] EXCEPT !.pc = "repull", !.sent = {}]
             t == [sess[c] EXCEPT !.pc = "wait", !.sent = batch]
  <2>0. batch \in SUBSET OpId
    BY OutboxHeadLemma DEF TypeOK, Peer
  <2>1. /\ s.page = sess[c].page /\ s.reply = sess[c].reply /\ s.accepted = sess[c].accepted
        /\ t.page = sess[c].page /\ t.reply = sess[c].reply /\ t.accepted = sess[c].accepted
        /\ t \in Session
    <3> HIDE DEF batch
    <3> QED BY <1>a, <2>0 DEF Session
  <2>2. /\ Become(c, s) \/ Post(c, batch, t)
        /\ UNCHANGED cursor
    BY <1>4 DEF Push, Post, serverVars
  <2> HIDE DEF s, t, batch
  <2> QED BY <1>d, <2>1, <2>2 DEF NewSession
<1>5. CASE PushAnswered(c)
  <2> DEFINE s == [sess[c] EXCEPT !.pc = "repull", !.reply = NoReply, !.accepted = {}]
             t == [sess[c] EXCEPT !.pc = "isolate", !.reply = NoReply, !.rest = sess[c].sent,
                     !.accepted = {}, !.progressed = FALSE]
  <2>1. /\ s.page = sess[c].page /\ s.reply.acks = {} /\ s.accepted = {}
        /\ t.page = sess[c].page /\ t.reply.acks = {} /\ t.accepted = {}
    BY <1>a DEF Session, NoReply
  <2>2. (Become(c, s) \/ Become(c, t) \/ Become(c, Offline)) /\ UNCHANGED cursor
    BY <1>5 DEF PushAnswered, Settle
  <2> HIDE DEF s, t
  <2> QED BY <1>b, <2>1, <2>2 DEF NewSession
<1>6. CASE PushOne(c)
  <2> DEFINE t == [sess[c] EXCEPT !.pc = "isoWait"]
             ops == {Oldest(sess[c].rest)}
  <2>1. /\ t.page = sess[c].page /\ t.reply = sess[c].reply /\ t.accepted = sess[c].accepted
        /\ t \in Session
    BY <1>a DEF Session
  <2>2. Post(c, ops, t) /\ UNCHANGED cursor
    BY <1>6 DEF PushOne, Post, serverVars
  <2> HIDE DEF t, ops
  <2> QED BY <1>d, <2>1, <2>2
<1>7. CASE OneAnswered(c)
  <2> DEFINE s == sess[c]
             o == Oldest(s.rest)
             next == [s EXCEPT !.pc = "isolate", !.reply = NoReply, !.rest = @ \ {o},
                               !.progressed = TRUE]
             more == [next EXCEPT !.accepted = @ \cup s.reply.acks]
             stop == [s EXCEPT !.pc = "isolate", !.reply = NoReply, !.rest = {}]
  <2>1. /\ next.page = s.page /\ next.reply.acks = {} /\ next.accepted = s.accepted
        /\ stop.page = s.page /\ stop.reply.acks = {} /\ stop.accepted = s.accepted
        /\ next \in Session
    BY <1>a, OfflineType DEF Session, NoReply
  <2>2. /\ more.page = next.page /\ more.reply = next.reply
        /\ more.accepted = next.accepted \cup s.reply.acks
    <3> HIDE DEF next
    <3> QED BY <2>1 DEF Session
  <2>3. /\ Become(c, more) \/ Become(c, next) \/ Become(c, IF s.progressed THEN stop ELSE Offline)
        /\ UNCHANGED serverVars
    BY <1>7 DEF OneAnswered
  <2>4. UNCHANGED cursor
    BY <2>3 DEF serverVars
  <2>5. Become(c, more) \/ Become(c, next) \/ Become(c, stop) \/ Become(c, Offline)
    BY <2>3
  <2> HIDE DEF next, more, stop
  <2> QED BY <1>b, <2>1, <2>2, <2>4, <2>5 DEF NewSession
<1>8. CASE Isolated(c)
  <2> DEFINE s == [sess[c] EXCEPT !.pc = "repull", !.reply = NoReply, !.accepted = {}]
  <2>1. s.page = sess[c].page /\ s.reply.acks = {} /\ s.accepted = {}
    BY <1>a DEF Session, NoReply
  <2>2. (Become(c, s) \/ Become(c, Offline)) /\ UNCHANGED cursor
    BY <1>8 DEF Isolated, Settle
  <2> HIDE DEF s
  <2> QED BY <1>b, <2>1, <2>2 DEF NewSession
<1> QED BY <1>1, <1>2, <1>3, <1>4, <1>5, <1>6, <1>7, <1>8 DEF TaskStep

(* A longer log still lists what it listed. *)
LEMMA ListedStays ==
  ASSUME Reliable, CleanInv, Next, NEW e \in Entry, Listed(e)
  PROVE  e.seq <= Len(oplog') /\ oplog'[e.seq] = e.op
<1>1. Len(oplog) \in Nat /\ Len(oplog') \in Nat
  BY StepTypes DEF CleanInv, LogInv, TypeOK
<1> QED BY <1>1, LogGrows DEF Listed, Entry

(* Sessions carry nothing but rows of the log, in every step. *)
LEMMA StepCarries ==
  ASSUME Reliable, CleanInv, Next
  PROVE  (AnswersListed /\ PageContinues)'
<1>0. TypeOK /\ \A c \in Client : Carries(c) /\ sess[c] \in Session /\ c \in Peer
  BY CarriesSplit DEF CleanInv, LogInv, TypeOK, Peer
<1>a. \A c \in Client : /\ sess[c].page \subseteq Entry /\ sess[c].reply.acks \subseteq Entry
                        /\ sess[c].accepted \subseteq Entry
  BY <1>0 DEF Session, Reply
<1> SUFFICES ASSUME NEW c \in Client PROVE Carries(c)'
  BY DEF AnswersListed, PageContinues, Carries
<1>b. ASSUME sess'[c].page = {} \/ (sess'[c].page = sess[c].page /\ cursor'[c] = cursor[c]),
             sess'[c].reply.acks \subseteq sess[c].reply.acks,
             sess'[c].accepted \subseteq sess[c].accepted
      PROVE  Carries(c)'
  BY <1>0, <1>a, <1>b, ListedStays DEF Carries, Listed
<1>1. CASE ServerAuthor \/ ServerPublish \/ ServerStart \/ ServerAppend \/ ServerRefuse
           \/ ServerRollback
  BY <1>1, <1>b
  DEF ServerAuthor, ServerPublish, ServerStart, ServerAppend, ServerRefuse, ServerRollback,
      PublishAuthored, StartIngest, AppendOne, AppendFails, ApplyFails, RemoveTail, clientVars
<1>2. CASE ServerRestart
  <2>1. cursor'[c] = cursor[c] /\ sess' = sess
    BY <1>0, <1>2, ServerAssumption
    DEF ServerRestart, Restart, CommitOn, TypeOK, clientVars
  <2> QED BY <1>b, <2>1
<1>3. CASE ServerApply
  <2>1. cursor'[c] = cursor[c] /\ oplog' = oplog
    BY <1>0, <1>3, ServerAssumption DEF ServerApply, ApplyOk, CommitOn, TypeOK
  <2>2. Appended \in SUBSET Entry /\ \A e \in Appended : Listed(e)
    BY <1>3, IngestFits DEF ServerApply, ApplyOk
  <2>3. CASE sess'[c] = sess[c]
    BY <1>b, <2>1, <2>3
  <2>5. CASE sess'[c] = [sess[c] EXCEPT !.reply = [kind |-> "transient", acks |-> {}]]
    <3>1. sess'[c].page = sess[c].page /\ sess'[c].reply.acks = {}
          /\ sess'[c].accepted = sess[c].accepted
      BY <1>0, <2>5 DEF Session
    <3> QED BY <1>b, <2>1, <3>1
  <2>4. CASE sess'[c] = [sess[c] EXCEPT !.reply = [kind |-> "ok", acks |-> Appended]]
    <3>1. sess'[c].page = sess[c].page /\ sess'[c].reply.acks = Appended
          /\ sess'[c].accepted = sess[c].accepted
      BY <1>0, <2>4 DEF Session
    <3> QED BY <1>0, <2>1, <2>2, <3>1 DEF Carries, Listed
  <2> QED BY <1>3, <2>3, <2>4, <2>5 DEF ServerApply, Respond
<1>4. CASE ServerRolledBack \/ ServerCrash
  <2>1. cursor' = cursor
    BY <1>4 DEF ServerRolledBack, RolledBack, ServerCrash, Crash
  <2>2. PICK k : sess'[c] = sess[c] \/ sess'[c] = [sess[c] EXCEPT !.reply = [kind |-> k, acks |-> {}]]
    BY <1>4 DEF ServerRolledBack, ServerCrash, Respond, Transient
  <2>3. sess'[c].page = sess[c].page /\ sess'[c].reply.acks \subseteq sess[c].reply.acks
        /\ sess'[c].accepted = sess[c].accepted
    BY <1>0, <2>2 DEF Session
  <2> QED BY <1>b, <2>1, <2>3
<1>5. CASE BlobArrives \/ \E d \in Client : Release(d) \/ Edit(d)
  BY <1>5, <1>b DEF BlobArrives, Release, Edit, serverVars, clientVars
<1>6. ASSUME NEW d \in Client, Drop(d) PROVE Carries(c)'
  <2>1. cursor' = cursor /\ (sess'[c] = sess[c] \/ sess'[c] = Offline)
    BY <1>0, <1>6 DEF Drop, Become, TypeOK
  <2>2. Offline.page = {} /\ Offline.reply.acks = {} /\ Offline.accepted = {}
    BY DEF Offline, NoReply
  <2> QED BY <1>b, <2>1, <2>2
<1>7. ASSUME NEW d \in Client, TaskStep(d) PROVE Carries(c)'
  <2>1. PICK s : NewSession(d, s)
    BY <1>0, <1>7, TaskSession
  <2>2. oplog' = oplog
    BY <1>0, <1>7, TaskFrame
  <2>3. CASE c # d
    <3>1. sess'[c] = sess[c] /\ cursor'[c] = cursor[c]
      BY <1>0, <1>7, <2>1, <2>3, TaskFrame DEF NewSession, Become, TypeOK
    <3> QED BY <1>b, <3>1
  <2>4. CASE c = d
    <3>1. sess'[c] = s
      BY <1>0, <2>1, <2>4 DEF NewSession, Become, TypeOK
    <3>2. /\ \A e \in s.reply.acks : Listed(e)
          /\ \A e \in s.accepted : Listed(e)
      BY <1>0, <2>1, <2>4 DEF NewSession, Carries
    <3>3. /\ OpsSince(cursor[c], Batch) \subseteq Entry
          /\ \A e \in OpsSince(cursor[c], Batch) :
              /\ cursor[c] < e.seq
              /\ Listed(e)
              /\ \A i \in cursor[c] + 1 .. e.seq :
                   \E f \in OpsSince(cursor[c], Batch) : f.seq = i
      BY <1>0, OpsSinceLemma, BatchAssumption DEF TypeOK
    <3>4. CASE s.page = {}
      BY <2>2, <3>1, <3>2, <3>4 DEF Carries, Listed
    <3>5. CASE s.page = sess[c].page /\ UNCHANGED cursor
      BY <1>0, <2>2, <3>1, <3>2, <3>5 DEF Carries, Listed
    <3>6. CASE s.page = OpsSince(cursor[c], Batch) /\ UNCHANGED cursor
      <4> DEFINE page == OpsSince(cursor[c], Batch)
      <4>1. s.page = page /\ \A e \in page : cursor[c] < e.seq /\ Listed(e) /\
              \A i \in cursor[c] + 1 .. e.seq : \E f \in page : f.seq = i
        BY <3>3, <3>6
      <4> HIDE DEF page
      <4> QED BY <2>2, <3>1, <3>2, <3>6, <4>1 DEF Carries, Listed
    <3> QED BY <2>1, <2>4, <3>4, <3>5, <3>6 DEF NewSession
  <2> QED BY <2>3, <2>4
<1> QED BY <1>1, <1>2, <1>3, <1>4, <1>5, <1>6, <1>7 DEF Next, ActorStep

(* The log runs ahead of the replica by the running batch only. *)
LEMMA StepNoRollback ==
  ASSUME Reliable, CleanInv, Next
  PROVE  NoRollback'
<1>0. /\ TypeOK /\ Server \in Peer /\ cursor[Server] \in Nat /\ oplog \in Seq(OpId)
      /\ Len(oplog) \in Nat /\ job \in Job /\ LogUnique /\ JobSound /\ NoRollback
      /\ cursor[Server] <= Len(oplog)
  BY DEF CleanInv, LogInv, TypeOK, Peer, Materialised
<1>b. ASSUME UNCHANGED <<oplog, up>>, cursor'[Server] = cursor[Server],
             job'.phase = job.phase, job'.base = job.base, job'.ops = job.ops,
             job'.todo = job.todo
      PROVE  NoRollback'
  BY <1>0, <1>b DEF NoRollback
<1>1. CASE ServerAuthor \/ ServerPublish \/ BlobArrives \/ \E c \in Client : Release(c) \/ Edit(c)
  BY <1>1, <1>b DEF ServerAuthor, ServerPublish, PublishAuthored, BlobArrives, Release, Edit,
                    serverVars
<1>2. CASE ServerStart
  <2>1. /\ UNCHANGED <<oplog, cursor>> /\ job'.phase = "append" /\ job'.base = Len(oplog)
        /\ up /\ job.phase = "idle"
    BY <1>2 DEF ServerStart, StartIngest
  <2> QED BY <1>0, <2>1 DEF NoRollback
<1>3. CASE ServerAppend
  <2>1. AppendOne
    BY <1>3 DEF ServerAppend, AppendFails, Reliable
  <2> DEFINE o == Oldest(job.todo)
  <2>2. /\ o \in job.ops /\ o \in OpId
        /\ job'.phase = "append" /\ job'.base = job.base /\ job'.ops = job.ops
        /\ job'.todo = job.todo \ {o} /\ UNCHANGED cursor
        /\ (oplog' = oplog \/ oplog' = Append(oplog, o)) /\ job.phase = "append"
    BY <1>0, <2>1, OldestLemma DEF AppendOne, Job, JobSound
  <2>a. \A x \in job.todo : o <= x
    BY <1>0, <2>1, OldestLemma DEF AppendOne, Job
  <2>b. /\ job.base \in Nat /\ job.ops \subseteq OpId /\ job.todo \subseteq OpId
        /\ o \in job.todo /\ \A x \in OpId : x \in Nat
    BY <1>0, <2>1, OldestLemma, MaxOpsAssumption DEF AppendOne, Job, OpId
  <2> HIDE DEF o
  <2>3. ASSUME NEW i \in job'.base + 1 .. Len(oplog')
        PROVE  /\ oplog'[i] \in job'.ops \ job'.todo
               /\ \A x \in job'.todo : oplog'[i] < x
               /\ \A j \in i + 1 .. Len(oplog') : oplog'[i] < oplog'[j]
    <3>1. CASE oplog' = oplog
      BY <1>0, <2>2, <3>1 DEF NoRollback
    <3>2. CASE oplog' = Append(oplog, o)
      <4>1. /\ Len(oplog') = Len(oplog) + 1 /\ oplog'[Len(oplog) + 1] = o
            /\ \A k \in 1 .. Len(oplog) : oplog'[k] = oplog[k]
        BY <1>0, <2>2, <3>2
      <4>2. CASE i = Len(oplog) + 1
        <5>1. \A x \in job.todo \ {o} : o < x
          BY <2>a, <2>b
        <5> QED BY <1>0, <2>2, <4>1, <4>2, <5>1
      <4>3. CASE i \in job.base + 1 .. Len(oplog)
        <5>1. /\ oplog'[i] = oplog[i] /\ oplog[i] \in job.ops \ job.todo
              /\ \A x \in job.todo : oplog[i] < x
              /\ \A j \in i + 1 .. Len(oplog) : oplog[i] < oplog[j] /\ oplog'[j] = oplog[j]
          BY <1>0, <2>2, <2>b, <4>1, <4>3 DEF NoRollback
        <5>2. /\ oplog'[i] \in job'.ops \ job'.todo
              /\ \A x \in job'.todo : oplog'[i] < x
          BY <2>2, <5>1
        <5>3. ASSUME NEW j \in i + 1 .. Len(oplog') PROVE oplog'[i] < oplog'[j]
          <6>1. j \in i + 1 .. Len(oplog) \/ j = Len(oplog) + 1
            BY <1>0, <4>1, <4>3, <2>b
          <6> QED BY <2>b, <4>1, <5>1, <6>1
        <5> QED BY <5>2, <5>3
      <4> QED BY <1>0, <2>2, <2>b, <4>1, <4>2, <4>3
    <3> QED BY <2>2, <3>1, <3>2
  <2> QED BY <1>0, <2>2, <2>3 DEF NoRollback
<1>4. CASE ServerApply
  <2>1. /\ Appended \in SUBSET Entry /\ \A e \in Appended : Listed(e)
        /\ \A i \in cursor[Server] + 1 .. Len(oplog) : \E e \in Appended : e.seq = i
    BY <1>4, IngestFits DEF ServerApply, ApplyOk
  <2>2. cursor'[Server] = Len(oplog)
    BY <1>0, <1>4, <2>1, CommitReachesEnd DEF ServerApply, ApplyOk
  <2> QED BY <1>4, <2>2 DEF ServerApply, ApplyOk, NoRollback, NoJob
<1>5. CASE ServerRestart
  <2>1. Unapplied \in SUBSET Entry /\ \A e \in Unapplied : Listed(e)
    BY <1>0, OpsSinceLemma DEF Unapplied
  <2>2. ASSUME NEW i \in cursor[Server] + 1 .. Len(oplog) PROVE \E e \in Unapplied : e.seq = i
    <3>1. [seq |-> i, op |-> oplog[i]] \in Unapplied
      BY <1>0 DEF Unapplied, OpsSince
    <3> QED BY <3>1
  <2>3. cursor'[Server] = Len(oplog)
    BY <1>0, <1>5, <2>1, <2>2, CommitReachesEnd DEF ServerRestart, Restart
  <2>4. job.phase = "idle"
    BY <1>0, <1>5 DEF ServerRestart, Restart, JobSound, Job
  <2> QED BY <1>5, <2>3, <2>4 DEF ServerRestart, Restart, NoRollback
<1>6. ~ ServerRefuse
  BY IngestFits DEF ServerRefuse, ApplyFails, Refuses, Reliable
<1>7. ~ ServerRollback /\ ~ ServerRolledBack
  BY <1>0 DEF ServerRollback, RemoveTail, ServerRolledBack, RolledBack, NoRollback
<1>8. CASE ServerCrash
  BY <1>8 DEF ServerCrash, Crash, NoRollback, NoJob
<1>9. ASSUME NEW c \in Client, TaskStep(c) PROVE NoRollback'
  <2>1. Server \in Peer \ {c}
    BY <1>0, ServerAssumption
  <2> QED BY <1>0, <1>9, <1>b, <2>1, TaskFrame
<1>10. ASSUME NEW c \in Client, Drop(c) PROVE NoRollback'
  <2>1. job'.phase = job.phase /\ job'.base = job.base /\ job'.ops = job.ops
        /\ job'.todo = job.todo
    BY <1>0, <1>10 DEF Drop, Job
  <2> QED BY <1>10, <1>b, <2>1 DEF Drop
<1> QED BY <1>1, <1>2, <1>3, <1>4, <1>5, <1>6, <1>7, <1>8, <1>9, <1>10 DEF Next, ActorStep

----------------------------------------------------------------------------
(* The four things a step can do to the tables of a replica. *)
TablesStay(p) == row'[p] = row[p] /\ cursor'[p] = cursor[p] /\ out'[p] = out[p]
TablesAuthor(p) ==
  /\ row'[p] = [row[p] EXCEPT ![nextOp] = Null]
  /\ cursor'[p] = cursor[p]
  /\ out'[p] = out[p] \cup {nextOp}
TablesCommit(p) ==
  \E batch \in SUBSET Entry :
    (\A e \in batch : Listed(e)) /\ Applies(p, batch) /\ CommitOn(p, batch)
TablesAcknowledge(p) ==
  /\ p \in Client
  /\ cursor'[p] = cursor[p]
  /\ \E acks \in SUBSET Entry :
       /\ \A e \in acks : Listed(e)
       /\ row'[p] = Acknowledged(row[p], acks)
       /\ out'[p] = out[p] \ {e.op : e \in acks}

(* ... and there is no fifth. *)
LEMMA StepTables ==
  ASSUME Reliable, CleanInv, Next, NEW p \in Peer
  PROVE  TablesStay(p) \/ TablesAuthor(p) \/ TablesCommit(p) \/ TablesAcknowledge(p)
<1>0. /\ TypeOK /\ Server \in Peer /\ cursor[Server] \in Nat /\ oplog \in Seq(OpId)
      /\ Len(oplog) \in Nat
  BY DEF CleanInv, LogInv, TypeOK, Peer
<1>1. ASSUME NEW q \in Peer, Author(q), UNCHANGED cursor PROVE TablesStay(p) \/ TablesAuthor(p)
  BY <1>0, <1>1 DEF Author, TablesStay, TablesAuthor, TypeOK
<1>2. ASSUME NEW q \in Peer, NEW batch \in SUBSET Entry, \A e \in batch : Listed(e),
             Applies(q, batch), CommitOn(q, batch)
      PROVE  TablesStay(p) \/ TablesCommit(p)
  <2>1. CASE p = q
    BY <1>2, <2>1 DEF TablesCommit
  <2>2. CASE p # q
    BY <1>0, <1>2, <2>2 DEF TablesStay, CommitOn, TypeOK
  <2> QED BY <2>1, <2>2
<1>3. CASE ServerAuthor
  BY <1>0, <1>1, <1>3 DEF ServerAuthor
<1>4. CASE \E c \in Client : Edit(c)
  BY <1>1, <1>4 DEF Edit, Peer
<1>5. CASE ServerPublish \/ ServerStart \/ ServerAppend \/ ServerRefuse \/ ServerRollback
           \/ ServerRolledBack \/ ServerCrash \/ BlobArrives
           \/ \E c \in Client : Drop(c) \/ Release(c)
  BY <1>5 DEF ServerPublish, ServerStart, ServerAppend, ServerRefuse, ServerRollback,
              ServerRolledBack, ServerCrash, BlobArrives, Drop, Release, PublishAuthored,
              StartIngest, AppendOne, AppendFails, ApplyFails, RemoveTail, RolledBack, Crash,
              serverVars, TablesStay
<1>6. CASE ServerApply
  BY <1>0, <1>2, <1>6, IngestFits DEF ServerApply, ApplyOk, IngestApplies
<1>7. CASE ServerRestart
  <2>1. Unapplied \in SUBSET Entry /\ \A e \in Unapplied : Listed(e)
    BY <1>0, OpsSinceLemma DEF Unapplied
  <2> QED BY <1>0, <1>2, <1>7, <2>1 DEF ServerRestart, Restart
<1>8. ASSUME NEW c \in Client, TaskStep(c)
      PROVE  TablesStay(p) \/ TablesCommit(p) \/ TablesAcknowledge(p)
  <2>1. /\ sess[c].page \in SUBSET Entry /\ sess[c].reply.acks \in SUBSET Entry
        /\ sess[c].accepted \in SUBSET Entry /\ c \in Peer
    BY <1>0 DEF TypeOK, Session, Reply, Peer
  <2>2. /\ \A e \in sess[c].page : Listed(e)
        /\ \A e \in sess[c].reply.acks : Listed(e)
        /\ \A e \in sess[c].accepted : Listed(e)
    BY DEF CleanInv, AnswersListed
  <2>3. CASE UNCHANGED <<row, cursor, out>>
    BY <2>3 DEF TablesStay
  <2>4. CASE Applies(c, sess[c].page) /\ CommitOn(c, sess[c].page)
    BY <1>2, <2>1, <2>2, <2>4
  <2>5. ASSUME UNCHANGED cursor, NEW acks \in SUBSET Entry, \A e \in acks : Listed(e),
               Acknowledge(c, acks)
        PROVE  TablesStay(p) \/ TablesAcknowledge(p)
    BY <1>0, <2>1, <2>5 DEF Acknowledge, TablesStay, TablesAcknowledge, TypeOK
  <2> QED BY <1>0, <1>8, <2>1, <2>2, <2>3, <2>4, <2>5, TaskTables
<1> QED BY <1>3, <1>4, <1>5, <1>6, <1>7, <1>8 DEF Next, ActorStep

(* The row an acknowledgement stores. *)
LEMMA AcknowledgedLemma ==
  ASSUME NEW rows, NEW acks, NEW o \in OpId
  PROVE  \/ Acknowledged(rows, acks)[o] = rows[o]
         \/ \E e \in acks : e.op = o /\ Acknowledged(rows, acks)[o] = e.seq
  BY DEF Acknowledged

(* Every stored sequence number is the log's, after every step. *)
LEMMA StepRows ==
  ASSUME Reliable, CleanInv, Next
  PROVE  RowsListed'
<1>0. /\ TypeOK /\ RowsListed /\ TypeOK' /\ Server \in Peer
  BY StepTypes DEF CleanInv, LogInv, Peer
<1>a. /\ \A p \in Peer : row[p] \in [OpId -> Nat \cup {NoRow}] /\ cursor[p] \in Nat
      /\ Len(oplog) \in Nat
      /\ \A p \in Peer : row'[p] \in [OpId -> Nat \cup {NoRow}] /\ cursor'[p] \in Nat
      /\ Len(oplog') \in Nat
  BY <1>0 DEF TypeOK
<1>b. ASSUME NEW p \in Peer, NEW o \in OpId
      PROVE  \/ row'[p][o] = row[p][o] /\ (cursor[p] <= cursor'[p] \/ p # Server)
             \/ row'[p][o] = Null
             \/ \E e \in Entry : /\ Listed(e) /\ e.op = o /\ row'[p][o] = e.seq
                                 /\ (e.seq <= cursor'[p] \/ p # Server)
  <2>1. CASE TablesStay(p)
    BY <1>a, <2>1 DEF TablesStay
  <2>2. CASE TablesAuthor(p)
    BY <1>a, <2>2 DEF TablesAuthor
  <2>3. CASE TablesCommit(p)
    <3>1. PICK batch \in SUBSET Entry :
            (\A e \in batch : Listed(e)) /\ Applies(p, batch) /\ CommitOn(p, batch)
      BY <2>3 DEF TablesCommit
    <3>2. row'[p] = RowsAfter(row[p], cursor[p], batch)
      BY <1>0, <3>1 DEF CommitOn, TypeOK
    <3>3. IsCursorAfter(cursor'[p], cursor[p], batch)
      BY <1>0, <3>1 DEF CommitOn, TypeOK
    <3>4. \/ row'[p][o] = row[p][o]
          \/ \E e \in Fresh(cursor[p], batch) : e.op = o /\ row'[p][o] = e.seq
      BY <1>a, <3>2, RowsAfterLemma
    <3> QED BY <3>1, <3>3, <3>4 DEF IsCursorAfter, Fresh
  <2>4. CASE TablesAcknowledge(p)
    <3>1. p # Server
      BY <2>4, ServerAssumption DEF TablesAcknowledge
    <3> QED BY <2>4, <3>1, AcknowledgedLemma DEF TablesAcknowledge
  <2> QED BY <2>1, <2>2, <2>3, <2>4, StepTables
<1>1. ASSUME NEW p \in Peer, NEW o \in OpId, row'[p][o] > 0
      PROVE  row'[p][o] <= Len(oplog') /\ oplog'[row'[p][o]] = o
  <2>1. PICK e \in Entry : Listed(e) /\ e.op = o /\ row'[p][o] = e.seq
    <3>1. CASE row'[p][o] = row[p][o]
      <4> DEFINE e == [seq |-> row[p][o], op |-> o]
      <4>1. row[p][o] \in Nat \ {0} /\ row[p][o] <= Len(oplog) /\ oplog[row[p][o]] = o
        BY <1>0, <1>a, <1>1, <3>1 DEF RowsListed, NoRow
      <4>2. e \in Entry /\ Listed(e) /\ e.op = o /\ row'[p][o] = e.seq
        BY <3>1, <4>1 DEF Entry, Listed
      <4> QED BY <4>2
    <3>2. CASE row'[p][o] = Null
      BY <1>1, <3>2 DEF Null
    <3> QED BY <1>b, <3>1, <3>2
  <2> QED BY <2>1, ListedStays
<1>2. ASSUME NEW o \in OpId PROVE row'[Server][o] <= cursor'[Server]
  <2>1. row[Server][o] <= cursor[Server]
    BY <1>0 DEF RowsListed
  <2>2. row[Server][o] \in Nat \cup {-1} /\ row'[Server][o] \in Nat \cup {-1}
    BY <1>0, <1>a DEF NoRow
  <2>3. \/ row'[Server][o] = row[Server][o] /\ cursor[Server] <= cursor'[Server]
        \/ row'[Server][o] = 0
        \/ row'[Server][o] <= cursor'[Server]
    BY <1>0, <1>b DEF Null
  <2> QED BY <1>0, <1>a, <2>1, <2>2, <2>3
<1> QED BY <1>1, <1>2 DEF RowsListed

(* Every client's cursor stands for a prefix of the log, after every step. *)
LEMMA StepPrefix ==
  ASSUME Reliable, CleanInv, Next
  PROVE  PrefixAgreement'
<1>0. /\ TypeOK /\ ServerTypes /\ LogUnique /\ PrefixAgreement /\ OnlyBorn /\ TypeOK'
      /\ oplog \in Seq(OpId) /\ Len(oplog) \in Nat /\ Len(oplog') \in Nat
  BY StepTypes, TypesSplit DEF CleanInv, LogInv, TypeOK
<1>1. ASSUME NEW c \in Client
      PROVE  cursor'[c] <= Len(oplog) /\ \A i \in 1 .. cursor'[c] : row'[c][oplog[i]] = i
  <2>0. /\ c \in Peer /\ cursor[c] \in Nat /\ row[c] \in [OpId -> Nat \cup {NoRow}]
        /\ cursor[c] <= Len(oplog) /\ \A i \in 1 .. cursor[c] : row[c][oplog[i]] = i
        /\ \A i \in 1 .. cursor[c] : i \in 1 .. Len(oplog) /\ oplog[i] \in OpId
    BY <1>0 DEF TypeOK, Peer, PrefixAgreement
  <2>1. CASE TablesStay(c)
    BY <2>0, <2>1 DEF TablesStay
  <2>2. CASE TablesAuthor(c)
    <3>1. \A i \in 1 .. cursor[c] : oplog[i] # nextOp
      BY <1>0, <2>0 DEF OnlyBorn, Born, TypeOK
    <3> QED BY <2>0, <2>2, <3>1 DEF TablesAuthor
  <2>3. CASE TablesCommit(c)
    BY <1>0, <2>0, <2>3, CommitMaterialises DEF TablesCommit
  <2>4. CASE TablesAcknowledge(c)
    <3>1. PICK acks \in SUBSET Entry :
            (\A e \in acks : Listed(e)) /\ row'[c] = Acknowledged(row[c], acks)
      BY <2>4 DEF TablesAcknowledge
    <3>2. ASSUME NEW i \in 1 .. cursor[c], NEW e \in acks, e.op = oplog[i] PROVE e.seq = i
      <4>1. e.seq \in 1 .. Len(oplog) /\ oplog[e.seq] = oplog[i]
        BY <1>0, <3>1, <3>2, ListedInLog DEF Listed
      <4> QED BY <1>0, <2>0, <4>1 DEF LogUnique
    <3>3. ASSUME NEW i \in 1 .. cursor[c] PROVE row'[c][oplog[i]] = i
      BY <2>0, <3>1, <3>2, AcknowledgedLemma
    <3> QED BY <2>0, <2>4, <3>3 DEF TablesAcknowledge
  <2> QED BY <2>0, <2>1, <2>2, <2>3, <2>4, StepTables
<1>2. ASSUME NEW c \in Client
      PROVE  cursor'[c] <= Len(oplog') /\ \A i \in 1 .. cursor'[c] : row'[c][oplog'[i]] = i
  <2>1. cursor'[c] \in Nat
    BY <1>0 DEF TypeOK, Peer
  <2> QED BY <1>0, <1>1, <2>1, LogGrows
<1> QED BY <1>2 DEF PrefixAgreement

(* No step loses what a user wrote. *)
LEMMA StepLost ==
  ASSUME Reliable, CleanInv, Next
  PROVE  NothingLost'
<1>0. /\ TypeOK /\ NothingLost /\ Len(oplog) \in Nat /\ Len(oplog') \in Nat
  BY StepTypes DEF CleanInv, LogInv, TypeOK
<1>1. ASSUME NEW o, InLog(o) PROVE InLog(o)'
  BY <1>0, <1>1, LogGrows DEF InLog
<1>2. ASSUME NEW p \in Peer, NEW o \in out[p] PROVE o \in out'[p] \/ InLog(o)
  <2>1. CASE TablesStay(p) \/ TablesAuthor(p)
    BY <2>1 DEF TablesStay, TablesAuthor
  <2>2. CASE TablesCommit(p)
    <3>1. PICK batch \in SUBSET Entry : (\A e \in batch : Listed(e)) /\ CommitOn(p, batch)
      BY <2>2 DEF TablesCommit
    <3>2. out'[p] = out[p] \ {e.op : e \in Fresh(cursor[p], batch)}
      BY <1>0, <3>1 DEF CommitOn, OutboxAfter, TypeOK
    <3> QED BY <1>0, <3>1, <3>2, ListedInLog DEF Fresh
  <2>3. CASE TablesAcknowledge(p)
    BY <1>0, <2>3, ListedInLog DEF TablesAcknowledge
  <2> QED BY <2>1, <2>2, <2>3, StepTables
<1>3. ASSUME NEW o \in OpId, author'[o] # Nobody
      PROVE  o \in out'[author'[o]] \/ InLog(o)'
  <2>1. CASE author'[o] = author[o]
    <3>1. author[o] \in Peer
      BY <1>0, <1>3, <2>1 DEF TypeOK
    <3> QED BY <1>0, <1>1, <1>2, <1>3, <2>1, <3>1 DEF NothingLost
  <2>2. CASE author'[o] # author[o]
    <3>1. PICK p \in Peer : Author(p)
      <4>1. \/ ServerAuthor \/ \E c \in Client : Edit(c) \/ TaskStep(c)
        BY <2>2
        DEF Next, ActorStep, ServerPublish, ServerStart, ServerAppend, ServerApply, ServerRefuse,
            ServerRollback, ServerRolledBack, ServerCrash, ServerRestart, BlobArrives, Drop,
            Release, PublishAuthored, StartIngest, AppendOne, AppendFails, ApplyOk, ApplyFails,
            RemoveTail, RolledBack, Crash, Restart, serverVars
      <4>2. \A c \in Client : ~ TaskStep(c)
        BY <1>0, <2>2, TaskFrame
      <4> QED BY <4>1, <4>2 DEF ServerAuthor, Edit, Peer
    <3>2. o = nextOp /\ author'[o] = p
      BY <1>0, <2>2, <3>1 DEF Author, TypeOK
    <3>3. o \in out'[p]
      BY <1>0, <3>1, <3>2 DEF Author, TypeOK
    <3> QED BY <3>2, <3>3
  <2> QED BY <2>1, <2>2
<1> QED BY <1>3 DEF NothingLost

----------------------------------------------------------------------------
(* Whatever connections, clients and the server process do, every replica
   holds exactly the prefix of the log that its cursor names, and whatever is on
   its way is still what the log says (SyncClient, UserState, Operations). *)
THEOREM CleanInvariant == ASSUME Reliable PROVE Spec => []CleanInv
<1>1. Init => CleanInv
  <2> SUFFICES ASSUME Init PROVE CleanInv
    OBVIOUS
  <2>1. NoRollback /\ RowsListed /\ AnswersListed /\ PageContinues
    BY DEF Init, ServerInit, NoRollback, RowsListed, AnswersListed, PageContinues, NoJob,
           Offline, NoReply, NoRow, Peer
  <2>2. PrefixAgreement /\ NothingLost
    BY DEF Init, ServerInit, PrefixAgreement, NothingLost, Peer
  <2> QED BY <2>1, <2>2, InitLogInv DEF CleanInv
<1>2. CleanInv /\ [Next]_vars => CleanInv'
  <2> SUFFICES ASSUME CleanInv, [Next]_vars PROVE CleanInv'
    OBVIOUS
  <2>0. LogInv'
    BY StepLogInv DEF CleanInv
  <2>1. CASE Next
    BY <2>0, <2>1, StepNoRollback, StepRows, StepCarries, StepPrefix, StepLost DEF CleanInv
  <2>2. CASE UNCHANGED vars
    BY <2>0, <2>2 DEF vars, serverVars, CleanInv, NoRollback, RowsListed, AnswersListed, Listed,
                      PageContinues, PrefixAgreement, NothingLost, InLog
  <2> QED BY <2>1, <2>2
<1> QED BY <1>1, <1>2, PTL DEF Spec

(* What a user wrote is in the log or in the author's outbox, through every
   crash, lost answer and quarantine. *)
THEOREM NothingLostTheorem == ASSUME Reliable PROVE Spec => []NothingLost
<1>1. CleanInv => NothingLost
  BY DEF CleanInv
<1> QED BY <1>1, CleanInvariant, PTL

(* A client's cursor never claims more than the client has applied. *)
THEOREM PrefixAgreementTheorem == ASSUME Reliable PROVE Spec => []PrefixAgreement
<1>1. CleanInv => PrefixAgreement
  BY DEF CleanInv
<1> QED BY <1>1, CleanInvariant, PTL

(* No page a client is about to apply is ever refused as a gap or a conflict. *)
THEOREM PagesFitTheorem == ASSUME Reliable PROVE Spec => []PagesFit
<1>1. CleanInv => PagesFit
  <2> SUFFICES ASSUME CleanInv, NEW c \in Client
               PROVE  BatchFits(row[c], cursor[c], sess[c].page)
    BY DEF PagesFit
  <2>1. /\ TypeOK /\ LogUnique /\ RowsListed /\ c \in Peer /\ sess[c].page \in SUBSET Entry
        /\ \A e \in sess[c].page : Listed(e)
    BY DEF CleanInv, LogInv, TypeOK, Session, Peer, AnswersListed
  <2>2. ASSUME NEW e \in Fresh(cursor[c], sess[c].page), NEW i \in cursor[c] + 1 .. e.seq
        PROVE  \E f \in Fresh(cursor[c], sess[c].page) : f.seq = i
    <3>1. PICK f \in sess[c].page : f.seq = i
      BY DEF CleanInv, PageContinues, Fresh
    <3> QED BY <3>1 DEF CleanInv, PageContinues, Fresh
  <2>3. ~ SeqGap(cursor[c], sess[c].page)
    BY <2>2 DEF SeqGap
  <2>4. Applies(c, sess[c].page)
    BY <2>1, <2>3, ListedFits
  <2> QED BY <2>4 DEF Applies
<1> QED BY <1>1, CleanInvariant, PTL

----------------------------------------------------------------------------
(* The operations a replica's applied_ops lists, and those written so far: the
   refinement mapping of Abstract. *)
Known(p) == {o \in OpId : row[p][o] # NoRow}
Written == {o \in OpId : author[o] # Nobody}

(* A step that leaves the mapped state alone. *)
LEMMA AbstractStutter ==
  ASSUME UNCHANGED <<oplog, cursor, author>>, \A p \in Peer : Known(p)' = Known(p)
  PROVE  UNCHANGED Abstract!vars
<1>1. [p \in Peer |-> Known(p)]' = [p \in Peer |-> Known(p)]
  OBVIOUS
<1> QED BY <1>1 DEF Abstract!vars, Known

(* A local edit is a Write. *)
LEMMA AbstractWrite ==
  ASSUME CleanInv, NEW p \in Peer, Author(p), UNCHANGED <<oplog, cursor>>
  PROVE  \E o \in OpId : Abstract!Write(p, o)
<1>0. TypeOK /\ OnlyBorn /\ nextOp \in OpId /\ p # Nobody
  BY ServerAssumption DEF CleanInv, LogInv, Author, Peer
<1>1. nextOp \notin Written
  BY <1>0 DEF OnlyBorn, Born, Written, TypeOK
<1>2. Written' = Written \cup {nextOp}
  BY <1>0 DEF Author, Written, TypeOK
<1>3. ASSUME NEW q \in Peer PROVE Known(q)' = IF q = p THEN Known(q) \cup {nextOp} ELSE Known(q)
  BY <1>0 DEF Author, Known, TypeOK, Null, NoRow
<1>4. [q \in Peer |-> Known(q)'] = [[q \in Peer |-> Known(q)] EXCEPT ![p] = @ \cup {nextOp}]
  BY <1>3
<1>5. PICK o \in OpId : o = nextOp
  BY <1>0
<1>6. Abstract!Write(p, o)
  BY <1>0, <1>1, <1>2, <1>4, <1>5 DEF Abstract!Write, Known, Written
<1> QED BY <1>6

(* A committed batch is a Learn, or nothing when it held nothing new. *)
LEMMA AbstractLearn ==
  ASSUME CleanInv, NEW p \in Peer, NEW batch \in SUBSET Entry, \A e \in batch : Listed(e),
         Applies(p, batch), CommitOn(p, batch), UNCHANGED <<oplog, author>>
  PROVE  [Abstract!Next]_(Abstract!vars)
<1>0. /\ TypeOK /\ ServerTypes /\ LogUnique /\ oplog \in Seq(OpId) /\ Len(oplog) \in Nat
      /\ cursor[p] \in Nat /\ row[p] \in [OpId -> Nat \cup {NoRow}]
      /\ cursor[p] <= Len(oplog) /\ \A i \in 1 .. cursor[p] : row[p][oplog[i]] = i
  BY TypesSplit DEF CleanInv, LogInv, TypeOK, Materialised, PrefixAgreement, Peer
<1>n. PICK n : n = cursor'[p]
  OBVIOUS
<1>1. /\ cursor[p] <= n /\ n <= Len(oplog) /\ \A i \in 1 .. n : row'[p][oplog[i]] = i
  BY <1>0, <1>n, CommitMaterialises
<1>2. /\ IsCursorAfter(n, cursor[p], batch) /\ n \in Nat
      /\ cursor' = [cursor EXCEPT ![p] = n]
      /\ row'[p] = RowsAfter(row[p], cursor[p], batch)
      /\ \A q \in Peer \ {p} : row'[q] = row[q]
  BY <1>0, <1>n DEF CommitOn, TypeOK, Entry
<1>3. Known(p)' = Known(p) \cup {oplog[i] : i \in 1 .. n}
  <2>1. ASSUME NEW o \in OpId
        PROVE  \/ row'[p][o] = row[p][o]
               \/ \E e \in Fresh(cursor[p], batch) : e.op = o /\ row'[p][o] = e.seq
    BY <1>0, <1>2, RowsAfterLemma
  <2>2. ASSUME NEW o \in Known(p)' PROVE o \in Known(p) \cup {oplog[i] : i \in 1 .. n}
    <3>1. CASE row'[p][o] = row[p][o]
      BY <3>1 DEF Known
    <3>2. ASSUME NEW e \in Fresh(cursor[p], batch), e.op = o
          PROVE  o \in {oplog[i] : i \in 1 .. n}
      <4>1. e \in Entry /\ Listed(e) /\ e.seq <= n
        BY <1>2 DEF Fresh, IsCursorAfter
      <4> QED BY <1>2, <3>2, <4>1 DEF Listed, Entry
    <3> QED BY <2>1, <3>1, <3>2 DEF Known
  <2>3. ASSUME NEW o \in Known(p) PROVE o \in Known(p)'
    <3>1. \A e \in Fresh(cursor[p], batch) : e.seq # NoRow
      BY DEF Fresh, Entry, NoRow
    <3> QED BY <2>1, <3>1 DEF Known
  <2>4. ASSUME NEW i \in 1 .. n PROVE oplog[i] \in Known(p)'
    <3>1. oplog[i] \in OpId /\ row'[p][oplog[i]] = i
      BY <1>0, <1>1, <1>2
    <3> QED BY <1>2, <3>1 DEF Known, NoRow
  <2> QED BY <2>2, <2>3, <2>4
<1>4. CASE n = 0
  <2>1. cursor' = cursor
    <3>1. cursor[p] = n /\ cursor \in [Peer -> Nat]
      BY <1>0, <1>1, <1>2, <1>4 DEF TypeOK
    <3> QED BY <1>2, <3>1
  <2>2. \A q \in Peer : Known(q)' = Known(q)
    BY <1>2, <1>3, <1>4 DEF Known
  <2> QED BY <2>1, <2>2, AbstractStutter
<1>5. CASE n # 0
  <2>1. n \in 1 .. Len(oplog)
    BY <1>1, <1>2, <1>5
  <2>2. \A q \in Peer : Known(q)' = IF q = p THEN Known(q) \cup {oplog[i] : i \in 1 .. n}
                                             ELSE Known(q)
    BY <1>2, <1>3 DEF Known
  <2>3. [q \in Peer |-> Known(q)']
          = [[q \in Peer |-> Known(q)] EXCEPT ![p] = @ \cup {oplog[i] : i \in 1 .. n}]
    BY <2>2
  <2>4. Abstract!Learn(p, n)
    BY <1>1, <1>2, <2>3 DEF Abstract!Learn, Known
  <2> QED BY <2>1, <2>4 DEF Abstract!Next
<1> QED BY <1>4, <1>5

(* Acknowledging changes sequence numbers, not what a replica has applied. *)
LEMMA AbstractAcknowledge ==
  ASSUME TypeOK, NEW c \in Client, NEW acks \in SUBSET Entry, Acknowledge(c, acks),
         UNCHANGED <<oplog, cursor, author>>
  PROVE  UNCHANGED Abstract!vars
<1>1. ASSUME NEW o \in OpId
      PROVE  row[c][o] # NoRow <=> Acknowledged(row[c], acks)[o] # NoRow
  <2>1. \A e \in acks : e.seq # NoRow
    BY DEF Entry, NoRow
  <2> QED BY <2>1 DEF Acknowledged
<1>2. row' = [row EXCEPT ![c] = Acknowledged(row[c], acks)]
  BY DEF Acknowledge
<1>3. \A p \in Peer : row'[p] = IF p = c THEN Acknowledged(row[c], acks) ELSE row[p]
  BY <1>2 DEF TypeOK
<1>4. \A p \in Peer : Known(p)' = Known(p)
  BY <1>1, <1>3 DEF Known
<1> QED BY <1>4, AbstractStutter

(* Every step is a step of the shared log or none. *)
LEMMA StepAbstract ==
  ASSUME Reliable, CleanInv, Next
  PROVE  [Abstract!Next]_(Abstract!vars)
<1>0. /\ TypeOK /\ Server \in Peer /\ oplog \in Seq(OpId) /\ Len(oplog) \in Nat /\ job \in Job
      /\ cursor[Server] \in Nat
  BY DEF CleanInv, LogInv, TypeOK, Peer
<1>s. ASSUME UNCHANGED <<oplog, cursor, author, row>> PROVE UNCHANGED Abstract!vars
  BY <1>s DEF Abstract!vars
<1>1. CASE ServerAuthor \/ \E c \in Client : Edit(c)
  <2>1. PICK p \in Peer : Author(p) /\ UNCHANGED <<oplog, cursor>>
    BY <1>1 DEF ServerAuthor, Edit, Peer
  <2> QED BY <2>1, AbstractWrite DEF Abstract!Next
<1>2. CASE ServerPublish \/ ServerStart \/ ServerRefuse \/ ServerRolledBack \/ ServerCrash
           \/ BlobArrives \/ \E c \in Client : Drop(c) \/ Release(c)
  BY <1>2, <1>s DEF ServerPublish, ServerStart, ServerRefuse, ServerRolledBack, ServerCrash,
                    BlobArrives, Drop, Release, PublishAuthored, StartIngest, ApplyFails,
                    RolledBack, Crash, serverVars
<1>3. CASE ServerAppend
  <2>1. CASE UNCHANGED oplog
    BY <1>3, <1>s, <2>1 DEF ServerAppend, AppendOne, AppendFails
  <2>2. CASE oplog' # oplog
    <3> DEFINE o == Oldest(job.todo)
    <3>1. /\ o \in job.ops /\ o \in OpId /\ ~ InLog(o) /\ oplog' = Append(oplog, o)
          /\ UNCHANGED <<row, cursor, author>>
      BY <1>0, <1>3, <2>2, OldestLemma
      DEF ServerAppend, AppendOne, AppendFails, Job, CleanInv, LogInv, JobSound
    <3> HIDE DEF o
    <3>2. author[o] # Nobody
      BY <3>1 DEF CleanInv, LogInv, OnlyBorn
    <3>3. Abstract!Sequence(o)
      BY <3>1, <3>2 DEF Abstract!Sequence, InLog
    <3> QED BY <3>1, <3>3 DEF Abstract!Next
  <2> QED BY <2>1, <2>2
<1>4. CASE ServerApply
  BY <1>0, <1>4, IngestFits, AbstractLearn DEF ServerApply, ApplyOk, IngestApplies
<1>5. CASE ServerRestart
  <2>1. Unapplied \in SUBSET Entry /\ \A e \in Unapplied : Listed(e)
    BY <1>0, OpsSinceLemma DEF Unapplied
  <2> QED BY <1>0, <1>5, <2>1, AbstractLearn DEF ServerRestart, Restart
<1>6. ~ ServerRollback
  BY DEF ServerRollback, RemoveTail, CleanInv, NoRollback
<1>7. ASSUME NEW c \in Client, TaskStep(c) PROVE [Abstract!Next]_(Abstract!vars)
  <2>1. /\ sess[c].page \in SUBSET Entry /\ sess[c].reply.acks \in SUBSET Entry
        /\ sess[c].accepted \in SUBSET Entry /\ c \in Peer
    BY <1>0 DEF TypeOK, Session, Reply, Peer
  <2>2. \A e \in sess[c].page : Listed(e)
    BY DEF CleanInv, AnswersListed
  <2>3. UNCHANGED <<oplog, author>>
    BY <1>0, <1>7, TaskFrame
  <2>4. CASE UNCHANGED <<row, cursor, out>>
    BY <1>s, <2>3, <2>4
  <2>5. CASE Applies(c, sess[c].page) /\ CommitOn(c, sess[c].page)
    BY <2>1, <2>2, <2>3, <2>5, AbstractLearn
  <2>6. CASE UNCHANGED cursor /\ \E acks \in {sess[c].reply.acks, sess[c].accepted} :
                                   Acknowledge(c, acks)
    BY <1>0, <2>1, <2>3, <2>6, AbstractAcknowledge
  <2> QED BY <1>0, <1>7, <2>4, <2>5, <2>6, TaskTables
<1> QED BY <1>1, <1>2, <1>3, <1>4, <1>5, <1>6, <1>7 DEF Next, ActorStep

(* Clients, actor, network and crashes together implement one append-only log
   of which every replica learns a growing prefix. *)
THEOREM RefinementTheorem == ASSUME Reliable PROVE Spec => ImplementsSharedLog
<1>1. Init => Abstract!Init
  <2> SUFFICES ASSUME Init PROVE Abstract!Init
    OBVIOUS
  <2>1. [p \in Peer |-> Known(p)] = [p \in Peer |-> {}]
    BY DEF Init, ServerInit, Known
  <2>2. Written = {}
    BY DEF Init, ServerInit, Written
  <2> QED BY <2>1, <2>2 DEF Init, ServerInit, Abstract!Init, Known, Written
<1>2. CleanInv /\ [Next]_vars => [Abstract!Next]_(Abstract!vars)
  <2> SUFFICES ASSUME CleanInv, [Next]_vars PROVE [Abstract!Next]_(Abstract!vars)
    OBVIOUS
  <2>1. CASE UNCHANGED vars
    BY <2>1 DEF vars, serverVars, Abstract!vars
  <2> QED BY <2>1, StepAbstract
<1> QED BY <1>1, <1>2, CleanInvariant, PTL DEF Spec, ImplementsSharedLog, Abstract!Spec

----------------------------------------------------------------------------
(* What the same author wrote before b, neither held back nor in the log. *)
Earlier(b) == {a \in OpId : a < b /\ author[a] = author[b] /\ a \notin MissingBlob /\ ~ InLog(a)}

(* A batch that skips nothing its author has still to send. *)
Whole(ops) == \A b \in ops : Earlier(b) \subseteq ops

Waiting == {"wait", "isoWait"}

(* A session has an answer only while it waits for one; what it is sending
   skips nothing, and an answer to a lone operation is the truth about it. *)
SessionSound(s) ==
  /\ s.pc \notin Waiting => s.reply = NoReply
  /\ s.page # {} => s.pc \in {"pull", "repull"}
  /\ s.pc = "wait" => Whole(s.sent)
  /\ s.pc \in {"isolate", "isoWait"} => Whole(s.rest)
  /\ s.pc = "isoWait" =>
       /\ s.rest # {}
       /\ s.reply.kind = "ok" => InLog(Oldest(s.rest))
       /\ s.reply.kind = "terminal" => Oldest(s.rest) \in MissingBlob

(* The session that `ops` was posted for still waits for its answer. *)
Awaits(s, ops) ==
  /\ s.pc \in Waiting /\ s.reply = NoReply
  /\ s.pc = "isoWait" => ops = {Oldest(s.rest)}

(* A client has at most one request with the server, the one it waits for. *)
Exchange ==
  /\ \A c \in Client : SessionSound(sess[c])
  /\ \A r \in inbox :
       /\ Whole(r.ops)
       /\ r.from \in Client => Awaits(sess[r.from], r.ops) /\ job.from # r.from
  /\ \A r, q \in inbox : r.from \in Client /\ q.from = r.from => q = r
  /\ Whole(job.ops)
  /\ job.from \in Client => Awaits(sess[job.from], job.ops)

(* An outbox holds its owner's operations; only refused ones are held back. *)
QueuesOwn ==
  /\ \A p \in Peer : \A o \in out[p] : author[o] = p
  /\ \A c \in Client : quar[c] \subseteq MissingBlob
  /\ missing \subseteq MissingBlob

(* The inductive invariant of OutboxKept. *)
OutboxInv == CleanInv /\ OutboxKept /\ QueuesOwn /\ Exchange

(* The head of the outbox skips no older row that is not held back. *)
LEMMA OutboxHeadClosed ==
  ASSUME NEW queue \in SUBSET OpId, NEW held, NEW b \in OutboxHead(queue, held, Batch),
         NEW a \in queue \ held, a < b
  PROVE  a \in OutboxHead(queue, held, Batch)
<1> DEFINE Before(x) == {p \in queue \ held : p < x}
<1>0. \A x \in queue : x \in Nat
  BY MaxOpsAssumption DEF OpId
<1>1. a \in queue /\ b \in queue
  BY OutboxHeadLemma
<1>2. Before(a) \subseteq Before(b) /\ Before(b) \subseteq OpId
  BY <1>0, <1>1
<1>3. IsFiniteSet(OpId)
  BY FS_Interval, MaxOpsAssumption DEF OpId
<1>4. IsFiniteSet(Before(b))
  BY <1>2, <1>3, FS_Subset
<1>5. /\ Cardinality(Before(a)) \in Nat /\ Cardinality(Before(b)) \in Nat
      /\ Cardinality(Before(a)) <= Cardinality(Before(b))
  BY <1>2, <1>4, FS_Subset, FS_CardinalityType
<1>6. Cardinality(Before(b)) < Batch
  BY DEF OutboxHead
<1>7. Cardinality(Before(a)) < Batch
  BY <1>5, <1>6, BatchAssumption
<1> QED BY <1>7 DEF OutboxHead

(* An operation once written keeps its author. *)
LEMMA AuthorsStay ==
  ASSUME LogInv, Next, NEW o \in Born
  PROVE  author'[o] = author[o]
<1>0. TypeOK /\ o # nextOp
  BY DEF LogInv, Born, TypeOK
<1>1. ASSUME NEW p \in Peer, Author(p) PROVE author'[o] = author[o]
  BY <1>0, <1>1 DEF Author, TypeOK
<1>2. CASE ServerAuthor \/ \E c \in Client : Edit(c)
  BY <1>1, <1>2 DEF ServerAuthor, Edit, Peer
<1>3. ASSUME NEW c \in Client, TaskStep(c) PROVE author' = author
  BY <1>0, <1>3, TaskFrame
<1>4. CASE ServerPublish \/ ServerStart \/ ServerAppend \/ ServerApply \/ ServerRefuse
           \/ ServerRollback \/ ServerRolledBack \/ ServerCrash \/ ServerRestart \/ BlobArrives
           \/ \E c \in Client : Drop(c) \/ Release(c)
  BY <1>4 DEF ServerPublish, ServerStart, ServerAppend, ServerApply, ServerRefuse, ServerRollback,
              ServerRolledBack, ServerCrash, ServerRestart, BlobArrives, Drop, Release,
              PublishAuthored, StartIngest, AppendOne, AppendFails, ApplyOk, ApplyFails,
              RemoveTail, RolledBack, Crash, Restart, serverVars
<1> QED BY <1>2, <1>3, <1>4 DEF Next, ActorStep

(* What is in the log stays there. *)
LEMMA InLogStays ==
  ASSUME Reliable, CleanInv, Next, NEW o, InLog(o)
  PROVE  InLog(o)'
<1>1. Len(oplog) \in Nat /\ Len(oplog') \in Nat
  BY StepTypes DEF CleanInv, LogInv, TypeOK
<1> QED BY <1>1, LogGrows DEF InLog

(* What an operation has to wait for only gets less. *)
LEMMA EarlierShrinks ==
  ASSUME Reliable, CleanInv, Next, NEW b \in Born
  PROVE  Earlier(b)' \subseteq Earlier(b)
<1> SUFFICES ASSUME NEW a \in OpId, a < b, author'[a] = author'[b], a \notin MissingBlob,
                    ~ InLog(a)'
             PROVE  a \in Earlier(b)
  BY DEF Earlier
<1>1. a \in Born
  BY MaxOpsAssumption DEF Born, OpId, CleanInv, LogInv, TypeOK
<1>2. author[a] = author[b]
  BY <1>1, AuthorsStay DEF CleanInv
<1> QED BY <1>2, InLogStays DEF Earlier

(* A batch that skips nothing never comes to skip something. *)
LEMMA WholeStays ==
  ASSUME Reliable, CleanInv, Next, NEW ops \in SUBSET Born, Whole(ops)
  PROVE  \A b \in ops : Earlier(b)' \subseteq ops
  BY EarlierShrinks DEF Whole

(* No outbox holds an operation of another replica, and nothing is held back
   but what the server refused. *)
LEMMA StepQueues ==
  ASSUME Reliable, OutboxInv, Next
  PROVE  QueuesOwn'
<1>0. /\ CleanInv /\ LogInv /\ TypeOK /\ OnlyBorn /\ QueuesOwn /\ nextOp \notin Born
      /\ \A p \in Peer : out[p] \subseteq Born
  BY DEF OutboxInv, CleanInv, LogInv, OnlyBorn, Born, TypeOK
<1>1. ASSUME NEW p \in Peer, NEW o \in out'[p] PROVE author'[o] = p
  <2>1. CASE o \in out[p]
    BY <1>0, <2>1, AuthorsStay DEF QueuesOwn
  <2>2. ASSUME NEW q \in Peer, Author(q), o \notin out[p] PROVE author'[o] = p
    BY <1>0, <1>1, <2>2 DEF Author, TypeOK
  <2>3. CASE ServerAuthor \/ \E c \in Client : Edit(c)
    BY <2>1, <2>2, <2>3 DEF ServerAuthor, Edit, Peer
  <2>4. ASSUME NEW c \in Client, TaskStep(c) PROVE author'[o] = p
    BY <1>0, <1>1, <2>1, <2>4, TaskOutbox
  <2>5. ASSUME NEW q \in Peer, NEW batch, CommitOn(q, batch) PROVE author'[o] = p
    BY <1>0, <1>1, <2>1, <2>5 DEF CommitOn, OutboxAfter, TypeOK
  <2>6. CASE ServerApply \/ ServerRestart
    BY <2>5, <2>6 DEF ServerApply, ServerRestart, ApplyOk, Restart, Peer
  <2>7. CASE ServerPublish \/ ServerStart \/ ServerAppend \/ ServerRefuse \/ ServerRollback
             \/ ServerRolledBack \/ ServerCrash \/ BlobArrives
             \/ \E c \in Client : Drop(c) \/ Release(c)
    <3>1. out' = out
      BY <2>7 DEF ServerPublish, ServerStart, ServerAppend, ServerRefuse, ServerRollback,
                ServerRolledBack, ServerCrash, BlobArrives, Drop, Release, PublishAuthored,
                StartIngest, AppendOne, AppendFails, ApplyFails, RemoveTail, RolledBack, Crash,
                serverVars
    <3> QED BY <1>1, <2>1, <3>1
  <2> QED BY <2>3, <2>4, <2>6, <2>7 DEF Next, ActorStep
<1>2. ASSUME NEW c \in Client PROVE quar'[c] \subseteq MissingBlob
  <2>0. quar \in [Client -> SUBSET OpId] /\ \A d \in Client : quar[d] \subseteq MissingBlob
    BY <1>0 DEF TypeOK, QueuesOwn
  <2>1. ASSUME NEW d \in Client, OneAnswered(d) PROVE quar'[c] \subseteq MissingBlob
    <3>1. CASE quar' = quar
      BY <2>0, <3>1
    <3>2. CASE /\ sess[d].reply.kind \in HoldBack /\ At(d, "isoWait")
               /\ quar' = [quar EXCEPT ![d] = @ \cup ({Oldest(sess[d].rest)} \cap out[d])]
      <4>1. Oldest(sess[d].rest) \in MissingBlob
        BY <3>2 DEF OutboxInv, Exchange, SessionSound, At, HoldBack
      <4> QED BY <2>0, <3>2, <4>1
    <3> QED BY <2>1, <3>1, <3>2 DEF OneAnswered
  <2>2. ASSUME NEW d \in Client, ApplyPage(d) \/ PushAnswered(d) \/ Isolated(d) \/ Release(d)
        PROVE  quar'[c] \subseteq MissingBlob
    <3>1. \/ quar' = quar \/ quar' = [quar EXCEPT ![d] = {}]
          \/ quar' = [quar EXCEPT ![d] = @ \cap out'[d]]
      BY <2>2 DEF ApplyPage, PushAnswered, Isolated, Settle, Acknowledge, Release
    <3> QED BY <2>0, <3>1
  <2>3. ASSUME NEW d \in Client, \/ Connect(d) \/ Unreachable(d) \/ GetOps(d) \/ RejectPage(d)
                                 \/ Push(d) \/ PushOne(d) \/ CheckIdle(d) \/ Edit(d) \/ Drop(d)
        PROVE  quar' = quar
    BY <2>3 DEF Connect, Unreachable, GetOps, RejectPage, Push, PushOne, CheckIdle, Edit, Drop,
                clientVars
  <2>4. CASE ActorStep \/ ServerAuthor \/ ServerPublish \/ ServerCrash \/ ServerRestart
             \/ BlobArrives
    <3>1. quar' = quar
      BY <2>4 DEF ActorStep, ServerAuthor, ServerPublish, ServerStart, ServerAppend, ServerApply,
                ServerRefuse, ServerRollback, ServerRolledBack, ServerCrash, ServerRestart,
                BlobArrives, clientVars
    <3> QED BY <2>0, <3>1
  <2> QED BY <2>0, <2>1, <2>2, <2>3, <2>4 DEF Next, TaskStep
<1>3. missing' \subseteq missing
  <2>1. ASSUME NEW d \in Client, TaskStep(d) \/ Edit(d) \/ Drop(d) \/ Release(d)
        PROVE  missing' = missing
    BY <2>1 DEF TaskStep, Connect, Unreachable, GetOps, RejectPage, Push, PushOne, CheckIdle,
                ApplyPage, PushAnswered, OneAnswered, Isolated, Edit, Drop, Release, clientVars
  <2>2. CASE ActorStep \/ ServerAuthor \/ ServerPublish \/ ServerCrash \/ ServerRestart
    BY <2>2 DEF ActorStep, ServerAuthor, ServerPublish, ServerStart, ServerAppend, ServerApply,
                ServerRefuse, ServerRollback, ServerRolledBack, ServerCrash, ServerRestart,
                clientVars
  <2>3. CASE BlobArrives
    BY <2>3 DEF BlobArrives
  <2> QED BY <2>1, <2>2, <2>3 DEF Next
<1> QED BY <1>0, <1>1, <1>2, <1>3 DEF QueuesOwn

(* Nothing is stranded: what leaves an outbox has a sequence number. *)
LEMMA StepStranded ==
  ASSUME Reliable, OutboxInv, Next
  PROVE  NoneStranded'
<1>0. CleanInv /\ TypeOK /\ NoneStranded
  BY DEF OutboxInv, CleanInv, LogInv, OutboxKept
<1> SUFFICES ASSUME NEW p \in Peer, NEW o \in OpId, row'[p][o] = Null PROVE o \in out'[p]
  BY DEF NoneStranded
<1>1. row[p] \in [OpId -> Nat \cup {NoRow}] /\ cursor[p] \in Nat
  BY <1>0 DEF TypeOK
<1>2. CASE TablesStay(p)
  BY <1>0, <1>2 DEF TablesStay, NoneStranded
<1>3. CASE TablesAuthor(p)
  BY <1>0, <1>1, <1>3 DEF TablesAuthor, NoneStranded
<1>4. CASE TablesCommit(p)
  <2>1. PICK batch \in SUBSET Entry : CommitOn(p, batch)
    BY <1>4 DEF TablesCommit
  <2>2. /\ row'[p] = RowsAfter(row[p], cursor[p], batch)
        /\ out'[p] = out[p] \ {e.op : e \in Fresh(cursor[p], batch)}
    BY <1>0, <2>1 DEF CommitOn, OutboxAfter, TypeOK
  <2>3. \A e \in Fresh(cursor[p], batch) : e.seq # Null
    BY DEF Fresh, Entry, Null
  <2>4. row'[p][o] = row[p][o] /\ \A e \in Fresh(cursor[p], batch) : e.op # o
    BY <1>1, <2>2, <2>3, RowsAfterLemma
  <2> QED BY <1>0, <2>2, <2>4 DEF NoneStranded
<1>5. CASE TablesAcknowledge(p)
  <2>1. PICK acks \in SUBSET Entry : /\ row'[p] = Acknowledged(row[p], acks)
                                     /\ out'[p] = out[p] \ {e.op : e \in acks}
    BY <1>5 DEF TablesAcknowledge
  <2>2. \A e \in acks : e.seq # Null
    BY DEF Entry, Null
  <2>3. row[p][o] = Null /\ \A e \in acks : e.op # o
    BY <2>1, <2>2 DEF Acknowledged, Null, NoRow
  <2> QED BY <1>0, <2>1, <2>3 DEF NoneStranded
<1> QED BY <1>0, <1>2, <1>3, <1>4, <1>5, StepTables

(* The log keeps the order of every author. *)
LEMMA StepOrder ==
  ASSUME Reliable, OutboxInv, Next
  PROVE  AuthorOrder'
<1>0. /\ CleanInv /\ LogInv /\ TypeOK /\ OnlyBorn /\ AuthorOrder /\ Inapplicable = {}
      /\ Len(oplog) \in Nat /\ Len(oplog') \in Nat /\ oplog \in Seq(OpId)
      /\ LogUnique' /\ job \in Job
  BY StepTypes, StepLogInv DEF OutboxInv, CleanInv, LogInv, TypeOK, OutboxKept, Reliable
<1>s. ASSUME NEW o, InLog(o)'
      PROVE  SeqOf(o)' \in 1 .. Len(oplog') /\ oplog'[SeqOf(o)'] = o
  BY <1>s DEF InLog, SeqOf
<1>t. ASSUME NEW o, InLog(o) PROVE InLog(o)' /\ SeqOf(o)' = SeqOf(o)
  <2>1. SeqOf(o) \in 1 .. Len(oplog) /\ oplog[SeqOf(o)] = o
    BY <1>t, SeqOfLemma
  <2>2. InLog(o)' /\ SeqOf(o) \in 1 .. Len(oplog') /\ oplog'[SeqOf(o)] = o
    BY <1>0, <1>t, <2>1, InLogStays, LogGrows
  <2> QED BY <1>0, <1>s, <2>2 DEF LogUnique
<1> SUFFICES ASSUME NEW a \in OpId, NEW b \in OpId, a < b, author'[a] = author'[b],
                    a \notin MissingBlob, InLog(b)'
             PROVE  InLog(a)' /\ SeqOf(a)' < SeqOf(b)'
  BY <1>0 DEF AuthorOrder
<1>a. ASSUME b \in Born PROVE author[a] = author[b]
  <2>1. a \in Born
    BY <1>0, <1>a, MaxOpsAssumption DEF Born, OpId, TypeOK
  <2> QED BY <1>0, <1>a, <2>1, AuthorsStay
<1>1. CASE InLog(b)
  <2>1. b \in Born
    BY <1>0, <1>1 DEF OnlyBorn, InLog
  <2>2. InLog(a) /\ SeqOf(a) < SeqOf(b)
    BY <1>0, <1>1, <1>a, <2>1 DEF AuthorOrder
  <2> QED BY <1>1, <1>t, <2>2
<1>2. CASE ~ InLog(b)
  <2>1. /\ AppendOne /\ b = Oldest(job.todo) /\ oplog' = Append(oplog, b)
    <3>1. oplog' # oplog
      BY <1>2 DEF InLog
    <3>2. AppendOne
      BY <1>0, <3>1, OnlyAppends
    <3>3. /\ Oldest(job.todo) \in OpId /\ oplog' = Append(oplog, Oldest(job.todo))
      BY <1>0, <3>1, <3>2, OldestLemma DEF AppendOne, Job
    <3>4. PICK o \in OpId : o = Oldest(job.todo) /\ oplog' = Append(oplog, o)
      BY <3>3
    <3>5. b = o
      BY <1>0, <1>2, <3>4 DEF InLog
    <3> QED BY <3>2, <3>4, <3>5
  <2>2. /\ b \in job.todo /\ \A o \in job.todo : b <= o
        /\ job.todo \subseteq job.ops /\ job.ops \subseteq Born
        /\ \A o \in job.ops \ job.todo : InLog(o)
    BY <1>0, <2>1, OldestLemma DEF AppendOne, Job, OnlyBorn, LogInv, JobSound
  <2>3. author[a] = author[b]
    BY <1>a, <2>2
  <2>4. InLog(a)
    <3>1. ASSUME ~ InLog(a) PROVE FALSE
      <4>1. a \in Earlier(b)
        BY <2>3, <3>1 DEF Earlier
      <4>2. a \in job.ops
        BY <2>2, <4>1 DEF OutboxInv, Exchange, Whole
      <4>3. a \notin job.todo
        BY <2>2, MaxOpsAssumption DEF OpId
      <4> QED BY <2>2, <3>1, <4>2, <4>3
    <3> QED BY <3>1
  <2>5. InLog(a)' /\ SeqOf(a)' \in 1 .. Len(oplog)
    BY <1>t, <2>4, SeqOfLemma
  <2>6. SeqOf(b)' \in 1 .. Len(oplog) + 1 /\ oplog'[SeqOf(b)'] = b
    BY <1>0, <1>s, <2>1
  <2>7. SeqOf(b)' \notin 1 .. Len(oplog)
    BY <1>0, <1>2, <2>6, LogGrows DEF InLog
  <2> QED BY <1>0, <2>5, <2>6, <2>7
<1> QED BY <1>1, <1>2

(* What pending_outbox returns skips nothing. *)
LEMMA WholeHead ==
  ASSUME OutboxInv, NEW p \in Peer, NEW held \in SUBSET MissingBlob
  PROVE  Whole(OutboxHead(out[p], held, Batch))
<1> SUFFICES ASSUME NEW b \in OutboxHead(out[p], held, Batch), NEW a \in Earlier(b)
             PROVE  a \in OutboxHead(out[p], held, Batch)
  BY DEF Whole
<1>1. out[p] \in SUBSET OpId /\ p # Nobody
  BY ServerAssumption DEF OutboxInv, CleanInv, LogInv, TypeOK, Peer
<1>2. b \in out[p] /\ author[b] = p
  BY OutboxHeadLemma DEF OutboxInv, QueuesOwn
<1>3. a \in OpId /\ a < b /\ author[a] = p /\ a \notin MissingBlob /\ ~ InLog(a)
  BY <1>2 DEF Earlier
<1>4. a \in out[p] \ held
  BY <1>1, <1>3 DEF OutboxInv, CleanInv, NothingLost
<1> QED BY <1>1, <1>3, <1>4, OutboxHeadClosed

(* The oldest operation of a batch that skips nothing may go alone. *)
LEMMA WholeLone ==
  ASSUME NEW ops \in SUBSET OpId, ops # {}, Whole(ops)
  PROVE  Whole({Oldest(ops)})
<1>1. /\ Oldest(ops) \in ops /\ \A o \in ops : Oldest(ops) <= o
      /\ \A o \in OpId : o \in Nat
  BY OldestLemma, MaxOpsAssumption DEF OpId
<1>2. ASSUME NEW a \in Earlier(Oldest(ops)) PROVE FALSE
  <2>1. a \in ops /\ a < Oldest(ops)
    BY <1>1, <1>2 DEF Whole, Earlier
  <2> QED BY <1>1, <2>1
<1> QED BY <1>2 DEF Whole

(* ... and once it is in the log, or refused, the others may follow. *)
LEMMA WholeRest ==
  ASSUME NEW ops \in SUBSET OpId, Whole(ops), NEW o, InLog(o) \/ o \in MissingBlob
  PROVE  Whole(ops \ {o})
  BY DEF Whole, Earlier

(* A task that takes a step has no request with the server. *)
LEMMA TaskFree ==
  ASSUME Exchange, NEW c \in Client, TaskStep(c)
  PROVE  job.from # c /\ \A r \in inbox : r.from # c
<1>1. sess[c].pc \notin Waiting \/ sess[c].reply.kind # "none"
  <2>1. CASE ApplyPage(c) \/ RejectPage(c)
    BY <2>1 DEF ApplyPage, RejectPage, Exchange, SessionSound, Waiting
  <2>2. CASE Connect(c) \/ Unreachable(c) \/ GetOps(c) \/ Push(c) \/ PushOne(c) \/ Isolated(c)
             \/ CheckIdle(c)
    BY <2>2 DEF Connect, Unreachable, GetOps, Push, PushOne, Isolated, CheckIdle, At, Waiting
  <2>3. CASE PushAnswered(c) \/ OneAnswered(c)
    BY <2>3 DEF PushAnswered, OneAnswered
  <2> QED BY <2>1, <2>2, <2>3 DEF TaskStep
<1>2. NoReply.kind = "none"
  BY DEF NoReply
<1> QED BY <1>1, <1>2 DEF Exchange, Awaits

(* What a request leaves behind: the waiting session and what was queued. *)
Posted(c, ops) ==
  /\ SessionSound(sess'[c])
  /\ \/ inbox' = inbox
     \/ Enqueue(c, ops) /\ Whole(ops) /\ Awaits(sess'[c], ops)

(* A batch, or a lone operation, posted by a session that waits for it. *)
LEMMA PostSound ==
  ASSUME OutboxInv, NEW c \in Client, NEW ops, NEW s \in Session, Post(c, ops, s),
         s.pc \in Waiting, s.reply = NoReply, s.page = {}, Whole(ops),
         s.pc = "wait" => s.sent = ops,
         s.pc = "isoWait" => s.rest # {} /\ Whole(s.rest) /\ ops = {Oldest(s.rest)}
  PROVE  Posted(c, ops)
<1>0. /\ sess \in [Client -> Session] /\ missing \subseteq MissingBlob
      /\ NoReply.kind = "none" /\ Transient.kind = "transient" /\ Terminal.kind = "terminal"
  BY DEF OutboxInv, CleanInv, LogInv, TypeOK, QueuesOwn, NoReply, Transient, Terminal
<1>1. CASE Become(c, s) /\ Enqueue(c, ops)
  <2>1. sess'[c] = s
    BY <1>0, <1>1 DEF Become
  <2> QED BY <1>0, <1>1, <2>1 DEF Posted, SessionSound, Awaits, Waiting
<1>2. CASE Become(c, [s EXCEPT !.reply = Transient]) /\ UNCHANGED serverVars
  <2>1. /\ sess'[c].pc = s.pc /\ sess'[c].page = {} /\ sess'[c].sent = s.sent
        /\ sess'[c].rest = s.rest /\ sess'[c].reply = Transient
    BY <1>0, <1>2 DEF Become, Session
  <2>2. inbox' = inbox
    BY <1>2 DEF serverVars
  <2> QED BY <1>0, <2>1, <2>2 DEF Posted, SessionSound, Waiting
<1>3. CASE /\ Become(c, [s EXCEPT !.reply = Terminal]) /\ UNCHANGED serverVars
           /\ ops \cap missing # {}
  <2>1. /\ sess'[c].pc = s.pc /\ sess'[c].page = {} /\ sess'[c].sent = s.sent
        /\ sess'[c].rest = s.rest /\ sess'[c].reply = Terminal
    BY <1>0, <1>3 DEF Become, Session
  <2>2. inbox' = inbox /\ (s.pc = "isoWait" => Oldest(s.rest) \in MissingBlob)
    BY <1>0, <1>3 DEF serverVars
  <2> QED BY <1>0, <2>1, <2>2 DEF Posted, SessionSound, Waiting
<1> QED BY <1>1, <1>2, <1>3 DEF Post

(* A session that waits for nothing and sends nothing is sound. *)
LEMMA QuietSound ==
  ASSUME NEW s, s.pc \in {"offline", "pull", "push", "repull", "check"}, s.reply = NoReply,
         s.page # {} => s.pc \in {"pull", "repull"}
  PROVE  SessionSound(s)
  BY DEF SessionSound, Waiting

(* Every step of a task leaves a sound session and queues at most the request
   it then waits for. *)
LEMMA TaskSound ==
  ASSUME OutboxInv, NEW c \in Client, TaskStep(c)
  PROVE  \E ops : Posted(c, ops)
<1>0. /\ TypeOK /\ sess \in [Client -> Session] /\ sess[c] \in Session /\ c \in Peer
      /\ SessionSound(sess[c]) /\ sess[c].sent \subseteq OpId /\ sess[c].rest \subseteq OpId
  BY DEF OutboxInv, CleanInv, LogInv, TypeOK, Exchange, Session, Peer
<1>a. /\ Offline.pc = "offline" /\ Offline.page = {} /\ Offline.reply = NoReply
      /\ [Offline EXCEPT !.pc = "pull"].pc = "pull"
      /\ [Offline EXCEPT !.pc = "pull"].page = {}
      /\ [Offline EXCEPT !.pc = "pull"].reply = NoReply
  BY DEF Offline
<1>b. ASSUME NEW s, Become(c, s), inbox' = inbox, SessionSound(s) PROVE \E ops : Posted(c, ops)
  <2>1. sess'[c] = s
    BY <1>0, <1>b DEF Become
  <2> QED BY <1>b, <2>1 DEF Posted
<1>c. SessionSound(Offline) /\ SessionSound([Offline EXCEPT !.pc = "pull"])
  <2> DEFINE s == [Offline EXCEPT !.pc = "pull"]
  <2>1. SessionSound(Offline)
    BY <1>a, QuietSound
  <2>2. s.pc = "pull" /\ s.page = {} /\ s.reply = NoReply
    BY <1>a
  <2> HIDE DEF s
  <2>3. SessionSound(s)
    BY <2>2, QuietSound
  <2> QED BY <2>1, <2>3 DEF s
<1>1. CASE Connect(c) \/ Unreachable(c) \/ CheckIdle(c) \/ RejectPage(c)
  BY <1>1, <1>b, <1>c DEF Connect, Unreachable, CheckIdle, RejectPage, serverVars
<1>2. CASE GetOps(c)
  <2> DEFINE page == OpsSince(cursor[c], Batch)
             s == [sess[c] EXCEPT !.pc = AfterCatchUp(@)]
             t == [sess[c] EXCEPT !.page = page]
  <2>1. /\ sess[c].pc \in {"pull", "repull"} /\ sess[c].page = {} /\ sess[c].reply = NoReply
        /\ inbox' = inbox /\ (Become(c, s) \/ Become(c, t))
    BY <1>0, <1>2 DEF GetOps, serverVars, SessionSound, Waiting
  <2>2. /\ s.pc \in {"push", "check"} /\ s.page = {} /\ s.reply = NoReply
        /\ t.pc \in {"pull", "repull"} /\ t.reply = NoReply
    BY <1>0, <2>1 DEF Session, AfterCatchUp
  <2> HIDE DEF s, t
  <2> QED BY <1>b, <2>1, <2>2, QuietSound
<1>3. CASE ApplyPage(c)
  <2> DEFINE s == [sess[c] EXCEPT !.page = {},
                     !.pc = IF Cardinality(sess[c].page) = Batch THEN @ ELSE AfterCatchUp(@)]
  <2>1. /\ sess[c].pc \in {"pull", "repull"} /\ sess[c].reply = NoReply
        /\ inbox' = inbox /\ Become(c, s)
    BY <1>0, <1>3 DEF ApplyPage, SessionSound, Waiting
  <2>2. /\ s.pc \in {"pull", "repull", "push", "check"} /\ s.page = {} /\ s.reply = NoReply
    BY <1>0, <2>1 DEF Session, AfterCatchUp
  <2> HIDE DEF s
  <2> QED BY <1>b, <2>1, <2>2, QuietSound
<1>4. CASE Push(c)
  <2> DEFINE batch == OutboxHead(out[c], quar[c], Batch)
             s == [sess[c] EXCEPT !.pc = "repull", !.sent = {}]
             t == [sess[c] EXCEPT !.pc = "wait", !.sent = batch]
  <2>1. sess[c].pc = "push" /\ sess[c].reply = NoReply /\ sess[c].page = {}
    BY <1>0, <1>4 DEF Push, At, SessionSound, Waiting
  <2>2. batch \in SUBSET OpId /\ Whole(batch)
    <3>1. quar[c] \in SUBSET MissingBlob
      BY DEF OutboxInv, QueuesOwn
    <3> QED BY <1>0, <3>1, WholeHead, OutboxHeadLemma DEF TypeOK
  <2>3. (Become(c, s) /\ inbox' = inbox) \/ Post(c, batch, t)
    BY <1>4 DEF Push, serverVars
  <2>4. s.pc = "repull" /\ s.reply = NoReply /\ s.page = {}
    BY <1>0, <2>1 DEF Session
  <2>5. /\ t \in Session /\ t.pc = "wait" /\ t.sent = batch /\ t.reply = NoReply /\ t.page = {}
    <3> HIDE DEF batch
    <3> QED BY <1>0, <2>1, <2>2 DEF Session
  <2> HIDE DEF batch, s, t
  <2>6. CASE Become(c, s) /\ inbox' = inbox
    BY <1>b, <2>4, <2>6, QuietSound
  <2>7. CASE Post(c, batch, t)
    <3>1. Posted(c, batch)
      BY <2>2, <2>5, <2>7, PostSound DEF Waiting
    <3> QED BY <3>1
  <2> QED BY <2>3, <2>6, <2>7
<1>s. ASSUME NEW acks, Settle(c, acks), inbox' = inbox, sess[c].page = {}
      PROVE  \E ops : Posted(c, ops)
  <2> DEFINE s == [sess[c] EXCEPT !.pc = "repull", !.reply = NoReply, !.accepted = {}]
  <2>1. s.pc = "repull" /\ s.reply = NoReply /\ s.page = {}
    BY <1>0, <1>s DEF Session
  <2>2. Become(c, s) \/ Become(c, Offline)
    BY <1>s DEF Settle
  <2> HIDE DEF s
  <2> QED BY <1>b, <1>c, <1>s, <2>1, <2>2, QuietSound
<1>5. CASE PushAnswered(c)
  <2> DEFINE t == [sess[c] EXCEPT !.pc = "isolate", !.reply = NoReply, !.rest = sess[c].sent,
                     !.accepted = {}, !.progressed = FALSE]
  <2>1. inbox' = inbox /\ sess[c].pc = "wait" /\ sess[c].page = {} /\ Whole(sess[c].sent)
    BY <1>0, <1>5 DEF PushAnswered, At, SessionSound
  <2>2. Settle(c, sess[c].reply.acks) \/ Become(c, t) \/ Become(c, Offline)
    BY <1>5 DEF PushAnswered
  <2>3. t.pc = "isolate" /\ t.reply = NoReply /\ t.page = {} /\ t.rest = sess[c].sent
    BY <1>0, <2>1 DEF Session
  <2>4. SessionSound(t)
    <3> HIDE DEF t
    <3> QED BY <2>1, <2>3 DEF SessionSound, Waiting
  <2> HIDE DEF t
  <2> QED BY <1>b, <1>c, <1>s, <2>1, <2>2, <2>4
<1>6. CASE PushOne(c)
  <2> DEFINE t == [sess[c] EXCEPT !.pc = "isoWait"]
             rest == sess[c].rest
  <2>1. /\ sess[c].pc = "isolate" /\ sess[c].reply = NoReply /\ sess[c].page = {}
        /\ rest # {} /\ Whole(rest) /\ Post(c, {Oldest(rest)}, t)
    BY <1>0, <1>6 DEF PushOne, At, SessionSound, Waiting
  <2>2. /\ t \in Session /\ t.pc = "isoWait" /\ t.reply = NoReply /\ t.page = {}
        /\ t.rest = rest
    BY <1>0, <2>1 DEF Session
  <2>3. Whole({Oldest(rest)})
    BY <1>0, <2>1, WholeLone
  <2> HIDE DEF t
  <2>4. Posted(c, {Oldest(rest)})
    BY <2>1, <2>2, <2>3, PostSound DEF Waiting
  <2> QED BY <2>4
<1>7. CASE OneAnswered(c)
  <2> DEFINE s == sess[c]
             o == Oldest(s.rest)
             next == [s EXCEPT !.pc = "isolate", !.reply = NoReply, !.rest = @ \ {o},
                               !.progressed = TRUE]
             more == [next EXCEPT !.accepted = @ \cup s.reply.acks]
             stop == [s EXCEPT !.pc = "isolate", !.reply = NoReply, !.rest = {}]
  <2>0. /\ s.pc = "isoWait" /\ s.page = {} /\ Whole(s.rest) /\ UNCHANGED serverVars
        /\ s.reply.kind = "ok" => InLog(o)
        /\ s.reply.kind = "terminal" => o \in MissingBlob
    BY <1>0, <1>7 DEF OneAnswered, At, SessionSound
  <2>1. \/ Become(c, more) /\ s.reply.kind = "ok"
        \/ Become(c, next) /\ s.reply.kind = "terminal"
        \/ Become(c, stop) \/ Become(c, Offline)
    BY <1>7 DEF OneAnswered, HoldBack
  <2>2. /\ next.pc = "isolate" /\ next.page = {} /\ next.reply = NoReply
        /\ next.rest = s.rest \ {o} /\ next \in Session
        /\ stop.pc = "isolate" /\ stop.page = {} /\ stop.reply = NoReply /\ stop.rest = {}
    BY <1>0, <2>0, OfflineType DEF Session
  <2>3. more.pc = next.pc /\ more.page = next.page /\ more.reply = next.reply
        /\ more.rest = next.rest
    <3> HIDE DEF next
    <3> QED BY <2>2 DEF Session
  <2>4. inbox' = inbox
    BY <2>0 DEF serverVars
  <2> HIDE DEF next, more, stop
  <2>5. SessionSound(stop)
    BY <2>2 DEF SessionSound, Whole, Waiting
  <2>6. ASSUME s.reply.kind \in {"ok", "terminal"} PROVE SessionSound(next) /\ SessionSound(more)
    <3>1. Whole(s.rest \ {o})
      BY <1>0, <2>0, <2>6, WholeRest
    <3> QED BY <2>2, <2>3, <3>1 DEF SessionSound, Waiting
  <2> QED BY <1>b, <1>c, <2>1, <2>4, <2>5, <2>6
<1>8. CASE Isolated(c)
  BY <1>0, <1>8, <1>s DEF Isolated, At, SessionSound
<1> QED BY <1>1, <1>2, <1>3, <1>4, <1>5, <1>6, <1>7, <1>8 DEF TaskStep

(* A session that goes on waiting, or hears the truth, stays sound. *)
LEMMA SessionKept ==
  ASSUME Reliable, OutboxInv, Next, NEW c \in Client,
         sess'[c].pc = sess[c].pc, sess'[c].page = sess[c].page,
         sess'[c].sent = sess[c].sent, sess'[c].rest = sess[c].rest,
         \/ sess'[c].reply = sess[c].reply
         \/ /\ sess[c].pc \in Waiting
            /\ sess'[c].reply.kind \in {"ok", "transient"}
            /\ sess[c].pc = "isoWait" /\ sess'[c].reply.kind = "ok"
                 => InLog(Oldest(sess[c].rest))
  PROVE  SessionSound(sess[c])'
<1>1. /\ SessionSound(sess[c]) /\ sess[c].sent \subseteq Born /\ sess[c].rest \subseteq Born
      /\ CleanInv
  BY DEF OutboxInv, Exchange, CleanInv, LogInv, OnlyBorn
<1>2. /\ Whole(sess[c].sent) => \A b \in sess[c].sent : Earlier(b)' \subseteq sess[c].sent
      /\ Whole(sess[c].rest) => \A b \in sess[c].rest : Earlier(b)' \subseteq sess[c].rest
  BY <1>1, WholeStays
<1>3. PICK o : o = Oldest(sess[c].rest)
  OBVIOUS
<1>4. o = Oldest(sess'[c].rest) /\ (InLog(o) => InLog(o)')
  BY <1>1, <1>3, InLogStays
<1>5. /\ sess[c].pc = "wait" => Whole(sess[c].sent)
      /\ sess[c].pc \in {"isolate", "isoWait"} => Whole(sess[c].rest)
  BY <1>1 DEF SessionSound
<1>6. /\ sess'[c].pc = "wait" => \A b \in sess'[c].sent : Earlier(b)' \subseteq sess'[c].sent
      /\ sess'[c].pc \in {"isolate", "isoWait"}
           => \A b \in sess'[c].rest : Earlier(b)' \subseteq sess'[c].rest
  BY <1>2, <1>5
<1>7. sess'[c].pc = "isoWait" =>
        /\ sess'[c].rest # {}
        /\ sess'[c].reply.kind = "ok" => InLog(o)'
        /\ sess'[c].reply.kind = "terminal" => o \in MissingBlob
  BY <1>1, <1>3, <1>4 DEF SessionSound
<1>8. /\ sess'[c].pc \notin Waiting => sess'[c].reply = NoReply
      /\ sess'[c].page # {} => sess'[c].pc \in {"pull", "repull"}
  BY <1>1 DEF SessionSound
<1>9. sess'[c].reply.kind = "ok" /\ sess'[c].pc = "isoWait" => InLog(Oldest(sess[c].rest))'
  BY <1>4, <1>7 DEF InLog
<1> QED BY <1>4, <1>6, <1>7, <1>8, <1>9 DEF SessionSound, Whole

(* Requests, answers and sessions stay matched, after every step. *)
LEMMA StepExchange ==
  ASSUME Reliable, OutboxInv, Next
  PROVE  Exchange'
<1>0. /\ CleanInv /\ TypeOK /\ JobSound /\ Exchange /\ sess \in [Client -> Session]
      /\ job \in Job /\ inbox \subseteq Request
      /\ \A r \in inbox : r.ops \subseteq Born
      /\ job.ops \subseteq Born /\ Whole({}) /\ NoJob.ops = {} /\ NoJob.from \notin Client
  BY ServerAssumption
  DEF OutboxInv, CleanInv, LogInv, TypeOK, OnlyBorn, Whole, NoJob
<1>e. /\ \A r \in inbox : /\ Whole(r.ops)
                          /\ r.from \in Client
                               => Awaits(sess[r.from], r.ops) /\ job.from # r.from
      /\ \A r, q \in inbox : r.from \in Client /\ q.from = r.from => q = r
      /\ Whole(job.ops)
      /\ job.from \in Client => Awaits(sess[job.from], job.ops)
  BY <1>0 DEF Exchange
<1>m. ASSUME \A c \in Client : SessionSound(sess[c])',
             \A r \in inbox' :
               /\ r.ops \subseteq Born /\ Whole(r.ops)
               /\ r.from \in Client => Awaits(sess'[r.from], r.ops) /\ job'.from # r.from,
             \A r, q \in inbox' : r.from \in Client /\ q.from = r.from => q = r,
             job'.ops \subseteq Born, Whole(job'.ops),
             job'.from \in Client => Awaits(sess'[job'.from], job'.ops)
      PROVE  Exchange'
  <2>1. ASSUME NEW r \in inbox' PROVE \A b \in r.ops : Earlier(b)' \subseteq r.ops
    BY <1>0, <1>m, <2>1, WholeStays
  <2>2. \A b \in job'.ops : Earlier(b)' \subseteq job'.ops
    BY <1>0, <1>m, WholeStays
  <2> QED BY <1>m, <2>1, <2>2 DEF Exchange, Whole, Awaits
<1>k. ASSUME sess' = sess PROVE \A c \in Client : SessionSound(sess[c])'
  BY <1>k, SessionKept
<1>1. CASE ServerAuthor \/ ServerAppend \/ ServerRestart \/ BlobArrives
           \/ \E c \in Client : Edit(c) \/ Release(c)
  <2>1. sess' = sess /\ inbox' = inbox /\ job'.ops = job.ops /\ job'.from = job.from
    <3>1. CASE ServerAppend
      BY <1>0, <3>1 DEF ServerAppend, AppendOne, AppendFails, Job, clientVars
    <3> QED BY <1>1, <3>1 DEF ServerAuthor, ServerRestart, Restart, BlobArrives, Edit, Release,
                              serverVars, clientVars
  <2> QED BY <1>0, <1>e, <1>k, <1>m, <2>1
<1>2. CASE ServerPublish
  <2> DEFINE head == OutboxHead(out[Server], {}, Batch)
             r == [from |-> Server, ops |-> head, tag |-> 0]
  <2>1. sess' = sess /\ job' = job /\ inbox' = inbox \cup {r}
    BY <1>2 DEF ServerPublish, PublishAuthored, Enqueue, clientVars
  <2>2. Whole(head) /\ head \subseteq Born
    BY <1>0, WholeHead, OutboxHeadLemma DEF Peer, CleanInv, LogInv, OnlyBorn
  <2>3. r.from \notin Client /\ r.ops = head
    BY ServerAssumption
  <2> HIDE DEF head, r
  <2> QED BY <1>0, <1>e, <1>k, <1>m, <2>1, <2>2, <2>3
<1>3. CASE ServerStart
  <2>1. PICK r \in inbox : /\ inbox' = inbox \ {r} /\ job'.ops = r.ops /\ job'.from = r.from
                           /\ sess' = sess
    BY <1>3 DEF ServerStart, StartIngest, clientVars
  <2> QED BY <1>0, <1>e, <1>k, <1>m, <2>1
<1>4. CASE ServerApply
  <2>1. /\ inbox' = inbox /\ job' = NoJob
        /\ \A o \in job.ops : InLog(o)
    BY <1>0, <1>4 DEF ServerApply, ApplyOk, JobSound
  <2>2. \A c \in Client : c # job.from => sess'[c] = sess[c]
    BY <1>4 DEF ServerApply, Respond
  <2>3. ASSUME NEW c \in Client PROVE SessionSound(sess[c])'
    <3>1. CASE c # job.from
      BY <2>2, <3>1, SessionKept
    <3>2. CASE c = job.from
      <4>1. Awaits(sess[c], job.ops)
        BY <1>e, <3>2
      <4>2. PICK a : \E kind \in {"ok", "transient"} :
                       sess'[c] = [sess[c] EXCEPT !.reply = [kind |-> kind, acks |-> a]]
        BY <1>4, <3>2 DEF ServerApply, Respond
      <4>3. /\ sess'[c].pc = sess[c].pc /\ sess'[c].page = sess[c].page
            /\ sess'[c].sent = sess[c].sent /\ sess'[c].rest = sess[c].rest
            /\ sess'[c].reply.kind \in {"ok", "transient"}
        BY <1>0, <4>2 DEF Session
      <4>4. sess[c].pc = "isoWait" => InLog(Oldest(sess[c].rest))
        BY <2>1, <4>1 DEF Awaits
      <4> QED BY <4>1, <4>3, <4>4, SessionKept DEF Awaits
    <3> QED BY <3>1, <3>2
  <2> QED BY <1>0, <1>e, <1>m, <2>1, <2>2, <2>3
<1>5. CASE ServerCrash
  <2>1. inbox' = {} /\ job' = NoJob
    BY <1>5 DEF ServerCrash, Crash
  <2>2. ASSUME NEW c \in Client PROVE SessionSound(sess[c])'
    <3>1. CASE sess'[c] = sess[c]
      BY <3>1, SessionKept
    <3>2. CASE sess[c].pc \in Waiting /\ sess'[c] = [sess[c] EXCEPT !.reply = Transient]
      <4>1. /\ sess'[c].pc = sess[c].pc /\ sess'[c].page = sess[c].page
            /\ sess'[c].sent = sess[c].sent /\ sess'[c].rest = sess[c].rest
            /\ sess'[c].reply.kind = "transient"
        BY <1>0, <3>2 DEF Session, Transient
      <4> QED BY <3>2, <4>1, SessionKept
    <3> QED BY <1>5, <3>1, <3>2 DEF ServerCrash, Waiting
  <2> QED BY <1>0, <1>m, <2>1, <2>2
<1>6. ~ ServerRefuse /\ ~ ServerRollback /\ ~ ServerRolledBack
  BY <1>0, IngestFits
  DEF ServerRefuse, ApplyFails, Refuses, Reliable, ServerRollback, RemoveTail, ServerRolledBack,
      RolledBack, CleanInv, NoRollback
<1>7. ASSUME NEW c \in Client, TaskStep(c) PROVE Exchange'
  <2>1. PICK ops : Posted(c, ops)
    BY <1>7, TaskSound
  <2>2. PICK s : Become(c, s)
    BY <1>0, <1>7, TaskSession DEF NewSession
  <2>3. /\ \A d \in Client : d # c => sess'[d] = sess[d]
        /\ UNCHANGED <<oplog, author, job>>
        /\ job.from # c /\ \A r \in inbox : r.from # c
    BY <1>0, <1>7, <2>2, TaskFrame, TaskFree DEF Become
  <2>4. ASSUME NEW d \in Client PROVE SessionSound(sess[d])'
    <3>1. CASE d # c
      BY <2>3, <3>1, SessionKept
    <3>2. CASE d = c
      BY <2>1, <2>3, <3>2 DEF Posted, SessionSound, Whole, Earlier, InLog
    <3> QED BY <3>1, <3>2
  <2>5. CASE inbox' = inbox
    BY <1>0, <1>e, <1>m, <2>3, <2>4, <2>5
  <2>6. CASE Enqueue(c, ops) /\ Whole(ops) /\ Awaits(sess'[c], ops)
    <3> DEFINE r == [from |-> c, ops |-> ops, tag |-> 0]
    <3>1. inbox' = inbox \cup {r} /\ r.from = c /\ r.ops = ops
      BY <2>6 DEF Enqueue
    <3>2. ops \subseteq Born
      <4>1. OnlyBorn' /\ Born' = Born
        BY <1>0, <1>7, StepBorn, TaskFrame DEF CleanInv, LogInv, Born
      <4> QED BY <3>1, <4>1 DEF OnlyBorn
    <3> HIDE DEF r
    <3> QED BY <1>0, <1>e, <1>m, <2>3, <2>4, <2>6, <3>1, <3>2
  <2> QED BY <2>1, <2>5, <2>6 DEF Posted
<1>8. ASSUME NEW c \in Client, Drop(c) PROVE Exchange'
  <2> DEFINE gone(r) == [r EXCEPT !.from = Nobody, !.tag = drops + 1]
  <2>1. /\ sess' = [sess EXCEPT ![c] = Offline]
        /\ inbox' = {IF r.from = c THEN gone(r) ELSE r : r \in inbox}
        /\ job' = IF job.from = c THEN [job EXCEPT !.from = Nobody] ELSE job
    BY <1>8 DEF Drop, Become
  <2>2. \A r \in inbox : gone(r).from = Nobody /\ gone(r).ops = r.ops
    BY <1>0 DEF Request
  <2>3. /\ Nobody \notin Client /\ job'.ops = job.ops
        /\ job'.from = Nobody \/ (job'.from = job.from /\ job.from # c)
    BY <1>0, <2>1, ServerAssumption DEF Job
  <2>4. ASSUME NEW q \in inbox'
        PROVE  \E r \in inbox : /\ q.ops = r.ops
                                /\ q.from \notin Client \/ (q = r /\ r.from # c)
    BY <2>1, <2>2, <2>3
  <2>5. ASSUME NEW d \in Client PROVE SessionSound(sess[d])'
    <3>1. CASE d # c
      BY <1>0, <2>1, <3>1, SessionKept
    <3>2. CASE d = c
      <4>1. sess'[d] = Offline
        BY <1>0, <2>1, <3>2
      <4> QED BY <4>1 DEF SessionSound, Offline, NoReply, Waiting
    <3> QED BY <3>1, <3>2
  <2> HIDE DEF gone
  <2>6. \A d \in Client : d # c => sess'[d] = sess[d]
    BY <1>0, <2>1
  <2>7. \A q \in inbox' :
          /\ q.ops \subseteq Born /\ Whole(q.ops)
          /\ q.from \in Client => Awaits(sess'[q.from], q.ops) /\ job'.from # q.from
    BY <1>0, <1>e, <2>3, <2>4, <2>6
  <2>8. \A r, q \in inbox' : r.from \in Client /\ q.from = r.from => q = r
    BY <1>e, <2>4
  <2>9. job'.from \in Client => Awaits(sess'[job'.from], job'.ops)
    BY <1>e, <2>3, <2>6
  <2> QED BY <1>0, <1>e, <1>m, <2>3, <2>5, <2>7, <2>8, <2>9
<1> QED BY <1>1, <1>2, <1>3, <1>4, <1>5, <1>6, <1>7, <1>8 DEF Next, ActorStep

(* The outboxes through every step of clients, actor and network. *)
THEOREM OutboxInvariant == ASSUME Reliable PROVE Spec => []OutboxInv
<1>1. Init => QueuesOwn /\ Exchange /\ OutboxKept
  <2> SUFFICES ASSUME Init PROVE QueuesOwn /\ Exchange /\ OutboxKept
    OBVIOUS
  <2>1. QueuesOwn
    BY DEF Init, ServerInit, QueuesOwn
  <2>2. Exchange
    <3>1. \A c \in Client : SessionSound(sess[c])
      BY DEF Init, SessionSound, Offline, NoReply, Waiting
    <3>2. inbox = {} /\ job.ops = {} /\ job.from \notin Client
      BY ServerAssumption DEF Init, ServerInit, NoJob
    <3> QED BY <3>1, <3>2 DEF Exchange, Whole
  <2>3. OutboxKept
    BY DEF Init, ServerInit, OutboxKept, NoneStranded, AuthorOrder, InLog, NoRow, Null
  <2> QED BY <2>1, <2>2, <2>3
<1>2. CleanInv /\ CleanInv' /\ OutboxInv /\ [Next]_vars => OutboxInv'
  <2> SUFFICES ASSUME CleanInv', OutboxInv, [Next]_vars PROVE OutboxInv'
    OBVIOUS
  <2>1. CASE Next
    BY <2>1, StepStranded, StepOrder, StepQueues, StepExchange DEF OutboxInv, OutboxKept
  <2>2. CASE UNCHANGED vars
    BY <2>2 DEF vars, serverVars, OutboxInv, OutboxKept, NoneStranded, AuthorOrder, QueuesOwn,
                Exchange, SessionSound, Whole, Earlier, Awaits, InLog, SeqOf
  <2> QED BY <2>1, <2>2
<1>3. OutboxInv <=> CleanInv /\ OutboxKept /\ QueuesOwn /\ Exchange
  BY DEF OutboxInv
<1> QED BY <1>1, <1>2, <1>3, CleanInvariant, PTL DEF Spec

(* No outbox loses or reorders what its author wrote: every unsequenced row is
   queued, and an author's operations stand in the log in the order they were
   written, except past what the server refused (pending_outbox,
   isolate_rejected_batch, acknowledge_server_ops). *)
THEOREM OutboxKeptTheorem == ASSUME Reliable PROVE Spec => []OutboxKept
<1>1. OutboxInv => OutboxKept
  BY DEF OutboxInv
<1> QED BY <1>1, OutboxInvariant, PTL
============================================================================
