---------------------------- MODULE Convergence ----------------------------
(***************************************************************************)
(* Devices and the server edit one set of notes, each on its own database, *)
(* and exchange operations through the server's log.  How operations get   *)
(* into the log and out of it, in which packets and across which failures, *)
(* is SyncHttp's subject; here a push appends a run of a peer's outbox and *)
(* the server applies it as one batch, a pull applies a run of the log as  *)
(* one batch.  A peer has applied its own operations before anybody else's *)
(* that the log lists earlier, so no two replicas apply in one order.      *)
(*                                                                         *)
(* The question is whether the state depends on the operations alone.      *)
(***************************************************************************)
EXTENDS ApplyOps, SequencesExt

CONSTANTS
  Client,     \* devices
  Server,     \* the server's replica, which also takes edits
  Commands,   \* the user's commands that this instance lets happen
  Seed,       \* operations everybody starts with, stamped 1 .. Len(Seed)
  MaxHlc,     \* bound: clocks, and so operations
  Author      \* the peers that edit

Peer == Client \cup {Server}
CommandNames == {"createPage", "createNote", "capture", "rename", "setLayout", "deletePage", "createBlock",
                 "setContent", "setStyle", "moveBlock", "deleteBlock", "restoreBlock",
                 "ensureJournal", "appendToJournal", "attach"}

ASSUME PeerAssumption == Server \notin Client /\ Author \subseteq Peer
ASSUME CommandsAssumption == Commands \subseteq CommandNames
ASSUME MaxHlcAssumption == MaxHlc \in Nat /\ Len(Seed) <= MaxHlc

VARIABLES
  db,        \* [Peer -> database]
  log,       \* the oplog
  pos,       \* [Peer -> Nat], last_server_seq; the server's is the whole log
  pending    \* [Peer -> Seq], sync_outbox

vars == <<db, log, pos, pending>>

(* One transaction: apply_local_kinds projects after each operation, a batch
   that sync delivers once at its end. *)
ApplyAll(d, ops, deferred) ==
  FinishApply(FoldLeft(ApplyOne, BeginApply(d, deferred), ops))

(* Everything p has applied. *)
Known(p) ==
  {log[i] : i \in 1 .. pos[p]} \cup {log[i] : i \in {j \in 1 .. Len(log) : log[j].by = p}}
    \cup Range(pending[p])

Written == Range(log) \cup UNION {Range(pending[p]) : p \in Peer}
LastHlc(p) == Max({0} \cup {o.hlc : o \in Known(p)})

Init ==
  /\ log = Seed
  /\ pos = [p \in Peer |-> Len(Seed)]
  /\ pending = [p \in Peer |-> <<>>]
  /\ db = [p \in Peer |-> ApplyAll(EmptyDb, Seed, TRUE)]

----------------------------------------------------------------------------
(* A command's operations get clocks above everything the replica has seen;
   clocks of other replicas may fall between them.  One transaction applies
   and queues them. *)
Perform(p, kinds) ==
  /\ p \in Author
  /\ \E clocks \in SUBSET {h \in LastHlc(p) + 1 .. MaxHlc : \A o \in Written : o.hlc # h} :
       /\ Cardinality(clocks) = Len(kinds)
       /\ LET stamped == SetToSortSeq(clocks, <)
              ops == [i \in 1 .. Len(kinds) |-> kinds[i] @@ [hlc |-> stamped[i], by |-> p]]
          IN /\ db' = [db EXCEPT ![p] = ApplyAll(@, ops, FALSE)]
             /\ pending' = [pending EXCEPT ![p] = @ \o ops]
  /\ UNCHANGED <<log, pos>>

(* A UUID is new when no operation of anybody names it. *)
Unused(field, x) == \A o \in Written : field \in DOMAIN o => o[field] # x

NewPage(p, title) == [kind |-> "PageCreate", page |-> p, title |-> title]
NewBlock(b, p, parent) == [kind |-> "BlockCreate", block |-> b, page |-> p, parent |-> parent]
Move(d, b, parent) ==
  [kind |-> "BlockMove", block |-> b, page |-> d.blocks[b].page, parent |-> parent]

Siblings(d, p, parent) ==
  {b \in LiveBlocks(d) : d.blocks[b].page = p /\ d.blocks[b].parent = parent}

(* sibling_placement: when no key is left between two neighbours, the siblings
   whose key changes by renumbering are moved, to the parent this replica shows. *)
Rekeyings(d, p, parent, except) ==
  LET inOrder(bs) == SetToSortSeq(bs, LAMBDA a, b : d.blocks[a].order < d.blocks[b].order)
      moves(s) == [i \in 1 .. Len(s) |-> Move(d, s[i], parent)]
  IN {moves(inOrder(bs)) : bs \in SUBSET (Siblings(d, p, parent) \ {except})}

TitleFree(d, p, title) == \A q \in Page \ {p} : title # None => d.pages[q].title # title

CreatePage(p) ==
  /\ "createPage" \in Commands
  /\ \E q \in Page \ Journal, title \in Title :
       /\ Unused("page", q)
       /\ TitleFree(db[p], q, title)
       /\ Perform(p, <<NewPage(q, title)>>)

(* A page with its first, empty block. *)
CreateNote(p) ==
  /\ "createNote" \in Commands
  /\ \E q \in Page \ Journal, b \in Block, title \in Title \cup {None} :
       /\ Unused("page", q) /\ Unused("block", b)
       /\ TitleFree(db[p], q, title)
       /\ Perform(p, <<NewPage(q, title), NewBlock(b, q, None)>>)

(* create_page_with_markdown: a block at the end of the page with that title,
   which is created when nobody has it. *)
CaptureNote(p) ==
  /\ "capture" \in Commands
  /\ \E b \in Block, title \in Title :
       /\ Unused("block", b)
       /\ \/ \E q \in LivePages(db[p]) :
               /\ db[p].pages[q].title = title
               /\ \E rekeyed \in Rekeyings(db[p], q, None, None) :
                    Perform(p, <<NewBlock(b, q, None)>> \o rekeyed)
          \/ \E q \in Page \ Journal :
               /\ Unused("page", q)
               /\ TitleFree(db[p], q, title)
               /\ Perform(p, <<NewPage(q, title), NewBlock(b, q, None)>>)

(* rename_page_if_revision, the form the app and the server use. *)
RenamePage(p) ==
  /\ "rename" \in Commands
  /\ \E q \in LivePages(db[p]) \ Journal, title \in Title \cup {None} :
       /\ db[p].pages[q].title # title
       /\ TitleFree(db[p], q, title)
       /\ Perform(p, <<[kind |-> "PageSetTitle", page |-> q, title |-> title]>>)

SetPageLayout(p) ==
  /\ "setLayout" \in Commands
  /\ \E q \in LivePages(db[p]) : Perform(p, <<[kind |-> "PageSetLayout", page |-> q]>>)

(* Attachments, then blocks from the leaves up, then the page. *)
DeletePage(p) ==
  /\ "deletePage" \in Commands
  /\ \E q \in LivePages(db[p]) :
       LET d == db[p]
           blocks == {b \in LiveBlocks(d) : d.blocks[b].page = q}
           depth(b) == Cardinality(Above([c \in Block |-> d.blocks[c].parent], b))
           deepest == SetToSortSeq(blocks, LAMBDA a, b :
             \/ depth(a) > depth(b)
             \/ depth(a) = depth(b) /\ d.blocks[a].order < d.blocks[b].order)
           shown == SetToSeq(d.shown \cap (blocks \cup {q}))
       IN Perform(p,
            [i \in 1 .. Len(shown) |->
               [kind |-> "AttachmentSet", owner |-> shown[i], present |-> FALSE]]
            \o [i \in 1 .. Len(deepest) |->
                  [kind |-> "BlockDelete", block |-> deepest[i], page |-> q]]
            \o <<[kind |-> "PageDelete", page |-> q]>>)

CreateBlock(p) ==
  /\ "createBlock" \in Commands
  /\ \E b \in Block, q \in LivePages(db[p]) : \E parent \in LiveBlocks(db[p]) \cup {None} :
       /\ Unused("block", b)
       /\ parent # None => db[p].blocks[parent].page = q
       /\ \E rekeyed \in Rekeyings(db[p], q, parent, None) :
            Perform(p, <<NewBlock(b, q, parent)>> \o rekeyed)

SetBlockContent(p) ==
  /\ "setContent" \in Commands
  /\ \E b \in LiveBlocks(db[p]) : Perform(p, <<[kind |-> "BlockSetMarkdown", block |-> b]>>)

SetBlockStyle(p) ==
  /\ "setStyle" \in Commands
  /\ \E b \in LiveBlocks(db[p]) : Perform(p, <<[kind |-> "BlockSetStyle", block |-> b]>>)

(* move_block, reorder, indent and outdent: within the page, never under the
   block itself or a descendant. *)
MoveBlock(p) ==
  /\ "moveBlock" \in Commands
  /\ \E b \in LiveBlocks(db[p]) :
       LET d == db[p]
           parents == [c \in Block |-> d.blocks[c].parent]
       IN \E parent \in (LiveBlocks(d) \ {b}) \cup {None} :
            /\ parent # None => /\ d.blocks[parent].page = d.blocks[b].page
                                /\ b \notin Above(parents, parent)
            /\ \E rekeyed \in Rekeyings(d, d.blocks[b].page, parent, b) :
                 Perform(p, <<Move(d, b, parent)>> \o rekeyed)

(* Only a leaf can be deleted. *)
DeleteBlock(p) ==
  /\ "deleteBlock" \in Commands
  /\ \E b \in LiveBlocks(db[p]) :
       /\ Children(db[p], b) = {}
       /\ Perform(p, <<[kind |-> "BlockDelete", block |-> b, page |-> db[p].blocks[b].page]>>)

(* Undo of a deletion (History has the whole of undo and redo): the peer's own
   deletion still stands, so the block is created again under its old UUID, with
   a new clock.  Only blocks that never had a parent. *)
RestoreBlock(p) ==
  /\ "restoreBlock" \in Commands
  /\ \E o \in Known(p) :
       /\ o.kind = "BlockDelete" /\ o.by = p
       /\ db[p].tomb[o.block] = o.hlc
       /\ o.page \in LivePages(db[p])
       /\ \A w \in Known(p) :
            w.kind \in {"BlockCreate", "BlockMove"} /\ w.block = o.block => w.parent = None
       /\ Perform(p, <<NewBlock(o.block, o.page, None)>>)

EnsureJournal(p) ==
  /\ "ensureJournal" \in Commands
  /\ \E j \in Journal \ LivePages(db[p]) : Perform(p, <<NewPage(j, None)>>)

AppendToJournal(p) ==
  /\ "appendToJournal" \in Commands
  /\ \E j \in Journal, b \in Block :
       /\ Unused("block", b)
       /\ Perform(p, (IF j \in LivePages(db[p]) THEN <<>> ELSE <<NewPage(j, None)>>)
                       \o <<NewBlock(b, j, None)>>)

(* add_attachment on an existing owner, delete_attachment of one shown. *)
Attach(p) ==
  /\ "attach" \in Commands
  /\ \E o \in Owner, present \in BOOLEAN :
       /\ IF present THEN Alive(db[p], o) ELSE o \in db[p].shown
       /\ Perform(p, <<[kind |-> "AttachmentSet", owner |-> o, present |-> present]>>)

----------------------------------------------------------------------------
NotOwn(p, ops) == SelectSeq(ops, LAMBDA o : o.by # p)

(* A push: the log gets the oldest n operations of the outbox, the server's
   replica applies the ones it did not write itself. *)
Push(p) ==
  \E n \in 1 .. Len(pending[p]) :
    LET ops == SubSeq(pending[p], 1, n) IN
      /\ log' = log \o ops
      /\ pos' = [pos EXCEPT ![Server] = Len(log')]
      /\ db' = [db EXCEPT ![Server] = ApplyAll(@, NotOwn(Server, ops), TRUE)]
      /\ pending' = [pending EXCEPT ![p] = SubSeq(@, n + 1, Len(@))]

(* A page of the log. *)
Pull(c) ==
  \E n \in pos[c] + 1 .. Len(log) :
    /\ db' = [db EXCEPT ![c] = ApplyAll(@, NotOwn(c, SubSeq(log, pos[c] + 1, n)), TRUE)]
    /\ pos' = [pos EXCEPT ![c] = n]
    /\ UNCHANGED <<log, pending>>

Command(p) ==
  \/ CreatePage(p) \/ CreateNote(p) \/ CaptureNote(p) \/ RenamePage(p)
  \/ SetPageLayout(p) \/ DeletePage(p)
  \/ CreateBlock(p) \/ SetBlockContent(p) \/ SetBlockStyle(p) \/ MoveBlock(p)
  \/ DeleteBlock(p) \/ RestoreBlock(p) \/ EnsureJournal(p) \/ AppendToJournal(p) \/ Attach(p)

Next ==
  \/ \E p \in Peer : Command(p) \/ Push(p)
  \/ \E c \in Client : Pull(c)

Spec == Init /\ [][Next]_vars

----------------------------------------------------------------------------
(* What the operations of a set mean, whatever the order: a delete ends an
   object for good, a page's blocks end with it, each field has its latest
   value, placements are resolved over all blocks at once. *)
Naming(S, kinds, field, x) == {o \in S : o.kind \in kinds /\ o[field] = x}
Latest(S) == Max({0} \cup {o.hlc : o \in S})
LatestOp(S) == CHOOSE o \in S : o.hlc = Latest(S)

MeantPages(S) ==
  {p \in Page : /\ Naming(S, {"PageCreate"}, "page", p) # {}
                /\ Naming(S, {"PageDelete"}, "page", p) = {}}

MeantBlocks(S) ==
  {b \in Block : /\ \E o \in Naming(S, {"BlockCreate"}, "block", b) : o.page \in MeantPages(S)
                 /\ Naming(S, {"BlockDelete"}, "block", b) = {}}

MeantTitle(S, p) ==
  LET wish(q) == LatestOp(Naming(S, {"PageCreate", "PageSetTitle"}, "page", q))
  IN IF \E q \in MeantPages(S) : /\ wish(q).title = wish(p).title
                                 /\ wish(q).hlc > wish(p).hlc
       THEN None ELSE wish(p).title

MeantParents(S) ==
  LET live == MeantBlocks(S)
      wish(b) == LatestOp(Naming(S, {"BlockCreate", "BlockMove"}, "block", b))
  IN BreakCycles([b \in live |-> IF wish(b).parent \in live THEN wish(b).parent ELSE None],
                 [b \in live |-> wish(b).hlc])

MeantShown(S) ==
  {o \in MeantPages(S) \cup MeantBlocks(S) :
     LET wishes == Naming(S, {"AttachmentSet"}, "owner", o)
     IN wishes # {} /\ LatestOp(wishes).present}

Meaning(S) ==
  LET blocks == MeantBlocks(S)
      parents == MeantParents(S)
      latest(kinds, field, x) == Latest(Naming(S, kinds, field, x))
  IN [pages |-> [p \in MeantPages(S) |->
                   [title |-> MeantTitle(S, p),
                    layout |-> latest({"PageCreate", "PageSetLayout"}, "page", p)]],
      blocks |-> [b \in blocks |->
                   [page |-> (CHOOSE o \in S : o.kind = "BlockCreate" /\ o.block = b).page,
                    parent |-> parents[b],
                    order |-> latest({"BlockCreate", "BlockMove"}, "block", b),
                    md |-> latest({"BlockCreate", "BlockSetMarkdown"}, "block", b),
                    style |-> latest({"BlockCreate", "BlockSetStyle"}, "block", b)]],
      shown |-> MeantShown(S)]

(* What the user of a database sees. *)
View(d) ==
  [pages |-> [p \in LivePages(d) |-> [title |-> d.pages[p].title, layout |-> d.pages[p].layout]],
   blocks |-> [b \in LiveBlocks(d) |->
                [page |-> d.blocks[b].page, parent |-> d.blocks[b].parent,
                 order |-> d.blocks[b].order, md |-> d.blocks[b].md,
                 style |-> d.blocks[b].style]],
   shown |-> d.shown]

----------------------------------------------------------------------------
(* Each replica shows, at every moment, what the operations it has applied
   mean: neither the order they came in nor the packets they came in can be
   seen.  Late edits of deleted blocks, creates under deleted pages, moves that
   close a cycle on another device are all included. *)
OrderIndependent == \A p \in Peer : View(db[p]) = Meaning(Known(p))

(* Replicas that have exchanged everything show the same. *)
Quiet == \A p \in Peer : pending[p] = <<>> /\ pos[p] = Len(log)
Converged == Quiet => \A p, q \in Peer : View(db[p]) = View(db[q])

(* Whatever concurrent moves and deletes left behind, the blocks of a page form
   a forest: `a block cannot be moved under one of its descendants`. *)
Forest ==
  \A p \in Peer :
    LET d == db[p]
        parents == [b \in Block |-> d.blocks[b].parent]
    IN \A b \in LiveBlocks(d) :
         /\ d.blocks[b].page \in LivePages(d)
         /\ parents[b] # None => /\ parents[b] \in LiveBlocks(d)
                                 /\ d.blocks[parents[b]].page = d.blocks[b].page
         /\ b \notin Above(parents, b)

(* The component loader never misses a block: resolving the whole database
   again would change nothing. *)
FullyProjected == \A p \in Peer : Reconcile(db[p], Block) = db[p]

(* The outline of every replica is the finished projection of its intentions,
   and a forest, after every step. *)
SoundOutline == Forest /\ FullyProjected

(* What a client still has to pull ends in the same database in one packet and
   in packets of one: deferring the projection cannot be seen. *)
PacketsInvisible ==
  \A c \in Client :
    LET rest == NotOwn(c, SubSeq(log, pos[c] + 1, Len(log)))
        single(d, o) == ApplyAll(d, <<o>>, TRUE)
    IN ApplyAll(db[c], rest, TRUE) = FoldLeft(single, db[c], rest)

(* No operation that reached the log is refused anywhere: its page was created
   before it. *)
NeverRefused == \A p \in Peer : ~ db[p].refused

(* What is tombstoned has no row, no intention and no attachment left. *)
NoRemains ==
  \A p \in Peer, o \in Owner :
    db[p].tomb[o] # 0 => /\ ~ Alive(db[p], o)
                         /\ o \notin db[p].shown
                         /\ o \in Block => db[p].intent[o] = NoIntent

(* An operation that comes late, to something another device has deleted, is
   neither an error nor a resurrection (NotFound of apply_one, tombstones). *)
LateHarmless == NeverRefused /\ NoRemains

(* A title names one page, on every replica. *)
TitlesUnique ==
  \A p \in Peer : \A q, r \in LivePages(db[p]) :
    q # r /\ db[p].pages[q].title # None => db[p].pages[q].title # db[p].pages[r].title

(* Replicas settle who has a title or a day: each shows a title once, and they
   show the same once they have exchanged everything. *)
ClaimsSettled == Converged /\ TitlesUnique

(* Any replica can be handed to a new device: the snapshot it exports passes
   the checks of the import, which puts the same database back together. *)
SnapshotRestores ==
  \A p \in Peer : /\ ValidRows(db[p])
                  /\ ValidIntents(db[p])
                  /\ Restored(db[p]) = db[p]
============================================================================
