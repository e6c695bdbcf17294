------------------------------ MODULE ApplyOps -----------------------------
(***************************************************************************)
(* apply_one_with_effects of notes-core/src/operation.rs: what one         *)
(* replicated operation does to a notes database.  Beside the fields that  *)
(* Structure reads, a database has                                         *)
(*   pages[p]   [exist, title, titleHlc, layout]                           *)
(*   blocks[b]  [exist, page, parent, order, md, style]                    *)
(*   tomb, root tombstones: deleted_hlc (0 = none) and root_page_uuid      *)
(*   att        attachment_lww of the owner's one blob: [hlc, present]     *)
(*   shown      the owners whose attachment row is materialised            *)
(*   refused    an operation met an error.  The code rolls its transaction *)
(*              back; here the error is recorded and the rest applied,     *)
(*              since Convergence shows that it never happens.             *)
(* Field values are the clocks they were written with.  Titles are values, *)
(* because pages compete for them.  UUIDs of pages and blocks are disjoint *)
(* sets, so ensure_object_kind never fires; every page holds text.         *)
(***************************************************************************)
EXTENDS Structure

CONSTANTS
  Title,
  Journal     \* pages whose UUID is derived from a date

ASSUME JournalAssumption == Journal \subseteq Page
ASSUME TitleAssumption == None \notin Title

Owner == Page \cup Block

NoPageRow == [exist |-> 0, title |-> None, titleHlc |-> 0, layout |-> 0]
NoBlockRow == [exist |-> 0, page |-> None, parent |-> None, order |-> 0,
               md |-> 0, style |-> 0]
NoIntent == [page |-> None, parent |-> None, hlc |-> 0]

EmptyDb ==
  [pages |-> [p \in Page |-> NoPageRow],
   blocks |-> [b \in Block |-> NoBlockRow],
   intent |-> [b \in Block |-> NoIntent],
   tomb |-> [o \in Owner |-> 0],
   root |-> [o \in Owner |-> None],
   att |-> [o \in Owner |-> [hlc |-> 0, present |-> FALSE]],
   shown |-> {},
   seeds |-> {}, dirty |-> FALSE, deferred |-> FALSE, refused |-> FALSE]

Alive(d, o) == o \in LivePages(d) \cup LiveBlocks(d)

(* ON CONFLICT DO UPDATE ... WHERE deleted_hlc < excluded.deleted_hlc *)
WriteTombstones(d, os, rootPage, h) ==
  [d EXCEPT !.tomb = [o \in Owner |-> IF o \in os /\ @[o] < h THEN h ELSE @[o]],
            !.root = [o \in Owner |-> IF o \in os /\ d.tomb[o] < h THEN rootPage ELSE @[o]]]

(* DELETE FROM tombstones WHERE uuid = o AND deleted_hlc < h *)
LiftTombstone(d, o, h) ==
  IF d.tomb[o] < h THEN [d EXCEPT !.tomb[o] = 0, !.root[o] = None] ELSE d

(* tombstone_dominates *)
TombstoneDominates(d, o, h) == d.tomb[o] >= h

DropIntents(d, bs) ==
  [d EXCEPT !.intent = [b \in Block |-> IF b \in bs THEN NoIntent ELSE @[b]]]

(* DELETE FROM blocks: children lose the parent, attachments go along. *)
DropBlocks(d, bs) ==
  [d EXCEPT !.blocks = [b \in Block |->
                          IF b \in bs THEN NoBlockRow
                          ELSE IF @[b].parent \in bs THEN [@[b] EXCEPT !.parent = None]
                          ELSE @[b]],
            !.shown = @ \ bs]

----------------------------------------------------------------------------
(* Mutant of ApplyPageTitle: the rival keeps its title. *)
ApplyPageTitle_Shared(d, p, title, h) ==
  IF d.pages[p].exist # 0 /\ d.pages[p].titleHlc < h
    THEN [d EXCEPT !.pages[p].title = title, !.pages[p].titleHlc = h] ELSE d

(* apply_page_title: the latest title wins the page, and of two pages that want
   one title the later writer keeps it. *)
ApplyPageTitle(d, p, title, h) ==
  IF ~ (d.pages[p].exist # 0 /\ d.pages[p].titleHlc < h) THEN d
  ELSE LET rivals == {q \in Page \ {p} : title # None /\ d.pages[q].title = title}
       IN IF \E q \in rivals : d.pages[q].titleHlc >= h
            THEN [d EXCEPT !.pages[p].title = None, !.pages[p].titleHlc = h]
            ELSE [d EXCEPT !.pages =
                    [q \in Page |->
                       IF q = p THEN [@[q] EXCEPT !.title = title, !.titleHlc = h]
                       ELSE IF q \in rivals THEN [@[q] EXCEPT !.title = None]
                       ELSE @[q]]]

(* apply_page_layout *)
ApplyPageLayout(d, p, h) ==
  IF d.pages[p].exist # 0 /\ d.pages[p].layout < h
    THEN [d EXCEPT !.pages[p].layout = h] ELSE d

(* apply_block_markdown *)
ApplyBlockMarkdown(d, b, h) ==
  IF d.blocks[b].exist # 0 /\ d.blocks[b].md < h
    THEN [d EXCEPT !.blocks[b].md = h] ELSE d

(* apply_block_style *)
ApplyBlockStyle(d, b, h) ==
  IF d.blocks[b].exist # 0 /\ d.blocks[b].style < h
    THEN [d EXCEPT !.blocks[b].style = h] ELSE d

(* Mutant of WriteStructureIntent: the last to arrive wins. *)
WriteStructureIntent_Arrival(d, b, p, parent, h) ==
  [d EXCEPT !.intent[b] = [page |-> p, parent |-> parent, hlc |-> h]]

(* write_structure_intent *)
WriteStructureIntent(d, b, p, parent, h) ==
  IF d.intent[b].hlc < h
    THEN [d EXCEPT !.intent[b] = [page |-> p, parent |-> parent, hlc |-> h]] ELSE d

(* write_attachment_intent *)
WriteAttachmentIntent(d, o, present, h) ==
  IF d.att[o].hlc < h THEN [d EXCEPT !.att[o] = [hlc |-> h, present |-> present]] ELSE d

(* Mutant of ReconcileAttachment: the owner is not looked up. *)
ReconcileAttachment_AnyOwner(d, o) ==
  [d EXCEPT !.shown = IF d.att[o].present THEN @ \cup {o} ELSE @ \ {o}]

(* reconcile_attachment: shown when the latest intention says so and the owner
   exists; reconcile_attachments_for_owner does it for the owner's one blob. *)
ReconcileAttachment(d, o) ==
  [d EXCEPT !.shown = IF d.att[o].present /\ Alive(d, o) THEN @ \cup {o} ELSE @ \ {o}]

----------------------------------------------------------------------------
(* Mutant of LowerJournalFloor: whichever ensure came first stays. *)
LowerJournalFloor_First(d, p, h) == d

(* A second ensure of a journal: the earliest clock becomes its existence and
   initial values follow it. *)
LowerJournalFloor(d, p, h) ==
  LET row == d.pages[p]
      follow(x) == IF x = row.exist THEN h ELSE x
  IN IF h < row.exist
       THEN [d EXCEPT !.pages[p] = [row EXCEPT !.exist = h, !.titleHlc = follow(@),
                                               !.layout = follow(@)]]
       ELSE d

(* The blocks of an earlier generation of the page go when it is recreated. *)
ReplaceGeneration(d, p, h) ==
  LET stale == {b \in Block : d.blocks[b].page = p /\ d.blocks[b].exist < h}
  IN DropBlocks(DropIntents(WriteTombstones(DeletingBlocks(d, stale), stale, p, h),
                            stale), stale)

(* Block tombstones of the page are page-generation watermarks. *)
PromoteTombstones(d, p, h) ==
  [d EXCEPT !.tomb = [o \in Owner |->
     IF o \in Block /\ d.root[o] = p /\ 0 < @[o] /\ @[o] < h THEN h ELSE @[o]]]

(* INSERT ... ON CONFLICT DO UPDATE existence_hlc when it is later. *)
UpsertPage(d, p, h) ==
  IF d.pages[p].exist = 0 THEN [d EXCEPT !.pages[p] = [NoPageRow EXCEPT !.exist = h]]
  ELSE IF d.pages[p].exist < h THEN [d EXCEPT !.pages[p].exist = h] ELSE d

PageCreate(d, op) ==
  LET p == op.page
      h == op.hlc
      replaces == d.pages[p].exist # 0 /\ d.pages[p].exist < h
      d1 == TouchPage(IF replaces THEN EnsureStructureCurrent(d) ELSE d, p)
      d2 == IF replaces THEN ReplaceGeneration(d1, p, h) ELSE d1
      d3 == LiftTombstone(UpsertPage(PromoteTombstones(d2, p, h), p, h), p, h)
      d4 == ApplyPageLayout(ApplyPageTitle(d3, p, op.title, h), p, h)
  IN IF TombstoneDominates(d, p, h) THEN d
     ELSE IF p \in Journal /\ d.pages[p].exist # 0 THEN LowerJournalFloor(d, p, h)
     ELSE ReconcileAttachment(RequestStructure(d4), p)

PageSetTitle(d, op) ==
  IF op.page \in Journal THEN [d EXCEPT !.refused = TRUE]
  ELSE IF d.tomb[op.page] # 0 THEN d
  ELSE ApplyPageTitle(d, op.page, op.title, op.hlc)

PageSetLayout(d, op) ==
  IF d.tomb[op.page] # 0 THEN d ELSE ApplyPageLayout(d, op.page, op.hlc)

(* Mutant of PageDelete: the intentions of its blocks stay. *)
PageDelete_KeepsIntents(d, op) ==
  LET p == op.page
      h == op.hlc
      d1 == TouchPage(EnsureStructureCurrent(d), p)
      gone == {b \in Block : d1.blocks[b].page = p}
      d2 == WriteTombstones(DeletingBlocks(d1, gone), gone \cup {p}, p, h)
  IN IF d.pages[p].exist > h THEN d
     ELSE IF d2.tomb[p] # h THEN d2
     ELSE [DropBlocks(d2, gone) EXCEPT !.pages[p] = NoPageRow, !.shown = @ \ {p}]

(* The page, the blocks shown on it and what they carry. *)
PageDelete(d, op) ==
  LET p == op.page
      h == op.hlc
      d1 == TouchPage(EnsureStructureCurrent(d), p)
      gone == {b \in Block : d1.blocks[b].page = p}
      d2 == DropIntents(WriteTombstones(DeletingBlocks(d1, gone), gone \cup {p}, p, h), gone)
  IN IF d.pages[p].exist > h THEN d
     ELSE IF d2.tomb[p] # h THEN d2
     ELSE [DropBlocks(d2, gone) EXCEPT !.pages[p] = NoPageRow, !.shown = @ \ {p}]

UpsertBlock(d, b, p, h) ==
  IF d.blocks[b].exist = 0
    THEN [d EXCEPT !.blocks[b] = [NoBlockRow EXCEPT !.exist = h, !.page = p, !.order = h]]
  ELSE IF d.blocks[b].exist < h THEN [d EXCEPT !.blocks[b].exist = h] ELSE d

(* Mutant of BlockCreate: a block that arrives after its page was deleted is
   an error. *)
BlockCreate_LateRefused(d, op) ==
  LET b == op.block
      p == op.page
      h == op.hlc
      d1 == UpsertBlock(TouchBlock(d, b, op.parent), b, p, h)
      d2 == WriteStructureIntent(LiftTombstone(d1, b, h), b, p, op.parent, h)
      d3 == ApplyBlockStyle(ApplyBlockMarkdown(d2, b, h), b, h)
  IN IF TombstoneDominates(d, b, h) THEN d
     ELSE IF d.pages[p].exist = 0 THEN [d EXCEPT !.refused = TRUE]
     ELSE ReconcileAttachment(RequestStructure(d3), b)

(* A create that arrives after its page was deleted, or from before the page
   was recreated, leaves a tombstone; one for an unknown page is NotFound. *)
BlockCreate(d, op) ==
  LET b == op.block
      p == op.page
      h == op.hlc
      d1 == UpsertBlock(TouchBlock(d, b, op.parent), b, p, h)
      d2 == WriteStructureIntent(LiftTombstone(d1, b, h), b, p, op.parent, h)
      d3 == ApplyBlockStyle(ApplyBlockMarkdown(d2, b, h), b, h)
  IN IF TombstoneDominates(d, b, h) THEN d
     ELSE IF d.tomb[p] # 0 THEN WriteTombstones(d, {b}, p, d.tomb[p])
     ELSE IF d.pages[p].exist = 0 THEN [d EXCEPT !.refused = TRUE]
     ELSE IF d.pages[p].exist > h THEN WriteTombstones(d, {b}, p, d.pages[p].exist)
     ELSE ReconcileAttachment(RequestStructure(d3), b)

BlockSetMarkdown(d, op) ==
  IF d.tomb[op.block] # 0 THEN d ELSE ApplyBlockMarkdown(d, op.block, op.hlc)

BlockSetStyle(d, op) ==
  IF d.tomb[op.block] # 0 THEN d ELSE ApplyBlockStyle(d, op.block, op.hlc)

(* An unavailable destination keeps the placement shown so far. *)
BlockMove(d, op) ==
  LET d1 == IF op.page \in LivePages(d) THEN d ELSE EnsureStructureCurrent(d)
      d2 == TouchBlock(d1, op.block, op.parent)
  IN IF d.tomb[op.block] # 0 THEN d
     ELSE RequestStructure(WriteStructureIntent(d2, op.block, op.page, op.parent, op.hlc))

(* Mutant of BlockDelete: the row goes and no tombstone stays. *)
BlockDelete_NoTombstone(d, op) ==
  LET b == op.block
  IN IF d.blocks[b].exist > op.hlc THEN d
     ELSE RequestStructure(DropBlocks(DropIntents(DeletingBlocks(d, {b}), {b}), {b}))

BlockDelete(d, op) ==
  LET b == op.block
      h == op.hlc
      d1 == WriteTombstones(d, {b}, op.page, h)
      d2 == DropBlocks(DropIntents(DeletingBlocks(d1, {b}), {b}), {b})
  IN IF d.blocks[b].exist > h THEN d
     ELSE IF d1.tomb[b] # h THEN d1
     ELSE RequestStructure(d2)

(* AttachmentAdd and AttachmentRemove; the intention outlives the owner. *)
AttachmentSet(d, op) ==
  ReconcileAttachment(WriteAttachmentIntent(d, op.owner, op.present, op.hlc), op.owner)

ApplyOne(d, op) ==
  CASE op.kind = "PageCreate" -> PageCreate(d, op)
    [] op.kind = "PageSetTitle" -> PageSetTitle(d, op)
    [] op.kind = "PageSetLayout" -> PageSetLayout(d, op)
    [] op.kind = "PageDelete" -> PageDelete(d, op)
    [] op.kind = "BlockCreate" -> BlockCreate(d, op)
    [] op.kind = "BlockSetMarkdown" -> BlockSetMarkdown(d, op)
    [] op.kind = "BlockSetStyle" -> BlockSetStyle(d, op)
    [] op.kind = "BlockMove" -> BlockMove(d, op)
    [] op.kind = "BlockDelete" -> BlockDelete(d, op)
    [] op.kind = "AttachmentSet" -> AttachmentSet(d, op)

(* The two projection policies: local commands project at once. *)
BeginApply(d, deferred) == [d EXCEPT !.deferred = deferred]

(* finish_projections; the effects end with the transaction. *)
FinishApply(d) ==
  [EnsureStructureCurrent(d) EXCEPT !.seeds = {}, !.deferred = FALSE]
----------------------------------------------------------------------------
(* validate_snapshot, of the snapshot that export_sync_snapshot takes of d:
   pages, blocks and tombstones. *)
ValidRows(d) ==
  /\ \A j \in Journal : d.pages[j].title = None
  /\ \A b \in LiveBlocks(d) :
       LET q == d.blocks[b].parent
       IN /\ d.blocks[b].page \in LivePages(d)
          /\ q # None => q \in LiveBlocks(d) /\ d.blocks[q].page = d.blocks[b].page
  /\ \A o \in Owner : d.tomb[o] # 0 =>
       /\ ~ Alive(d, o)
       /\ IF o \in Page THEN d.root[o] = o ELSE d.root[o] # None

(* ... and its placement and attachment intentions. *)
ValidIntents(d) ==
  /\ \A b \in Block :
       LET q == d.intent[b].parent
       IN IF d.intent[b].hlc = 0 THEN b \notin LiveBlocks(d)
          ELSE /\ b \in LiveBlocks(d)
               /\ d.intent[b].page = d.blocks[b].page
               /\ d.intent[b].hlc = d.blocks[b].order
               /\ q # None => \/ q \in LiveBlocks(d) /\ d.blocks[q].page = d.blocks[b].page
                              \/ d.tomb[q] # 0
  /\ \A o \in Owner : d.att[o].hlc # 0 => Alive(d, o) \/ d.tomb[o] # 0

(* reconcile_all_attachments *)
ReconcileAllAttachments(d) ==
  [d EXCEPT !.shown = {o \in Owner : d.att[o].present /\ Alive(d, o)}]

(* PreparedSyncSnapshot::apply_in_transaction into an empty replica: rows
   without parents, then both projections over everything. *)
Restored(d) ==
  ReconcileAllAttachments(
    Reconcile([d EXCEPT !.blocks = [b \in Block |-> [@[b] EXCEPT !.parent = None]]], Block))
============================================================================
