------------------------------ MODULE History ------------------------------
(***************************************************************************)
(* Undo and redo on one device (notes-core db/history.rs, apply_action of  *)
(* store.rs) while operations of other devices keep arriving.  An action   *)
(* is kept as the templates of its operations and of their inverses; undo  *)
(* stamps the inverse with new clocks, unless a guard shows that a field   *)
(* or the blocks inside what it would delete have changed meanwhile.       *)
(*                                                                         *)
(* In ApplyOps a clock stands for what was written with it.  Undo writes   *)
(* an old value with a new clock, so `wrote` says which value a clock      *)
(* stands for: the clock that wrote it first.                              *)
(***************************************************************************)
EXTENDS ApplyOps, SequencesExt

CONSTANTS
  HistoryLimit,   \* actions the undo stack keeps (50)
  FirstPage,      \* a page that was there before the history began,
  FirstBlock,     \*   and its block
  MaxClock,       \* bound: clocks
  LastSave,       \* bound: the last clock at which a write goes unrecorded
  MaxForeign      \* bound: operations of other devices

VARIABLES
  hdb,        \* the device's database
  wrote,      \* [clock -> [by, md, style, order, layout]]
  undoStack,  \* history_undo, last is next
  redoStack,  \* history_redo
  foreign,    \* number of foreign operations so far
  step        \* what the last step did: [did, apart]; apart: something outside the history

historyVars == <<hdb, wrote, undoStack, redoStack, foreign, step>>

Unwritten == [by |-> "nobody", md |-> 0, style |-> 0, order |-> 0, layout |-> 0]
NewValues == [md |-> 0, style |-> 0, order |-> 0, layout |-> 0]

UsedClocks == {h \in 1 .. MaxClock : wrote[h].by # "nobody"}
LastClock == Max({0} \cup UsedClocks)

(* What the user sees, in values. *)
Contents(d, w) ==
  [pages |-> [p \in LivePages(d) |->
                [title |-> d.pages[p].title, layout |-> w[d.pages[p].layout].layout]],
   blocks |-> [b \in LiveBlocks(d) |->
                [page |-> d.blocks[b].page, parent |-> d.blocks[b].parent,
                 order |-> w[d.blocks[b].order].order, md |-> w[d.blocks[b].md].md,
                 style |-> w[d.blocks[b].style].style]],
   shown |-> d.shown]

----------------------------------------------------------------------------
(* Templates: operations without a clock, with the values they carry. *)
WithValues(kind, values) == kind @@ [values |-> values]

Stamp(template, h, by) ==
  [h |-> h, op |-> template @@ [hlc |-> h, by |-> by],
   wrote |-> [f \in DOMAIN NewValues |->
                IF template.values[f] = 0 THEN h ELSE template.values[f]]
             @@ [by |-> by]]

(* apply_local_kinds: the transaction stamps and applies one ordered batch.  The
   actions name its outcome with \E x \in {e}, which evaluates e once. *)
ApplyTemplates(templates, first, by, deferred) ==
  LET stamped == [i \in 1 .. Len(templates) |-> Stamp(templates[i], first + i - 1, by)]
      ops == [i \in 1 .. Len(templates) |-> stamped[i].op]
  IN [db |-> FinishApply(FoldLeft(ApplyOne, BeginApply(hdb, deferred), ops)),
      wrote |-> [h \in 0 .. MaxClock |->
                   IF h \in first .. first + Len(templates) - 1
                     THEN stamped[h - first + 1].wrote ELSE wrote[h]]]

PageOf(d, p) ==
  WithValues([kind |-> "PageCreate", page |-> p, title |-> d.pages[p].title],
             [NewValues EXCEPT !.layout = wrote[d.pages[p].layout].layout])

BlockOf(d, b) ==
  WithValues([kind |-> "BlockCreate", block |-> b, page |-> d.blocks[b].page,
              parent |-> d.blocks[b].parent],
             [NewValues EXCEPT !.md = wrote[d.blocks[b].md].md,
                               !.style = wrote[d.blocks[b].style].style,
                               !.order = wrote[d.blocks[b].order].order])

PlaceOf(d, b) ==
  WithValues([kind |-> "BlockMove", block |-> b, page |-> d.blocks[b].page,
              parent |-> d.blocks[b].parent],
             [NewValues EXCEPT !.order = wrote[d.blocks[b].order].order])

Keep(exists, template) == IF exists THEN <<template>> ELSE <<>>

(* capture_inverse: what undoes one operation, read before the action. *)
CaptureInverse(d, t) ==
  CASE t.kind = "PageCreate" ->
         <<WithValues([kind |-> "PageDelete", page |-> t.page], NewValues)>>
    [] t.kind = "PageDelete" -> Keep(d.pages[t.page].exist # 0, PageOf(d, t.page))
    [] t.kind = "BlockCreate" ->
         <<WithValues([kind |-> "BlockDelete", block |-> t.block, page |-> t.page], NewValues)>>
    [] t.kind = "BlockDelete" -> Keep(d.blocks[t.block].exist # 0, BlockOf(d, t.block))
    [] t.kind = "BlockSetMarkdown" ->
         Keep(d.blocks[t.block].exist # 0,
              WithValues([kind |-> "BlockSetMarkdown", block |-> t.block],
                         [NewValues EXCEPT !.md = wrote[d.blocks[t.block].md].md]))
    [] t.kind = "BlockSetStyle" ->
         Keep(d.blocks[t.block].exist # 0,
              WithValues([kind |-> "BlockSetStyle", block |-> t.block],
                         [NewValues EXCEPT !.style = wrote[d.blocks[t.block].style].style]))
    [] t.kind = "BlockMove" -> Keep(d.blocks[t.block].exist # 0, PlaceOf(d, t.block))
    [] t.kind = "AttachmentSet" ->
         IF t.present \/ d.att[t.owner].present
           THEN <<WithValues([kind |-> "AttachmentSet", owner |-> t.owner,
                              present |-> d.att[t.owner].present], NewValues)>>
           ELSE <<>>

(* Mutant of CaptureInverseKinds: the inverses are left in the action's order. *)
CaptureInverseKinds_Forward(d, templates) ==
  FlattenSeq([i \in 1 .. Len(templates) |-> CaptureInverse(d, templates[i])])

CaptureInverseKinds(d, templates) ==
  Reverse(FlattenSeq([i \in 1 .. Len(templates) |-> CaptureInverse(d, templates[i])]))

----------------------------------------------------------------------------
HistoryFields == ({"existence", "title", "layout"} \X Page)
                 \cup ({"existence", "md", "style", "structure"} \X Block)
                 \cup ({"attachment"} \X Owner)

(* current_field_hlc; 0 for no value. *)
FieldHlc(d, f) ==
  LET x == f[2] IN
  CASE f[1] = "existence" ->
         Max({d.tomb[x], IF x \in Page THEN d.pages[x].exist ELSE d.blocks[x].exist})
    [] f[1] = "title" -> d.pages[x].titleHlc
    [] f[1] = "layout" -> d.pages[x].layout
    [] f[1] = "md" -> d.blocks[x].md
    [] f[1] = "style" -> d.blocks[x].style
    [] f[1] = "structure" -> d.intent[x].hlc
    [] f[1] = "attachment" -> d.att[x].hlc

Fields(names, x) == {<<n, x>> : n \in names}
ParentField(t) == IF t.parent = None THEN {} ELSE {<<"existence", t.parent>>}

(* Mutant of GuardFields: a block is restored without looking at its page. *)
GuardFields_OwnOnly(t) ==
  CASE t.kind \in {"PageCreate", "PageDelete"} -> Fields({"existence", "title", "layout"}, t.page)
    [] t.kind \in {"BlockCreate", "BlockDelete"} ->
         Fields({"existence", "md", "style", "structure"}, t.block)
    [] t.kind = "BlockSetMarkdown" -> Fields({"md"}, t.block)
    [] t.kind = "BlockSetStyle" -> Fields({"style"}, t.block)
    [] t.kind = "BlockMove" -> Fields({"structure"}, t.block)
    [] t.kind = "AttachmentSet" -> Fields({"attachment"}, t.owner)

(* history_guard_fields: what the operation writes and what it depends on. *)
GuardFields(t) ==
  CASE t.kind \in {"PageCreate", "PageDelete"} -> Fields({"existence", "title", "layout"}, t.page)
    [] t.kind = "BlockCreate" -> Fields({"existence", "md", "style", "structure"}, t.block)
                                 \cup Fields({"existence"}, t.page) \cup ParentField(t)
    [] t.kind = "BlockDelete" -> Fields({"existence", "md", "style", "structure"}, t.block)
                                 \cup Fields({"existence"}, t.page)
    [] t.kind = "BlockSetMarkdown" -> Fields({"md", "existence"}, t.block)
    [] t.kind = "BlockSetStyle" -> Fields({"style", "existence"}, t.block)
    [] t.kind = "BlockMove" -> Fields({"structure", "existence"}, t.block)
                               \cup Fields({"existence"}, t.page) \cup ParentField(t)
    [] t.kind = "AttachmentSet" -> Fields({"attachment", "existence"}, t.owner)

CaptureGuards(d, templates) ==
  LET fields == UNION {GuardFields(t) : t \in Range(templates)}
  IN [f \in fields |-> FieldHlc(d, f)]

(* page_block_uuids and block_descendant_uuids. *)
Inside(d, x) ==
  {b \in LiveBlocks(d) :
     IF x \in Page THEN d.blocks[b].page = x
                   ELSE x \in Above([c \in Block |-> d.blocks[c].parent], b)}

(* Mutant of CaptureScopes: what a deletion would take along is not noted. *)
CaptureScopes_None(d, templates) == [x \in {} |-> {}]

(* capture_history_scope_guards *)
CaptureScopes(d, templates) ==
  LET deleted == {t.page : t \in {u \in Range(templates) : u.kind = "PageDelete"}}
                 \cup {t.block : t \in {u \in Range(templates) : u.kind = "BlockDelete"}}
  IN [x \in deleted |-> Inside(d, x)]

GuardsMatch(d, payload) ==
  /\ \A f \in DOMAIN payload.guards : FieldHlc(d, f) = payload.guards[f]
  /\ \A x \in DOMAIN payload.scopes : Inside(d, x) \subseteq payload.scopes[x]

(* Mutant of RefreshPayload: the neighbours keep their old clocks. *)
RefreshPayload_Never(payload, fresh) == payload

(* refresh_payload_guards: the neighbours adopt the clocks a move just wrote;
   their scopes stay. *)
RefreshPayload(payload, fresh) ==
  [payload EXCEPT !.guards =
     [f \in DOMAIN @ |-> IF f \in DOMAIN fresh THEN fresh[f] ELSE @[f]]]

(* refresh_sibling_guards over one stack. *)
RefreshSiblings(stack, fresh) ==
  [i \in 1 .. Len(stack) |->
     [stack[i] EXCEPT !.forward = RefreshPayload(@, fresh),
                      !.inverse = RefreshPayload(@, fresh)]]

Payload(templates, guards, scopes) ==
  [ops |-> templates, guards |-> guards, scopes |-> scopes]

NoGuards == [f \in {} |-> 0]
NoScopes == [x \in {} |-> {}]

Trimmed(stack) == SubSeq(stack, Max({1, Len(stack) - HistoryLimit + 1}), Len(stack))

----------------------------------------------------------------------------
HistorySeed ==
  <<[kind |-> "PageCreate", page |-> FirstPage, title |-> None, hlc |-> 1],
    [kind |-> "BlockCreate", block |-> FirstBlock, page |-> FirstPage, parent |-> None,
     hlc |-> 2]>>

HistoryInit ==
  /\ wrote = [h \in 0 .. MaxClock |->
                IF h \in 1 .. Len(HistorySeed)
                  THEN [f \in DOMAIN NewValues |-> h] @@ [by |-> "seed"]
                  ELSE Unwritten]
  /\ hdb = FinishApply(FoldLeft(ApplyOne, BeginApply(EmptyDb, TRUE), HistorySeed))
  /\ undoStack = <<>> /\ redoStack = <<>>
  /\ foreign = 0
  /\ step = [did |-> "nothing", apart |-> FALSE]

(* Local clocks are above everything applied; the one after the seed is left to
   a device that has not been heard of yet. *)
LocalClocks(n) ==
  {h \in {Max({LastClock, Len(HistorySeed) + 1}) + 1} : h + n - 1 <= MaxClock}

(* apply_action: inverses read, batch applied, entry pushed, redo forgotten.
   The entry's contents before and after are noted for the properties. *)
Act(kinds, deferred) ==
  LET templates == [i \in 1 .. Len(kinds) |-> WithValues(kinds[i], NewValues)] IN
  \E first \in LocalClocks(Len(kinds)) :
  \E done \in {ApplyTemplates(templates, first, "local", deferred)} :
    LET inverse == CaptureInverseKinds(hdb, templates)
        written(i) == [f \in DOMAIN NewValues |-> done.wrote[first + i - 1][f]]
        forward == [i \in 1 .. Len(kinds) |-> WithValues(kinds[i], written(i))]
        entry == [forward |-> Payload(forward, NoGuards, NoScopes),
                  inverse |-> Payload(inverse, CaptureGuards(done.db, inverse),
                                      CaptureScopes(done.db, inverse)),
                  deferred |-> deferred,
                  before |-> Contents(hdb, wrote), after |-> Contents(done.db, done.wrote)]
    IN /\ hdb' = done.db /\ wrote' = done.wrote
       /\ IF inverse = <<>> THEN UNCHANGED <<undoStack, redoStack>>
          ELSE undoStack' = Trimmed(Append(undoStack, entry)) /\ redoStack' = <<>>
       /\ step' = [step EXCEPT !.did = "acted"]
       /\ UNCHANGED foreign

(* apply_local without a record: text saves, renames, attachments. *)
Save(kinds) ==
  LET templates == [i \in 1 .. Len(kinds) |-> WithValues(kinds[i], NewValues)] IN
  \E first \in {h \in LocalClocks(Len(kinds)) : h <= LastSave} :
  \E done \in {ApplyTemplates(templates, first, "local", FALSE)} :
    /\ hdb' = done.db /\ wrote' = done.wrote
    /\ step' = [did |-> "saved", apart |-> TRUE]
    /\ UNCHANGED <<undoStack, redoStack, foreign>>

FreeBlock(b) == hdb.blocks[b].exist = 0 /\ hdb.tomb[b] = 0
FreePage(p) == hdb.pages[p].exist = 0 /\ hdb.tomb[p] = 0
Make(b, p, parent) == [kind |-> "BlockCreate", block |-> b, page |-> p, parent |-> parent]
Drop(b) == [kind |-> "BlockDelete", block |-> b, page |-> hdb.blocks[b].page]

(* The blocks of a page, children before their parents. *)
Deepest(p) ==
  LET parents == [c \in Block |-> hdb.blocks[c].parent]
  IN SetToSortSeq(Inside(hdb, p), LAMBDA a, b :
       \/ Cardinality(Above(parents, a)) > Cardinality(Above(parents, b))
       \/ /\ Cardinality(Above(parents, a)) = Cardinality(Above(parents, b))
          /\ hdb.blocks[a].order < hdb.blocks[b].order)

CreatePageAction ==
  \E p \in Page, title \in Title :
    /\ FreePage(p) /\ \A q \in Page : hdb.pages[q].title # title
    /\ Act(<<[kind |-> "PageCreate", page |-> p, title |-> title]>>, FALSE)

CreateNoteAction ==
  \E p \in Page, b \in Block : FreePage(p) /\ FreeBlock(b)
    /\ Act(<<[kind |-> "PageCreate", page |-> p, title |-> None], Make(b, p, None)>>, FALSE)

CreateBlockAction ==
  \E b \in Block, p \in LivePages(hdb) : \E parent \in Inside(hdb, p) \cup {None} :
    FreeBlock(b) /\ Act(<<Make(b, p, parent)>>, FALSE)

SetStyleAction ==
  \E b \in LiveBlocks(hdb) : Act(<<[kind |-> "BlockSetStyle", block |-> b]>>, FALSE)

MoveBlockAction ==
  \E b \in LiveBlocks(hdb) :
    LET p == hdb.blocks[b].page
    IN \E parent \in (Inside(hdb, p) \ (Inside(hdb, b) \cup {b})) \cup {None} :
         Act(<<[kind |-> "BlockMove", block |-> b, page |-> p, parent |-> parent]>>, FALSE)

DeleteBlockAction ==
  \E b \in LiveBlocks(hdb) : Inside(hdb, b) = {} /\ Act(<<Drop(b)>>, FALSE)

DeletePageAction ==
  \E p \in LivePages(hdb) :
    LET blocks == Deepest(p)
        shown == SetToSeq(hdb.shown \cap (Range(blocks) \cup {p}))
    IN Act([i \in 1 .. Len(shown) |->
              [kind |-> "AttachmentSet", owner |-> shown[i], present |-> FALSE]]
           \o [i \in 1 .. Len(blocks) |-> Drop(blocks[i])]
           \o <<[kind |-> "PageDelete", page |-> p]>>, FALSE)

(* split_block: the source keeps the first part, a sibling gets the second. *)
SplitAction ==
  \E b \in LiveBlocks(hdb), c \in Block : FreeBlock(c)
    /\ Act(<<[kind |-> "BlockSetMarkdown", block |-> b],
             Make(c, hdb.blocks[b].page, hdb.blocks[b].parent)>>, TRUE)

(* replace_page_document: a block is dropped from the document and its children,
   now its parent's, change too; a new block may take its place.  Creates come
   first, then text and style, moves, deletes. *)
EditDocumentAction ==
  \E b \in LiveBlocks(hdb) : \E new \in {{}} \cup {{c} : c \in {x \in Block : FreeBlock(x)}} :
    LET p == hdb.blocks[b].page
        up == hdb.blocks[b].parent
        orphans == SetToSeq(Children(hdb, b))
        fresh == SetToSeq(new)
        heir == IF new = {} THEN up ELSE fresh[1]
    IN Act([i \in 1 .. Len(fresh) |-> Make(fresh[i], p, up)]
           \o FlattenSeq([i \in 1 .. Len(orphans) |->
                <<[kind |-> "BlockSetMarkdown", block |-> orphans[i]],
                  [kind |-> "BlockMove", block |-> orphans[i], page |-> p, parent |-> heir]>>])
           \o <<Drop(b)>>, FALSE)

SaveContent ==
  \E b \in LiveBlocks(hdb) : Save(<<[kind |-> "BlockSetMarkdown", block |-> b]>>)

SaveLayout ==
  \E p \in LivePages(hdb) : Save(<<[kind |-> "PageSetLayout", page |-> p]>>)

SaveAttachment ==
  \E o \in LivePages(hdb) \cup LiveBlocks(hdb) :
    Save(<<[kind |-> "AttachmentSet", owner |-> o, present |-> o \notin hdb.shown]>>)

----------------------------------------------------------------------------
(* move_history_in_transaction: the newest entry of the source stack is applied
   with new clocks and goes to the other stack, or is dropped when its guards no
   longer hold.  `from` and `to` are the payloads that run and that run back. *)
Skip(undo) ==
  /\ IF undo THEN undoStack' = Front(undoStack) /\ UNCHANGED redoStack
             ELSE redoStack' = Front(redoStack) /\ UNCHANGED undoStack
  /\ step' = [step EXCEPT !.did = "skipped"]
  /\ UNCHANGED <<hdb, wrote, foreign>>

Replay(undo, entry, rest) ==
  LET selected == IF undo THEN entry.inverse ELSE entry.forward
      back == IF undo THEN entry.forward ELSE entry.inverse
  IN \E first \in LocalClocks(Len(selected.ops)) :
     \E done \in {ApplyTemplates(selected.ops, first, "local", entry.deferred)} :
       LET fresh == CaptureGuards(done.db, selected.ops)
           returned == Payload(back.ops, fresh, CaptureScopes(done.db, back.ops))
           moved == IF undo THEN [entry EXCEPT !.forward = returned]
                            ELSE [entry EXCEPT !.inverse = returned]
           undos == RefreshSiblings(IF undo THEN rest ELSE undoStack, fresh)
           redos == RefreshSiblings(IF undo THEN redoStack ELSE rest, fresh)
       IN /\ hdb' = done.db /\ wrote' = done.wrote
          /\ undoStack' = IF undo THEN undos ELSE Append(undos, moved)
          /\ redoStack' = IF undo THEN Append(redos, moved) ELSE redos
          /\ step' = [step EXCEPT !.did = "moved"]
          /\ UNCHANGED foreign

MoveHistory(undo) ==
  LET source == IF undo THEN undoStack ELSE redoStack IN
  /\ source # <<>>
  /\ LET entry == Last(source)
         selected == IF undo THEN entry.inverse ELSE entry.forward
     IN IF GuardsMatch(hdb, selected) THEN Replay(undo, entry, Front(source)) ELSE Skip(undo)

Undo == MoveHistory(TRUE)
Redo == MoveHistory(FALSE)

(* An operation of another device, which need not have heard of what happened
   here; its clock is later than the creation of what it is about. *)
Arrive(kinds, since) ==
  /\ foreign < MaxForeign
  /\ \E first \in {h \in since + 1 .. MaxClock : h <= LastClock + 2} :
       LET templates == [i \in 1 .. Len(kinds) |-> WithValues(kinds[i], NewValues)]
           clocks == first .. first + Len(kinds) - 1
       IN /\ clocks \subseteq (1 .. MaxClock) \ UsedClocks
          /\ \E done \in {ApplyTemplates(templates, first, "foreign", TRUE)} :
               hdb' = done.db /\ wrote' = done.wrote
  /\ foreign' = foreign + 1
  /\ step' = [did |-> "arrived", apart |-> TRUE]
  /\ UNCHANGED <<undoStack, redoStack>>

ForeignEdit ==
  \E b \in Block, kind \in {"BlockSetMarkdown", "BlockSetStyle"} :
    hdb.blocks[b].exist # 0 /\ Arrive(<<[kind |-> kind, block |-> b]>>, hdb.blocks[b].exist)

ForeignCreate ==
  \E b \in Block, p \in LivePages(hdb) : \E parent \in Inside(hdb, p) \cup {None} :
    /\ FreeBlock(b)
    /\ Arrive(<<Make(b, p, parent)>>,
              Max({hdb.pages[p].exist} \cup {hdb.blocks[q].exist : q \in {parent} \ {None}}))

ForeignMove ==
  \E b \in LiveBlocks(hdb) : \E parent \in Inside(hdb, hdb.blocks[b].page) \ {b} :
    Arrive(<<[kind |-> "BlockMove", block |-> b, page |-> hdb.blocks[b].page,
              parent |-> parent]>>,
           Max({hdb.blocks[b].exist, hdb.blocks[parent].exist}))

ForeignDelete ==
  \E b \in LiveBlocks(hdb) : Arrive(<<Drop(b)>>, hdb.blocks[b].exist)

ForeignDeletePage ==
  \E p \in LivePages(hdb) :
    Arrive(<<[kind |-> "PageDelete", page |-> p]>>, hdb.pages[p].exist)

HistoryNext ==
  \/ CreatePageAction \/ CreateNoteAction \/ CreateBlockAction \/ SetStyleAction
  \/ MoveBlockAction \/ DeleteBlockAction \/ DeletePageAction \/ SplitAction \/ EditDocumentAction
  \/ SaveContent \/ SaveLayout \/ SaveAttachment
  \/ Undo \/ Redo
  \/ ForeignEdit \/ ForeignCreate \/ ForeignMove \/ ForeignDelete \/ ForeignDeletePage

HistorySpec == HistoryInit /\ [][HistoryNext]_historyVars

----------------------------------------------------------------------------
(* While nothing but recorded actions happens, undo and redo walk exactly along
   the states the actions went through, however many operations an action has
   and however often one goes up and down: structure, order, text, style and
   attachments are back. *)
LinearHistory ==
  ~ step.apart =>
    /\ undoStack # <<>> => Last(undoStack).after = Contents(hdb, wrote)
    /\ redoStack # <<>> => Last(redoStack).before = Contents(hdb, wrote)

(* What undo and redo wrote themselves makes an entry fall away in one case only:
   a page that comes back lifts the tombstones of blocks deleted from it before,
   and their entries are not told. *)
SkipJustified ==
  step'.did = "skipped" /\ ~ step.apart =>
       LET undone == undoStack' # undoStack
           payload == IF undone THEN Last(undoStack).inverse ELSE Last(redoStack).forward
       IN \A f \in DOMAIN payload.guards :
            FieldHlc(hdb, f) # payload.guards[f] =>
              /\ f[1] = "existence" /\ f[2] \in Block
              /\ \E p \in LivePages(hdb) : hdb.tomb[f[2]] = hdb.pages[p].exist

(* Undo and redo replace, erase or bring back only what this device wrote last:
   a field that another device has written since makes the entry fall away, and
   so does a block that another device put into what would be erased. *)
SparesOthers ==
  step'.did = "moved" =>
       \A f \in HistoryFields :
         LET touched == IF f[1] = "existence" THEN Alive(hdb, f[2]) # Alive(hdb', f[2])
                        ELSE FieldHlc(hdb, f) # FieldHlc(hdb', f)
         IN touched => wrote[FieldHlc(hdb, f)].by # "foreign"

(* An undo that says it was applied has brought back what it promised: every
   block its inverse creates is there afterwards (move_history_in_transaction). *)
NoFakeSuccess ==
  step'.did = "moved" =>
       LET redone == Len(undoStack') > Len(undoStack)
           ops == IF redone THEN Last(redoStack).forward.ops ELSE Last(undoStack).inverse.ops
       IN \A t \in Range(ops) :
            t.kind = "BlockCreate" => hdb'.blocks[t.block].exist # 0

(* What undo and redo report is what they did: a move that was applied brought
   back what it promised and overwrote nobody else, and an entry falls away only
   because of what somebody else wrote, one case apart. *)
HonestMoves == [][SkipJustified /\ SparesOthers /\ NoFakeSuccess]_historyVars
============================================================================
