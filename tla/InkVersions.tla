---------------------------- MODULE InkVersions ----------------------------
(***************************************************************************)
(* One handwritten note on several devices: its draft, the undo states of  *)
(* the pen, compaction, publication, competing heads and the collection of *)
(* unreferenced geometry (notes-core ink/: storage.rs, storage/history.rs, *)
(* storage/compaction.rs, versions.rs, status.rs, transfer.rs,             *)
(* outbox_retention.rs, history_retention.rs).                             *)
(*                                                                         *)
(* A root is a complete immutable drawing: the strokes it shows and the    *)
(* chunks that hold them.  A stroke starts in a chunk of its own; chunks   *)
(* that no publication has sealed are merged by compaction.  Rows pin      *)
(* roots - pen history, draft, versions, staged downloads, unsent          *)
(* publications, deletions that can be undone - and collect deletes every  *)
(* root and chunk that no row pins.  A publication names the version the   *)
(* draft was based on as its parent; versions nobody descends from are the *)
(* heads, and a single head replaces a draft that has nothing of its own.  *)
(***************************************************************************)
EXTENDS Integers, FiniteSets, Sequences, Functions

CONSTANTS
    InkDevices,   \* devices that hold the note
    Marks,        \* strokes that may be drawn, each at most once
    PenHistory,   \* undo states kept below the newest (50 in the code)
    InkScopes     \* the bounds explored: [pens: devices where the note is opened;
                  \* strokes: those drawn; erasers: devices whose pen also erases,
                  \* undoes, is compacted and crashes; ops: publications and page
                  \* operations; deletes: deletions of the note]

\* A scope names devices and strokes that exist; the newest undo state is kept.
ASSUME DrawingAssumption ==
    /\ PenHistory \in Nat
    /\ \A s \in InkScopes : s.pens \cup s.erasers \subseteq InkDevices /\ s.strokes \subseteq Marks

VARIABLES
    inkPages,     \* inkPages[d]: the rows device d keeps for the note
    sheet,        \* sheet[d]: geometry stored on d: roots and chunks
    pen,          \* pen[d]: the editor session of d
    unsent,       \* unsent[d]: operations of the outbox
    serverOps,    \* the server's log
    pulled,       \* pulled[d]: log position of d
    wiped,        \* wiped[d]: strokes d's user erased or undid
    inkOps,       \* operations made so far; each is known by its number
    scope         \* the bounds of this behaviour, a member of InkScopes

drawingVars == <<inkPages, sheet, pen, unsent, serverOps, pulled, wiped, inkOps, scope>>

Blank == [ink |-> {}, chunks |-> {}]
\* No drawing: the one value that names an empty chunk.
NoRoot == [ink |-> {}, chunks |-> {{}}]

EmptyDoc == [root |-> NoRoot, seen |-> FALSE, cursor |-> 0, dirty |-> FALSE,
             editing |-> FALSE, requested |-> FALSE, base |-> 0]
NoPen == [open |-> FALSE, view |-> {}, plan |-> {}, finish |-> "no"]
NoPins == [kept |-> FALSE, root |-> NoRoot, cursor |-> 0, hist |-> <<>>, heads |-> {},
           variants |-> <<>>]

DrawingInit ==
    /\ inkPages = [d \in InkDevices |->
                  [alive |-> TRUE, doc |-> EmptyDoc, hist |-> [n \in {} |-> Blank],
                   versions |-> {}, staged |-> {}, sealed |-> {}, pins |-> NoPins]]
    /\ sheet = [d \in InkDevices |-> [roots |-> {}, chunks |-> {}]]
    /\ pen = [d \in InkDevices |-> NoPen]
    /\ unsent = [d \in InkDevices |-> <<>>]
    /\ serverOps = <<>>
    /\ pulled = [d \in InkDevices |-> 0]
    /\ wiped = [d \in InkDevices |-> {}]
    /\ inkOps = 0
    /\ scope \in InkScopes

Drawn ==
    UNION {UNION {r.ink : r \in sheet[d].roots} \cup wiped[d] : d \in InkDevices}
-----------------------------------------------------------------------------
(* Roots, chunks and the collector.                                        *)

\* build: the listed strokes, each in the chunk that holds it already or in
\* one of its own; chunks none of them uses are dropped.
Build(root, ink) ==
    LET fresh == {{m} : m \in ink \ root.ink}
    IN [ink |-> ink, chunks |-> {c \in root.chunks : c \cap ink # {}} \cup fresh]

InkPublications(queue) == {op.root : op \in {o \in Range(queue) : o.kind = "publish"}}

\* Mutant of Pinned: a publication in the outbox pins nothing.
Pinned_NoOutbox(n, queue) ==
    Range(n.hist) \cup n.staged \cup ({n.doc.root} \ {NoRoot})
      \cup {v.root : v \in {w \in n.versions : w.have}}
      \cup (IF n.pins.kept THEN Range(n.pins.hist) \cup Range(n.pins.variants)
                                  \cup ({n.pins.root} \ {NoRoot}) ELSE {})

\* keep_ink_roots of collect.
Pinned(n, queue) ==
    Range(n.hist) \cup n.staged \cup ({n.doc.root} \ {NoRoot})
      \cup {v.root : v \in {w \in n.versions : w.have}}
      \cup (IF n.pins.kept THEN Range(n.pins.hist) \cup Range(n.pins.variants)
                                  \cup ({n.pins.root} \ {NoRoot}) ELSE {})
      \cup InkPublications(queue)

\* persist followed by collect at the end of the same transaction.
Collected(s, new, n, queue) ==
    LET roots == (s.roots \cup new) \cap Pinned(n, queue)
    IN [roots |-> roots,
        chunks |-> (s.chunks \cup UNION {r.chunks : r \in new})
                     \cap UNION {r.chunks : r \in roots}]

\* persist without a collection.
Persisted(s, new) ==
    [roots |-> s.roots \cup new, chunks |-> s.chunks \cup UNION {r.chunks : r \in new}]

Intact(d, r) == r \in sheet[d].roots /\ r.chunks \subseteq sheet[d].chunks
-----------------------------------------------------------------------------
(* Versions.                                                               *)

\* head_ids.
Heads(n) == {v \in n.versions : \A w \in n.versions : v.id \notin w.parents}

\* Mutant of MayAdopt: an open editor does not hold its draft.
MayAdopt_Editing(doc, head) == ~doc.dirty /\ doc.base # head.id /\ head.have

MayAdopt(doc, head) ==
    ~doc.dirty /\ ~doc.editing /\ doc.base # head.id /\ head.have

\* adopt_single_head: one head replaces an idle, unmodified draft and its pen
\* history; the revision changes.
Adopted(n) ==
    IF \E v \in Heads(n) : Heads(n) = {v} /\ MayAdopt(n.doc, v)
      THEN LET head == CHOOSE v \in Heads(n) : TRUE
           IN [n EXCEPT !.hist = [i \in {0} |-> head.root],
                        !.doc = [@ EXCEPT !.root = head.root, !.seen = FALSE, !.cursor = 0,
                                          !.base = head.id]]
      ELSE n

\* versions::apply: idempotent, whether or not the note still exists; the
\* root is linked when a staged or known graph provides it.
WithVersion(n, op) ==
    IF \E v \in n.versions : v.id = op.id THEN n
    ELSE LET known == op.root \in n.staged
                        \/ \E v \in n.versions : v.root = op.root /\ v.have
             row == [id |-> op.id, root |-> op.root, parents |-> op.parents, have |-> known,
                     by |-> op.by, draft |-> op.draft]
         IN Adopted([n EXCEPT !.versions = @ \cup {row}, !.staged = @ \ {op.root}])

\* The author links the root after the operation has been applied.
Linked(n, id) ==
    [n EXCEPT !.versions = {IF v.id = id THEN [v EXCEPT !.have = TRUE] ELSE v : v \in @}]

\* purge_page.
Purged(n) ==
    [n EXCEPT !.alive = FALSE, !.versions = {}, !.hist = [i \in {} |-> Blank],
              !.staged = @ \ {v.root : v \in n.versions}, !.doc = EmptyDoc]
-----------------------------------------------------------------------------
(* The pen: open_editor, patch, undo and redo.                             *)

\* load refuses a note whose versions are all still to be downloaded.
Loadable(n) == n.alive /\ (n.doc.root # NoRoot \/ n.versions = {})

\* The drawing the note shows.
Ink(n) == IF n.doc.root = NoRoot THEN {} ELSE n.doc.root.ink

\* The job that publishes and closes keeps the editor waiting.
PenFree(d) == pen[d].finish # "published"

\* The editor reads the drawing to work on it, also while the completion of
\* an earlier session is still to run.
OpenEditor(d) ==
    /\ ~pen[d].open /\ PenFree(d)
    /\ Loadable(inkPages[d])
    /\ inkPages' = [inkPages EXCEPT ![d].doc.editing = TRUE, ![d].doc.seen = TRUE]
    /\ pen' = [pen EXCEPT ![d].open = TRUE, ![d].view = Ink(inkPages[d])]
    /\ UNCHANGED <<sheet, unsent, serverOps, pulled, wiped, inkOps, scope>>

\* Mutant of RevisionMatches: the patch is applied to whatever is there now.
RevisionMatches_Any(d) == TRUE

\* The revision the editor last read or wrote is still the stored one.
RevisionMatches(d) == inkPages[d].doc.seen

\* patch: lists every stroke the editor shows, so that others are dropped;
\* truncates the redo states, appends, trims the oldest, collects.
Patch(d, ink) ==
    LET n == inkPages[d]
        old == IF n.doc.root = NoRoot THEN Blank ELSE n.doc.root
        new == Build(old, ink)
        first == IF n.doc.root = NoRoot THEN {Blank} ELSE {}
        seq == n.doc.cursor + 1
        hist == [i \in {j \in (DOMAIN n.hist) \cup {0, seq} :
                          /\ j <= seq /\ j >= seq - PenHistory
                          /\ (j = 0 => n.doc.root = NoRoot \/ 0 \in DOMAIN n.hist)} |->
                   IF i = seq THEN new ELSE IF i \in DOMAIN n.hist THEN n.hist[i] ELSE Blank]
        after == [n EXCEPT !.hist = hist,
                           !.doc = [@ EXCEPT !.root = new, !.cursor = seq,
                                             !.dirty = TRUE]]
    IN /\ pen[d].open /\ PenFree(d)
       /\ Loadable(n)
       /\ RevisionMatches(d)
       /\ inkPages' = [inkPages EXCEPT ![d] = after]
       /\ sheet' = [sheet EXCEPT ![d] = Collected(@, first \cup {new}, after, unsent[d])]
       /\ wiped' = [wiped EXCEPT ![d] = @ \cup (pen[d].view \ ink)]
       /\ pen' = [pen EXCEPT ![d].view = ink]
       /\ UNCHANGED <<unsent, serverOps, pulled, inkOps, scope>>

Draw(d, m) == m \notin Drawn /\ Patch(d, pen[d].view \cup {m})
Erase(d, m) == m \in pen[d].view /\ Patch(d, pen[d].view \ {m})

\* navigate_impl: the cursor moves to an existing neighbour.
Navigate(d, step) ==
    LET n == inkPages[d]
        target == n.doc.cursor + step
    IN /\ pen[d].open /\ PenFree(d)
       /\ n.alive /\ n.doc.root # NoRoot
       /\ RevisionMatches(d)
       /\ target \in DOMAIN n.hist
       /\ inkPages' = [inkPages EXCEPT ![d].doc =
                      [@ EXCEPT !.root = n.hist[target], !.cursor = target,
                                !.dirty = TRUE]]
       /\ wiped' = [wiped EXCEPT ![d] = @ \cup (pen[d].view \ n.hist[target].ink)]
       /\ pen' = [pen EXCEPT ![d].view = n.hist[target].ink]
       /\ UNCHANGED <<sheet, unsent, serverOps, pulled, inkOps, scope>>

\* A refused patch makes the editor read the note again.
Reload(d) ==
    /\ pen[d].open
    /\ ~inkPages[d].doc.seen \/ ~inkPages[d].alive
    /\ pen' = [pen EXCEPT ![d].open = FALSE, ![d].view = {}]
    /\ UNCHANGED <<inkPages, sheet, unsent, serverOps, pulled, wiped, inkOps, scope>>
-----------------------------------------------------------------------------
(* Compaction: prepared from one state of the database, installed into a   *)
(* later one.                                                              *)

FreshChunks(n) == UNION {r.chunks : r \in Range(n.hist)} \ n.sealed

PreparePack(d) ==
    /\ (pen[d].open \/ pen[d].finish = "wanted") /\ PenFree(d) /\ pen[d].plan = {}
    /\ inkPages[d].alive
    /\ Cardinality(FreshChunks(inkPages[d])) >= 2
    /\ pen' = [pen EXCEPT ![d].plan = FreshChunks(inkPages[d])]
    /\ UNCHANGED <<inkPages, sheet, unsent, serverOps, pulled, wiped, inkOps, scope>>

\* A stroke of the plan now lives in another chunk of some undo state.
PackConflict(n, plan) ==
    \E r \in Range(n.hist) : \E c \in r.chunks \ plan : c \cap UNION plan \cap r.ink # {}

\* The chunks of the plan become one.
Repacked(r, plan) ==
    IF r.ink \cap UNION plan = {} THEN r
    ELSE [r EXCEPT !.chunks = (@ \ plan) \cup {UNION plan}]

RepackedHistory(n, plan) == [i \in DOMAIN n.hist |-> Repacked(n.hist[i], plan)]

Packed(n, plan) ==
    LET hist == RepackedHistory(n, plan)
        root == IF n.doc.root = NoRoot THEN NoRoot ELSE hist[n.doc.cursor]
    IN [n EXCEPT !.hist = hist, !.sealed = n.sealed \cup {UNION plan},
                 !.doc = [n.doc EXCEPT !.root = root]]

PackSkipped(n, plan) == ~n.alive \/ PackConflict(n, plan) \/ RepackedHistory(n, plan) = n.hist

Pack(d) ==
    LET n == inkPages[d]
        plan == pen[d].plan
        after == Packed(n, plan)
    IN /\ plan # {}
       /\ inkPages' = [inkPages EXCEPT ![d] = IF PackSkipped(n, plan) THEN n ELSE after]
       /\ sheet' = [sheet EXCEPT ![d] = IF PackSkipped(n, plan) THEN @
                                        ELSE Collected(@, Range(after.hist), after, unsent[d])]
       /\ pen' = [pen EXCEPT ![d].plan = {}]
       /\ UNCHANGED <<unsent, serverOps, pulled, wiped, inkOps, scope>>
-----------------------------------------------------------------------------
(* Completion: request_publication, publish, close_editor.                 *)

\* The intent is durable before the packing starts.  A note left dirty,
\* editing or requested by a crash is completed at the next start.
RequestPublication(d) ==
    /\ PenFree(d)
    /\ \/ pen[d].open
       \/ /\ pen[d].finish = "no" /\ inkPages[d].alive
          /\ inkPages[d].doc.dirty \/ inkPages[d].doc.requested \/ inkPages[d].doc.editing
    /\ inkPages' = [inkPages EXCEPT ![d].doc.requested = @ \/ inkPages[d].doc.dirty]
    /\ pen' = [pen EXCEPT ![d].open = FALSE, ![d].view = {},
                          ![d].finish = IF inkPages[d].alive THEN "wanted" ELSE @]
    /\ UNCHANGED <<sheet, unsent, serverOps, pulled, wiped, inkOps, scope>>

\* The operation PublishInk makes for the draft of d.
Publication(d, root, parents, id, draft) ==
    [kind |-> "publish", id |-> id, root |-> root, parents |-> parents, by |-> d, draft |-> draft]

\* publish: nothing when the draft is clean or ends where it started.
PublishInk(d) ==
    LET n == inkPages[d]
        id == inkOps + 1
        same == \E v \in n.versions : v.id = n.doc.base /\ v.root = n.doc.root
        clean == [n EXCEPT !.doc.dirty = FALSE, !.doc.requested = FALSE]
        op == Publication(d, n.doc.root, {n.doc.base} \ {0}, id, TRUE)
        linked == Linked(WithVersion(n, op), id)
        after == [linked EXCEPT !.doc = [@ EXCEPT !.dirty = FALSE, !.requested = FALSE, !.base = id],
                                !.sealed = @ \cup n.doc.root.chunks]
    IN /\ pen[d].finish = "wanted" /\ pen[d].plan = {}
       /\ pen' = [pen EXCEPT ![d].finish = IF n.alive THEN "published" ELSE "no"]
       /\ \/ ~n.alive /\ UNCHANGED <<inkPages, unsent, inkOps>>
          \/ /\ n.alive /\ (~n.doc.dirty \/ same)
             /\ inkPages' = [inkPages EXCEPT ![d] = clean]
             /\ UNCHANGED <<unsent, inkOps>>
          \/ /\ n.alive /\ n.doc.dirty /\ ~same
             /\ inkOps < scope.ops
             /\ inkPages' = [inkPages EXCEPT ![d] = after]
             /\ unsent' = [unsent EXCEPT ![d] = Append(@, op)]
             /\ inkOps' = id
       /\ UNCHANGED <<sheet, serverOps, pulled, wiped, scope>>

\* Mutant of Closed: the head that arrived meanwhile is not looked at.
Closed_NoAdopt(n) == [n EXCEPT !.doc.editing = FALSE]

Closed(n) == Adopted([n EXCEPT !.doc.editing = FALSE])

CloseEditor(d) ==
    /\ pen[d].finish = "published"
    /\ inkPages' = [inkPages EXCEPT ![d] = IF @.alive THEN Closed(@) ELSE @]
    /\ pen' = [pen EXCEPT ![d].finish = "no"]
    /\ UNCHANGED <<sheet, unsent, serverOps, pulled, wiped, inkOps, scope>>

\* The process ends: the rows stay.
CrashPen(d) ==
    /\ pen[d] # NoPen
    /\ pen' = [pen EXCEPT ![d] = NoPen]
    /\ UNCHANGED <<inkPages, sheet, unsent, serverOps, pulled, wiped, inkOps, scope>>
-----------------------------------------------------------------------------
(* Synchronisation.                                                        *)

\* upload_ink_graph exports the root the outbox row holds; the
\* acknowledgement removes the row and collects.
Push(d) ==
    /\ unsent[d] # <<>>
    /\ Head(unsent[d]).kind = "publish" => Intact(d, Head(unsent[d]).root)
    /\ serverOps' = Append(serverOps, Head(unsent[d]))
    /\ unsent' = [unsent EXCEPT ![d] = Tail(@)]
    /\ sheet' = [sheet EXCEPT ![d] = IF Head(unsent[d]).kind = "publish"
                                       THEN Collected(@, {}, inkPages[d], Tail(unsent[d])) ELSE @]
    /\ UNCHANGED <<inkPages, pen, pulled, wiped, inkOps, scope>>

NextOp(d) == serverOps[pulled[d] + 1]

HasGraph(d, r) ==
    \/ r \in inkPages[d].staged
    \/ \E v \in inkPages[d].versions : v.root = r /\ v.have
    \/ r \in InkPublications(unsent[d])

\* prepare_pull: download_ink_graph_to_store, then stage.
Fetch(d) ==
    /\ pulled[d] < Len(serverOps)
    /\ NextOp(d).kind = "publish" /\ NextOp(d).by # d
    /\ ~HasGraph(d, NextOp(d).root)
    /\ sheet' = [sheet EXCEPT ![d] = Persisted(@, {NextOp(d).root})]
    /\ inkPages' = [inkPages EXCEPT ![d].staged = @ \cup {NextOp(d).root},
                              ![d].sealed = @ \cup NextOp(d).root.chunks]
    /\ UNCHANGED <<pen, unsent, serverOps, pulled, wiped, inkOps, scope>>

\* apply_operation for a publication, a deletion, a restoration.
ApplyNext(d) ==
    LET op == NextOp(d)
        n == inkPages[d]
        after == CASE op.by = d -> n
                   [] op.by # d /\ op.kind = "publish" -> WithVersion(n, op)
                   [] op.by # d /\ op.kind = "delete" -> Purged(n)
                   [] op.by # d /\ op.kind = "create" -> [n EXCEPT !.alive = TRUE]
    IN /\ pulled[d] < Len(serverOps)
       /\ (op.kind = "publish" /\ op.by # d) => HasGraph(d, op.root)
       /\ inkPages' = [inkPages EXCEPT ![d] = after]
       /\ sheet' = [sheet EXCEPT ![d] = IF op.by # d /\ op.kind = "delete"
                                          THEN Collected(@, {}, after, unsent[d]) ELSE @]
       /\ pulled' = [pulled EXCEPT ![d] = @ + 1]
       /\ UNCHANGED <<pen, unsent, serverOps, wiped, inkOps, scope>>

\* resolve: all heads become parents of a version that repeats one of them.
\* (Further selections become notes of their own.)
ResolveHeads(d, keep) ==
    LET n == inkPages[d]
        id == inkOps + 1
        op == Publication(d, keep.root, {v.id : v \in Heads(n)}, id, FALSE)
    IN /\ n.alive /\ ~n.doc.dirty
       /\ Cardinality(Heads(n)) >= 2 /\ keep \in Heads(n) /\ keep.have
       /\ inkOps < scope.ops
       /\ inkPages' = [inkPages EXCEPT ![d] = WithVersion([n EXCEPT !.doc.editing = FALSE], op)]
       /\ unsent' = [unsent EXCEPT ![d] = Append(@, op)]
       /\ inkOps' = id
       /\ UNCHANGED <<sheet, pen, serverOps, pulled, wiped, scope>>
-----------------------------------------------------------------------------
(* Deleting the note and undoing that.                                     *)

\* history_retention::capture: the working copy when it is dirty or nothing
\* is published, then every other head.
Variants(n) ==
    LET own == IF n.doc.root # NoRoot /\ (n.doc.dirty \/ Heads(n) = {})
                 THEN {n.doc.root} ELSE {}
    IN own \cup {v.root : v \in {w \in Heads(n) : ~(n.doc.dirty /\ w.id = n.doc.base)}}

\* The variants in some order, the drawing the note showed first.
VariantOrders(n) ==
    {s \in [1..Cardinality(Variants(n)) -> Variants(n)] :
       Range(s) = Variants(n) /\ (n.doc.root \in Variants(n) => s[1] = n.doc.root)}

CapturedPage(n, variants) ==
    [kept |-> TRUE, root |-> n.doc.root, cursor |-> n.doc.cursor, hist |-> n.hist,
     heads |-> {v.id : v \in Heads(n)}, variants |-> variants]

Deletions == Cardinality({i \in DOMAIN serverOps : serverOps[i].kind = "delete"})
               + Cardinality({d \in InkDevices : \E o \in Range(unsent[d]) : o.kind = "delete"})

DeleteDrawing(d) ==
    LET n == inkPages[d]
        delete == [kind |-> "delete", id |-> inkOps + 1, by |-> d]
    IN /\ n.alive /\ inkOps < scope.ops /\ Deletions < scope.deletes
       /\ \A v \in Heads(n) : v.have \/ (n.doc.dirty /\ v.id = n.doc.base)
       /\ \E variants \in VariantOrders(n) :
            LET after == Purged([n EXCEPT !.pins = CapturedPage(n, variants)])
            IN /\ inkPages' = [inkPages EXCEPT ![d] = after]
               /\ sheet' = [sheet EXCEPT ![d] = Collected(@, {}, after, unsent[d])]
       /\ unsent' = [unsent EXCEPT ![d] = Append(@, delete)]
       /\ inkOps' = inkOps + 1
       /\ UNCHANGED <<pen, serverOps, pulled, wiped, scope>>

\* prepare_restore and restore_native, unless the note was touched since.
RestoreDrawing(d) ==
    LET n == inkPages[d]
        p == n.pins
        k == Len(p.variants)
        Op(i) == Publication(d, p.variants[i], p.heads, inkOps + 1 + i, FALSE)
        create == [kind |-> "create", id |-> inkOps + 1, by |-> d,
                   behind |-> k > 0 /\ p.root # p.variants[1]]
        Row(i) == [id |-> Op(i).id, root |-> p.variants[i], parents |-> p.heads, have |-> TRUE,
                   by |-> d, draft |-> FALSE]
        back == [n EXCEPT !.alive = TRUE, !.hist = p.hist, !.pins = NoPins,
                          !.versions = {Row(i) : i \in 1..k},
                          !.sealed = @ \cup UNION {r.chunks : r \in Range(p.variants)},
                          !.doc = [EmptyDoc EXCEPT !.root = p.root, !.cursor = p.cursor,
                                     !.base = IF k = 0 THEN 0 ELSE inkOps + 2]]
        gone == [n EXCEPT !.pins = NoPins]
        touched == n.alive \/ n.versions # {} \/ n.doc.root # NoRoot
    IN /\ p.kept
       /\ \/ /\ touched
             /\ inkPages' = [inkPages EXCEPT ![d] = gone]
             /\ sheet' = [sheet EXCEPT ![d] = Collected(@, {}, gone, unsent[d])]
             /\ UNCHANGED <<unsent, inkOps>>
          \/ /\ ~touched
             /\ inkOps + k < scope.ops
             /\ inkPages' = [inkPages EXCEPT ![d] = back]
             /\ unsent' = [unsent EXCEPT ![d] = @ \o <<create>> \o [i \in 1..k |-> Op(i)]]
             /\ inkOps' = inkOps + 1 + k
             /\ UNCHANGED sheet
       /\ UNCHANGED <<pen, serverOps, pulled, wiped, scope>>

DrawingNext ==
    \/ \E d \in scope.pens : OpenEditor(d)
    \/ \E d \in InkDevices, m \in scope.strokes : Draw(d, m)
    \/ \E d \in scope.erasers, m \in Marks : Erase(d, m)
    \/ \E d \in scope.erasers, step \in {-1, 1} : Navigate(d, step)
    \/ \E d \in InkDevices : Reload(d)
    \/ \E d \in scope.erasers : PreparePack(d)
    \/ \E d \in scope.erasers : Pack(d)
    \/ \E d \in InkDevices : RequestPublication(d)
    \/ \E d \in InkDevices : PublishInk(d)
    \/ \E d \in InkDevices : CloseEditor(d)
    \/ \E d \in scope.erasers : CrashPen(d)
    \/ \E d \in InkDevices : Push(d)
    \/ \E d \in InkDevices : Fetch(d)
    \/ \E d \in InkDevices : ApplyNext(d)
    \/ \E d \in InkDevices : \E keep \in inkPages[d].versions : ResolveHeads(d, keep)
    \/ \E d \in InkDevices : DeleteDrawing(d)
    \/ \E d \in InkDevices : RestoreDrawing(d)

DrawingSpec == DrawingInit /\ [][DrawingNext]_drawingVars
-----------------------------------------------------------------------------
\* The drawings the rows of d still need: the draft, the undo states of the
\* pen, versions, staged downloads, publications waiting in the outbox, and
\* what undoing a deletion would bring back.
Needed(d) ==
    LET n == inkPages[d]
    IN ({n.doc.root} \ {NoRoot}) \cup Range(n.hist) \cup n.staged
         \cup {v.root : v \in {w \in n.versions : w.have}}
         \cup InkPublications(unsent[d])
         \cup Range(n.pins.hist) \cup Range(n.pins.variants)

\* Every drawing that is still needed is complete on the device, whatever
\* compaction, purge and acknowledgement collected in between
\* (collect, storage/history.rs:84).
Retained == \A d \in InkDevices : \A r \in Needed(d) : Intact(d, r)

\* Undoing its deletion based the note of d on a version it does not show: a
\* head that had not been adopted when the note was deleted is published anew and
\* becomes the base of the older drawing.  behind remembers that for the properties.
Behind(d, v) ==
    /\ v.by = d
    /\ \E op \in Range(unsent[d]) \cup Range(serverOps) :
         op.kind = "create" /\ op.behind /\ op.id = v.id - 1

AllVersions == UNION {inkPages[d].versions : d \in InkDevices}

\* A version drawn with the pen never drops a stroke of its parent that its
\* author did not erase: what another device published is never overwritten
\* unseen (expected revision, editing flag and base_version together).  A draft
\* that undoing a deletion left behind its base is excepted: its next version
\* does drop what the base has and it never showed.
NoSilentDrop ==
    \A v \in AllVersions : \A w \in AllVersions :
      (v.draft /\ w.id \in v.parents /\ ~Behind(v.by, w))
        => w.root.ink \ v.root.ink \subseteq wiped[v.by]

\* No draft, no editor, no completion under way.
AtRest(n, p) == n.alive /\ ~n.doc.dirty /\ ~n.doc.editing /\ ~p.open /\ p.finish = "no"

\* What somebody who looks at the note may notice.
Visible(n) == <<n.alive, Ink(n), n.versions, n.doc.editing>>

\* Whatever visibly changes a note and leaves it at rest leaves it showing its
\* single head, also when that arrived while an editor was open, a draft was being
\* published or its graph was still missing (adopt_single_head); a note that
\* undoing a deletion left behind its base is excepted.
ShowsHead ==
    \A d \in InkDevices :
      (Visible(inkPages'[d]) # Visible(inkPages[d]) /\ AtRest(inkPages'[d], pen'[d]))
        => \A v \in Heads(inkPages'[d]) :
             (Heads(inkPages'[d]) = {v} /\ v.have /\ ~Behind(d, v)')
               => Ink(inkPages'[d]) = v.root.ink

\* Synchronisation never changes what a dirty or open draft shows or is
\* based on, short of deleting the note.
DraftUndisturbed ==
    \A d \in InkDevices :
         /\ inkPages[d].doc.dirty \/ inkPages[d].doc.editing
         /\ pulled'[d] # pulled[d] \/ (inkPages'[d].staged # inkPages[d].staged /\ unsent'[d] = unsent[d])
         /\ inkPages'[d].alive
         => Ink(inkPages'[d]) = Ink(inkPages[d]) /\ inkPages'[d].doc.base = inkPages[d].doc.base

\* A single head replaces a drawing exactly when nobody is at work on it.
HeadAdoption == [][ShowsHead /\ DraftUndisturbed]_drawingVars

\* No stroke is lost: neither to the collector nor to a version that its author
\* made from an older drawing.
StrokesKept == Retained /\ NoSilentDrop
=============================================================================
