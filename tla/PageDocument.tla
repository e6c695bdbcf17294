--------------------------- MODULE PageDocument ----------------------------
(***************************************************************************)
(* The continuous editor of a page (notes-core/src/db/document.rs): a      *)
(* window reads the whole page, the user rearranges it, and                *)
(* replace_page_document turns the draft into creates, edits, moves and    *)
(* deletes, with order keys fitted between the ones that may stay (OrderKey*)
(* of notes-core/src/model.rs).  Meanwhile synchronisation delivers what   *)
(* other devices did, in any order of clocks.  Blocks are numbers in the   *)
(* order of their UUIDs; the key an operation carried is keyOf its clock.  *)
(* The key space of 2^64 values is the numbers up to KeyMax.               *)
(***************************************************************************)
EXTENDS ApplyOps, SequencesExt

CONSTANTS
    Note,       \* the page
    Windows,
    KeyMax,     \* u64::MAX
    KeyStep,    \* OrderKey::STEP
    MaxUnits,   \* bound: units of a draft
    MaxTicks,   \* bound: clocks
    MaxForeignOps \* bound: operations of other devices

VARIABLES
    doc,        \* the notes database
    keyOf,      \* keyOf[h]: the order key of the operation with clock h
    base,       \* base[w]: the snapshot window w edits, <<>> if it has none
    asked,      \* history: the outline the last step asked for, and the one before it
    others,     \* history: others[w]: blocks other writers touched since w's snapshot
    arrived     \* how many operations of other devices have arrived

docVars == <<doc, keyOf, base, asked, others, arrived>>

Keys == 0 .. KeyMax
Ticks == 1 .. MaxTicks
NoKey == -1
KeyOf(d, b) == keyOf[d.blocks[b].order]

\* The blocks below `parent` in the order of keys, then of UUIDs.
InOrder(d, keys, parent) ==
    SetToSortSeq({b \in LiveBlocks(d) : d.blocks[b].parent = parent},
                 LAMBDA a, b : LET ka == keys[d.blocks[a].order]
                                   kb == keys[d.blocks[b].order]
                               IN ka < kb \/ (ka = kb /\ a < b))

\* deterministic_preorder: a forest, so its depth is at most its size.
Preorder(d, keys) ==
    LET kids == [p \in LiveBlocks(d) \cup {None} |-> InOrder(d, keys, p)]
        below[n \in 0 .. Cardinality(Block), p \in Block \cup {None}] ==
          IF n = 0 THEN <<>>
          ELSE FlattenSeq([i \in DOMAIN kids[p] |-> <<kids[p][i]>> \o below[n - 1, kids[p][i]]])
    IN  below[Cardinality(Block), None]

Outline(d, keys) ==
    LET blocks == Preorder(d, keys)
    IN  [i \in DOMAIN blocks |-> [block |-> blocks[i], parent |-> d.blocks[blocks[i]].parent]]

\* Mutant of Revision: a digest of the text alone.
Revision_Texts(d) == [b \in LiveBlocks(d) |-> d.blocks[b].md]

\* document_revision: digests of the page's generation and of every row with
\* the clocks of its fields.
Revision(d) == <<d.pages[Note].exist, [b \in LiveBlocks(d) |-> d.blocks[b]]>>

NothingAsked == [settled |-> FALSE, now |-> <<>>, was |-> <<>>, on |-> FALSE, kept |-> {}]

SeedOps == <<[kind |-> "PageCreate", page |-> Note, title |-> None, hlc |-> 1],
             [kind |-> "BlockCreate", block |-> 1, page |-> Note, parent |-> None, hlc |-> 2],
             [kind |-> "BlockCreate", block |-> 2, page |-> Note, parent |-> None, hlc |-> 4]>>

ApplyBatch(d, ops, deferred) ==
    FinishApply(FoldLeft(ApplyOne, BeginApply(d, deferred), ops))

Init ==
    /\ doc = ApplyBatch(EmptyDb, SeedOps, TRUE)
    /\ keyOf = [h \in Ticks |-> IF h = 2 THEN KeyStep ELSE IF h = 4 THEN 2 * KeyStep ELSE NoKey]
    /\ base = [w \in Windows |-> <<>>]
    /\ asked = NothingAsked
    /\ others = [w \in Windows |-> {}]
    /\ arrived = 0
-----------------------------------------------------------------------------
\* get_page_document
OpenDocument(w) ==
    /\ base' = [base EXCEPT ![w] = <<Revision(doc)>>]
    /\ others' = [others EXCEPT ![w] = {}]
    /\ asked' = NothingAsked
    /\ UNCHANGED <<doc, keyOf, arrived>>

Used(h) == keyOf[h] # NoKey \/ h = 1
LastUsed == Max({h \in Ticks : Used(h)})

\* Synchronisation delivers an operation of another device, which had its own
\* view of the page.
Deliver(op, key) ==
    /\ arrived < MaxForeignOps
    /\ arrived' = arrived + 1
    /\ \E h \in {t \in Ticks : ~Used(t)} :
         /\ keyOf' = [keyOf EXCEPT ![h] = key]
         /\ doc' = ApplyBatch(doc, <<op @@ [hlc |-> h]>>, TRUE)
    /\ others' = [w \in Windows |->
                    others[w] \cup {b \in Block : doc'.blocks[b] # doc.blocks[b]}]
    /\ asked' = NothingAsked
    /\ UNCHANGED base

ForeignMove(b, parent, key) ==
    Deliver([kind |-> "BlockMove", block |-> b, page |-> Note, parent |-> parent], key)
ForeignEdit(b) == Deliver([kind |-> "BlockSetMarkdown", block |-> b], 0)
ForeignDelete(b) == Deliver([kind |-> "BlockDelete", block |-> b, page |-> Note], 0)
-----------------------------------------------------------------------------
\* OrderKey::between: `count` keys strictly between two keys, evenly spaced, or
\* none when they do not fit.  Zero and KeyMax + 2 are virtual bounds.
Between(lower, upper, count) ==
    LET lo == IF lower = NoKey THEN 0 ELSE lower + 1
        hi == IF upper = NoKey THEN KeyMax + 2 ELSE upper + 1
    IN  IF hi <= lo \/ hi - lo - 1 < count THEN <<>>
        ELSE [i \in 1 .. count |-> lo + ((hi - lo) * i) \div (count + 1) - 1]

\* fill_order_key_gaps: the keys of one group of siblings, gaps filled, or <<>>.
FillGaps(keys) ==
    LET known == {i \in DOMAIN keys : keys[i] # NoKey}
        lower(i) == LET l == {j \in known : j < i} IN IF l = {} THEN 0 ELSE Max(l)
        upper(i) == LET u == {j \in known : j > i} IN IF u = {} THEN Len(keys) + 1 ELSE Min(u)
        at(j) == IF j \in known THEN keys[j] ELSE NoKey
        gap(i) == Between(at(lower(i)), at(upper(i)), upper(i) - lower(i) - 1)
    IN  IF \E i \in DOMAIN keys \ known : gap(i) = <<>> THEN <<>>
        ELSE [i \in DOMAIN keys |-> IF i \in known THEN keys[i] ELSE gap(i)[i - lower(i)]]

\* A draft is a sequence of units: the block it was, 0 for a new one, the index
\* of its parent among the units before it, 0 for none, and whether it was edited.
Group(units, parent) == SelectSeq([i \in DOMAIN units |-> i], LAMBDA i : units[i].parent = parent)

\* The UUIDs of the units: new ones for those without.
Assigned(units, fresh) ==
    [i \in DOMAIN units |-> IF units[i].block # 0 THEN units[i].block ELSE
       fresh[Cardinality({j \in 1 .. i : units[j].block = 0})]]

\* Mutant of InPlace: the same siblings in any order.
InPlace_SameSet(desired, current) == Range(desired) = Range(current)

\* The retained siblings keep their relative order.
InPlace(desired, current) == desired = current

\* Mutant of AssignKeys: every group is numbered anew.
AssignKeys_Renumber(units, ids) ==
    [i \in DOMAIN units |->
       KeyStep * Len(SelectSeq(Group(units, units[i].parent), LAMBDA j : j <= i))]

\* assign_desired_order_keys: siblings that stay keep their keys if their order
\* stays too; a group without room is numbered anew.
AssignKeys(units, ids) ==
    LET parentId(i) == IF units[i].parent = 0 THEN None ELSE ids[units[i].parent]
        keysOf(group) ==
          LET p == parentId(group[1])
              stays(i) == units[i].block # 0 /\ doc.blocks[units[i].block].parent = p
              wanted == SelectSeq(group, stays)
              kept == SelectSeq(InOrder(doc, keyOf, p), LAMBDA b :
                                  \E i \in Range(wanted) : ids[i] = b)
              inPlace == InPlace([i \in DOMAIN wanted |-> ids[wanted[i]]], kept)
              filled == FillGaps([n \in DOMAIN group |->
                          IF inPlace /\ stays(group[n]) THEN KeyOf(doc, ids[group[n]]) ELSE NoKey])
          IN IF filled # <<>> THEN filled ELSE [n \in DOMAIN group |-> n * KeyStep]
        groups == [q \in {units[i].parent : i \in DOMAIN units} |-> keysOf(Group(units, q))]
    IN  [i \in DOMAIN units |->
           groups[units[i].parent][Len(SelectSeq(Group(units, units[i].parent), LAMBDA j : j <= i))]]

\* validate_document_units: parents come first, blocks are the page's and occur
\* once.
Valid(units) ==
    /\ \A i \in DOMAIN units : units[i].parent < i
    /\ \A i, j \in DOMAIN units : i # j /\ units[i].block # 0 => units[i].block # units[j].block

\* plan_document_replace: creates, edits, moves, then deletes from the leaves.
PlanKinds(units, ids, keys) ==
    LET all == [i \in DOMAIN units |-> i]
        parentId(i) == IF units[i].parent = 0 THEN None ELSE ids[units[i].parent]
        old(i) == units[i].block # 0
        moved(i) == old(i) /\ (doc.blocks[ids[i]].parent # parentId(i) \/ KeyOf(doc, ids[i]) # keys[i])
        each(test(_), op(_)) ==
          LET chosen == SelectSeq(all, test) IN [n \in DOMAIN chosen |-> op(chosen[n])]
        gone == SelectSeq(Reverse(Preorder(doc, keyOf)), LAMBDA b : b \notin Range(ids))
    IN  each(LAMBDA i : ~old(i), LAMBDA i : [kind |-> "BlockCreate", block |-> ids[i], page |-> Note,
                                             parent |-> parentId(i), key |-> keys[i]])
        \o each(LAMBDA i : old(i) /\ units[i].edited,
                LAMBDA i : [kind |-> "BlockSetMarkdown", block |-> ids[i], key |-> 0])
        \o each(moved, LAMBDA i : [kind |-> "BlockMove", block |-> ids[i], page |-> Note,
                                   parent |-> parentId(i), key |-> keys[i]])
        \o [n \in DOMAIN gone |-> [kind |-> "BlockDelete", block |-> gone[n], page |-> Note, key |-> 0]]

\* No block's intention is waiting behind the placement it is shown at.
Settled(d) == \A b \in LiveBlocks(d) : d.intent[b].parent = d.blocks[b].parent

\* The draft replaces the document; the window goes on with what it gets back.
ReplaceDocument(w, units, fresh) ==
    LET ids == Assigned(units, fresh)
        last == LastUsed
        parentId(i) == IF units[i].parent = 0 THEN None ELSE ids[units[i].parent]
    IN  /\ Valid(units)
        /\ \E kinds \in {PlanKinds(units, ids, AssignKeys(units, ids))} :
             LET ops == [i \in DOMAIN kinds |-> kinds[i] @@ [hlc |-> last + i]]
             IN  /\ last + Len(kinds) <= MaxTicks
                 /\ doc' = ApplyBatch(doc, ops, FALSE)
                 /\ keyOf' = [h \in Ticks |-> IF h \in last + 1 .. last + Len(kinds)
                                              THEN kinds[h - last].key ELSE keyOf[h]]
                 /\ others' = [v \in Windows |-> IF v = w THEN {}
                                                 ELSE others[v] \cup {op.block : op \in Range(ops)}]
        /\ base' = [base EXCEPT ![w] = <<Revision(doc')>>]
        /\ asked' = [settled |-> Settled(doc), on |-> TRUE,
                     now |-> [i \in DOMAIN units |-> [block |-> ids[i], parent |-> parentId(i)]],
                     was |-> Outline(doc, keyOf),
                     kept |-> {b \in Range(ids) \cap LiveBlocks(doc) :
                                 doc'.blocks[b].order = doc.blocks[b].order}]
        /\ UNCHANGED arrived

\* The page is still as the window read it.
Unchanged(w) == base[w] = <<Revision(doc)>>

\* Another revision: `page document changed since editing began`; the window
\* reads the page again.
RefuseDocument(w) ==
    /\ base[w] # <<>>
    /\ ~Unchanged(w)
    /\ base' = [base EXCEPT ![w] = <<>>]
    /\ asked' = NothingAsked
    /\ UNCHANGED <<doc, keyOf, others, arrived>>

\* The drafts with blocks of `known` and as many new ones as `room` leaves; of
\* the text, only the first unit is edited.
Drafts(known, room) ==
    UNION {LET trees == {p \in [1 .. n -> 0 .. MaxUnits - 1] : \A i \in 1 .. n : p[i] < i}
               rows == {b \in [1 .. n -> known \cup {0}] :
                          /\ Cardinality({i \in 1 .. n : b[i] = 0}) <= room
                          /\ \A k \in known : Cardinality({i \in 1 .. n : b[i] = k}) < 2}
           IN {[i \in 1 .. n |-> [block |-> b[i], parent |-> p[i], edited |-> e /\ i = 1]] :
                 b \in rows, p \in trees, e \in BOOLEAN} : n \in 0 .. MaxUnits}

Next ==
    \/ \E w \in Windows : OpenDocument(w) \/ RefuseDocument(w)
    \/ \E w \in Windows :
         /\ Unchanged(w)
         /\ LastUsed < MaxTicks
         /\ LET fresh == SetToSortSeq({b \in Block : doc.blocks[b].exist = 0 /\ doc.tomb[b] = 0}, <)
            IN \E units \in Drafts(LiveBlocks(doc), Len(fresh)) : ReplaceDocument(w, units, fresh)
    \/ \E b \in LiveBlocks(doc) :
         \/ \E parent \in (LiveBlocks(doc) \ {b}) \cup {None}, key \in Keys : ForeignMove(b, parent, key)
         \/ ForeignEdit(b) \/ ForeignDelete(b)

Spec == Init /\ [][Next]_docVars
-----------------------------------------------------------------------------
\* The units below one parent, in their order.
Below(outline, p) == SelectSeq(outline, LAMBDA u : u.parent = p)
SameTree(a, b) == \A p \in Block \cup {None} : Below(a, p) = Below(b, p)

\* After a replacement the page reads back as the draft: the same blocks, below
\* the same parents, in the same order, whatever keys there was room for, if no
\* placement was held back by a cycle or a missing parent.
SettledRealised ==
    asked.on /\ asked.settled => SameTree(Outline(doc, keyOf), asked.now)

\* A replacement never undoes what its window had not seen: blocks that another
\* writer has touched since the window read the page keep their row.
OthersKept ==
    \A w \in Windows, b \in Block :
      asked'.on /\ base'[w] # <<>> /\ others'[w] = {} /\ b \in others[w] =>
        doc'.blocks[b] = doc.blocks[b]

\* Siblings that all stay, in their order, are not written, whatever happens
\* elsewhere on the page: a move of them that another device makes meanwhile is
\* not overruled (assign_desired_order_keys).
StableAnchors ==
    asked.on =>
      \A p \in Block \cup {None} :
        Below(asked.now, p) = Below(asked.was, p) =>
          \A u \in Range(Below(asked.was, p)) : u.block \in asked.kept

\* A replacement is the draft and no more: it is realised, what may stay is not
\* written, and what its window had not seen is left alone.
ReplacementExact == [][SettledRealised' /\ StableAnchors' /\ OthersKept]_docVars
=============================================================================
