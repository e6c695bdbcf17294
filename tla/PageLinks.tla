----------------------------- MODULE PageLinks -----------------------------
(***************************************************************************)
(* Links between notes: the page_links table, which the apply engine keeps *)
(* up to date operation by operation, at once for a local command and at   *)
(* the end of the batch for a synchronised one (ApplyEffects of            *)
(* notes-core/src/operation.rs), and the change set that tells the window  *)
(* what to read again (ChangeTracker of notes-core/src/changes.rs).        *)
(* A text is the set of titles it links to; the links stand behind its     *)
(* first eighty characters, which are the label of the block.  Placement   *)
(* of blocks is Structure's subject: here a block stays on its page.       *)
(***************************************************************************)
EXTENDS Integers, FiniteSets

CONSTANTS
    LinkPages, LinkBlocks, LinkTitles,
    NoPage,      \* no page, no title
    FirstNote,   \* the page that has the title FirstTitle at the beginning,
    FirstTitle,
    SecondNote,  \* the page of the block FirstText,
    FirstText,   \*   which links to FirstTitle
    MaxStamp     \* bound: clocks, and so operations

ASSUME LinksAssumption ==
    /\ NoPage \notin LinkPages \cup LinkTitles
    /\ LinkPages \cap LinkBlocks = {}
    /\ FirstNote \in LinkPages /\ SecondNote \in LinkPages \ {FirstNote}
    /\ FirstTitle \in LinkTitles /\ FirstText \in LinkBlocks
    /\ MaxStamp \in Nat

VARIABLES
    notes,     \* the database
    effects,   \* the open transaction: policy, pending projections, before-images
    before,    \* history: the database when the last transaction began
    notice,    \* the change set of the last commit
    stamps     \* clocks in use

linkVars == <<notes, effects, before, notice, stamps>>

Rows == LinkPages \cup LinkBlocks
NoNoteRow == [exist |-> 0, title |-> NoPage, titleHlc |-> 0]
NoTextRow == [exist |-> 0, page |-> NoPage, text |-> {}, md |-> 0]

NoEffects == [open |-> FALSE, deferred |-> FALSE, refs |-> {}, aliases |-> {},
              pages |-> <<>>, blocks |-> <<>>, graph |-> <<>>, failed |-> FALSE]
NoNotice == [affected |-> {}, graph |-> {}]

LinksInit ==
    /\ notes = [pages |-> [p \in LinkPages |->
                             IF p = FirstNote
                             THEN [exist |-> 1, title |-> FirstTitle, titleHlc |-> 1]
                             ELSE IF p = SecondNote
                             THEN [exist |-> 2, title |-> NoPage, titleHlc |-> 2] ELSE NoNoteRow],
                blocks |-> [b \in LinkBlocks |->
                              IF b = FirstText THEN [exist |-> 3, page |-> SecondNote,
                                                     text |-> {FirstTitle}, md |-> 3]
                              ELSE NoTextRow],
                links |-> [b \in LinkBlocks |->
                             IF b = FirstText THEN {<<FirstTitle, FirstNote>>} ELSE {}],
                aliases |-> [x \in LinkPages \X LinkTitles |-> [hlc |-> 0, present |-> FALSE]],
                tomb |-> [o \in Rows |-> 0]]
    /\ effects = NoEffects
    /\ before = notes
    /\ notice = NoNotice
    /\ stamps = 1 .. 3

LiveNotes(n) == {p \in LinkPages : n.pages[p].exist # 0}
LiveTexts(n) == {b \in LinkBlocks : n.blocks[b].exist # 0}
-----------------------------------------------------------------------------
\* resolve_page_alias: the one page with that title or alias.
Candidates(n, t) ==
    {p \in LiveNotes(n) : n.pages[p].title = t \/ n.aliases[<<p, t>>].present}
ResolveAlias(n, t) ==
    IF Cardinality(Candidates(n, t)) = 1 THEN CHOOSE p \in Candidates(n, t) : TRUE ELSE NoPage

\* reconcile_page_links_for_alias
Retargeted(n, ts) ==
    [n EXCEPT !.links = [b \in LinkBlocks |->
       {IF l[1] \in ts THEN <<l[1], ResolveAlias(n, l[1])>> ELSE l : l \in @[b]}]]

\* replace_block_refs
Relinked(n, bs) ==
    [n EXCEPT !.links = [b \in LinkBlocks |->
       IF b \in bs THEN {<<t, ResolveAlias(n, t)>> : t \in n.blocks[b].text} ELSE @[b]]]

\* Before-images are taken once, the first time a row is a candidate.
BeforeImages(images, now) ==
    [x \in DOMAIN images \cup DOMAIN now |-> IF x \in DOMAIN images THEN images[x] ELSE now[x]]
CapturePages(e, n, ps) == [e EXCEPT !.pages = BeforeImages(@, [p \in ps |-> n.pages[p]])]
CaptureBlocks(e, n, bs) == [e EXCEPT !.blocks = BeforeImages(@, [b \in bs |-> n.blocks[b]])]
CaptureGraph(e, n, bs) == [e EXCEPT !.graph = BeforeImages(@, [b \in bs |-> n.links[b]])]
Linking(n, ts) == {b \in LinkBlocks : \E l \in n.links[b] : l[1] \in ts}

\* deleting_block
DeletingTexts(e, n, bs) == CaptureGraph(CaptureBlocks(e, n, bs), n, bs)

\* Mutant of DeletingNote: the links to the page are left to the reconciliation.
DeletingNote_Later(e, n, p) == CapturePages(e, n, {p})

\* deleting_page: ON DELETE SET NULL changes incoming links before the
\* reconciliation of the titles sees them.
DeletingNote(e, n, p) ==
    CaptureGraph(CapturePages(e, n, {p}), n,
                 {b \in LinkBlocks : \E l \in n.links[b] : l[2] = p})

\* request_page_links and request_block_refs: a pair of database and effects.
RequestLinks(s, ts) ==
    IF s.e.deferred THEN [s EXCEPT !.e.aliases = @ \cup ts]
    ELSE [n |-> Retargeted(s.n, ts), e |-> CaptureGraph(s.e, s.n, Linking(s.n, ts))]
RequestRefs(s, b) ==
    IF s.e.deferred THEN [s EXCEPT !.e.refs = @ \cup {b}]
    ELSE [n |-> Relinked(s.n, {b}), e |-> CaptureGraph(s.e, s.n, {b})]

\* Mutant of DiscardRefs: the text of a deleted block is still projected.
DiscardRefs_Kept(e, bs) == e

DiscardRefs(e, bs) == [e EXCEPT !.refs = @ \ bs]

\* DELETE FROM blocks: its links go along.
WithoutTexts(n, bs) ==
    [n EXCEPT !.blocks = [b \in LinkBlocks |-> IF b \in bs THEN NoTextRow ELSE @[b]],
              !.links = [b \in LinkBlocks |-> IF b \in bs THEN {} ELSE @[b]]]

Buried(n, os, h) == [n EXCEPT !.tomb = [o \in Rows |-> IF o \in os /\ @[o] < h THEN h ELSE @[o]]]
-----------------------------------------------------------------------------
\* apply_page_title: the titles whose links may change are the old one and the
\* new one; a page with an older claim to the new title loses it.
ApplyTitle(s, p, title, h) ==
    LET n == s.n
        rivals == {q \in LiveNotes(n) \ {p} : title # NoPage /\ n.pages[q].title = title}
        dirty == {n.pages[p].title, title} \ {NoPage}
        lost == \E q \in rivals : n.pages[q].titleHlc >= h
        named == [n EXCEPT !.pages = [q \in LinkPages |->
                    IF q = p THEN [@[q] EXCEPT !.title = IF lost THEN NoPage ELSE title,
                                              !.titleHlc = h]
                    ELSE IF q \in rivals /\ ~lost THEN [@[q] EXCEPT !.title = NoPage] ELSE @[q]]]
        e == IF lost THEN s.e ELSE CapturePages(s.e, n, rivals)
    IN  IF n.pages[p].exist = 0 \/ n.pages[p].titleHlc >= h THEN s
        ELSE RequestLinks([n |-> named, e |-> e], dirty)

\* apply_block_markdown
ApplyMarkdown(s, b, text, h) ==
    IF s.n.blocks[b].exist = 0 \/ s.n.blocks[b].md >= h THEN s
    ELSE RequestRefs([s EXCEPT !.n.blocks[b].text = text, !.n.blocks[b].md = h], b)

ExplicitAliases(n, p) == {t \in LinkTitles : n.aliases[<<p, t>>].present}

\* Mutant of ReferenceAliases: only the title of the page is looked at.
ReferenceAliases_Title(n, p) == {n.pages[p].title} \ {NoPage}

\* page_reference_aliases
ReferenceAliases(n, p) == ExplicitAliases(n, p) \cup ({n.pages[p].title} \ {NoPage})

\* PageCreate; a second one replaces the blocks of the first.
NoteCreated(s, p, title, h) ==
    LET n == s.n
        stale == {b \in LinkBlocks : n.blocks[b].page = p /\ n.blocks[b].exist < h}
        replaces == n.pages[p].exist # 0 /\ n.pages[p].exist < h
        s1 == IF ~replaces THEN s
              ELSE [n |-> WithoutTexts(Buried(n, stale, h), stale),
                    e |-> DiscardRefs(DeletingTexts(s.e, n, stale), stale)]
        n2 == [s1.n EXCEPT !.pages[p].exist = IF @ < h THEN h ELSE @,
                           !.tomb[p] = IF @ < h THEN 0 ELSE @]
        s3 == ApplyTitle([s1 EXCEPT !.n = n2], p, title, h)
    IN  IF n.tomb[p] >= h THEN s ELSE RequestLinks(s3, ExplicitAliases(s3.n, p))

AliasSet(s, p, t, present, h) ==
    IF s.n.aliases[<<p, t>>].hlc >= h THEN s
    ELSE RequestLinks([s EXCEPT !.n.aliases[<<p, t>>] = [hlc |-> h, present |-> present]], {t})

NoteDeleted(s, p, h) ==
    LET n == s.n
        gone == {b \in LinkBlocks : n.blocks[b].exist # 0 /\ n.blocks[b].page = p}
        buried == Buried(n, gone \cup {p}, h)
        n2 == WithoutTexts(buried, gone)
        n3 == [n2 EXCEPT !.pages[p] = NoNoteRow,
                         !.links = [b \in LinkBlocks |->
                            {IF l[2] = p THEN <<l[1], NoPage>> ELSE l : l \in @[b]}]]
    IN  IF n.pages[p].exist > h THEN s
        ELSE IF buried.tomb[p] # h THEN [s EXCEPT !.n = buried]
        ELSE RequestLinks([n |-> n3, e |-> DiscardRefs(DeletingTexts(s.e, n, gone), gone)],
                          ReferenceAliases(n, p))

TextCreated(s, b, p, text, h) ==
    LET n == s.n
        row == IF n.blocks[b].exist = 0 THEN [exist |-> h, page |-> p, text |-> text, md |-> 0]
               ELSE [n.blocks[b] EXCEPT !.exist = IF @ < h THEN h ELSE @]
    IN  IF n.tomb[b] >= h THEN s
        ELSE IF n.tomb[p] # 0 THEN [s EXCEPT !.n = Buried(n, {b}, n.tomb[p])]
        ELSE IF n.pages[p].exist > h THEN [s EXCEPT !.n = Buried(n, {b}, n.pages[p].exist)]
        ELSE ApplyMarkdown([s EXCEPT !.n.blocks[b] = row, !.n.tomb[b] = 0], b, text, h)

TextDeleted(s, b, h) ==
    LET buried == Buried(s.n, {b}, h)
    IN  IF s.n.blocks[b].exist > h THEN s
        ELSE IF buried.tomb[b] # h THEN [s EXCEPT !.n = buried]
        ELSE [n |-> WithoutTexts(buried, {b}), e |-> DiscardRefs(s.e, {b})]

FreeStamps == (1 .. MaxStamp) \ stamps

\* capture_kind runs before the operation; s is the outcome of both.
Applied(s, h) ==
    /\ effects.open
    /\ notes' = s.n
    /\ effects' = s.e
    /\ stamps' = stamps \cup {h}
    /\ UNCHANGED <<before, notice>>

\* The notes with the before-images the change tracker has captured so far.
Tracked(e) == [n |-> notes, e |-> e]

CreateNote(p, title) ==
    \E h \in FreeStamps :
      Applied(NoteCreated(Tracked(CapturePages(effects, notes, {p})), p, title, h), h)
SetTitle(p, title) ==
    \E h \in FreeStamps :
      Applied(IF notes.tomb[p] # 0 THEN Tracked(effects)
              ELSE ApplyTitle(Tracked(CapturePages(effects, notes, {p})), p, title, h), h)
SetAlias(p, t, present) ==
    \E h \in FreeStamps : Applied(AliasSet(Tracked(effects), p, t, present, h), h)
DeleteNote(p) ==
    \E h \in FreeStamps : Applied(NoteDeleted(Tracked(DeletingNote(effects, notes, p)), p, h), h)
CreateText(b, p, text) ==
    /\ notes.pages[p].exist # 0 \/ notes.tomb[p] # 0
    /\ \E h \in FreeStamps :
         Applied(TextCreated(Tracked(DeletingTexts(effects, notes, {b})), b, p, text, h), h)
SetMarkdown(b, text) ==
    \E h \in FreeStamps :
      Applied(IF notes.tomb[b] # 0 THEN Tracked(effects)
              ELSE ApplyMarkdown(Tracked(CaptureBlocks(effects, notes, {b})), b, text, h), h)
DeleteText(b) ==
    \E h \in FreeStamps : Applied(TextDeleted(Tracked(DeletingTexts(effects, notes, {b})), b, h), h)
-----------------------------------------------------------------------------
BeginLinks ==
    /\ ~effects.open
    /\ \E deferred \in BOOLEAN : effects' = [NoEffects EXCEPT !.open = TRUE, !.deferred = deferred]
    /\ before' = notes
    /\ notice' = NoNotice
    /\ UNCHANGED <<notes, stamps>>

\* finish: the candidates are compared with their before-images.
Notice(n, e) ==
    LET pages == {p \in DOMAIN e.pages : e.pages[p] # n.pages[p]}
        blocks == {b \in DOMAIN e.blocks : e.blocks[b] # n.blocks[b]}
        graph == {b \in DOMAIN e.graph : e.graph[b] # n.links[b]}
        moved(b) == e.blocks[b].page # n.blocks[b].page
        retitled(p) == e.pages[p].title # n.pages[p].title \/ (e.pages[p].exist = 0) # (n.pages[p].exist = 0)
    IN  [affected |-> pages \cup {e.blocks[b].page : b \in blocks}
                        \cup {n.blocks[b].page : b \in blocks \cup graph},
         graph |-> {p \in pages : retitled(p)} \cup {b \in blocks : moved(b)} \cup graph]

\* finish_projections: first the links of changed titles, then pending texts
\* against the final titles; a pending text without a block breaks the foreign
\* key and with it the batch.
CommitLinks ==
    LET e1 == CaptureGraph(effects, notes, Linking(notes, effects.aliases))
        n1 == Retargeted(notes, effects.aliases)
        e2 == CaptureGraph(e1, n1, effects.refs)
        n2 == Relinked(n1, effects.refs)
    IN  /\ effects.open
        /\ IF effects.refs \subseteq LiveTexts(notes)
           THEN /\ notes' = n2
                /\ notice' = Notice(n2, e2)
                /\ effects' = NoEffects
           ELSE /\ notes' = before
                /\ notice' = NoNotice
                /\ effects' = [NoEffects EXCEPT !.failed = TRUE]
        /\ UNCHANGED <<before, stamps>>

LinksNext ==
    \/ BeginLinks \/ CommitLinks
    \/ \E p \in LinkPages :
         \/ \E title \in LinkTitles \cup {NoPage} : CreateNote(p, title) \/ SetTitle(p, title)
         \/ \E t \in LinkTitles, present \in BOOLEAN : SetAlias(p, t, present)
         \/ DeleteNote(p)
    \/ \E b \in LinkBlocks, text \in SUBSET LinkTitles :
         \/ SetMarkdown(b, text)
         \/ \E p \in LinkPages : CreateText(b, p, text)
    \/ \E b \in LinkBlocks : DeleteText(b)

LinksSpec == LinksInit /\ [][LinksNext]_linkVars
-----------------------------------------------------------------------------
\* After every commit the links are those the texts and the titles say,
\* whatever the order, the packets and the policy of the operations: a link
\* goes to the one page that answers to its title, and to none when two do.
LinksCurrent ==
    ~effects.open =>
      \A b \in LinkBlocks :
        notes.links[b] = {<<t, ResolveAlias(notes, t)>> : t \in notes.blocks[b].text}

\* The change set names every block whose links are different from before the
\* transaction and every page that got or lost a title, so that no graph the
\* window shows stays behind; their pages are to be read again.
GraphReported ==
    ~effects.open /\ ~effects.failed =>
      /\ \A b \in LinkBlocks : notes.links[b] # before.links[b] =>
           b \in notice.graph /\ notes.blocks[b].page \in notice.affected \cup {NoPage}
      /\ \A p \in LinkPages : notes.pages[p].title # before.pages[p].title =>
           p \in notice.graph \cap notice.affected

\* No batch fails because a text was pending for a block that the same batch
\* deleted (discard_block_refs).
NothingDangling == ~effects.failed

\* Links, and what the window is told about them, keep up with texts and titles.
LinksHonest == LinksCurrent /\ GraphReported /\ NothingDangling
=============================================================================
