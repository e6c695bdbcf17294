----------------------------- MODULE ImportPlan -----------------------------
(***************************************************************************)
(* What the importer makes of a Logseq folder: the planner                 *)
(* (notes-import/src/prepare.rs, media.rs, materialize.rs), the adapter    *)
(* (build_external_import_batch) and the checks the notes core repeats on  *)
(* the batch (external_import.rs validate_batch).  A behaviour builds a    *)
(* folder file by file and block by block; the plan is a function of it.   *)
(* A title is a spelling: a letter, its Unicode width and its case.        *)
(* Logseq's identity ignores the case, the destination's also the width.   *)
(***************************************************************************)
EXTENDS Integers, Sequences, SequencesExt

CONSTANTS
    Spellings,     \* records [letter, width, upper] a page may be called
    DateForms,     \* letters a journal's date is written as, IsoForm among them
    IsoForm,
    MaxPlanFiles,  \* bound: documents
    MaxPlanBlocks  \* bound: blocks of the whole folder, preambles apart

VARIABLE
    folder         \* the documents, in the order of their paths

NoTitle == [no |-> "title"]        \* no title property
BadTitle == [no |-> "usable title"]  \* an empty one, or more than one
JournalName == [no |-> "name"]     \* a file of the journals directory

NoPreamble == -1

Init == folder = <<>>

\* Where a block's id property may come from: nowhere, a malformed value or two
\* of them, a fresh uuid, the uuid of the first page (copied from an export), or
\* the uuid the importer derives for the first block of the first page.
IdValues == {"none", "bad", "fresh", "page", "derived"}

AddFile(name, title) ==
    /\ Len(folder) < MaxPlanFiles
    /\ \A d \in DOMAIN folder : folder[d].blocks = <<>> /\ folder[d].preamble = NoPreamble
    /\ folder' = Append(folder, [name |-> name, title |-> title, preamble |-> NoPreamble,
                                 blocks |-> <<>>])

BlockCount == FoldLeft(LAMBDA n, d : n + Len(d.blocks), 0, folder)

\* Titles and blocks are varied separately, to bound the folders.
Untitled == \A d \in DOMAIN folder : folder[d].title = NoTitle

AddPreamble(d, media) ==
    /\ Untitled
    /\ folder[d].preamble = NoPreamble
    /\ folder' = [folder EXCEPT ![d].preamble = media]

AddBlock(d, parent, id, media) ==
    /\ Untitled
    /\ BlockCount < MaxPlanBlocks
    /\ folder' = [folder EXCEPT ![d].blocks =
                    Append(@, [parent |-> parent, id |-> id, media |-> media])]

Next ==
    \/ \E name \in Spellings \cup {JournalName}, title \in Spellings \cup {NoTitle, BadTitle} :
         AddFile(name, title)
    \/ \E d \in DOMAIN folder :
         \/ \E media \in {0, 1} : AddPreamble(d, media)
         \/ \E parent \in 0 .. Len(folder[d].blocks), id \in IdValues, media \in {0, 2} :
              AddBlock(d, parent, id, media)

Spec == Init /\ [][Next]_folder
-----------------------------------------------------------------------------
PlanFiles == DOMAIN folder

\* normalize_logseq_identity: NFC and lower case.
LogseqIdentity(s) == [letter |-> s.letter, width |-> s.width]

\* normalize_notes_title and PageAlias: NFKC and lower case.
NotesTitle(s) == s.letter

IsJournal(d) == folder[d].name = JournalName
Iso == [letter |-> IsoForm, width |-> "narrow"]

\* A page's uuid comes from the import namespace and its file name, a journal's
\* from the workspace and its date.
PageUuid(d) ==
    IF IsJournal(d) THEN <<"journal", IsoForm>> ELSE <<"page", LogseqIdentity(folder[d].name)>>

\* The title property replaces the file's title when it is usable.
TitleOf(d) ==
    IF folder[d].title \in Spellings THEN folder[d].title
    ELSE IF IsJournal(d) THEN Iso ELSE folder[d].name

\* Mutant of Aliases: a journal is only known by its date.
Aliases_NoForms(d) ==
    IF IsJournal(d) THEN {Iso, LogseqIdentity(TitleOf(d))}
    ELSE {LogseqIdentity(folder[d].name), LogseqIdentity(TitleOf(d))}

\* The names references may use for a document.
Aliases(d) ==
    {LogseqIdentity(TitleOf(d))} \cup
    (IF IsJournal(d) THEN {[letter |-> l, width |-> "narrow"] : l \in DateForms}
                     ELSE {LogseqIdentity(folder[d].name)})

DestinationKey(d) == NotesTitle(IF IsJournal(d) THEN Iso ELSE TitleOf(d))

\* diagnose_page_collisions
PagesCollide(d, e) == PageUuid(d) = PageUuid(e) \/ DestinationKey(d) = DestinationKey(e)
-----------------------------------------------------------------------------
\* The blocks of document d: 0 is its preamble.
BlocksOf(d) == (IF folder[d].preamble = NoPreamble THEN {} ELSE {0}) \cup DOMAIN folder[d].blocks
AllBlocks == {<<d, i>> : d \in PlanFiles, i \in 0 .. MaxPlanBlocks} \cap
             UNION {{d} \X BlocksOf(d) : d \in PlanFiles}

SiblingIndex(d, i) ==
    LET b == folder[d].blocks
    IN  Len(SelectSeq(SubSeq(b, 1, i - 1), LAMBDA c : c.parent = b[i].parent))

StructuralPath(d) ==
    LET b == folder[d].blocks
        path[i \in 0 .. Len(b)] ==
            IF i = 0 THEN <<>> ELSE Append(path[b[i].parent], SiblingIndex(d, i))
    IN  path

DerivedUuid(d, i) == <<"derived", PageUuid(d), StructuralPath(d)[i]>>

NoUuid == <<"none">>

\* block_identity_candidate
Candidate(d, i) ==
    IF i = 0 THEN NoUuid
    ELSE LET id == folder[d].blocks[i].id
         IN  IF id = "fresh" THEN <<"fresh">>
             ELSE IF id = "page" THEN PageUuid(1)
             ELSE IF id = "derived" THEN <<"derived", PageUuid(1), <<0>>>>
             ELSE NoUuid

PageUuids == {PageUuid(d) : d \in PlanFiles}
Others(d, i) == AllBlocks \ {<<d, i>>}

\* Mutant of Collides: derived identities of other blocks are not considered.
Collides_Explicit(d, i) ==
    \/ \E o \in Others(d, i) : Candidate(o[1], o[2]) = Candidate(d, i)
    \/ Candidate(d, i) \in PageUuids

\* A candidate is rejected when another block or a page has it.
Collides(d, i) ==
    \/ \E o \in Others(d, i) : Candidate(d, i) \in {Candidate(o[1], o[2]), DerivedUuid(o[1], o[2])}
    \/ Candidate(d, i) \in PageUuids

Preserved(d, i) == Candidate(d, i) # NoUuid /\ ~Collides(d, i)

\* resolve_block_identities
TargetUuid(d, i) == IF Preserved(d, i) THEN Candidate(d, i) ELSE DerivedUuid(d, i)
-----------------------------------------------------------------------------
\* build_identity_maps: an alias with two owners resolves to nothing.
Owners(alias) == {d \in PlanFiles : alias \in Aliases(d)}
PageTitles == {<<alias, d>> \in UNION {Aliases(d) \X {d} : d \in PlanFiles} : Owners(alias) = {d}}
BlockSources == {b \in AllBlocks : Preserved(b[1], b[2])}

\* resolve_reference for [[target]] and ((target)): the uuids it may resolve to.
WikiTargets(target) == {PageUuid(e[2]) : e \in {f \in PageTitles : f[1] = LogseqIdentity(target)}}
BlockTargets(uuid) == {TargetUuid(b[1], b[2]) : b \in {c \in BlockSources :
                                                         Candidate(c[1], c[2]) = uuid}}

\* The error diagnostics of the plan.
Errors ==
    \/ \E d \in PlanFiles : folder[d].title = BadTitle
    \/ \E d, e \in PlanFiles : d # e /\ PagesCollide(d, e)
    \/ \E d \in PlanFiles : \E alias \in Aliases(d) : Owners(alias) # {d}
    \/ \E b \in AllBlocks : b[2] # 0 /\ folder[b[1]].blocks[b[2]].id = "bad"
    \/ \E b \in AllBlocks : Candidate(b[1], b[2]) # NoUuid /\ Collides(b[1], b[2])
    \/ \E b \in AllBlocks : \/ DerivedUuid(b[1], b[2]) \in PageUuids
                            \/ \E o \in Others(b[1], b[2]) :
                                 DerivedUuid(b[1], b[2]) = DerivedUuid(o[1], o[2])

\* destination_aliases: those a page needs besides its title.
ExtraAliases(d) == {NotesTitle(e[1]) : e \in {f \in PageTitles : f[2] = d}} \
                   (IF IsJournal(d) THEN {} ELSE {NotesTitle(TitleOf(d))})

AliasCollision ==
    \E d, e \in PlanFiles :
      /\ d # e
      /\ \/ ExtraAliases(d) \cap ExtraAliases(e) # {}
         \/ ~IsJournal(e) /\ NotesTitle(TitleOf(e)) \in ExtraAliases(d)

\* The blockers of the dry run that depend on the folder alone.
StaticCommitAllowed == folder # <<>> /\ ~Errors /\ ~AliasCollision
-----------------------------------------------------------------------------
\* The preamble comes before the other root blocks.
SiblingOrdinal(d, i) ==
    IF i = 0 THEN 0
    ELSE SiblingIndex(d, i) +
         (IF 0 \in BlocksOf(d) /\ folder[d].blocks[i].parent = 0 THEN 1 ELSE 0)

ParentUuid(d, i) ==
    IF i = 0 \/ folder[d].blocks[i].parent = 0 THEN NoUuid
    ELSE TargetUuid(d, folder[d].blocks[i].parent)

MediaCount(d, i) == IF i = 0 THEN folder[d].preamble ELSE folder[d].blocks[i].media

\* A preamble's media belong to the page.
MediaOwner(d, i) == IF i = 0 THEN PageUuid(d) ELSE TargetUuid(d, i)

\* finalize_page and build_external_import_batch; attachments are keyed by owner
\* and body.
BatchPage(d) ==
    [id |-> PageUuid(d),
     title |-> IF IsJournal(d) THEN {} ELSE {NotesTitle(TitleOf(d))},
     aliases |-> ExtraAliases(d),
     blocks |-> {[id |-> TargetUuid(d, i), parent |-> ParentUuid(d, i),
                  order |-> SiblingOrdinal(d, i) + 1, place |-> i] : i \in BlocksOf(d)}]
Batch == [d \in PlanFiles |-> BatchPage(d)]
Attachments == {MediaOwner(b[1], b[2]) : b \in {c \in AllBlocks : MediaCount(c[1], c[2]) > 0}}

\* validate_batch of the notes core; `place` tells entries of the batch apart.
BlockIds(p) == {b.id : b \in p.blocks}

ValidBatch(batch) ==
    LET pages == DOMAIN batch
        ids == {batch[d].id : d \in pages}
        names(d) == batch[d].title \cup batch[d].aliases
    IN  /\ pages # {}
        /\ \A d, e \in pages : d # e =>
             /\ batch[d].id # batch[e].id
             /\ names(d) \cap names(e) = {}
             /\ BlockIds(batch[d]) \cap BlockIds(batch[e]) = {}
        /\ \A d \in pages :
             /\ BlockIds(batch[d]) \cap ids = {}
             /\ \A b, c \in batch[d].blocks : b # c =>
                  b.id # c.id /\ <<b.parent, b.order>> # <<c.parent, c.order>>
             /\ \A b \in batch[d].blocks :
                  b.parent # NoUuid => b.parent # b.id /\ b.parent \in BlockIds(batch[d])
        /\ \A owner \in Attachments :
             owner \in ids \cup UNION {BlockIds(batch[d]) : d \in pages}
-----------------------------------------------------------------------------
\* A block's Markdown: a piece of text, then a media reference of two
\* characters for each of its media, each followed by text.
MediaToken == <<"[", "]">>
Markdown(n) == FoldLeft(LAMBDA text, i : text \o MediaToken \o <<"x">>, <<"x">>, [i \in 1 .. n |-> i])
Uri == <<"(", "u", ")">>

\* The references, as ranges of the unchanged Markdown.
Ranges(n) == [i \in 1 .. n |-> 3 * i - 1]

ReplaceRange(text, start) == SubSeq(text, 1, start - 1) \o Uri \o SubSeq(text, start + 2, Len(text))

\* Mutant of RewriteOrder: from the first reference to the last.
RewriteOrder_Forward(ranges) == ranges

\* Rewrites of one block are sorted by descending start.
RewriteOrder(ranges) == Reverse(ranges)

\* apply_media_rewrites
Rewritten(n) ==
    FoldLeft(LAMBDA text, start : ReplaceRange(text, start), Markdown(n), RewriteOrder(Ranges(n)))
-----------------------------------------------------------------------------
\* A plan the dry run lets the user confirm passes every check the core makes:
\* the two normalisations, preserved and derived identities, preambles and
\* media owners never make a confirmed import fail after its bodies were
\* installed.
PreparedValid == StaticCommitAllowed => ValidBatch(Batch)

\* In a plan that may be committed every reference means what it meant in
\* Logseq: a block reference finds the block that carried the id and no other,
\* and every name of a document finds that document.
LinksLand ==
    StaticCommitAllowed =>
      /\ \A b \in AllBlocks : Candidate(b[1], b[2]) # NoUuid =>
           /\ TargetUuid(b[1], b[2]) = Candidate(b[1], b[2])
           /\ BlockTargets(Candidate(b[1], b[2])) = {TargetUuid(b[1], b[2])}
      /\ \A d \in PlanFiles : ~IsJournal(d) =>
           WikiTargets(folder[d].name) = {PageUuid(d)} /\ WikiTargets(TitleOf(d)) = {PageUuid(d)}
      /\ \A d \in PlanFiles : IsJournal(d) =>
           \A l \in DateForms : WikiTargets([letter |-> l, width |-> "narrow"]) = {PageUuid(d)}

\* Every media reference of a block is replaced, at its place, although each
\* replacement moves the text behind it (materialize.rs:413).
MediaRewritten ==
    \A b \in AllBlocks :
      LET n == MediaCount(b[1], b[2])
      IN  Rewritten(n) = FoldLeft(LAMBDA text, i : text \o Uri \o <<"x">>, <<"x">>,
                                 [i \in 1 .. n |-> i])

\* A plan that may be confirmed is importable and means what the folder meant:
\* pages, references and media.
PlanFaithful == PreparedValid /\ LinksLand /\ MediaRewritten
=============================================================================
