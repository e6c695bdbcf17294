----------------------------- MODULE Structure -----------------------------
(***************************************************************************)
(* The structural projection of one notes database (notes-core             *)
(* operation.rs and operation/structure.rs): raw placement intentions, one *)
(* per block and won by the latest clock, are resolved into the page and   *)
(* parent every block is shown under.  The resolver drops parents that are *)
(* gone or elsewhere and breaks cycles that concurrent moves close; the    *)
(* loader hands it only the component of blocks a write could affect.      *)
(*                                                                         *)
(* A database `d` is a record; this module reads the fields                *)
(*   pages   [Page -> [exist, ...]]           existence_hlc, 0 = no row    *)
(*   blocks  [Block -> [exist, page, parent, order, ...]]                  *)
(*   intent  [Block -> [page, parent, hlc]]   block_structure_lww, 0 = none*)
(*   seeds, dirty, deferred                   ApplyEffects                 *)
(* A clock is a number and stands for the value it was written with (here  *)
(* the order key of the intention), since no two operations share one.     *)
(***************************************************************************)
EXTENDS Integers, FiniteSets

CONSTANTS
  Page,
  Block,
  None        \* SQL NULL: no page, parent or title

ASSUME NoneAssumption == None \notin Page \cup Block
ASSUME BlockAssumption == IsFiniteSet(Block) /\ Page \cap Block = {}

LivePages(d) == {p \in Page : d.pages[p].exist # 0}
LiveBlocks(d) == {b \in Block : d.blocks[b].exist # 0}

----------------------------------------------------------------------------
(* The blocks on the parent chain above b: walk it once per block. *)
Above(parent, b) ==
  LET step(s) == {parent[c] : c \in s} \ {None}
      up[n \in 0 .. Cardinality(Block)] ==
        IF n = 0 THEN step({b}) ELSE up[n - 1] \cup step(up[n - 1])
  IN up[Cardinality(Block)]

(* Mutant of BreakCycles: cycles are left alone. *)
BreakCycles_Never(parent, hlc) == parent

(* What break_structure_cycles amounts to: the latest member of each cycle
   loses its parent. *)
BreakCycles(parent, hlc) ==
  [b \in DOMAIN parent |->
     IF /\ b \in Above(parent, b)
        /\ \A c \in Above(parent, b) : hlc[c] <= hlc[b]
       THEN None ELSE parent[b]]

(* resolve_structure over the loaded blocks: the parent every block with a
   usable intention gets. *)
ResolveStructure(d, loaded) ==
  LET usable == {b \in loaded \cap LiveBlocks(d) :
                   d.intent[b].hlc # 0 /\ d.intent[b].page \in LivePages(d)}
      valid(b) == LET q == d.intent[b].parent
                  IN /\ q \in usable
                     /\ d.intent[q].page = d.intent[b].page
                     /\ d.intent[b].hlc >= d.blocks[q].exist
  IN BreakCycles([b \in usable |-> IF valid(b) THEN d.intent[b].parent ELSE None],
                 [b \in usable |-> d.intent[b].hlc])

(* reconcile_structure_with_mode: write the resolved placements. *)
Reconcile(d, loaded) ==
  LET parent == ResolveStructure(d, loaded)
  IN [d EXCEPT !.blocks =
        [b \in Block |->
           IF b \in DOMAIN parent
             THEN [d.blocks[b] EXCEPT !.page = d.intent[b].page,
                                      !.parent = parent[b],
                                      !.order = d.intent[b].hlc]
             ELSE d.blocks[b]]]

----------------------------------------------------------------------------
(* Mutant of Component: the loader stops at the seeds. *)
Component_Seeds(d, seeds) == seeds

(* load_components: the blocks connected with the seeds by parent edges, shown
   or intended, in either direction and through blocks that are missing. *)
Component(d, seeds) ==
  LET edge(a, b) == d.blocks[a].parent = b \/ d.intent[a].parent = b
      near(s) == {b \in Block : \E a \in s : edge(a, b) \/ edge(b, a)}
      reach[n \in 0 .. Cardinality(Block)] ==
        IF n = 0 THEN seeds ELSE reach[n - 1] \cup near(reach[n - 1])
  IN reach[Cardinality(Block)]

(* Mutant of TouchBlock: the seeds of the operations before are forgotten. *)
TouchBlock_Replaces(d, b, newParent) ==
  [d EXCEPT !.seeds = {b, newParent, d.blocks[b].parent, d.intent[b].parent} \ {None}]

(* touch_block: a block, its new parent and both parents it had before. *)
TouchBlock(d, b, newParent) ==
  [d EXCEPT !.seeds = @ \cup
     ({b, newParent, d.blocks[b].parent, d.intent[b].parent} \ {None})]

Children(d, b) == {c \in Block : d.blocks[c].parent = b}

(* deleting_block for each of bs: also the children the foreign key detaches. *)
DeletingBlocks(d, bs) ==
  [d EXCEPT !.seeds = @ \cup
     (UNION {{b, d.blocks[b].parent, d.intent[b].parent} \cup Children(d, b) : b \in bs}
        \ {None})]

(* touch_page: every member, shown or intended, and both its parents. *)
TouchPage(d, p) ==
  LET members == {b \in Block : d.blocks[b].page = p \/ d.intent[b].page = p}
  IN [d EXCEPT !.seeds = @ \cup
        (UNION {{b, d.blocks[b].parent, d.intent[b].parent} : b \in members} \ {None})]

(* project_structure: the production mode resolves the seeds' components. *)
ProjectStructure(d) ==
  [Reconcile(d, Component(d, d.seeds)) EXCEPT !.seeds = {}, !.dirty = FALSE]

(* request_structure: at once for a local command, at the end of the batch for
   what sync delivers. *)
RequestStructure(d) ==
  IF d.deferred THEN [d EXCEPT !.dirty = TRUE] ELSE ProjectStructure(d)

(* ensure_structure_current: a read barrier inside a batch. *)
EnsureStructureCurrent(d) == IF d.dirty THEN ProjectStructure(d) ELSE d
============================================================================
