--------------------------- MODULE CycleBreaking ---------------------------
(***************************************************************************)
(* break_structure_cycles of notes-core/src/operation.rs, step by step: it *)
(* visits the blocks in the order of a hash map, walks up the parent chain *)
(* of each, detaches one block when the walk meets itself, and remembers   *)
(* what it has proven acyclic.  A block is a number, which is also the     *)
(* clock of its intention.                                                 *)
(***************************************************************************)
EXTENDS Structure, Sequences, Functions

VARIABLES
  given,     \* history: the parents at the start
  parent,    \* intents
  starts,    \* the keys not visited yet
  proven,    \* proven_acyclic
  walking,   \* inside the while loop
  path,
  cursor

vars == <<given, parent, starts, proven, walking, path, cursor>>

(* No intention names its own block as parent; parents without an intention
   are dropped before. *)
Init ==
  /\ given \in {f \in [Block -> Block \cup {None}] : \A b \in Block : f[b] # b}
  /\ parent = given
  /\ starts = Block
  /\ proven = {}
  /\ walking = FALSE
  /\ path = <<>>
  /\ cursor = None

Visit(b) ==
  /\ ~ walking /\ b \in starts
  /\ starts' = starts \ {b}
  /\ IF b \in proven THEN UNCHANGED <<walking, cursor>>
                     ELSE walking' = TRUE /\ cursor' = b
  /\ UNCHANGED <<given, parent, proven, path>>

(* Mutant of Climb: the path is not recorded. *)
Climb_NoPath ==
  /\ walking /\ cursor # None /\ cursor \notin proven \cup Range(path)
  /\ cursor' = parent[cursor]
  /\ UNCHANGED <<given, parent, starts, proven, walking, path>>

Climb ==
  /\ walking /\ cursor # None /\ cursor \notin proven \cup Range(path)
  /\ path' = Append(path, cursor)
  /\ cursor' = parent[cursor]
  /\ UNCHANGED <<given, parent, starts, proven, walking>>

Leave == proven' = proven \cup Range(path) /\ walking' = FALSE /\ path' = <<>> /\ cursor' = None

(* The chain ended, or joined one that is known to end. *)
ReachTop ==
  /\ walking /\ cursor \in proven \cup {None}
  /\ Leave
  /\ UNCHANGED <<given, parent, starts>>

(* Mutant of CutCycle: the latest block of the whole path is detached. *)
CutCycle_WholePath ==
  /\ walking /\ cursor \in Range(path) \ proven
  /\ \E b \in Range(path) :
       /\ \A c \in Range(path) : c <= b
       /\ parent' = [parent EXCEPT ![b] = None]
  /\ Leave
  /\ UNCHANGED <<given, starts>>

(* The walk met itself: the latest block from there on is detached. *)
CutCycle ==
  /\ walking /\ cursor \in Range(path) \ proven
  /\ LET first == CHOOSE i \in 1 .. Len(path) : path[i] = cursor
         cycle == {path[i] : i \in first .. Len(path)}
     IN \E b \in cycle : /\ \A c \in cycle : c <= b
                         /\ parent' = [parent EXCEPT ![b] = None]
  /\ Leave
  /\ UNCHANGED <<given, starts>>

Next == (\E b \in Block : Visit(b)) \/ Climb \/ ReachTop \/ CutCycle

Spec == Init /\ [][Next]_vars /\ WF_vars(Next)

Finished == starts = {} /\ ~ walking

(* The walk ends, for every parent relation, and in whatever order a hash map
   lists the blocks the result is the one that replicas have to agree on: each
   cycle loses the parent of its latest block, and nothing else changes. *)
OneResult == <>(Finished /\ parent = BreakCycles(given, [b \in Block |-> b]))
============================================================================
