--------------------------- MODULE MCConvergence ---------------------------
(* Model-checking instances of Convergence: the notes everybody starts with. *)
EXTENDS Convergence

SeedPage(p, title, h) ==
  [kind |-> "PageCreate", page |-> p, title |-> title, hlc |-> h, by |-> Server]
SeedBlock(b, p, parent, h) ==
  [kind |-> "BlockCreate", block |-> b, page |-> p, parent |-> parent, hlc |-> h, by |-> Server]

CONSTANTS p1, b1, b2, b3, T

(* A page with two blocks side by side. *)
PairSeed == <<SeedPage(p1, T, 1), SeedBlock(b1, p1, None, 2), SeedBlock(b2, p1, None, 3)>>

(* A page with one block. *)
NoteSeed == <<SeedPage(p1, T, 1), SeedBlock(b1, p1, None, 2)>>

NoSeed == <<>>

ClientSymmetry == Permutations(Client)
============================================================================
