SPECIFICATION Spec
CONSTANTS
  p1 = p1
  b1 = b1
  b2 = b2
  b3 = b3
  T = T
  None = None
  Page = {p1}
  Block = {b1}
  Title = {T}
  Journal = {p1}
  Client = {c1, c2}
  Server = Server
  Author = {c1, c2}
  Commands = {"ensureJournal", "deletePage"}
  Seed <- NoSeed
  MaxHlc = 3
SYMMETRY ClientSymmetry
INVARIANT Converged
CHECK_DEADLOCK FALSE
