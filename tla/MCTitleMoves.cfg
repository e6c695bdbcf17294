SPECIFICATION Spec
CONSTANTS
  p1 = p1
  b1 = b1
  b2 = b2
  b3 = b3
  T = T
  None = None
  Page = {p1, p2}
  Block = {b1}
  Title = {T, U}
  Journal = {}
  Client = {c1, c2}
  Server = Server
  Author = {c1, c2}
  Commands = {"createPage", "rename"}
  Seed <- NoSeed
  MaxHlc = 3
SYMMETRY ClientSymmetry
INVARIANT Converged
CHECK_DEADLOCK FALSE
