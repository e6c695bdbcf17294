SPECIFICATION Spec
CONSTANTS
  p1 = p1
  b1 = b1
  b2 = b2
  b3 = b3
  T = T
  None = None
  Page = {p1}
  Block = {b1, b2, b3}
  Title = {T}
  Journal = {}
  Client = {c1, c2}
  Server = Server
  Author = {c1, c2}
  Commands = {"createBlock", "moveBlock", "deleteBlock"}
  Seed <- PairSeed
  MaxHlc = 6
SYMMETRY ClientSymmetry
INVARIANTS OrderIndependent PacketsInvisible SoundOutline
CHECK_DEADLOCK FALSE
