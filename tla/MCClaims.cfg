SPECIFICATION Spec
CONSTANTS
  p1 = p1
  b1 = b1
  b2 = b2
  b3 = b3
  T = T
  None = None
  Page = {j1, p1, p2}
  Block = {b1, b2}
  Title = {T}
  Journal = {j1}
  Client = {c1, c2}
  Server = Server
  Author = {c1, c2}
  Commands = {"createPage", "createNote", "capture", "ensureJournal", "appendToJournal", "setLayout", "deleteBlock", "restoreBlock"}
  Seed <- NoSeed
  MaxHlc = 4
SYMMETRY ClientSymmetry
INVARIANTS ClaimsSettled
CHECK_DEADLOCK FALSE
