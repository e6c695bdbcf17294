SPECIFICATION Spec
CONSTANTS
  p1 = p1
  b1 = b1
  b2 = b2
  b3 = b3
  T = T
  None = None
  Page = {p1}
  Block = {b1, b2}
  Title = {T}
  Journal = {}
  Client = {c1, c2}
  Server = Server
  Author = {c1, Server}
  Commands = {"rename", "setLayout", "setContent", "setStyle", "attach", "deleteBlock", "createBlock", "deletePage"}
  Seed <- NoteSeed
  MaxHlc = 5
INVARIANTS OrderIndependent LateHarmless SnapshotRestores
CHECK_DEADLOCK FALSE
