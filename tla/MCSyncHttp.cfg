SPECIFICATION Spec
CONSTANTS
  MaxOps = 3
  Client = {c1, c2}
  Server = Server
  Nobody = Nobody
  Faults = {"snapshotError"}
  Inapplicable = {}
  MissingBlob = {2}
  Batch = 2
  MaxCrashes = 0
  MaxDrops = 1
SYMMETRY ClientSymmetry
INVARIANTS OutboxKept NothingLost
CHECK_DEADLOCK FALSE
