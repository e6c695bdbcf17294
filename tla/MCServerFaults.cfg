SPECIFICATION Spec
CONSTANTS
  MaxOps = 2
  Client = {c1, c2}
  Server = Server
  Nobody = Nobody
  Faults = {"appendError", "applyError", "rollbackError", "snapshotError"}
  Inapplicable = {1}
  MissingBlob = {}
  Batch = 2
  MaxCrashes = 1
  MaxDrops = 1
SYMMETRY ClientSymmetry
INVARIANTS LogInv
PROPERTY CommittedStable
CHECK_DEADLOCK FALSE
