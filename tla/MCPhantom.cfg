SPECIFICATION Spec
CONSTANTS
  MaxOps = 2
  Client = {c1, c2}
  Server = Server
  Nobody = Nobody
  Faults = {"applyError"}
  Inapplicable = {}
  MissingBlob = {}
  Batch = 2
  MaxCrashes = 0
  MaxDrops = 1
INVARIANT NothingLost
CHECK_DEADLOCK FALSE
