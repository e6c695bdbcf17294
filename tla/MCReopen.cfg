SPECIFICATION Spec
CONSTANTS
  MaxOps = 2
  Client = {c1, c2}
  Server = Server
  Nobody = Nobody
  Faults = {}
  Inapplicable = {2}
  MissingBlob = {}
  Batch = 2
  MaxCrashes = 1
  MaxDrops = 1
INVARIANT CanReopen
CHECK_DEADLOCK FALSE
