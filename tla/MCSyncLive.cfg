SPECIFICATION FairSpec
CONSTANTS
  MaxOps = 2
  Client = {c1, c2}
  Server = Server
  Nobody = Nobody
  Faults = {"snapshotError"}
  Inapplicable = {}
  MissingBlob = {1}
  Batch = 2
  MaxCrashes = 1
  MaxDrops = 0
INVARIANTS CleanInv
PROPERTIES Delivery ImplementsSharedLog
CHECK_DEADLOCK FALSE
