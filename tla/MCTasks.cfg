SPECIFICATION Spec
CONSTANTS
  Callers = {c1, c2}
  Capacity = 1
  MaxWrites = 2
  MaxTokens = 2
  InkNotes = {n1}
  PennedNotes = {n1}
  MaxInkWrites = 2
  MaxInkFaults = 1
  MaxOps = 3
  ChannelSize = 1
  PageSize = 2
  Refused = {2}
  MaxCuts = 1
  MaxInFlight = 2
  Documents = {a}
  MaxAiEdits = 1
  MaxAttempts = 2
  MaxConfigs = 2
  MaxResets = 0
  Page = {}
  Block = {1, 2, 3, 4}
  None = None
  Note = n
  Units = {1, 2, 3}
  Windows = {w1}
  KeyMax = 4
  KeyStep = 1
  MaxUnits = 3
  MaxTicks = 6
  MaxForeignOps = 1
INVARIANTS
  JobsKept RestoreSafe 
PROPERTIES
  CallSettles RestoreUndisturbed ExitCompletes InkServed  JobsSettle
  OneResult ReplacementExact
CHECK_DEADLOCK FALSE
