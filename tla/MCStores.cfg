SPECIFICATION StoresSpec
CONSTANTS
  Device = {1, 2}
  StampedOp = {o1, o2, o3}
  MaxWall = 1
  MaxCounter = 3
  NoClock = NoClock
  MaxOps = 2
  Devices = {d1, d2}
  Servers = {s1}
  Nobody = nobody
  Clients = {c1}
  Users = {u1, u2}
  Tasks = {t1, t2}
  CodeTtl = 1
  AccessTtl = 1
  RefreshTtl = 2
  MaxSecrets = 3
  MaxTime = 2
  None = None
  Page = {p1, p2}
  Block = {b1, b2}
  Title = {T}
  Journal = {}
  HistoryLimit = 2
  FirstPage = p1
  FirstBlock = b1
  MaxClock = 7
  LastSave = 4
  MaxForeign = 1
  Hash = {h1, h2}
  Attachers = {a1}
  Importers = {i1}
  MaxBackups = 3
  Phones = {f1}
  Laptops = {l1}
  Strangers = {x1}
  Files = {g1}
  Roots = {r1}
  Strokes = {k1}
  Encounters = {{f1, l1}, {f1, x1}}
  FirstEncounter = {f1, l1}
  BlobQuota = 2
  Tablet = d1
  FirstMark = m1
  InkDevices = {d1, d2}
  Marks = {m1, m2}
  PenHistory = 1
  InkScopes <- MCScopes
  FirstScope <- PlainScope
  InkNotes = {n1, n2}
  PennedNotes = {n1}
  MaxInkWrites = 2
  MaxInkFaults = 1
  Documents = {a, b}
  MaxAiEdits = 2
  MaxAttempts = 2
  MaxConfigs = 2
  MaxResets = 1
  Sources = {a, b}
  Names = {x, y}
  MaxSourceEdits = 3
  MaxTries = 2
  MaxAiRestarts = 1
  Requests = {q1, q2}
  LastDocument = 1
  LastFile = 3
  BadContents = {1}
  MaxFolderEdits = 1
  MaxDryRuns = 2
  MaxImportFaults = 1
  Spellings <- MCSpellings
  DateForms = {"iso", "j"}
  IsoForm = "iso"
  MaxPlanFiles = 2
  MaxPlanBlocks = 2
  LinkPages = {p1, p2}
  LinkBlocks = {b1}
  LinkTitles = {T, U}
  NoPage = NoPage
  FirstNote = p1
  FirstTitle = T
  SecondNote = p2
  FirstText = b1
  MaxStamp = 6
INVARIANTS
  ClockInv ConsentKept LinearHistory BodiesGuarded StrokesKept ShutdownTruthful
  PlanFaithful LinksHonest
PROPERTIES
   HonestMoves BodiesKept HeadAdoption IndexHonest GraphHonest
  AllOrNothing
CHECK_DEADLOCK FALSE
