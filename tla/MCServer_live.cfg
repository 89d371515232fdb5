CONSTANTS
  Scenes = {"pool", "install", "lifecycle", "routes", "ingest"}
  s1 = s1
  Requests = {r1, r2}
  Managers = {m1}
  Ids = {a}
  Specs = {s1, s2}
  Entries = {e1, e2}
  Configured <- NoneConfigured
  MaxLoaded = 0
  BusyTimeout = TRUE
  Calls = {"unload", "unload_all", "register", "note"}
  Faults = {"load", "session"}
  None = None
  Spellings = {plain}
  FileCount = 2
  Jobs = {j1, j2}
  Clients = {c1}
  Roots = {d1, d2}
  DefaultRoot = d1
  InstallCalls = {"start", "stop", "clean"}
  Crashes = TRUE
  Nothing = Nothing
  Models = {voice}
  HttpClients = {h1, h2}
  MaxServerCalls = 3
  Routes = {p}
  Descriptions = {lax, strict}
  Strict = {strict}
  NoSpec = NoSpec
  MaxLoads = 2
  Frame = 4
  ChunkBytes = 6
  BodyBytes = 12
  IdleLimit = TRUE
  TotalLimit = TRUE
  Sendable = 13
  Words = {x, y}
  MaxWords = 2
SPECIFICATION MCSpec
INVARIANTS
  TypeOK
  ServerTypes
  InstalledIsWhole
  EveryByteOnce
  DoneMeansWhole
PROPERTIES
  EveryCallReturns
  QueueDrains
  StopEndsJob
  StopCompletes
  DeltasAddUp
  GateComesBack
CHECK_DEADLOCK FALSE
