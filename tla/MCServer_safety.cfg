CONSTANTS
  Scenes = {"pool", "install", "lifecycle", "routes"}
  s1 = s1
  Requests = {r1, r2}
  Managers = {m1}
  Ids = {a, b}
  Specs = {s1}
  Entries = {e1, e2, e3}
  Configured <- AllConfigured
  MaxLoaded = 1
  BusyTimeout = TRUE
  Calls = {"forget"}
  Faults = {"load", "session", "cancel"}
  None = None
  Spellings = {plain}
  FileCount = 1
  Jobs = {j1, j2}
  Clients = {c1, c2}
  Roots = {d1, d2}
  DefaultRoot = d1
  InstallCalls = {"start", "stop", "clean", "remove", "root"}
  Crashes = TRUE
  Nothing = Nothing
  Models = {voice}
  HttpClients = {h1, h2}
  MaxServerCalls = 4
  Routes = {p, q}
  Descriptions = {lax, strict}
  Strict = {strict}
  NoSpec = NoSpec
  MaxLoads = 2
  Frame = 4
  ChunkBytes = 6
  BodyBytes = 12
  IdleLimit = TRUE
  TotalLimit = TRUE
  Sendable = 13
  Words = {x, y}
  MaxWords = 2
SPECIFICATION UncrossedSpec
SYMMETRY ServerSymmetry
INVARIANTS
  ServerTypes
  SessionInUseIsLive
  NoGateLeaked
  WeightsOutliveSession
  WorkerIsListed
  RootHoldsStill
  RemovalIsComplete
  StateTellsTruth
  RegistrationStandsOrFalls
  RefusalFitsModel
PROPERTIES
  ImplementsExclusiveSessions
CHECK_DEADLOCK FALSE
