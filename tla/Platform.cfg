\* Small instances of every part; one of them is live in a behaviour.
CONSTANTS
  A = A
  B = B
  c1 = c1
  c2 = c2
  c3 = c3
  c4 = c4
  nodeA = nodeA
  nodeB = nodeB
  nodeC = nodeC
  newA = newA
  newB = newB
  PrimaryRegion = r0
  BackupRegions = {r1, r2}
  ErrorThreshold = 2
  MaxFailovers = 3
  MirrorTargets = 2
  MaxMirrorTasks = 5
  MaxReplicaTasks = 6
  BookRuns = {1, 2}
  BookSteps = 5
  BookDeps <- Dependencies
  WithRollback = {1, 3}
  SvcTenants = {A, B}
  StartCalls = {1, 2}
  StoredEvents = {"s1", "s2", "s3", "s4"}
  SvcEvents = {"e1"}
  RowKey <- RowKeys
  StoreBatch = 3
  NoEvent = NoEvent
  CacheKeys = {k1, k2}
  Contents = {u, v}
  Retrievals = {r1}
  MaxTtl = 2
  NoEntry = NoEntry
  Chats = {c1, c2, c3, c4}
  ChatTenant <- TenantOfChat
  WindowSize = 1
  TenantRequests = 1
  GlobalRequests = 2
  TokensMax = 6
  RefillRate = 1
  TokenCost = 3
  GwThreshold = 2
  Recovery = 1
  LastTick = 2
  Clients = {c1, c2, c3}
  Speakers = {c1, c2}
  MaxSockets = 3
  Hedges = {h1, h2}
  Targets = {1, 2, 3}
  Operations = {o1, o2, o3}
  MaxAge = 1
  MaxEvents = 2
  LastMs = 3
  NodeLists <- Documents
  NewNodes <- ToInsert
  MaxEdges = 3
  MaxLoads = 2
  Revisions = {"v1", "v2"}
  MaxEdits = 4
  YamlFiles = {"f1", "f2"}
  Analyses = {n1, n2, n3}
  Features = {"f", "g"}
  HistoryWindow = 2
  Trackings = {t1, t2, t3}
  RouterTiers = {"small", "large"}
  MaxRoutes = 4
  Creations = {i1, i2}
  Changes = {u1, u2}
  Seconds = {1, 2}
  NoIncident = NoIncident
  Target = 80
  PolicyPercent = 10
  Budgeted = 1
  WindowKept = 4
  Hour = 2
  MaxMetrics = 6
  Jobs = {1, 2, 3, 4, 5}
  MetricValues = {1, 2}
  Percent = 50
  MinSample = 2
  Newest = 3
  SampleSize = 2
  Threshold = 10
  MaxScripts = 3
  MaxDepth = 4
  LastService = 2
  ReleaseTags = {"v1"}
  MaxRuns = 3
  MaxPodFailures = 1
  Callers = {l1, l2}
  FailureThreshold = 2
  SuccessThreshold = 2
  MaxResults = 7
  Probes = {1, 2}
  Critical = {1}
  Retries = 2
  Cooldown = 2
  ScalerStart = 2
  MaxTime = 5
  MaxUpdates = 3
  Plans = {"free", "plus"}
  FreePlan = "free"
  NoPlan = "no"
  MaxSubmits = 3
  Handlers = {h1, h2}
  MaxChanges = 3
  Ranges = {"1h", "24h"}
  FirstRange = "24h"
  MaxPolls = 3
  StackPids = {1, 2, 3}
  MaxStackRuns = 3
  Terminals = {t1, t2}
  MaxComposeRuns = 3
  SlowSum = 2
  Recently = 2
  DayLength = 4
  ReportEvery = 2
  LastUxTick = 6
  DeadLetters = {"d1", "d2"}
  DlqCalls = {c1, c2, c3}
  DlqRetries = 1
  ReplayCalls = {c1, c2}
  Recorder = c3
  ModeOf <- Modes
  OriginalSteps <- EpisodeSteps
  EpisodeTtl = 1
  EpisodeDays = {0}
  LastEpisodeTick = 2
  NoEpisode = NoEpisode
  FlakyTests = {c1, c2}
  CollectedIds = {c1, c2}
  FlakyServices = {1, 2, 3, 4, 5}
  ServiceOfTest <- TestServices
  FlakyPercent = 40
  ReasonPercent = 60
  WindowDays = 0
  LastFlakyDay = 2
  MaxExecuted = 3
  NoFlakyReport = NoFlakyReport
  LegacyFiles = {"f1", "f2"}
  MaxMerges = 2
SPECIFICATION Spec
INVARIANTS
  RegionsHold
  
  EventServiceHolds
  GatewayAndCacheHold
  ChatIsHonest
  HedgingHolds
  WorkflowsHold
  RoutingHolds
  OperationsHold
  ReleasesHold
  HealthHolds
  PagesHold
  ScriptsHold
CHECK_DEADLOCK FALSE
