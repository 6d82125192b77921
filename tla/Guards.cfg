\* Four requests and two workers, two processes at one bucket, two managers of one ceiling.
CONSTANTS
  A = A
  B = B
  a1 = a1
  a2 = a2
  a3 = a3
  b1 = b1
  c1 = c1
  c2 = c2
  p1 = p1
  p2 = p2
  FairTenants = {A, B}
  FairRequests = {a1, a2, a3, b1}
  FairTenantOf <- Tenant
  TenantConfigs <- Configs
  MetaTiers = {"free", "premium"}
  SystemMetrics <- Metrics
  ThresholdChoices <- Thresholds
  ProcessingTimes = {1, 2}
  Workers = 2
  NoConfig = NoConfig
  Procs = {p1, p2}
  RedisProcs = {p1, p2}
  RateCalls = {c1, c2}
  ProcOf <- Process
  TierConfigs <- OneTier
  Amounts = {1}
  TTL = 1
  MaxTime = 1
  MaxUpdates = 1
  NoKey = NoKey
  Managers = {m1, m2}
  CostAmounts = {1, 2}
  LimitAmount = 3
  MaxWindow = 1
  MaxSpend = 7
  Askers = {k1, k2}
  BucketCapacity = 2
  TokensPerInterval = 1
  Interval = 2
  LastSecond = 5
  NoBucket = NoBucket
  QuotaRequests = {q1, q2, q3}
  QuotaLimit = 3
  UsageAmounts = {1, 2}
  MaxUsage = 14
  WalCalls = {w1, w2}
  WalAttempts = 2
  WalSlots = 1
  OpenAfter = 1
  MinRequests = 1
  MaxWalCrashes = 1
  MaxReplays = 1
  MaxUnwritten = 1
  RaCalls = {r1, r2, r3, r4}
  RaSlots = 1
  RaRetries = 1
  RaThreshold = 2
  MaxResets = 1
  AbCalls = {x1, x2, x3, x4}
  AbThreshold = 2
  MaxAbResets = 1
SPECIFICATION Spec
INVARIANTS
  BoundedLag
  GrantsWithinRate
  OverrunBounded
  AllowancesAreSound
  InterruptedIsRecoverable
  BreakersFollowFailures
CHECK_DEADLOCK FALSE
