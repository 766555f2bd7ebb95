SPECIFICATION PlatformSpec
CONSTANTS
  Parts = {"uploads", "expiry", "untimed", "batch", "lazy", "import", "usage", "pilot", "breaker"}
  Requests = {"patch1", "patch2", "put", "retry", "putlast"}
  Puts = {"put", "retry", "putlast"}
  Chunks = {1, 2}
  Body <- MCBody
  Whole <- MCWhole
  Threshold = 1
  Endpoints <- MCEndpoints
  ChannelCap = 1
  WebhookRetries = 1
  NoObject = NoObject
  MaxUploadFaults = 2
  TtlTags = {"tag", "second"}
  Pushes = {"short", "long", "plain", "other"}
  TagOf <- MCTagOf
  Ttl <- MCTtl
  NoTtl = NoTtl
  NoPush = NoPush
  Reapers = {x1, x2}
  BatchSize = 1
  MaxTime = 2
  MaxTtlFaults = 1
  LazyRows = {"plain", "again", "layerless", "pathless", "unparsed"}
  LayerOf <- MCLayerOf
  LazyWorkers = {w1, w2}
  Shape <- MCShape
  MaxAttempts = 2
  NoJob = NoJob
  MaxLazyFaults = 1
  SourceRepos = {"a", "b", "c"}
  Selected = {"a", "b"}
  SourceTags <- MCSourceTags
  Lists <- MCLists
  Opaque <- MCOpaque
  MaxImports = 2
  MaxCallErrors = 2
  Rollers = {o1, o2}
  TicksPerHour = 2
  HoursPerDay = 2
  WindowTicks = 4
  MaxTick = 5
  MaxUsage = 2
  MaxDbFaults = 1
  Replicas = {"n1", "n2"}
  Turns = {"writer", "reader"}
  TenantOf <- MCTenantOf
  Asks <- MCAsks
  MaxCalls = 1
  MaxToolRounds = 1
  TokensPerStep = 2
  TokensPerDay = 5
  MaxDays = 1
  MaxPilotRestarts = 1
  Callers = {c1, c2}
  FailureThreshold = 3
  SuccessThreshold = 2
  MaxRetries = 2
INVARIANTS
  OpenLetsNobodyIn
  BlobsAreWhole
  ImportReportsGaps
  SpendCapped
PROPERTIES
  RecoversWhenHealthy
  UploadsAnswered
  LivePushKeepsLink
  ExpiredIsReaped
  LazyJobsEnd
  RecentHoursConverge
CHECK_DEADLOCK FALSE
