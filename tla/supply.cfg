SPECIFICATION Spec
CONSTANTS
  Repos = {r1}
  Workers = {w1, w2}
  OneWorker = w1
  ImagePulls = {p1}
  MaxJobs = 2
  QueueCap = 1
  CacheTtl = 2
  MaxPolicies = 2
  MaxEdits = 1
  MaxFaults = 1
  NoResult = NoResult
  Firings = {f1, f2}
  MaxUpserts = 1
  Caps = {0, 2}
  MaxDays = 2
  MaxSubs = 2
  MaxFired = 2
  Advisories = {1, 2}
  Admins = {admin}
  IngesterChoices = {{}, {"osv"}, {"nvd"}, {"ghsa"}}
  PageSize = 1
  Window = 1
  MaxReleases = 2
  MaxIngestFaults = 1
  Ecosystems = {"deb", "rpm", "apk", "pypi"}
  Versions <- VersionTable
  VersionCompare <- Compared
  Firm <- FirmTable
  DebVersions <- MCDeb
  RpmVersions <- MCRpm
  ApkVersions <- MCApk
  PypiVersions <- MCPypi
  Invalid = Invalid
  Zero = Zero
  MaxEvents = 3
INVARIANTS
  SentWithinCap
  GapsAreExplained
  ReportsAffected
  BetweenIsReported
PROPERTIES
  JobsConclude
  StaleAllowExpires
CHECK_DEADLOCK FALSE
