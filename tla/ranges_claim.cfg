SPECIFICATION IngestSpec
CONSTANTS
  Advisories = {1}
  Admins = {}
  IngesterChoices = {{"osv", "ghsa"}}
  PageSize = 1
  Window = 1
  MaxReleases = 2
  MaxIngestFaults = 0
INVARIANT
  RangesSurviveOtherFeeds
CHECK_DEADLOCK FALSE
