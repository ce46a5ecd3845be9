CONSTANTS
  Pages = {"wiki/a", "blog/c"}
  RelatedUrls <- MCRelatedUrls
  Related <- MCRelated
  Zones <- MCZones
  NoZone = NoZone
  ZoneOf <- MCZoneOf
  RefusedUrls = {"wiki/sitemap"}
  MaxAttempts = 2
  FilesPerCall = 2
  DueLimit = 2
  MaxRows = 3
  MaxFaults = 1

SPECIFICATION FairSpec

INVARIANTS
  QueueTypeOK
  CallsWithinLimits
  FailedForItsOwnSake
  PurgedUnlessLate

PROPERTIES
  EveryRowSettles
