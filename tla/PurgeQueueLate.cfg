CONSTANTS
  Pages = {"wiki/a"}
  RelatedUrls <- MCRelatedUrls
  Related <- MCRelated
  Zones <- MCZones
  NoZone = NoZone
  ZoneOf <- MCZoneOf
  RefusedUrls = {}
  MaxAttempts = 2
  FilesPerCall = 2
  DueLimit = 3
  MaxRows = 4
  MaxFaults = 1

SPECIFICATION Spec

INVARIANTS
  RemovedUrlIsPurged
