CONSTANTS
  Searches = {1, 2}
  Docs = {d1}
  Openings = {o1, o2}
  Second = o2
  Matches <- MCMatches
  NotifyBatch = 2
  Unpushable = {1}
  MaxTime = 1
  MaxFaults = 1

SPECIFICATION FairSpec

CONSTRAINT MCPart

INVARIANTS
  NothingPassedOver

PROPERTIES
  FallsOnlyByOvertakenOpening
  ToldAgainOnlyUnderWay
  EveryMatchTold
