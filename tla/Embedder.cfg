CONSTANTS
  Docs = {1, 2}
  Workers = {service, backfill}
  Service = service
  NoVector = NoVector
  PerMinute = 2
  BatchSize = 2
  Minute = 2
  Backoff <- MCBackoff
  MaxChanges = 1
  MaxFaults = 1

SPECIFICATION FairSpec

INVARIANTS
  VectorOfItsHash
  TwoBudgetsAMinute


  
