CONSTANTS
  Docs = {1, 2, 3}
  Owned = {1, 3}
  Handles = {"serial", "pooled"}
  FeedLimit = 1
  WalkLimit = 1
  Republished = {1}
  MaxFeedFaults = 1

SPECIFICATION FairFeedSpec

INVARIANTS
  OnlyOvertakenSkipped

PROPERTIES
  DroppedInTheEnd
