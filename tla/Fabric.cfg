CONSTANTS
  Callers = {c1, c2}
  Fst = c1
  Snd = c2
  Eclipse = eclipse
  EclipseOnSite = eclipse_on_site
  OnSite = u2
  Questions = {eclipse, eclipse_on_site}
  Urls = {u1, u2}
  OpenIndex <- MCOpenIndex
  Limits = {1, 2}
  NoAnswer = NoAnswer
  Cap = 1
  MaxDays = 2
  MaxFaults = 1
  Requests <- MCRequests
  Lets <- MCLets
  MaxResults = 2
  MaxRead = 2

SPECIFICATION FabricSpec

CONSTRAINT MCPart

INVARIANTS
  TypeOK
  CapNearlyKept
  EveryCallCounted
  CachedIsAnswered
  BoughtOncePerMiss
  CostReported
  PaidIsShown
