CONSTANTS
  Owners = {"wiki"}
  Ids = {"page"}
  Subjects = {"ann", "bob"}
  Groups = {"team"}
  Entitlements = {"pro"}
  Facets = {"kind"}
  Urls = {"url"}
  NoUrl = NoUrl
  Texts = {"a", "b"}
  NoText = NoText
  OwnerReasons = {"owner_hold"}
  NoSubject = NoSubject
  NoRow = NoRow
  NoEvent = NoEvent
  AcceptedOwners = {"wiki"}
  Documents <- MCRaceDocuments
  Tx = {t1, t2}
  Event = {e1, e2}
  Envelopes <- MCRaceEnvelopes
  Serial = FALSE
  MaxApi = 2
  MaxFaults = 1

SPECIFICATION FairSpec

INVARIANTS
  SideRowsMatch
  ListedIsViewable
  RejectedOnce
  ConsumerAgrees
  DeleteNeverRefused

PROPERTIES
  PublicDropPurged
  EveryEventProcessed
