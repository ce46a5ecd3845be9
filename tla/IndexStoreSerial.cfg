CONSTANTS
  Owners <- MCOwners
  Ids = {"page"}
  Subjects = {"ann", "bob"}
  Groups = {"team"}
  Entitlements = {"pro"}
  Facets = {"kind"}
  Urls = {"url"}
  NoUrl = NoUrl
  Texts = {"a", "b"}
  NoText = NoText
  OwnerReasons = {"owner_hold"}
  NoSubject = NoSubject
  NoRow = NoRow
  NoEvent = NoEvent
  AcceptedOwners = {"wiki"}
  Documents <- MCDocuments
  Tx = {t1, t2}
  Event = {e1, e2, e3}
  Envelopes <- MCEnvelopes
  Serial = TRUE
  MaxApi = 1
  MaxFaults = 1

SPECIFICATION Spec

INVARIANTS
  TypeOK
  ProcessedIsCovered

PROPERTIES
  ImplementsRegister

SYMMETRY MCSymmetry
