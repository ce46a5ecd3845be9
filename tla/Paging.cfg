CONSTANTS
  Docs = {1, 2, 3, 4}
  Title <- MCTitle
  Versions <- MCVersions
  QueryWords = {"a", "b"}
  Limits = {1, 2}
  RelaxBelow = 2
  Candidates = 3
  RrfK = 60
  MaxChanges = 1
  MaxTime = 1

SPECIFICATION Spec

INVARIANTS
  StaysShownOnce
  FusionKeepsOrder
  RefusedOnSwitchOnly

PROPERTIES
  CursorAdvances
