CONSTANTS
  Ann = ann
  AnnToo = ann_too
  Visitor = visitor
  Wiki = wiki
  AnnHerself = ann_herself
  Address = address
  Clients = {ann, ann_too, visitor, wiki}
  Actors = {ann_herself, address}
  Nobody = nobody
  ActorOf <- MCActorOf
  SignedOut = {visitor}
  Rest = {ann_too}
  Batches <- MCBatches
  Minute = 2
  MaxFaults = 1

SPECIFICATION FairSpec

INVARIANTS
  WithinBudget
  AnswersMatch
PROPERTIES
  AnsweredInTheEnd
