CONSTANTS
  RawQueries <- MCRawQueries
  Weight <- MCWeight
  Shapes <- MCShapes
  Holdings <- MCHoldings
  FreeWords = 2
  MaxTerms = 16

SPECIFICATION Spec

INVARIANTS
  
  BetterMatchFirst
