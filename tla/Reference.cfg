SPECIFICATION ReferenceSpec
CONSTANTS
  Plans <- MCPlans
  MaxEdits = 2
  MaxKills = 1
INVARIANTS
  NamedBytesRan
  FactsAreReviewed
  BaselineHoldsTogether
CHECK_DEADLOCK FALSE
