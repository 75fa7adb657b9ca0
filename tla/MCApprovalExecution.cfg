CONSTANTS
  j1 = j1
  j2 = j2
  Jobs = {j1, j2}
  MaxAttempts = 3
  MaxCrashes = 1
SPECIFICATION FairSpec
INVARIANTS
  TypeOK
  ContinuationsBounded
  RefusalStartsNoWork
  StartsAccounted
PROPERTIES
  ObligationSpec
  DecisionSettles
CHECK_DEADLOCK FALSE
