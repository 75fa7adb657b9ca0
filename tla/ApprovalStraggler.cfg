CONSTANTS
  j1 = j1
  j2 = j2
  Jobs = {j1, j2}
  MaxAttempts = 2
  MaxCrashes = 0
SPECIFICATION Spec
PROPERTY SuccessIsNotBuried
CHECK_DEADLOCK FALSE
