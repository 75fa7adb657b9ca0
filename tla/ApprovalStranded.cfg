CONSTANTS
  j1 = j1
  j2 = j2
  Jobs = {j1}
  MaxAttempts = 2
  MaxCrashes = 0
SPECIFICATION FairSpec
PROPERTY DecidedRunIsReleased
CHECK_DEADLOCK FALSE
