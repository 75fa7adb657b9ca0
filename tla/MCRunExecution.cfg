CONSTANTS
  a = a
  b = b
  r = r
  s = s
  Executors = {a, b}
  WakesOn <- TwoDeliveries
  NoOwner = NoOwner
  MaxFence = 3
SPECIFICATION FairSpec
INVARIANTS
  TypeOK
  LedgerClosedOnce
  OnlyActiveAttemptIsOpen
  ClosedAttemptHasNoAuthority
PROPERTIES
  ClosedAttemptWritesNothing
  SerialSpec
  RunningEnds
CHECK_DEADLOCK FALSE
