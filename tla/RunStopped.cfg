CONSTANTS
  a = a
  b = b
  r = r
  s = s
  Executors = {r, s}
  WakesOn <- ReplyAndSilence
  NoOwner = NoOwner
  MaxFence = 2
SPECIFICATION Spec
PROPERTY
  StoppedStaysStopped
CHECK_DEADLOCK FALSE
