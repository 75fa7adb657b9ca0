SPECIFICATION Spec
CONSTANTS
    w1 = w1
    w2 = w2
    k1 = k1
    Web = Web
    Background = Background
    MaxMessages = 2
    Drains = {w1, w2, k1}
    ProcessOf <- TwoInWeb
    Worker = {k1}
    MaxRuns = 2
    Retriable = {1}
    MaxRetries = 1
    MaxCrashes = 1
INVARIANT OneTurnAtATime
CHECK_DEADLOCK FALSE
