SPECIFICATION Spec
CONSTANTS
    Requests = {r1}
    MaxAttempts = 2
    MaxCalls = 1
    MaxCleared = 0
    MaxTotal = 2
    MaxClearances = 0
    None = None
CONSTRAINTS FewCalls FewClearances
INVARIANT IdenticalCallsStayDistinct
CHECK_DEADLOCK FALSE
