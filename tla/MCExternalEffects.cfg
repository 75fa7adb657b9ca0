SPECIFICATION Spec
CONSTANTS
    Requests = {r1, r2}
    MaxAttempts = 3
    MaxCalls = 2
    MaxCleared = 1
    MaxTotal = 3
    MaxClearances = 1
    None = None
SYMMETRY Symmetry
CONSTRAINTS FewCalls FewClearances
INVARIANTS
    TypeOK
    NeverRepeatedUnaided
    OneStartPerClearance
    CallsKeepApart
    AnswersAreEarned
PROPERTIES
    SettledStaysSettled
CHECK_DEADLOCK FALSE
