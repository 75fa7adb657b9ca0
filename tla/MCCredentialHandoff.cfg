SPECIFICATION FairSpec
CONSTANTS
    s1 = s1
    s2 = s2
    e1 = e1
    e2 = e2
    MaxRequests = 2
    Followed = {2}
    Submissions = {s1, s2}
    Executors = {e1, e2}
    MaxAttempts = 2
    MaxCrashes = 1
INVARIANTS
    TypeOK
    StoredMeansSealed
    WokenAgainAfterSetback
    SucceededMeansDelivered
PROPERTIES
    ObligationSpec
    StoredIsContinued
CHECK_DEADLOCK FALSE
