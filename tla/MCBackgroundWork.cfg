SPECIFICATION FairSpec
CONSTANTS
    duty = duty
    work = work
    child = child
    slot1 = slot1
    slot2 = slot2
    pass = pass
    Duties = {duty}
    Assignments = {work}
    Children = {child}
    Loads <- TenantLoads
    Slots = {slot1, slot2}
    Resumer = pass
    MaxRuns = 2
    LastOccurrence = 3
    MaxNumber = 3
    MaxReopens = 1
    MaxResumes = 1
    MaxFaults = 1
INVARIANTS
    TypeOK
    NeverTwiceAtOnce
    RunLimitKept
    BegunOnce
    FinishedOnce
    DeliveredIsEarned
PROPERTIES
    DueIsServed
    PendingIsTaken
    ChildSettles
    DeadWorkIsReclaimed
CHECK_DEADLOCK FALSE
