SPECIFICATION FairSpec
CONSTANTS
    m1 = m1
    m2 = m2
    s1 = s1
    s2 = s2
    s3 = s3
    None = None
    Machines = {m1}
    Switches = {s1, s2}
    MachineOf <- MCOneMachine
    MaxAttempts = 3
    Removals = TRUE
    MaxFaults = 1
CHECK_DEADLOCK FALSE
INVARIANTS TypeOK TimersMatchRenamings PendingUnlessForgotten
PROPERTIES ScheduleSupersedes PendingIsResolved
