SPECIFICATION Spec
CONSTANTS
    o1 = o1
    o2 = o2
    o3 = o3
    here = here
    there = there
    None = None
    Bridge = Bridge
    Ops = {o1, o2, o3}
    Plans <- MCPlans
    Servers = {here, there}
    Hosts <- MCHosts
    MaxTries = 3
    MaxReads = 3
    MaxFaults = 1
    MaxRestarts = 1
CHECK_DEADLOCK FALSE
INVARIANTS TypeOK SessionIsCurrent ConfirmedSticks
PROPERTIES AnsweredWasDone EveryCallEnds
