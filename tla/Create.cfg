SPECIFICATION FairSpec
CONSTANTS
    W = 5
    None = None
    Creates = {a, b, c}
    Pool <- MCPool
    Prefixes = {2, 3}
    Faults = {"refused", "late", "crash"}
    MaxFaults = 1
    MaxEdits = 1
CHECK_DEADLOCK FALSE
INVARIANTS TypeOK LockedSubnetsAreDisjoint PooledIsPrivate
PROPERTY EveryCreateEnds
