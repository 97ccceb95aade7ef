SPECIFICATION FairSpec
CONSTANTS
    a = a
    b = b
    c = c
    d = d
    m = m
    n = n
    None = None
    Requests = {a, b, c, d}
    Keys = {m, n}
INVARIANTS TypeOK MutualExclusion MapHoldsLastCaller
PROPERTIES EventuallyRuns ImplementsFifoLock
