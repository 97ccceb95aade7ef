SPECIFICATION VSpec
CONSTANTS
    k1 = k1
    k2 = k2
    r1 = r1
    r2 = r2
    c1 = c1
    c2 = c2
    n1 = n1
    n2 = n2
    x = x
    y = y
    None = None
    Slots = {k1, k2}
    Items = {r1, r2}
    Nets = {n1, n2}
    Controllers = {c1, c2}
    NetsOf <- MCNetsOf
    Names = {x, y}
    Attempts = 2
    MaxHandlers <- MCHandlers
    MaxFaults = 1
SYMMETRY MCSymmetry
CHECK_DEADLOCK FALSE
INVARIANTS VTypeOK ActsOnItsTarget TableShowsOwnWrites SuccessWasApplied
