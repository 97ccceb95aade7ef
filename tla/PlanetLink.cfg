SPECIFICATION Spec
CONSTANTS
    a = a
    b = b
    c = c
    d = d
    e = e
    None = None
    Ops = {a, b, c, d, e}
    Kinds = {"link", "rotate", "upload", "withdraw", "download", "remove"}
    MaxTries = 3
    MaxFaults = 2
CHECK_DEADLOCK FALSE
SYMMETRY MCSymmetry
INVARIANTS TypeOK LinkHasFile
PROPERTY ImplementsDownloadLink
