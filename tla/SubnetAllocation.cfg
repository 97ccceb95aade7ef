SPECIFICATION AllocationSpec
CONSTANTS
    W = 4
    MaxUsed = 2
CHECK_DEADLOCK FALSE
INVARIANT AllocationIsCorrect
