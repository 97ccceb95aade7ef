SPECIFICATION Spec
CONSTANTS
    op1 = op1
    op2 = op2
    op3 = op3
    n1 = n1
    n2 = n2
    c1 = c1
    c2 = c2
    stock = stock
    None = None
    Ops = {op1, op2, op3}
    Kinds = {"switch", "check", "start", "stop", "edit", "remove"}
    Networks = {n1, n2}
    Controllers = {c1, c2}
    ControllerOf <- MCControllerOf
    Stock = stock
    Faults = {"ssh", "db", "verbose"}
    MaxFaults = 2
CHECK_DEADLOCK FALSE
SYMMETRY MCSymmetry
INVARIANTS TypeOK SuccessDescribesHost
PROPERTIES OutcomeIsRecorded SuccessIsReal RollbackUndoesReplacement DaemonComesBack StatusIsReal
PROPERTIES ImplementsMachineSwitch
