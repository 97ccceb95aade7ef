--------------------------- MODULE MachineSwitch ----------------------------
(***************************************************************************)
(* What a reader of the database may rely on about the switches of one     *)
(* test machine: its row says RUNNING, SUCCESS or FAILED only on behalf of *)
(* the one switch that is in progress, its current network changes only by *)
(* a switch that succeeds, and the log of a switch follows the row.        *)
(***************************************************************************)
CONSTANTS
    Ops,        \* the requests
    Networks,   \* the networks they may switch to
    None

VARIABLES
    exists,     \* is there a row for the machine
    sw,         \* its switchStatus
    net,        \* its currentNetworkId
    log,        \* the status of each switch's log row
    owner       \* the switch in progress, None if there is none

recordVars == <<exists, sw, net, log, owner>>

RecordInit ==
    /\ exists = TRUE
    /\ sw = "IDLE"
    /\ net = None
    /\ log = [o \in Ops |-> "none"]
    /\ owner = None

\* A switch opens its log; none is in progress, and none seems to be.
Open(o) ==
    /\ exists /\ owner = None /\ sw # "RUNNING" /\ log[o] = "none"
    /\ owner' = o
    /\ log' = [log EXCEPT ![o] = "RUNNING"]
    /\ UNCHANGED <<exists, sw, net>>

Begin(o) ==
    /\ exists /\ owner = o /\ log[o] = "RUNNING" /\ sw # "RUNNING"
    /\ sw' = "RUNNING"
    /\ UNCHANGED <<exists, net, log, owner>>

Succeed(o) ==
    /\ exists /\ owner = o /\ log[o] = "RUNNING" /\ sw \in {"RUNNING", "SUCCESS"}
    /\ sw' = "SUCCESS"
    /\ net' \in Networks
    /\ UNCHANGED <<exists, log, owner>>

Fail(o) ==
    /\ exists /\ owner = o /\ log[o] = "RUNNING" /\ sw \in {"RUNNING", "SUCCESS"}
    /\ sw' = "FAILED"
    /\ UNCHANGED <<exists, net, log, owner>>

\* The log is closed with the status the row has.
Close(o) ==
    /\ owner = o /\ log[o] = "RUNNING" /\ sw \in {"SUCCESS", "FAILED"}
    /\ log' = [log EXCEPT ![o] = sw]
    /\ owner' = None
    /\ UNCHANGED <<exists, sw, net>>

\* A switch that cannot write its outcome, or that a crash interrupts, leaves
\* row and log as they are.
Abandon ==
    /\ owner # None
    /\ owner' = None
    /\ UNCHANGED <<exists, sw, net, log>>

\* The machine is removed, its logs with it.
Delete ==
    /\ exists
    /\ exists' = FALSE
    /\ log' = [o \in Ops |-> IF log[o] = "none" THEN "none" ELSE "deleted"]
    /\ UNCHANGED <<sw, net, owner>>

RecordNext ==
    \/ \E o \in Ops : Open(o) \/ Begin(o) \/ Succeed(o) \/ Fail(o) \/ Close(o)
    \/ Abandon \/ Delete

RecordSpec == RecordInit /\ [][RecordNext]_recordVars
=============================================================================
