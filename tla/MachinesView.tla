---------------------------- MODULE MachinesView ----------------------------
(***************************************************************************)
(* The page of test machines (views/test-machines/index.vue): its form,    *)
(* the remote commands of a row, the modal that switches the network of a  *)
(* machine and the one with its logs.                                      *)
(***************************************************************************)
EXTENDS Page

CONSTANTS
    Controllers,
    NetsOf          \* the networks of each controller

VARIABLES
    controllerId, networkId,    \* switchForm
    listed,         \* switchNetworks
    listAlone,      \* history: no two lists of networks were under way for this modal
    logs,           \* the machine whose rows the modal of logs lists; of no machine if there are none
    logsLoading,    \* masks those rows
    selected,       \* the machine whose log is shown in detail
    logsAlone       \* history: no logs of another machine were under way when the modal was
                    \* opened, and since then none failed to load over rows of another

switching == <<controllerId, networkId, listed, listAlone>>
logging == <<logs, logsLoading, selected, logsAlone>>
machines == <<switching, logging>>

AllNets == UNION {NetsOf[c] : c \in Controllers}

MachinesInit ==
    /\ controllerId = None /\ networkId = None /\ listed = {} /\ listAlone = TRUE
    /\ logs = None /\ logsLoading = FALSE /\ selected = None /\ logsAlone = TRUE

OpenMachine(kind, m) == Opens(kind, m) /\ UNCHANGED <<call, left, broken, rows, busy, machines>>
SaveMachine(k, m) == Submits(k, "save", m, None, "saving") /\ UNCHANGED machines
DeleteMachine(k, m) == Agrees(k, "delete", m) /\ UNCHANGED machines
TestSsh(k, m) == Presses(k, "ssh", m, "sshTesting") /\ UNCHANGED machines
CheckZeroTier(k, m) == Presses(k, "zerotier", m, "zerotierChecking") /\ UNCHANGED machines
ToggleZeroTier(k, m) == Presses(k, "toggle", m, "zerotierAction") /\ UNCHANGED machines

MachineReturns(k) ==
    /\ \/ Returns(k, "save", "ok") \/ AgreedReturns(k, "delete") \/ Returns(k, "switch", "ok")
       \/ Returns(k, "ssh", "ok") \/ Returns(k, "zerotier", "ok") \/ Returns(k, "toggle", "ok")
    /\ UNCHANGED machines

ServeMachine(k) ==
    /\ \/ ServeWrite(k, {"save", "delete", "switch", "ssh", "zerotier", "toggle"})
       \/ ServeRead(k, {"logs"}, None)
       \/ ServeLoad(k) \/ ServeFault(k)
    /\ UNCHANGED machines

ServeNetworks(k) == ServeRead(k, {"networks"}, NetsOf[call[k].of]) /\ UNCHANGED machines
MachinesReturn(k) == (Refresh(k) \/ LoadReturns(k)) /\ UNCHANGED machines
-----------------------------------------------------------------------------
\* Mutant of NoNetwork: the network chosen before stays chosen.
NoNetworkButLast == networkId

NoNetwork == None

\* handleLoadSwitchNetworks; "current" is the network openSwitchModal selects in the end.
LoadNetworks(k, c, current) ==
    /\ controllerId' = c /\ networkId' = NoNetwork /\ listed' = {}
    /\ Asks(k, Request("networks", c, current, "none"))
    /\ UNCHANGED <<rows, busy, logging>>

\* The modal starts with the controller the row says the machine is at, if it is known, or
\* with the first that has a planet.
OpenSwitch(k, m, c, current) ==
    /\ Opens("switch", m)
    /\ LoadNetworks(k, c, current)
    /\ listAlone' = (UnderWay("networks") = {})

\* No controller has a planet: there is nothing to list.
OpenSwitchBare(m) ==
    /\ Opens("switch", m)
    /\ controllerId' = None /\ networkId' = None /\ listed' = {} /\ UNCHANGED listAlone
    /\ UNCHANGED <<call, left, broken, rows, busy, logging>>

ChangeController(k, c) ==
    /\ \E m \in Items : IsOpen("switch", m)
    /\ LoadNetworks(k, c, None)
    /\ listAlone' = (listAlone /\ UnderWay("networks") = {})
    /\ UNCHANGED modals

\* The list is that of the controller it was asked for; the row's network is selected if it
\* is of the controller that is selected by now and on the list.
NetworksReturn(k) ==
    /\ Came(k, "networks") /\ Ends(k)
    /\ listed' = IF Good(k) THEN call[k].got ELSE listed
    /\ networkId' = IF call[k].arg # None /\ call[k].of = controllerId /\ call[k].arg \in listed'
                    THEN call[k].arg ELSE networkId
    /\ UNCHANGED <<rows, modals, busy, controllerId, listAlone, logging>>

ChooseNetwork(n) ==
    /\ \E m \in Items : IsOpen("switch", m)
    /\ n \in listed /\ networkId' = n
    /\ UNCHANGED <<page, controllerId, listed, listAlone, logging>>

Switch(k, m) ==
    /\ controllerId # None /\ networkId # None
    /\ Submits(k, "switch", m, [to |-> controllerId, net |-> networkId, alone |-> listAlone], "switching")
    /\ UNCHANGED machines
-----------------------------------------------------------------------------
\* Mutant of NoLog: the log shown before stays in the modal.
NoLogButLast == selected

NoLog == None

\* The rows that were listed before stay under the new title until the answer is there.
OpenLogs(k, m) ==
    /\ Opens("logs", m)
    /\ Asks(k, Request("logs", m, None, "none"))
    /\ selected' = NoLog /\ logsLoading' = TRUE
    /\ logsAlone' = \A j \in UnderWay("logs") : call[j].of = m
    /\ UNCHANGED <<rows, busy, switching, logs>>

\* A machine without logs lists none; if the call failed, the rows stay as they were.
LogsReturn(k) ==
    /\ Came(k, "logs") /\ Ends(k) /\ logsLoading' = FALSE
    /\ \/ /\ Good(k) /\ UNCHANGED logsAlone
          /\ \E shown \in {call[k].of, None} : logs' = shown /\ selected' = shown
       \/ /\ ~ Good(k) /\ UNCHANGED <<logs, selected>>
          /\ logsAlone' = (logsAlone /\ logs \in {call[k].of, None})
    /\ UNCHANGED <<rows, modals, busy, switching>>

\* A row of the list is shown in detail.
SelectLog ==
    /\ \E m \in Items : IsOpen("logs", m)
    /\ ~ logsLoading /\ logs # None /\ selected' = logs
    /\ UNCHANGED <<page, switching, logs, logsLoading, logsAlone>>

MachinesNext ==
    \/ \E d \in modals : Close(d) /\ UNCHANGED machines
    \/ OpenMachine("save", None) \/ SelectLog
    \/ \E m \in Items : OpenMachine("save", m) \/ OpenMachine("delete", m) \/ OpenSwitchBare(m)
    \/ \E n \in AllNets : ChooseNetwork(n)
    \/ \E k \in Slots :
        \/ SaveMachine(k, None)
        \/ \E m \in Items :
            \/ SaveMachine(k, m) \/ DeleteMachine(k, m) \/ TestSsh(k, m) \/ CheckZeroTier(k, m)
            \/ ToggleZeroTier(k, m) \/ Switch(k, m) \/ OpenLogs(k, m)
            \/ \E c \in Controllers, n \in AllNets \cup {None} : OpenSwitch(k, m, c, n)
        \/ \E c \in Controllers : ChangeController(k, c)
        \/ MachineReturns(k) \/ ServeMachine(k) \/ ServeNetworks(k) \/ MachinesReturn(k)
        \/ NetworksReturn(k) \/ LogsReturn(k)
-----------------------------------------------------------------------------
\* A switch that is asked for names a network of the controller it names, if no two lists
\* crossed: of two that cross the older may be shown under the newer controller.
SwitchIsListed ==
    \A k \in UnderWay("switch") : call[k].arg.alone => call[k].arg.net \in NetsOf[call[k].arg.to]

\* What the title of the modal of logs says: the log in detail is of that machine.
LogsMatchTitle == \A m \in Items : IsOpen("logs", m) => selected \in {None, m}

\* The log shown in detail and the rows that can be chosen from are of the machine in the
\* title of the modal, if no logs of another machine were under way when it was opened, and
\* none failed to load while rows of another machine were listed: those stay.
LogIsTargets ==
    \A m \in Items : IsOpen("logs", m) /\ logsAlone =>
        selected \in {None, m} /\ (logsLoading \/ logs \in {None, m})
=============================================================================
