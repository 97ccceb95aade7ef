------------------------- MODULE SwitchNetworkProofs -------------------------
(***************************************************************************)
(* For any requests, networks, controllers and failures: the record of the *)
(* switches of a machine is as MachineSwitch says, and every outcome is    *)
(* recorded; while no remote command is given up on to take effect later,  *)
(* what the record says of the host is true, and a rollback undoes what    *)
(* the switch did.                                                         *)
(*                                                                         *)
(* The invariant has six parts: what a request's own variables say about   *)
(* each other (TasksFit), who is in the queue (QueueOK), what the row and  *)
(* the logs say of the request that holds the lock (RecordOK), what that   *)
(* request may rely on of the host (HostOK), the count of failures, and    *)
(* the order of the logins: of the last success, of the machine reached,   *)
(* of the row (LoginsOK).                                                  *)
(***************************************************************************)
EXTENDS SwitchNetwork, TLAPS

\* Where a request holds the lock: in a switch, before and after its row is marked, in
\* its catch block, or in a service action.
CatchPcs == {"listExtra", "leave", "cleanup", "rowSuccess", "logSuccess", "rollbackStop",
             "rollbackRestore", "rollbackStart", "rowFailed", "logFailed"}
MarkedPcs == CatchPcs \cup {"connect", "prerequisites", "nodeInfo", "stop", "backup",
                            "upload", "start", "join", "authorize", "ready", "recover"}
SwitchPcs == MarkedPcs \cup {"prepare", "createLog", "mark"}
SvcPcs == {"svcConnect", "svcAct", "svcRead", "svcCatch", "svcWrite"}
InsidePcs == SwitchPcs \cup SvcPcs \cup {"load", "finally"}

\* What a request's own variables say about each other.
Fits(t) ==
    /\ t.pc \in SwitchPcs => t.kind = "switch" /\ t.target \in Networks
    /\ t.pc \in SvcPcs => t.kind \in {"check", "start", "stop"}
    /\ t.pc = "svcAct" => t.kind # "check"
    /\ t.pc = "svcWrite" => t.seen \in {"UNKNOWN", "RUNNING", "STOPPED"}
    /\ t.pc \in {"queued", "load"} =>
         t.kind \in LockedKinds /\ (t.kind = "switch" => t.target \in Networks)
    /\ t.pc \in {"guard", "write"} => t.kind \in {"edit", "remove"}
    /\ t.catching => t.pc \in CatchPcs \cup SvcPcs \cup {"finally"}
    /\ t.catching /\ t.pc \in {"listExtra", "leave"} => t.joined
    /\ t.target \notin t.todo
    /\ t.saved => t.pc \notin {"queued", "load", "prepare", "createLog", "mark"}

TasksFit == \A o \in Ops : Fits(task[o])
Typed == TypeOK /\ TasksFit

\* The value a task gets when it goes to l.
LEMMA GoTyped ==
  ASSUME task \in [Ops -> Tasks], NEW o \in Ops, NEW l \in Pcs, Go(o, l)
  PROVE  task' \in [Ops -> Tasks]
BY DEF Go, Tasks

LEMMA ThrowTyped ==
  ASSUME task \in [Ops -> Tasks], NEW o \in Ops, NEW v \in BOOLEAN, Throw(o, v)
  PROVE  task' \in [Ops -> Tasks]
<1> DEFINE l == IF task[o].catching THEN "finally" ELSE "recover"
<1>1. l \in Pcs
  BY DEF Pcs
<1>2. [task[o] EXCEPT !.pc = l, !.verbose = v] \in Tasks
  BY <1>1 DEF Tasks
<1>3. task' = [task EXCEPT ![o] = [task[o] EXCEPT !.pc = l, !.verbose = v]]
  BY DEF Throw
<1> QED
  BY <1>2, <1>3

LEMMA FaultTyped ==
  ASSUME TypeOK, NEW f, Fault(f)
  PROVE  faults' \in [count : 0..MaxFaults, kinds : SUBSET Faults]
BY SwitchAssumption DEF Fault, TypeOK

LEMMA EffectTyped ==
  ASSUME host \in Hosts, NEW c \in Commands
  PROVE  Effect(c) \in Hosts
<1>1. CASE c.do = "stop"
  BY <1>1 DEF Effect, Hosts
<1>2. CASE c.do = "start"
  BY <1>2 DEF Effect, Hosts
<1>3. CASE c.do = "backup"
  BY <1>3 DEF Effect, Hosts
<1>4. CASE c.do = "restore"
  BY <1>4 DEF Effect, Hosts
<1>5. CASE c.do = "upload"
  BY <1>5 DEF Effect, Hosts, Commands, Planets
<1>6. CASE c.do = "join"
  BY <1>6 DEF Effect, Hosts, Commands
<1>7. CASE c.do = "leave"
  BY <1>7 DEF Effect, Hosts, Commands
<1> QED
  BY <1>1, <1>2, <1>3, <1>4, <1>5, <1>6, <1>7 DEF Commands

LEMMA CmdTyped ==
  /\ Cmd("stop", None) \in Commands /\ Cmd("start", None) \in Commands
  /\ Cmd("backup", None) \in Commands /\ Cmd("restore", None) \in Commands
  /\ \A c \in Controllers : Cmd("upload", c) \in Commands
  /\ \A n \in Networks : Cmd("join", n) \in Commands /\ Cmd("leave", n) \in Commands
BY DEF Cmd, Commands

RemoteTyped == /\ host' \in Hosts /\ late' \subseteq Commands
               /\ faults' \in [count : 0..MaxFaults, kinds : SUBSET Faults]

LEMMA SucceedsTyped ==
  ASSUME TypeOK, NEW c \in Commands, Succeeds(c) PROVE RemoteTyped
BY EffectTyped DEF TypeOK, RemoteTyped, Succeeds, NoFault

LEMMA FailsTyped ==
  ASSUME TypeOK, NEW c \in Commands, Fails(c) PROVE RemoteTyped
BY FaultTyped DEF TypeOK, RemoteTyped, Fails, FailsIf, NoFault

LEMMA TimesOutTyped ==
  ASSUME TypeOK, NEW c \in Commands, TimesOut(c) PROVE RemoteTyped
BY FaultTyped DEF TypeOK, RemoteTyped, TimesOut

\* One request goes on and leaves the others where they are.
LEMMA SetFits ==
  ASSUME Typed, NEW o \in Ops, NEW t \in Tasks, Fits(t), task' = [task EXCEPT ![o] = t]
  PROVE  task' \in [Ops -> Tasks] /\ TasksFit'
BY DEF Typed, TypeOK, TasksFit

LEMMA GoFits ==
  ASSUME Typed, NEW o \in Ops, NEW l \in Pcs, Go(o, l), Fits([task[o] EXCEPT !.pc = l])
  PROVE  task' \in [Ops -> Tasks] /\ TasksFit'
<1>1. task' = [task EXCEPT ![o] = [task[o] EXCEPT !.pc = l]]
  BY DEF Go
<1>2. [task[o] EXCEPT !.pc = l] \in Tasks
  BY DEF Typed, TypeOK, Tasks
<1> QED
  BY <1>1, <1>2, SetFits

LEMMA ThrowFits ==
  ASSUME Typed, NEW o \in Ops, task[o].pc \in SwitchPcs, NEW v \in BOOLEAN, Throw(o, v)
  PROVE  task' \in [Ops -> Tasks] /\ TasksFit'
<1> DEFINE l == IF task[o].catching THEN "finally" ELSE "recover"
           t == [task[o] EXCEPT !.pc = l, !.verbose = v]
<1>1. task' = [task EXCEPT ![o] = t]
  BY DEF Throw
<1>2. t \in Tasks
  <2>1. task \in [Ops -> Tasks] /\ task[o] \in Tasks /\ l \in Pcs
    BY DEF Typed, TypeOK, Pcs
  <2> QED
    BY <2>1 DEF Tasks
<1>3. Fits(t)
  BY DEF Typed, TypeOK, Tasks, TasksFit, Fits, SwitchPcs, SvcPcs, MarkedPcs, CatchPcs
<1> QED
  BY <1>1, <1>2, <1>3, SetFits

\* A switch, or a service action, goes on.
LEMMA SwitchGoes ==
  ASSUME Typed, NEW o \in Ops, task[o].pc \in SwitchPcs,
         NEW l \in SwitchPcs \cup {"finally"}, Go(o, l),
         task[o].catching => l \in CatchPcs \cup {"finally"},
         task[o].catching /\ l \in {"listExtra", "leave"} => task[o].joined,
         l \in {"prepare", "createLog", "mark"} => ~ task[o].saved
  PROVE  task' \in [Ops -> Tasks] /\ TasksFit'
<1>1. l \in Pcs
  BY DEF Pcs, SwitchPcs, MarkedPcs, CatchPcs
<1>2. task[o] \in Tasks /\ Fits(task[o])
  BY DEF Typed, TypeOK, TasksFit
<1>3. Fits([task[o] EXCEPT !.pc = l])
  BY <1>2 DEF Fits, Tasks, SwitchPcs, MarkedPcs, CatchPcs, SvcPcs
<1> QED
  BY <1>1, <1>3, GoFits

LEMMA SvcGoes ==
  ASSUME Typed, NEW o \in Ops, task[o].pc \in SvcPcs,
         NEW l \in SvcPcs \cup {"finally"}, NEW c \in BOOLEAN,
         NEW s \in {"UNKNOWN", "RUNNING", "STOPPED", None},
         l = "svcAct" => task[o].kind # "check",
         l = "svcWrite" => s \in {"UNKNOWN", "RUNNING", "STOPPED"},
         task' = [task EXCEPT ![o].pc = l, ![o].seen = s, ![o].catching = c]
  PROVE  task' \in [Ops -> Tasks] /\ TasksFit'
<1> DEFINE t == [task[o] EXCEPT !.pc = l, !.seen = s, !.catching = c]
<1>1. l \in Pcs
  BY DEF Pcs, SvcPcs
<1>2. task \in [Ops -> Tasks] /\ task[o] \in Tasks /\ Fits(task[o])
  BY DEF Typed, TypeOK, TasksFit
<1>3. t \in Tasks
  BY <1>1, <1>2 DEF Tasks
<1>4. Fits(t)
  BY <1>2 DEF Fits, Tasks, SwitchPcs, MarkedPcs, CatchPcs, SvcPcs
<1>5. task' = [task EXCEPT ![o] = t]
  BY <1>2
<1> QED
  BY <1>3, <1>4, <1>5, SetFits

\* A step that touches neither the host nor the record.
LEMMA LightTyped ==
  ASSUME Typed, task' \in [Ops -> Tasks] /\ TasksFit', UNCHANGED <<db, remote, ahead>>,
         NoFault \/ \E f \in Faults : Fault(f)
  PROVE  Typed'
<1>1. faults' \in [count : 0..MaxFaults, kinds : SUBSET Faults]
  BY FaultTyped DEF Typed, TypeOK, NoFault
<1> QED
  BY <1>1 DEF Typed, TypeOK, db, remote

\* A step that sends the host a command.
LEMMA CommandTyped ==
  ASSUME Typed, task' \in [Ops -> Tasks] /\ TasksFit', UNCHANGED <<authd, db, ahead>>,
         NEW c \in Commands,
         \/ Succeeds(c) \/ Fails(c) \/ TimesOut(c)
         \/ UNCHANGED <<host, late>> /\ (NoFault \/ \E f \in Faults : Fault(f))
  PROVE  Typed'
<1>1. RemoteTyped
  BY SucceedsTyped, FailsTyped, TimesOutTyped, FaultTyped
  DEF RemoteTyped, Typed, TypeOK, NoFault
<1> QED
  BY <1>1 DEF Typed, TypeOK, RemoteTyped, db

\* A step that writes the row or the log.
LEMMA WriteTyped ==
  ASSUME Typed, task' \in [Ops -> Tasks] /\ TasksFit', UNCHANGED <<remote, ahead>>,
         \/ \E new \in Rows : WriteRow(new)
         \/ \E o \in Ops, s \in {"RUNNING", "SUCCESS", "FAILED"} : WriteLog(o, s)
         \/ RowWriteFails \/ \E o \in Ops : LogWriteFails(o)
         \/ UNCHANGED db /\ NoFault
  PROVE  Typed'
<1>1. faults' \in [count : 0..MaxFaults, kinds : SUBSET Faults]
  BY FaultTyped
  DEF Typed, TypeOK, NoFault, WriteRow, WriteLog, RowWriteFails, LogWriteFails, FailsIf
<1>2. row' \in Rows /\ logs' \in [Ops -> {"none", "RUNNING", "SUCCESS", "FAILED", "deleted"}]
  BY DEF Typed, TypeOK, WriteRow, WriteLog, RowWriteFails, LogWriteFails, db
<1> QED
  BY <1>1, <1>2 DEF Typed, TypeOK, remote

\* The two uses of a command in the switch: `Exec' and the rollback.
LEMMA ExecTyped ==
  ASSUME Typed, NEW o \in Ops, task[o].pc \in SwitchPcs \ CatchPcs,
         NEW c \in Commands, NEW l \in MarkedPcs, Exec(o, c, l)
  PROVE  Typed'
<1>1. ~ task[o].catching /\ l \in SwitchPcs /\ l \notin {"prepare", "createLog", "mark"}
  BY DEF Typed, TypeOK, TasksFit, Fits, Tasks, SwitchPcs, MarkedPcs, CatchPcs, SvcPcs
<1>2. task' \in [Ops -> Tasks] /\ TasksFit'
  BY <1>1, SwitchGoes, ThrowFits DEF Exec, MarkedPcs
<1> QED
  BY <1>2, CommandTyped DEF Exec, Fault

LEMMA RollbackTyped ==
  ASSUME Typed, NEW o \in Ops, NEW from \in CatchPcs, NEW l \in CatchPcs \ {"listExtra", "leave"},
         NEW c \in Commands, Rollback(o, from, c, l)
  PROVE  Typed'
<1>1. /\ task[o].pc \in SwitchPcs /\ l \in SwitchPcs /\ "rowFailed" \in SwitchPcs \cap CatchPcs
      /\ l \notin {"prepare", "createLog", "mark"}
  BY DEF Rollback, At, SwitchPcs, MarkedPcs, CatchPcs
<1>2. task' \in [Ops -> Tasks] /\ TasksFit'
  BY <1>1, SwitchGoes DEF Rollback
<1> QED
  BY <1>2, CommandTyped DEF Rollback

\* The steps of a switch, action by action.
LEMMA SwitchTyped ==
  ASSUME Typed, NEW o \in Ops, SwitchStep(o) \/ UploadPlanet(o) PROVE Typed'
<1>0. /\ task \in [Ops -> Tasks] /\ task[o] \in Tasks /\ Fits(task[o])
      /\ row \in Rows /\ host \in Hosts
  BY DEF Typed, TypeOK, TasksFit
<1> USE DEF At, SwitchPcs, MarkedPcs, CatchPcs
<1>1. CASE Prepare(o)
  BY <1>0, <1>1, SwitchGoes, LightTyped DEF Prepare, NoFault, Fits
<1>2. CASE CreateLog(o)
  BY <1>0, <1>2, SwitchGoes, WriteTyped DEF CreateLog, Fits
<1>3. CASE Mark(o)
  <2>1. CASE RowWriteFails /\ Go(o, "finally")
    BY <1>0, <1>3, <2>1, SwitchGoes, WriteTyped DEF Mark, Fits
  <2>2. CASE /\ WriteRow([row EXCEPT !.sw = "RUNNING"])
             /\ task' = [task EXCEPT ![o].pc = "connect", ![o].found = host.planet]
    <3> DEFINE t == [task[o] EXCEPT !.pc = "connect", !.found = host.planet]
    <3>1. t \in Tasks
      BY <1>0 DEF Tasks, Hosts, Pcs
    <3>2. Fits(t) /\ task' = [task EXCEPT ![o] = t]
      BY <1>0, <1>3, <2>2 DEF Mark, Fits, SvcPcs, Tasks
    <3>3. [row EXCEPT !.sw = "RUNNING"] \in Rows
      BY <1>0 DEF Rows
    <3> QED
      BY <1>3, <2>2, <3>1, <3>2, <3>3, SetFits, WriteTyped DEF Mark
  <2> QED
    BY <1>3, <2>1, <2>2 DEF Mark
<1>4. CASE Connect(o)
  BY <1>0, <1>4, SwitchGoes, LightTyped DEF Connect, Fits, Fault
<1>5. CASE Prerequisites(o)
  BY <1>0, <1>5, SwitchGoes, ThrowFits, LightTyped DEF Prerequisites, Fits, FailsIf, Fault
<1>6. CASE NodeInfo(o)
  BY <1>0, <1>6, SwitchGoes, ThrowFits, LightTyped DEF NodeInfo, Fits, FailsIf, Fault
<1>7. CASE ListExtra(o)
  <2>1. ASSUME NEW l \in {"cleanup", "stop", "leave"}, l = "stop" => ~ task[o].joined,
               task' = [task EXCEPT ![o].pc = l, ![o].todo = Extra(o)]
        PROVE  task' \in [Ops -> Tasks] /\ TasksFit'
    <3> DEFINE t == [task[o] EXCEPT !.pc = l, !.todo = Extra(o)]
    <3>1. Extra(o) \in SUBSET Networks /\ l \in Pcs
      BY <1>0 DEF Extra, Hosts, Pcs
    <3>2. t \in Tasks
      BY <1>0, <3>1 DEF Tasks
    <3>3. Fits(t)
      BY <1>0, <1>7, <2>1 DEF ListExtra, Fits, SvcPcs, Tasks, Extra
    <3>4. task' = [task EXCEPT ![o] = t]
      BY <1>0, <2>1
    <3> QED
      BY <3>2, <3>3, <3>4, SetFits
  <2>2. task' \in [Ops -> Tasks] /\ TasksFit'
    BY <1>0, <1>7, <2>1, ThrowFits DEF ListExtra, ExtraLeft
  <2> QED
    BY <1>7, <2>2, LightTyped DEF ListExtra, FailsIf, Fault
<1>8. CASE LeaveExtra(o)
  <2>1. PICK n \in task[o].todo :
            LET gone == [task EXCEPT ![o].todo = @ \ {n}]
            IN  \/ Succeeds(Cmd("leave", n)) /\ task' = gone
                \/ Fails(Cmd("leave", n)) /\ (Throw(o, FALSE) \/ task' = gone)
                \/ TimesOut(Cmd("leave", n)) /\ Throw(o, FALSE)
    BY <1>8 DEF LeaveExtra
  <2> DEFINE t == [task[o] EXCEPT !.todo = @ \ {n}]
  <2>2. t \in Tasks /\ n \in Networks
    BY <1>0 DEF Tasks
  <2>3. Fits(t)
    BY <1>0, <1>8 DEF LeaveExtra, Fits, SvcPcs, Tasks
  <2>4. task' = [task EXCEPT ![o].todo = @ \ {n}] => task' = [task EXCEPT ![o] = t]
    BY <1>0
  <2>5. task' \in [Ops -> Tasks] /\ TasksFit'
    BY <1>0, <1>8, <2>1, <2>2, <2>3, <2>4, SetFits, ThrowFits DEF LeaveExtra
  <2> QED
    BY <1>8, <2>1, <2>2, <2>5, CmdTyped, CommandTyped DEF LeaveExtra
<1>9. CASE RecheckExtra(o)
  BY <1>0, <1>9, SwitchGoes, ThrowFits, LightTyped
  DEF RecheckExtra, ExtraLeft, Fits, FailsIf, Fault
<1>10. CASE StopDaemon(o)
  BY <1>0, <1>10, ExecTyped, CmdTyped DEF StopDaemon
<1>11. CASE BackupPlanet(o)
  <2> DEFINE t == [task[o] EXCEPT !.pc = "upload", !.saved = TRUE]
  <2>1. t \in Tasks
    BY <1>0 DEF Tasks, Pcs
  <2>2. Fits(t)
    BY <1>0, <1>11 DEF BackupPlanet, Fits, SvcPcs, Tasks
  <2>3. task' = [task EXCEPT ![o].pc = "upload", ![o].saved = TRUE] => task' = [task EXCEPT ![o] = t]
    BY <1>0
  <2>4. task' \in [Ops -> Tasks] /\ TasksFit'
    BY <1>0, <1>11, <2>1, <2>2, <2>3, SetFits, ThrowFits DEF BackupPlanet
  <2> QED
    BY <1>0, <1>11, <2>4, CmdTyped, CommandTyped DEF BackupPlanet
<1>12. CASE UploadPlanet(o)
  BY <1>0, <1>12, ExecTyped, CmdTyped, SwitchAssumption DEF UploadPlanet, Fits
<1>13. CASE StartDaemon(o)
  BY <1>0, <1>13, ExecTyped, CmdTyped DEF StartDaemon
<1>14. CASE JoinNetwork(o)
  <2> DEFINE t == [task[o] EXCEPT !.pc = "authorize", !.joined = TRUE]
  <2>1. t \in Tasks
    BY <1>0 DEF Tasks, Pcs
  <2>2. Fits(t)
    BY <1>0, <1>14 DEF JoinNetwork, Fits, SvcPcs, Tasks
  <2>3. task' = [task EXCEPT ![o].pc = "authorize", ![o].joined = TRUE] => task' = [task EXCEPT ![o] = t]
    BY <1>0
  <2>4. task' \in [Ops -> Tasks] /\ TasksFit'
    BY <1>0, <1>14, <2>1, <2>2, <2>3, SetFits, ThrowFits DEF JoinNetwork
  <2> QED
    BY <1>0, <1>14, <2>4, CmdTyped, CommandTyped DEF JoinNetwork, Fits
<1>15. CASE Authorize(o)
  <2>1. task' \in [Ops -> Tasks] /\ TasksFit'
    BY <1>0, <1>15, SwitchGoes, ThrowFits DEF Authorize, Fits
  <2>2. authd' \subseteq Networks
    BY <1>0, <1>15 DEF Authorize, Fits, Typed, TypeOK
  <2> QED
    BY <1>15, <2>1, <2>2 DEF Authorize, Typed, TypeOK, db
<1>16. CASE AwaitReady(o)
  BY <1>0, <1>16, SwitchGoes, ThrowFits, LightTyped DEF AwaitReady, Fits, NoFault
<1>17. CASE Cleanup(o)
  <2>1. task' \in [Ops -> Tasks] /\ TasksFit'
    BY <1>0, <1>17, SwitchGoes DEF Cleanup
  <2>2. authd' \subseteq Networks
    BY <1>17 DEF Cleanup, Typed, TypeOK
  <2> QED
    BY <1>17, <2>1, <2>2 DEF Cleanup, Typed, TypeOK, db
<1>18. CASE RowSuccess(o)
  <2>1. [row EXCEPT !.sw = "SUCCESS", !.net = task[o].target, !.zt = "RUNNING",
                        !.on = host.at] \in Rows
    BY <1>0, <1>18 DEF RowSuccess, Fits, Rows, Hosts
  <2>2. task' \in [Ops -> Tasks] /\ TasksFit'
    BY <1>0, <1>18, SwitchGoes, ThrowFits DEF RowSuccess
  <2> QED
    BY <1>18, <2>1, <2>2, WriteTyped DEF RowSuccess
<1>19. CASE LogSuccess(o)
  BY <1>0, <1>19, SwitchGoes, ThrowFits, WriteTyped DEF LogSuccess
<1>20. CASE Recover(o)
  <2>1. PICK l \in {"listExtra", "rollbackStop"} :
            /\ task' = [task EXCEPT ![o].pc = l, ![o].catching = TRUE]
            /\ l = "listExtra" => task[o].joined
    BY <1>20 DEF Recover
  <2> DEFINE t == [task[o] EXCEPT !.pc = l, !.catching = TRUE]
  <2>2. l \in Pcs
    BY DEF Pcs
  <2>3. t \in Tasks
    BY <1>0, <2>2 DEF Tasks
  <2>4. Fits(t)
    BY <1>0, <1>20, <2>1 DEF Recover, Fits, SvcPcs, Tasks
  <2>5. task' = [task EXCEPT ![o] = t]
    BY <1>0, <2>1
  <2> QED
    BY <1>20, <2>3, <2>4, <2>5, SetFits, LightTyped DEF Recover, NoFault
<1>21. CASE RollbackStop(o)
  BY <1>0, <1>21, RollbackTyped, CmdTyped DEF RollbackStop
<1>22. CASE RollbackRestore(o)
  BY <1>0, <1>22, RollbackTyped, CmdTyped DEF RollbackRestore
<1>23. CASE RollbackStart(o)
  BY <1>0, <1>23, RollbackTyped, CmdTyped DEF RollbackStart
<1>24. CASE RowFailed(o)
  <2>1. [row EXCEPT !.sw = "FAILED"] \in Rows
    BY <1>0 DEF Rows
  <2>2. task' \in [Ops -> Tasks] /\ TasksFit'
    BY <1>0, <1>24, SwitchGoes DEF RowFailed
  <2> QED
    BY <1>24, <2>1, <2>2, WriteTyped DEF RowFailed
<1>25. CASE LogFailed(o)
  BY <1>0, <1>25, SwitchGoes, WriteTyped DEF LogFailed
<1> QED
  BY <1>1, <1>2, <1>3, <1>4, <1>5, <1>6, <1>7, <1>8, <1>9, <1>10, <1>11, <1>12, <1>13,
     <1>14, <1>15, <1>16, <1>17, <1>18, <1>19, <1>20, <1>21, <1>22, <1>23, <1>24, <1>25
  DEF SwitchStep

LEMMA ServiceTyped ==
  ASSUME Typed, NEW o \in Ops, ServiceStep(o) PROVE Typed'
<1>0. /\ task \in [Ops -> Tasks] /\ task[o] \in Tasks /\ Fits(task[o])
      /\ row \in Rows /\ host \in Hosts
  BY DEF Typed, TypeOK, TasksFit
<1> USE DEF At, SvcPcs
<1>a. ASSUME task[o].pc \in SvcPcs,
             NEW l \in (SvcPcs \ {"svcWrite"}) \cup {"finally"}, Go(o, l) \/ SvcThrow(o),
             l = "svcAct" => task[o].kind # "check"
      PROVE  task' \in [Ops -> Tasks] /\ TasksFit'
  <2>1. CASE Go(o, l)
    <3>1. task' = [task EXCEPT ![o].pc = l, ![o].seen = task[o].seen,
                               ![o].catching = task[o].catching]
      BY <1>0, <2>1 DEF Go, Tasks
    <3> QED
      BY <1>0, <1>a, <3>1, SvcGoes DEF Tasks
  <2>2. CASE SvcThrow(o)
    <3>1. task' = [task EXCEPT ![o].pc = "svcCatch", ![o].seen = task[o].seen,
                               ![o].catching = TRUE]
      BY <1>0, <2>2 DEF SvcThrow, Tasks
    <3>2. /\ "svcCatch" \in SvcPcs \cup {"finally"} /\ "svcCatch" # "svcAct"
          /\ "svcCatch" # "svcWrite" /\ TRUE \in BOOLEAN
          /\ task[o].seen \in {"UNKNOWN", "RUNNING", "STOPPED", None}
      BY <1>0 DEF Tasks
    <3> QED
      BY <1>a, <3>1, <3>2, SvcGoes
  <2> QED
    BY <1>a, <2>1, <2>2
<1>w. ASSUME task[o].pc \in SvcPcs, NEW s \in {"UNKNOWN", "RUNNING", "STOPPED"},
             See(o, "svcWrite", s)
      PROVE  task' \in [Ops -> Tasks] /\ TasksFit'
  <2>1. "svcWrite" # "svcAct" /\ "svcWrite" \in SvcPcs \cup {"finally"}
    OBVIOUS
  <2>2. task' = [task EXCEPT ![o].pc = "svcWrite", ![o].seen = s,
                             ![o].catching = task[o].catching]
    BY <1>0, <1>w DEF See, Tasks
  <2>3. task[o].catching \in BOOLEAN
    BY <1>0 DEF Tasks
  <2> QED
    BY <1>w, <2>1, <2>2, <2>3, SvcGoes
<1>b. Status \in {"RUNNING", "STOPPED"} /\ "UNKNOWN" \in {"UNKNOWN", "RUNNING", "STOPPED"}
  BY DEF Status
<1>1. CASE SvcConnect(o)
  <2>1. task' \in [Ops -> Tasks] /\ TasksFit'
    <3>1. ASSUME task' = [task EXCEPT ![o].pc = "svcWrite", ![o].seen = "UNKNOWN",
                                      ![o].catching = TRUE]
          PROVE  task' \in [Ops -> Tasks] /\ TasksFit'
      <4>1. "svcWrite" # "svcAct"
        OBVIOUS
      <4> QED
        BY <1>0, <1>1, <3>1, <4>1, SvcGoes DEF SvcConnect
    <3> QED
      BY <1>0, <1>1, <1>a, <3>1 DEF SvcConnect
  <2> QED
    BY <1>1, <2>1, LightTyped DEF SvcConnect, Fault
<1>2. CASE SvcAct(o)
  <2>1. task[o].kind \in {"start", "stop"}
    BY <1>0, <1>2 DEF SvcAct, Fits
  <2>2. task' \in [Ops -> Tasks] /\ TasksFit'
    BY <1>0, <1>2, <1>a DEF SvcAct
  <2> QED
    BY <1>2, <2>1, <2>2, CmdTyped, CommandTyped DEF SvcAct
<1>3. CASE SvcRead(o)
  <2>1. task' \in [Ops -> Tasks] /\ TasksFit'
    <3>1. CASE See(o, "svcWrite", Status)
      BY <1>3, <1>w, <1>b, <3>1 DEF SvcRead
    <3>2. CASE SvcThrow(o)
      BY <1>3, <1>a, <1>b, <3>2 DEF SvcRead
    <3> QED
      BY <1>3, <3>1, <3>2 DEF SvcRead
  <2> QED
    BY <1>3, <2>1, LightTyped DEF SvcRead, Fault
<1>4. CASE SvcCatch(o)
  <2>1. PICK s \in {"UNKNOWN", "RUNNING", "STOPPED"} : See(o, "svcWrite", s)
    BY <1>4, <1>b DEF SvcCatch
  <2>2. task' \in [Ops -> Tasks] /\ TasksFit'
    BY <1>4, <1>w, <2>1 DEF SvcCatch
  <2> QED
    BY <1>4, <2>2, LightTyped DEF SvcCatch, Fault
<1>5. CASE SvcWrite(o)
  <2>1. task' \in [Ops -> Tasks] /\ TasksFit'
    BY <1>0, <1>5, <1>a DEF SvcWrite
  <2>2. [row EXCEPT !.zt = task[o].seen] \in Rows
    BY <1>0, <1>5 DEF SvcWrite, Fits, Rows
  <2> QED
    BY <1>5, <2>1, <2>2, WriteTyped DEF SvcWrite
<1> QED
  BY <1>1, <1>2, <1>3, <1>4, <1>5 DEF ServiceStep

LEMMA ReachesTyped ==
  ASSUME Typed, Reaches \/ UNCHANGED remote
  PROVE  host' \in Hosts /\ authd' \subseteq Networks /\ late' \subseteq Commands
<1>0. /\ host \in Hosts /\ row \in Rows /\ authd \subseteq Networks /\ late \subseteq Commands
      /\ row.addr \in Nat
  BY DEF Typed, TypeOK, Rows
<1>1. CASE UNCHANGED remote
  BY <1>0, <1>1 DEF remote
<1>2. CASE host' \in Untouched(row.addr) /\ authd' = {} /\ late' = {}
  BY <1>0, <1>2 DEF Untouched, Hosts, Planets
<1>3. CASE UNCHANGED <<authd, late>>
           /\ \E r \in BOOLEAN : host' = [host EXCEPT !.root = r, !.at = row.addr]
  BY <1>0, <1>3 DEF Hosts
<1> QED
  BY <1>1, <1>2, <1>3 DEF Reaches

LEMMA BlankTyped == Blank \in Tasks
BY DEF Blank, Tasks, Pcs

\* The steps outside the lock's tasks: asking, entering, leaving, edits and removals.
LEMMA OutsideTyped ==
  ASSUME Typed, NEW o \in Ops,
         Call(o) \/ Enter(o) \/ Load(o) \/ Finish(o) \/ Guard(o) \/ Edit(o) \/ Remove(o)
  PROVE  Typed'
<1>0. /\ task \in [Ops -> Tasks] /\ task[o] \in Tasks /\ Fits(task[o])
      /\ row \in Rows /\ host \in Hosts
  BY DEF Typed, TypeOK, TasksFit
<1> USE DEF At
<1>1. CASE Call(o)
  <2>1. PICK k \in Kinds, t \in Networks \cup {None} :
            /\ k = "switch" <=> t # None
            /\ task' = [task EXCEPT ![o] = [Blank EXCEPT
                    !.pc = IF k \in LockedKinds THEN "queued" ELSE "guard",
                    !.kind = k, !.target = t]]
            /\ IF k \in LockedKinds THEN Lock!Ask(o, "machine") ELSE UNCHANGED ahead
    BY <1>1 DEF Call
  <2> DEFINE new == [Blank EXCEPT !.pc = IF k \in LockedKinds THEN "queued" ELSE "guard",
                                  !.kind = k, !.target = t]
  <2>2. k \in AllKinds
    BY SwitchAssumption
  <2>3. new \in Tasks
    BY <2>2, BlankTyped DEF Tasks, Pcs
  <2>4. Fits(new)
    BY <2>1, <2>2 DEF Blank, Fits, LockedKinds, AllKinds, SwitchPcs, MarkedPcs, CatchPcs, SvcPcs
  <2>5. task' \in [Ops -> Tasks] /\ TasksFit'
    BY <2>1, <2>3, <2>4, SetFits
  <2>6. ahead' \in [Ops -> SUBSET Ops]
    <3>1. Lock!Present("machine") \subseteq Ops
      BY DEF Lock!Present
    <3> QED
      BY <2>1, <3>1 DEF Typed, TypeOK, Lock!Ask
  <2> QED
    BY <1>1, <2>5, <2>6 DEF Call, Typed, TypeOK, db, remote
<1>2. CASE Enter(o)
  <2>1. Fits([task[o] EXCEPT !.pc = "load"])
    BY <1>0, <1>2 DEF Enter, Fits, Tasks, SwitchPcs, MarkedPcs, CatchPcs, SvcPcs
  <2> QED
    BY <1>2, <2>1, GoFits, LightTyped DEF Enter, Pcs, NoFault
<1>3. CASE Load(o)
  <2>1. PICK l \in {"finally", "prepare", "svcConnect"} :
            /\ Go(o, l)
            /\ l = "prepare" => task[o].kind = "switch"
            /\ l = "svcConnect" => task[o].kind # "switch"
    BY <1>3 DEF Load
  <2>2. l \in Pcs
    BY DEF Pcs
  <2>3. ~ task[o].catching
    BY <1>0, <1>3 DEF Load, Fits, Tasks, SwitchPcs, MarkedPcs, CatchPcs, SvcPcs
  <2>4. Fits([task[o] EXCEPT !.pc = l])
    BY <1>0, <1>3, <2>1, <2>3
    DEF Load, Fits, Tasks, LockedKinds, AllKinds, SwitchPcs, MarkedPcs, CatchPcs, SvcPcs
  <2> QED
    <3>1. task' \in [Ops -> Tasks] /\ TasksFit'
      BY <2>1, <2>2, <2>4, GoFits
    <3>2. host' \in Hosts /\ authd' \subseteq Networks /\ late' \subseteq Commands
      BY <1>3, ReachesTyped DEF Load
    <3> QED
      BY <1>3, <3>1, <3>2 DEF Load, Typed, TypeOK, db
<1>4. CASE Finish(o)
  <2> DEFINE new == [Blank EXCEPT !.pc = "done", !.kind = task[o].kind, !.target = task[o].target]
  <2>1. new \in Tasks
    BY <1>0, BlankTyped DEF Tasks, Pcs
  <2>2. Fits(new)
    BY DEF Blank, Fits, SwitchPcs, MarkedPcs, CatchPcs, SvcPcs
  <2>3. ahead' \in [Ops -> SUBSET Ops]
    BY <1>4 DEF Finish, Typed, TypeOK, Lock!Leave
  <2> QED
    BY <1>4, <2>1, <2>2, <2>3, SetFits DEF Finish, Typed, TypeOK, db, remote
<1>5. CASE Guard(o)
  <2>1. PICK l \in {"write", "done"} : Go(o, l)
    BY <1>5 DEF Guard
  <2>2. Fits([task[o] EXCEPT !.pc = l]) /\ l \in Pcs
    BY <1>0, <1>5 DEF Guard, Fits, Tasks, Pcs, SwitchPcs, MarkedPcs, CatchPcs, SvcPcs
  <2> QED
    BY <1>5, <2>1, <2>2, GoFits, LightTyped DEF Guard, NoFault
<1>d. At(o, "write") => Fits([task[o] EXCEPT !.pc = "done"]) /\ "done" \in Pcs
  BY <1>0 DEF Fits, Tasks, Pcs, SwitchPcs, MarkedPcs, CatchPcs, SvcPcs
<1>6. CASE Edit(o)
  <2>1. task' \in [Ops -> Tasks] /\ TasksFit'
    BY <1>6, <1>d, GoFits DEF Edit
  <2>2. \A e \in BOOLEAN, a \in {row.addr, row.addr + 1} :
            [row EXCEPT !.enabled = e, !.addr = a] \in Rows
    <3>1. {row.addr, row.addr + 1} \subseteq Nat
      BY <1>0 DEF Rows
    <3> QED
      BY <1>0, <3>1 DEF Rows
  <2> QED
    BY <1>6, <2>1, <2>2, WriteTyped DEF Edit
<1>7. CASE Remove(o)
  <2>1. task' \in [Ops -> Tasks] /\ TasksFit'
    BY <1>7, <1>d, GoFits DEF Remove
  <2>2. CASE RowWriteFails
    BY <1>7, <2>1, <2>2, WriteTyped DEF Remove
  <2>3. CASE /\ row.exists /\ row' = [row EXCEPT !.exists = FALSE]
             /\ logs' = [p \in Ops |-> IF logs[p] = "none" THEN "none" ELSE "deleted"]
             /\ NoFault
    <3>1. row' \in Rows
      BY <1>0, <2>3 DEF Rows
    <3> QED
      BY <1>7, <2>1, <2>3, <3>1 DEF Remove, Typed, TypeOK, remote, NoFault
  <2> QED
    BY <1>7, <2>2, <2>3 DEF Remove
<1> QED
  BY <1>1, <1>2, <1>3, <1>4, <1>5, <1>6, <1>7

LEMMA InitTyped == Init => Typed
<1> SUFFICES ASSUME Init PROVE Typed
  OBVIOUS
<1>1. Fits(Blank)
  BY DEF Fits, Blank, SwitchPcs, MarkedPcs, CatchPcs, SvcPcs
<1>2. row \in Rows /\ host \in Hosts
  BY SwitchAssumption DEF Init, Rows, Hosts, Planets, Untouched
<1>3. faults \in [count : 0..MaxFaults, kinds : SUBSET Faults]
  BY SwitchAssumption DEF Init
<1> QED
  BY <1>1, <1>2, <1>3, BlankTyped DEF Init, Typed, TypeOK, TasksFit

LEMMA StepTyped == Typed /\ [Next]_vars => Typed'
<1> SUFFICES ASSUME Typed, [Next]_vars PROVE Typed'
  OBVIOUS
<1>1. ASSUME NEW o \in Ops, Call(o) \/ Step(o) \/ UploadPlanet(o) PROVE Typed'
  BY <1>1, SwitchTyped, ServiceTyped, OutsideTyped DEF Step
<1>2. CASE LateCommand \/ LoseLateCommand
  <2>1. PICK c \in late : late' = late \ {c} /\ (host' = host \/ host' = Effect(c))
    BY <1>2 DEF LateCommand, LoseLateCommand
  <2>2. c \in Commands /\ host' \in Hosts
    BY <2>1, EffectTyped DEF Typed, TypeOK
  <2> QED
    BY <1>2, <2>1, <2>2 DEF LateCommand, LoseLateCommand, Typed, TypeOK, TasksFit, db
<1>3. CASE Crash
  <2>1. \A o \in Ops : /\ [Blank EXCEPT !.pc = "lost", !.kind = task[o].kind] \in Tasks
                       /\ Fits([Blank EXCEPT !.pc = "lost", !.kind = task[o].kind])
    <3> TAKE o \in Ops
    <3>1. task[o].kind \in AllKinds \cup {None}
      BY DEF Typed, TypeOK, Tasks
    <3>2. [Blank EXCEPT !.pc = "lost", !.kind = task[o].kind] \in Tasks
      BY <3>1, BlankTyped DEF Tasks, Pcs
    <3> QED
      BY <3>2 DEF Blank, Fits, SwitchPcs, MarkedPcs, CatchPcs, SvcPcs
  <2>2. task' \in [Ops -> Tasks] /\ TasksFit'
    BY <1>3, <2>1 DEF Crash, Typed, TypeOK, TasksFit
  <2>3. ahead' \in [Ops -> SUBSET Ops]
    BY <1>3 DEF Crash, Lock!Forget
  <2>4. faults' \in [count : 0..MaxFaults, kinds : SUBSET Faults]
    BY <1>3, FaultTyped DEF Crash, Typed
  <2> QED
    BY <1>3, <2>2, <2>3, <2>4 DEF Crash, Typed, TypeOK, db, remote
<1>4. CASE UNCHANGED vars
  BY <1>4 DEF vars, db, remote, Typed, TypeOK, TasksFit
<1> QED
  BY <1>1, <1>2, <1>3, <1>4 DEF Next

\* Every variable of the model keeps its type, with any requests, networks, controllers
\* and failures; in particular a switch in progress always knows its network.
THEOREM TypeCorrect == Spec => []TypeOK
<1>1. Typed => TypeOK
  BY DEF Typed
<1> QED
  BY <1>1, InitTyped, StepTyped, PTL DEF Spec
-----------------------------------------------------------------------------
(* One request at a time holds the lock. *)

Inside(o) == task[o].pc \in InsidePcs
Present(o) == Inside(o) \/ task[o].pc = "queued"

QueueOK ==
    /\ \A o \in Ops : Inside(o) => ahead[o] = {}
    /\ \A o, p \in Ops : o # p /\ Present(o) /\ Present(p) => o \in ahead[p] \/ p \in ahead[o]

Others(o) == \A p \in Ops \ {o} : task'[p] = task[p]

LEMMA GoMoves ==
  ASSUME Typed, NEW o \in Ops, NEW l, NEW v
  PROVE  /\ Go(o, l) => Others(o) /\ task'[o].pc = l
         /\ Throw(o, v) => Others(o) /\ task'[o].pc \in {"recover", "finally"}
         /\ See(o, l, v) => Others(o) /\ task'[o].pc = l
         /\ SvcThrow(o) => Others(o) /\ task'[o].pc = "svcCatch"
BY DEF Typed, TypeOK, Tasks, Go, Throw, See, SvcThrow, Others

\* The same for the steps that set another variable of the request too.
LEMMA SetMoves ==
  ASSUME Typed, NEW o \in Ops, NEW l, NEW v
  PROVE  /\ task' = [task EXCEPT ![o].pc = l, ![o].found = v] =>
              Others(o) /\ task'[o] = [task[o] EXCEPT !.pc = l, !.found = v]
         /\ task' = [task EXCEPT ![o].pc = l, ![o].todo = v] =>
              Others(o) /\ task'[o] = [task[o] EXCEPT !.pc = l, !.todo = v]
         /\ task' = [task EXCEPT ![o].pc = l, ![o].saved = v] =>
              Others(o) /\ task'[o] = [task[o] EXCEPT !.pc = l, !.saved = v]
         /\ task' = [task EXCEPT ![o].pc = l, ![o].joined = v] =>
              Others(o) /\ task'[o] = [task[o] EXCEPT !.pc = l, !.joined = v]
         /\ task' = [task EXCEPT ![o].pc = l, ![o].catching = v] =>
              Others(o) /\ task'[o] = [task[o] EXCEPT !.pc = l, !.catching = v]
         /\ task' = [task EXCEPT ![o].todo = @ \ {v}] =>
              Others(o) /\ task'[o] = [task[o] EXCEPT !.todo = @ \ {v}]
BY DEF Typed, TypeOK, Tasks, Others

\* The places inside the lock, one by one.
LEMMA InsidePlaces ==
  /\ {"load", "prepare", "createLog", "mark", "connect", "prerequisites", "nodeInfo",
      "listExtra", "leave", "stop", "backup", "upload", "start", "join", "authorize",
      "ready", "cleanup", "rowSuccess", "logSuccess", "recover", "rollbackStop",
      "rollbackRestore", "rollbackStart", "rowFailed", "logFailed", "finally",
      "svcConnect", "svcAct", "svcRead", "svcCatch", "svcWrite"} = InsidePcs
  /\ {"idle", "queued", "guard", "write", "done", "lost"} \cap InsidePcs = {}
BY DEF InsidePcs, SwitchPcs, MarkedPcs, CatchPcs, SvcPcs

\* A request inside the lock stays inside until it is finished, and no other moves.
LEMMA InsideStays ==
  ASSUME Typed, NEW o \in Ops,
         Load(o) \/ SwitchStep(o) \/ UploadPlanet(o) \/ ServiceStep(o)
  PROVE  Inside(o) /\ Inside(o)' /\ Others(o) /\ UNCHANGED ahead
<1> DEFINE Stays == /\ task[o].pc \in InsidePcs /\ task'[o].pc \in InsidePcs
                    /\ Others(o) /\ UNCHANGED ahead
<1> SUFFICES Stays
  BY DEF Inside
<1>0. task \in [Ops -> Tasks] /\ task[o] \in Tasks
  BY DEF Typed, TypeOK
<1>1. CASE Load(o)
  BY <1>1, GoMoves, InsidePlaces DEF Load, At
<1>2. CASE Prepare(o)
  BY <1>2, GoMoves, InsidePlaces DEF Prepare, At
<1>3. CASE CreateLog(o)
  BY <1>3, GoMoves, InsidePlaces DEF CreateLog, At
<1>4. CASE Connect(o)
  BY <1>4, GoMoves, InsidePlaces DEF Connect, At
<1>5. CASE Prerequisites(o)
  BY <1>5, GoMoves, InsidePlaces DEF Prerequisites, At
<1>6. CASE NodeInfo(o)
  BY <1>6, GoMoves, InsidePlaces DEF NodeInfo, At
<1>7. CASE RecheckExtra(o)
  BY <1>7, GoMoves, InsidePlaces DEF RecheckExtra, At, ExtraLeft
<1>8. CASE Authorize(o)
  BY <1>8, GoMoves, InsidePlaces DEF Authorize, At
<1>9. CASE AwaitReady(o)
  BY <1>9, GoMoves, InsidePlaces DEF AwaitReady, At
<1>10. CASE Cleanup(o)
  BY <1>10, GoMoves, InsidePlaces DEF Cleanup, At
<1>11. CASE RowSuccess(o)
  BY <1>11, GoMoves, InsidePlaces DEF RowSuccess, At
<1>12. CASE LogSuccess(o)
  BY <1>12, GoMoves, InsidePlaces DEF LogSuccess, At
<1>13. CASE RowFailed(o)
  BY <1>13, GoMoves, InsidePlaces DEF RowFailed, At
<1>14. CASE LogFailed(o)
  BY <1>14, GoMoves, InsidePlaces DEF LogFailed, At
<1>15. CASE SvcAct(o)
  BY <1>15, GoMoves, InsidePlaces DEF SvcAct, At
<1>16. CASE SvcRead(o)
  BY <1>16, GoMoves, InsidePlaces DEF SvcRead, At
<1>17. CASE SvcCatch(o)
  BY <1>17, GoMoves, InsidePlaces DEF SvcCatch, At
<1>18. CASE SvcWrite(o)
  BY <1>18, GoMoves, InsidePlaces DEF SvcWrite, At
<1>19. CASE Mark(o)
  <2>1. task[o].pc \in InsidePcs /\ UNCHANGED ahead
    BY <1>19, InsidePlaces DEF Mark, At
  <2>2. CASE task' = [task EXCEPT ![o].pc = "connect", ![o].found = host.planet]
    <3>1. Others(o) /\ task'[o].pc = "connect"
      BY <1>0, <2>2, SetMoves DEF Tasks
    <3> QED
      BY <2>1, <3>1, InsidePlaces
  <2>3. CASE Go(o, "finally")
    BY <2>1, <2>3, GoMoves, InsidePlaces
  <2> QED
    BY <1>19, <2>2, <2>3 DEF Mark
<1>20. CASE ListExtra(o)
  <2>1. task[o].pc \in InsidePcs /\ UNCHANGED ahead
    BY <1>20, InsidePlaces DEF ListExtra, At
  <2>2. CASE task' = [task EXCEPT ![o].pc = IF Extra(o) = {} THEN ExtraLeft(o) ELSE "leave",
                                      ![o].todo = Extra(o)]
    <3>1. Others(o) /\ task'[o].pc \in {"cleanup", "stop", "leave"}
      BY <1>0, <2>2, SetMoves DEF Tasks, ExtraLeft
    <3> QED
      BY <2>1, <3>1, InsidePlaces
  <2>3. CASE Throw(o, FALSE)
    BY <2>1, <2>3, GoMoves, InsidePlaces
  <2> QED
    BY <1>20, <2>2, <2>3 DEF ListExtra
<1>21. CASE LeaveExtra(o)
  <2>1. task[o].pc \in InsidePcs /\ UNCHANGED ahead
    BY <1>21, InsidePlaces DEF LeaveExtra, At
  <2>2. CASE \E n \in task[o].todo : task' = [task EXCEPT ![o].todo = @ \ {n}]
    <3>1. Others(o) /\ task'[o].pc = "leave"
      <4>1. PICK n \in task[o].todo : task' = [task EXCEPT ![o].todo = @ \ {n}]
        BY <2>2
      <4>2. task[o].pc = "leave"
        BY <1>21 DEF LeaveExtra, At
      <4> QED
        BY <1>0, <4>1, <4>2, SetMoves DEF Tasks
    <3> QED
      BY <2>1, <3>1, InsidePlaces
  <2>3. CASE Throw(o, FALSE)
    BY <2>1, <2>3, GoMoves, InsidePlaces
  <2> QED
    BY <1>21, <2>2, <2>3 DEF LeaveExtra
<1>22. CASE BackupPlanet(o)
  <2>1. task[o].pc \in InsidePcs /\ UNCHANGED ahead
    BY <1>22, InsidePlaces DEF BackupPlanet, At
  <2>2. CASE task' = [task EXCEPT ![o].pc = "upload", ![o].saved = TRUE]
    <3>1. Others(o) /\ task'[o].pc = "upload"
      BY <1>0, <2>2, SetMoves DEF Tasks
    <3> QED
      BY <2>1, <3>1, InsidePlaces
  <2>3. CASE Throw(o, FALSE)
    BY <2>1, <2>3, GoMoves, InsidePlaces
  <2> QED
    BY <1>22, <2>2, <2>3 DEF BackupPlanet
<1>23. CASE JoinNetwork(o)
  <2>1. task[o].pc \in InsidePcs /\ UNCHANGED ahead
    BY <1>23, InsidePlaces DEF JoinNetwork, At
  <2>2. CASE task' = [task EXCEPT ![o].pc = "authorize", ![o].joined = TRUE]
    <3>1. Others(o) /\ task'[o].pc = "authorize"
      BY <1>0, <2>2, SetMoves DEF Tasks
    <3> QED
      BY <2>1, <3>1, InsidePlaces
  <2>3. CASE Throw(o, FALSE)
    BY <2>1, <2>3, GoMoves, InsidePlaces
  <2> QED
    BY <1>23, <2>2, <2>3 DEF JoinNetwork
<1>24. CASE Recover(o)
  <2>1. PICK l \in {"listExtra", "rollbackStop"} :
            task' = [task EXCEPT ![o].pc = l, ![o].catching = TRUE]
    BY <1>24 DEF Recover
  <2>2. Others(o) /\ task'[o].pc = l
    BY <1>0, <2>1, SetMoves DEF Tasks
  <2> QED
    BY <1>24, <2>2, InsidePlaces DEF Recover, At
<1>25. CASE SvcConnect(o)
  <2>1. task[o].pc \in InsidePcs /\ UNCHANGED ahead
    BY <1>25, InsidePlaces DEF SvcConnect, At
  <2>2. CASE task' = [task EXCEPT ![o].pc = "svcWrite", ![o].seen = "UNKNOWN",
                                  ![o].catching = TRUE]
    <3>1. Others(o) /\ task'[o].pc = "svcWrite"
      BY <1>0, <2>2 DEF Tasks, Others
    <3> QED
      BY <2>1, <3>1, InsidePlaces
  <2>3. CASE \E l \in {"svcRead", "svcAct"} : Go(o, l)
    BY <2>1, <2>3, GoMoves, InsidePlaces
  <2> QED
    BY <1>25, <2>2, <2>3 DEF SvcConnect
<1>26. CASE StopDaemon(o)
  BY <1>26, GoMoves, InsidePlaces DEF StopDaemon, Exec, At
<1>27. CASE UploadPlanet(o)
  BY <1>27, GoMoves, InsidePlaces DEF UploadPlanet, Exec, At
<1>28. CASE StartDaemon(o)
  BY <1>28, GoMoves, InsidePlaces DEF StartDaemon, Exec, At
<1>29. CASE RollbackStop(o)
  BY <1>29, GoMoves, InsidePlaces DEF RollbackStop, Rollback, At
<1>30. CASE RollbackRestore(o)
  BY <1>30, GoMoves, InsidePlaces DEF RollbackRestore, Rollback, At
<1>31. CASE RollbackStart(o)
  BY <1>31, GoMoves, InsidePlaces DEF RollbackStart, Rollback, At
<1> QED
  BY <1>1, <1>2, <1>3, <1>4, <1>5, <1>6, <1>7, <1>8, <1>9, <1>10, <1>11, <1>12, <1>13,
     <1>14, <1>15, <1>16, <1>17, <1>18, <1>19, <1>20, <1>21, <1>22, <1>23, <1>24,
     <1>25, <1>26, <1>27, <1>28, <1>29, <1>30, <1>31 DEF SwitchStep, ServiceStep,
     Inside

\* Of two requests inside the lock, one would be ahead of the other.
LEMMA OneInside ==
  ASSUME QueueOK, NEW o \in Ops, NEW p \in Ops, Inside(o), Inside(p) PROVE o = p
BY DEF QueueOK, Present

LEMMA QueueStep ==
  ASSUME Typed, QueueOK, [Next]_vars PROVE QueueOK'
<1> USE DEF QueueOK, Inside, Present
<1>0. task \in [Ops -> Tasks] /\ ahead \in [Ops -> SUBSET Ops]
  BY DEF Typed, TypeOK
<1>1. ASSUME NEW o \in Ops, Load(o) \/ SwitchStep(o) \/ UploadPlanet(o) \/ ServiceStep(o)
      PROVE  QueueOK'
  BY <1>1, InsideStays DEF Others
<1>2. ASSUME NEW o \in Ops, Call(o) PROVE QueueOK'
  <2>1. PICK k \in Kinds, t \in Networks \cup {None} :
            /\ task' = [task EXCEPT ![o] = [Blank EXCEPT
                    !.pc = IF k \in LockedKinds THEN "queued" ELSE "guard",
                    !.kind = k, !.target = t]]
            /\ IF k \in LockedKinds THEN Lock!Ask(o, "machine") ELSE UNCHANGED ahead
    BY <1>2 DEF Call
  <2>2. Others(o) /\ task'[o].pc = IF k \in LockedKinds THEN "queued" ELSE "guard"
    BY <1>0, <2>1 DEF Others, Blank
  <2>3. "queued" \notin InsidePcs /\ "guard" \notin InsidePcs
    BY InsidePlaces
  <2>4. CASE k \notin LockedKinds
    BY <2>1, <2>2, <2>3, <2>4 DEF Others
  <2>5. CASE k \in LockedKinds
    <3>1. \A p \in Ops : Present(p) => p \in Lock!Present("machine")
      <4> SUFFICES ASSUME NEW p \in Ops, Present(p) PROVE p \in Lock!Present("machine")
        OBVIOUS
      <4>1. At(p, "queued") \/ ~ Outside(task[p].pc)
        BY InsidePlaces DEF Outside, At
      <4> QED
        BY <4>1 DEF Lock!Present
    <3>2. ahead' = [ahead EXCEPT ![o] = Lock!Present("machine")]
      BY <2>1, <2>5 DEF Lock!Ask
    <3> QED
      BY <1>0, <2>2, <2>3, <2>5, <3>1, <3>2 DEF Others
  <2> QED
    BY <2>4, <2>5
<1>3. ASSUME NEW o \in Ops, Enter(o) PROVE QueueOK'
  <2>1. Others(o) /\ task'[o].pc = "load" /\ task[o].pc = "queued" /\ UNCHANGED ahead
    BY <1>3, GoMoves DEF Enter, At
  <2>2. ahead[o] = {}
    BY <1>3 DEF Enter, Lock!Admit
  <2>3. "load" \in InsidePcs
    BY InsidePlaces
  <2> QED
    BY <2>1, <2>2, <2>3 DEF Others
<1>4. ASSUME NEW o \in Ops, Finish(o) PROVE QueueOK'
  <2>1. Others(o) /\ task'[o].pc = "done"
    BY <1>0, <1>4 DEF Finish, Others, Blank
  <2>2. ahead' = [p \in Ops |-> ahead[p] \ {o}]
    BY <1>4 DEF Finish, Lock!Leave
  <2>3. "done" \notin InsidePcs
    BY InsidePlaces
  <2> QED
    BY <1>0, <2>1, <2>2, <2>3 DEF Others
<1>5. ASSUME NEW o \in Ops, Guard(o) \/ Edit(o) \/ Remove(o) PROVE QueueOK'
  <2>1. Others(o) /\ task'[o].pc \in {"write", "done"} /\ UNCHANGED ahead
    BY <1>5, GoMoves DEF Guard, Edit, Remove
  <2>2. {"write", "done"} \cap InsidePcs = {} /\ "queued" \notin {"write", "done"}
    BY InsidePlaces
  <2> QED
    BY <2>1, <2>2 DEF Others
<1>6. CASE Crash
  <2>1. \A o \in Ops : task'[o].pc \in {"idle", "done", "lost"}
    BY <1>6 DEF Crash, Blank
  <2>2. {"idle", "done", "lost"} \cap InsidePcs = {}
    BY InsidePlaces
  <2> QED
    BY <2>1, <2>2
<1>7. CASE LateCommand \/ LoseLateCommand \/ UNCHANGED vars
  BY <1>7 DEF LateCommand, LoseLateCommand, vars
<1> QED
  BY <1>1, <1>2, <1>3, <1>4, <1>5, <1>6, <1>7 DEF Next, Step
-----------------------------------------------------------------------------
(* The record. *)

\* The log of a request is opened by the switch that owns it; the row's status is the
\* one that the switch inside the lock has written last.
Recorded(o) ==
    LET t == task[o] IN
    /\ t.pc \in {"idle", "queued", "load", "prepare", "createLog", "guard", "write"} =>
         logs[o] = "none"
    /\ t.pc \in MarkedPcs \cup {"mark"} => logs[o] \in {"RUNNING", "deleted"}
    /\ t.pc \in {"prepare", "createLog", "mark"} => row.sw # "RUNNING"
    /\ t.pc \in MarkedPcs => row.sw \in {"RUNNING", "SUCCESS", "FAILED"}
    /\ t.pc \in MarkedPcs => (row.sw = "FAILED" <=> t.pc = "logFailed")
    /\ t.pc = "logSuccess" => row.sw = "SUCCESS"
    /\ t.pc \in MarkedPcs /\ row.sw = "SUCCESS" => row.net = t.target
    /\ row.exists => logs[o] # "deleted"
    /\ t.verbose => "verbose" \in faults.kinds

RecordOK == \A o \in Ops : Recorded(o)
-----------------------------------------------------------------------------
(* The host, unless a command was given up on: only the request inside the lock   *)
(* changes it.                                                                    *)

Punctual == "late" \notin faults.kinds

\* The target network is up, and alone, when the switch says so.
Done == {"cleanup", "rowSuccess", "logSuccess"}
Leaving == {"listExtra", "leave"}
TargetUp(o) ==
    LET t == task[o] IN
    /\ t.pc \in Done \/ (t.pc \in Leaving /\ t.joined) => Reachable(t.target)
    /\ t.pc \in Done => host.joined = {t.target}

\* A switch has joined its network from the step after the join on.
JoinedLate(o) ==
    LET t == task[o] IN
    /\ t.pc \in {"authorize", "ready"} => t.joined
    /\ t.joined => t.pc \notin {"queued", "load", "prepare", "createLog", "mark", "connect",
                             "prerequisites", "nodeInfo"}

\* The planet file is the one found until the backup is made, the backup from then on, and
\* the one found again when the daemon is to be started for the rollback.
PlanetKept(o) ==
    LET t == task[o] IN
    /\ \/ t.pc \in {"connect", "prerequisites", "nodeInfo", "stop", "backup"}
       \/ t.pc \in Leaving /\ ~ t.joined
       => host.planet = t.found
    /\ t.pc \in SwitchPcs /\ t.saved => host.backup = t.found /\ t.found # None
    /\ t.pc = "rollbackStart" /\ t.saved => host.planet = t.found

SeenIsReal(o) == task[o].pc = "svcWrite" => task[o].seen \in {"UNKNOWN", Status}

\* Nothing has failed: the rollback of a privileged switch ends with a running daemon.
DaemonRuns(o) ==
    faults.count = 0 /\ host.root /\ task[o].pc \in {"rowFailed", "logFailed"} =>
        host.running # None

View(o) ==
    TargetUp(o) /\ JoinedLate(o) /\ PlanetKept(o) /\ SeenIsReal(o) /\ DaemonRuns(o)
RowDescribesHost == row.sw = "SUCCESS" /\ row.addr = row.on => host.joined = {row.net}

HostOK == Punctual => late = {} /\ RowDescribesHost /\ \A o \in Ops : View(o)
FaultsOK == faults.kinds # {} => faults.count # 0

\* The logins only go on: the last success was obtained with that of the host or an
\* earlier one, and the row may give a later one than the host was reached with.
LoginsOK == row.on <= host.at /\ host.at <= row.addr

Inv == Typed /\ QueueOK /\ RecordOK /\ HostOK /\ FaultsOK /\ LoginsOK
-----------------------------------------------------------------------------
(* Every step keeps the record. *)

\* What a step changes in the request that takes it.
Same(o) ==
    /\ task'[o].kind = task[o].kind /\ task'[o].target = task[o].target
    /\ task'[o].found = task[o].found /\ task'[o].saved = task[o].saved
    /\ task'[o].joined = task[o].joined

LEMMA GoKeeps ==
  ASSUME Typed, NEW o \in Ops, NEW l, NEW v
  PROVE  /\ Go(o, l) => Same(o) /\ task'[o].verbose = task[o].verbose
         /\ Throw(o, v) => Same(o) /\ task'[o].verbose = v
         /\ See(o, l, v) => Same(o) /\ task'[o].verbose = task[o].verbose /\ task'[o].seen = v
         /\ SvcThrow(o) => Same(o) /\ task'[o].verbose = task[o].verbose
BY DEF Typed, TypeOK, Tasks, Go, Throw, See, SvcThrow, Same

LEMMA KindsGrow ==
  ASSUME Typed, NEW f
  PROVE  /\ Fault(f) => faults.kinds \subseteq faults'.kinds /\ f \in faults'.kinds
                        /\ faults'.count # 0
         /\ NoFault => faults' = faults
<1>1. faults.count \in Nat
  BY SwitchAssumption DEF Typed, TypeOK
<1> QED
  BY <1>1 DEF Fault, NoFault

LEMMA MarkedPlaces ==
  /\ {"connect", "prerequisites", "nodeInfo", "listExtra", "leave", "stop", "backup",
      "upload", "start", "join", "authorize", "ready", "cleanup", "rowSuccess",
      "logSuccess", "recover", "rollbackStop", "rollbackRestore", "rollbackStart",
      "rowFailed", "logFailed"} = MarkedPcs
  /\ {"idle", "queued", "load", "prepare", "createLog", "mark", "finally", "svcConnect",
      "svcAct", "svcRead", "svcCatch", "svcWrite", "guard", "write", "done", "lost"}
     \cap MarkedPcs = {}
BY DEF MarkedPcs, CatchPcs

\* A request that stands still, whatever the record does.
LEMMA StillRecorded ==
  ASSUME RecordOK, NEW o \in Ops, task'[o] = task[o], logs'[o] = logs[o],
         faults.kinds \subseteq faults'.kinds, row'.exists => row.exists,
         ~ Inside(o) \/ (row'.sw = row.sw /\ row'.net = row.net)
  PROVE  Recorded(o)'
<1>1. Recorded(o)
  BY DEF RecordOK
<1>2. ~ Inside(o) => task[o].pc \notin MarkedPcs
                      /\ task[o].pc \notin {"prepare", "createLog", "mark", "logSuccess"}
  BY InsidePlaces, MarkedPlaces DEF Inside
<1> QED
  BY <1>1, <1>2 DEF Recorded

\* A request inside the lock moves.
LEMMA OneRecorded ==
  ASSUME QueueOK, RecordOK, NEW o \in Ops, Inside(o), Others(o), Recorded(o)',
         \A p \in Ops \ {o} : logs'[p] = logs[p],
         faults.kinds \subseteq faults'.kinds, row'.exists = row.exists
  PROVE  RecordOK'
<1>1. \A p \in Ops \ {o} : ~ Inside(p)
  BY OneInside
<1> QED
  BY <1>1, StillRecorded DEF RecordOK, Others

\* A switch goes on, after its row is marked, and writes nothing.
Quiet(o) ==
    /\ task[o].pc \in MarkedPcs \ {"logFailed"}
    /\ task'[o].pc \in (MarkedPcs \ {"logFailed", "logSuccess"}) \cup {"finally"}
    /\ task'[o].target = task[o].target
    /\ task'[o].verbose => task[o].verbose \/ "verbose" \in faults'.kinds
    /\ faults.kinds \subseteq faults'.kinds
    /\ UNCHANGED <<row, logs>>

LEMMA QuietRecorded ==
  ASSUME RecordOK, NEW o \in Ops, Quiet(o) PROVE Recorded(o)'
<1>1. Recorded(o)
  BY DEF RecordOK
<1>2. /\ task[o].pc \notin {"mark", "prepare", "createLog"}
      /\ task'[o].pc \notin {"idle", "queued", "load", "prepare", "createLog", "guard",
                             "write", "mark", "logSuccess"}
      /\ "finally" \notin MarkedPcs
  BY MarkedPlaces DEF Quiet
<1> QED
  BY <1>1, <1>2 DEF Recorded, Quiet

LEMMA QuietGo ==
  ASSUME Typed, NEW o \in Ops, NEW l, Go(o, l), UNCHANGED <<row, logs>>,
         task[o].pc \in MarkedPcs \ {"logFailed"},
         l \in (MarkedPcs \ {"logFailed", "logSuccess"}) \cup {"finally"},
         faults.kinds \subseteq faults'.kinds
  PROVE  Quiet(o)
BY GoMoves, GoKeeps DEF Quiet, Same

LEMMA QuietThrow ==
  ASSUME Typed, NEW o \in Ops, NEW v, Throw(o, v), UNCHANGED <<row, logs>>,
         task[o].pc \in MarkedPcs \ {"logFailed"},
         v => "verbose" \in faults'.kinds, faults.kinds \subseteq faults'.kinds
  PROVE  Quiet(o)
<1>1. "recover" \in MarkedPcs \ {"logFailed", "logSuccess"}
  BY MarkedPlaces
<1>2. task'[o].pc \in {"recover", "finally"} /\ task'[o].verbose = v
  BY GoMoves, GoKeeps
<1>3. task'[o].target = task[o].target
  BY GoKeeps DEF Same
<1> QED
  BY <1>1, <1>2, <1>3 DEF Quiet

\* Failures are never forgotten.
LEMMA KindsKept ==
  ASSUME Typed, NEW c, NEW f, NEW b, NEW v
  PROVE  /\ FailsIf(b, f) => faults.kinds \subseteq faults'.kinds
         /\ Succeeds(c) => faults.kinds \subseteq faults'.kinds
         /\ Fails(c) => faults.kinds \subseteq faults'.kinds
         /\ TimesOut(c) => faults.kinds \subseteq faults'.kinds /\ "late" \in faults'.kinds
BY KindsGrow DEF FailsIf, Succeeds, Fails, TimesOut

LEMMA QuietExec ==
  ASSUME Typed, NEW o \in Ops, NEW c, NEW next \in MarkedPcs \ {"logFailed", "logSuccess"},
         task[o].pc \in MarkedPcs \ {"logFailed"}, Exec(o, c, next)
  PROVE  Quiet(o)
<1>1. UNCHANGED <<row, logs>>
  BY DEF Exec, db
<1>2. CASE Succeeds(c) /\ Go(o, next)
  BY <1>1, <1>2, KindsKept, QuietGo
<1>3. CASE (Fails(c) \/ TimesOut(c)) /\ Throw(o, FALSE)
  BY <1>1, <1>3, KindsKept, QuietThrow
<1>4. CASE Fault("verbose") /\ Throw(o, TRUE)
  BY <1>1, <1>4, KindsGrow, QuietThrow
<1> QED
  BY <1>2, <1>3, <1>4 DEF Exec

LEMMA QuietRollback ==
  ASSUME Typed, NEW o \in Ops, NEW c, NEW next \in MarkedPcs \ {"logFailed", "logSuccess"},
         NEW from \in MarkedPcs \ {"logFailed"}, Rollback(o, from, c, next)
  PROVE  Quiet(o)
<1>1. UNCHANGED <<row, logs>> /\ task[o].pc = from /\ faults.kinds \subseteq faults'.kinds
  BY KindsKept DEF Rollback, db, At
<1>2. "rowFailed" \in MarkedPcs
  BY MarkedPlaces
<1> QED
  BY <1>1, <1>2, QuietGo DEF Rollback

\* The steps of a switch that write neither the machine's row nor a log.
RemoteStep(o) ==
    \/ Connect(o) \/ Prerequisites(o) \/ NodeInfo(o) \/ ListExtra(o) \/ LeaveExtra(o)
    \/ RecheckExtra(o) \/ StopDaemon(o) \/ BackupPlanet(o) \/ UploadPlanet(o)
    \/ StartDaemon(o) \/ JoinNetwork(o) \/ Authorize(o) \/ AwaitReady(o) \/ Cleanup(o)
    \/ Recover(o) \/ RollbackStop(o) \/ RollbackRestore(o) \/ RollbackStart(o)

LEMMA QuietSteps ==
  ASSUME Typed, NEW o \in Ops, RemoteStep(o)
  PROVE  Quiet(o)
<1>0. task \in [Ops -> Tasks] /\ task[o] \in Tasks
  BY DEF Typed, TypeOK
<1> DEFINE Here == MarkedPcs \ {"logFailed"}
           There == MarkedPcs \ {"logFailed", "logSuccess"}
           Still == UNCHANGED <<row, logs>> /\ faults.kinds \subseteq faults'.kinds
<1>p. {"connect", "prerequisites", "nodeInfo", "listExtra", "leave", "stop", "backup",
       "upload", "start", "join", "authorize", "ready", "cleanup", "rowSuccess", "recover",
       "rollbackStop", "rollbackRestore", "rollbackStart", "rowFailed"} \subseteq Here \cap There
  BY MarkedPlaces
<1>1. CASE Connect(o)
  <2>1. Still
    BY <1>1, KindsGrow DEF Connect, db
  <2>2. task[o].pc = "connect" /\ \E l \in {"prerequisites", "rowFailed"} : Go(o, l)
    BY <1>1 DEF Connect, At
  <2> QED
    BY <1>p, <2>1, <2>2, QuietGo
<1>2. CASE Prerequisites(o)
  <2>1. Still
    BY <1>2, KindsGrow, KindsKept DEF Prerequisites, db
  <2>2. task[o].pc = "prerequisites" /\ (Go(o, "nodeInfo") \/ Throw(o, FALSE))
    BY <1>2 DEF Prerequisites, At
  <2> QED
    BY <1>p, <2>1, <2>2, QuietGo, QuietThrow
<1>3. CASE NodeInfo(o)
  <2>1. Still
    BY <1>3, KindsGrow, KindsKept DEF NodeInfo, db
  <2>2. task[o].pc = "nodeInfo" /\ (Go(o, "listExtra") \/ Throw(o, FALSE))
    BY <1>3 DEF NodeInfo, At
  <2> QED
    BY <1>p, <2>1, <2>2, QuietGo, QuietThrow
<1>4. CASE ListExtra(o)
  <2>1. Still
    BY <1>4, KindsGrow, KindsKept DEF ListExtra, db
  <2>2. task[o].pc = "listExtra"
    BY <1>4 DEF ListExtra, At
  <2>3. CASE Throw(o, FALSE)
    BY <1>p, <2>1, <2>2, <2>3, QuietThrow
  <2>4. CASE task' = [task EXCEPT ![o].pc = IF Extra(o) = {} THEN ExtraLeft(o) ELSE "leave",
                                  ![o].todo = Extra(o)]
    <3>1. task'[o].pc \in {"cleanup", "stop", "leave"}
          /\ task'[o].target = task[o].target /\ task'[o].verbose = task[o].verbose
      BY <1>0, <2>4, SetMoves DEF Tasks, ExtraLeft
    <3> QED
      BY <1>p, <2>1, <2>2, <3>1 DEF Quiet
  <2> QED
    BY <1>4, <2>3, <2>4 DEF ListExtra
<1>5. CASE LeaveExtra(o)
  <2>1. Still
    BY <1>5, KindsKept DEF LeaveExtra, db
  <2>2. task[o].pc = "leave"
    BY <1>5 DEF LeaveExtra, At
  <2>3. CASE Throw(o, FALSE)
    BY <1>p, <2>1, <2>2, <2>3, QuietThrow
  <2>4. CASE \E n \in task[o].todo : task' = [task EXCEPT ![o].todo = @ \ {n}]
    <3>1. task'[o].pc = "leave"
          /\ task'[o].target = task[o].target /\ task'[o].verbose = task[o].verbose
      <4>1. PICK n \in task[o].todo : task' = [task EXCEPT ![o].todo = @ \ {n}]
        BY <2>4
      <4>2. task'[o] = [task[o] EXCEPT !.todo = @ \ {n}]
        BY <4>1, SetMoves
      <4> QED
        BY <1>0, <2>2, <4>2 DEF Tasks
    <3> QED
      BY <1>p, <2>1, <2>2, <3>1 DEF Quiet
  <2> QED
    BY <1>5, <2>3, <2>4 DEF LeaveExtra
<1>6. CASE RecheckExtra(o)
  <2>1. Still
    BY <1>6, KindsGrow, KindsKept DEF RecheckExtra, db
  <2>2. task[o].pc = "leave"
        /\ (Throw(o, FALSE) \/ \E l \in {"cleanup", "stop"} : Go(o, l))
    BY <1>6 DEF RecheckExtra, At, ExtraLeft
  <2> QED
    BY <1>p, <2>1, <2>2, QuietGo, QuietThrow
<1>7. CASE StopDaemon(o)
  BY <1>p, <1>7, QuietExec DEF StopDaemon, At
<1>8. CASE UploadPlanet(o)
  BY <1>p, <1>8, QuietExec DEF UploadPlanet, At
<1>9. CASE StartDaemon(o)
  BY <1>p, <1>9, QuietExec DEF StartDaemon, At
<1>10. CASE BackupPlanet(o)
  <2>1. Still
    BY <1>10, KindsKept DEF BackupPlanet, db
  <2>2. task[o].pc = "backup"
    BY <1>10 DEF BackupPlanet, At
  <2>3. CASE Throw(o, FALSE)
    BY <1>p, <2>1, <2>2, <2>3, QuietThrow
  <2>4. CASE task' = [task EXCEPT ![o].pc = "upload", ![o].saved = TRUE]
    <3>1. task'[o].pc = "upload"
          /\ task'[o].target = task[o].target /\ task'[o].verbose = task[o].verbose
      BY <1>0, <2>4, SetMoves DEF Tasks
    <3> QED
      BY <1>p, <2>1, <2>2, <3>1 DEF Quiet
  <2> QED
    BY <1>10, <2>3, <2>4 DEF BackupPlanet
<1>11. CASE JoinNetwork(o)
  <2>1. Still
    BY <1>11, KindsKept DEF JoinNetwork, db
  <2>2. task[o].pc = "join"
    BY <1>11 DEF JoinNetwork, At
  <2>3. CASE Throw(o, FALSE)
    BY <1>p, <2>1, <2>2, <2>3, QuietThrow
  <2>4. CASE task' = [task EXCEPT ![o].pc = "authorize", ![o].joined = TRUE]
    <3>1. task'[o].pc = "authorize"
          /\ task'[o].target = task[o].target /\ task'[o].verbose = task[o].verbose
      BY <1>0, <2>4, SetMoves DEF Tasks
    <3> QED
      BY <1>p, <2>1, <2>2, <3>1 DEF Quiet
  <2> QED
    BY <1>11, <2>3, <2>4 DEF JoinNetwork
<1>12. CASE Authorize(o)
  <2>1. Still
    BY <1>12 DEF Authorize, db
  <2>2. task[o].pc = "authorize" /\ (Throw(o, FALSE) \/ Go(o, "ready"))
    BY <1>12 DEF Authorize, At
  <2> QED
    BY <1>p, <2>1, <2>2, QuietGo, QuietThrow
<1>13. CASE AwaitReady(o)
  <2>1. Still
    BY <1>13 DEF AwaitReady, db
  <2>2. task[o].pc = "ready" /\ (Throw(o, FALSE) \/ Go(o, "listExtra"))
    BY <1>13 DEF AwaitReady, At
  <2> QED
    BY <1>p, <2>1, <2>2, QuietGo, QuietThrow
<1>14. CASE Cleanup(o)
  <2>1. Still
    BY <1>14 DEF Cleanup, db
  <2>2. task[o].pc = "cleanup" /\ Go(o, "rowSuccess")
    BY <1>14 DEF Cleanup, At
  <2> QED
    BY <1>p, <2>1, <2>2, QuietGo
<1>15. CASE Recover(o)
  <2>1. Still /\ task[o].pc = "recover"
    BY <1>15 DEF Recover, db, At
  <2>2. PICK l \in {"listExtra", "rollbackStop"} :
            task' = [task EXCEPT ![o].pc = l, ![o].catching = TRUE]
    BY <1>15 DEF Recover
  <2>3. task'[o].pc = l
        /\ task'[o].target = task[o].target /\ task'[o].verbose = task[o].verbose
    BY <1>0, <2>2, SetMoves DEF Tasks
  <2> QED
    BY <1>p, <2>1, <2>3 DEF Quiet
<1>16. CASE RollbackStop(o)
  BY <1>p, <1>16, QuietRollback DEF RollbackStop
<1>17. CASE RollbackRestore(o)
  BY <1>p, <1>17, QuietRollback DEF RollbackRestore
<1>18. CASE RollbackStart(o)
  BY <1>p, <1>18, QuietRollback DEF RollbackStart
<1> QED
  BY <1>1, <1>2, <1>3, <1>4, <1>5, <1>6, <1>7, <1>8, <1>9, <1>10, <1>11, <1>12, <1>13,
     <1>14, <1>15, <1>16, <1>17, <1>18 DEF RemoteStep

\* What the writes of the row and of the log change.
LEMMA Writes ==
  ASSUME Typed, NEW o \in Ops, NEW new, NEW s
  PROVE  /\ WriteRow(new) => /\ row.exists /\ row' = new /\ UNCHANGED logs
                             /\ faults.kinds \subseteq faults'.kinds
         /\ RowWriteFails => /\ UNCHANGED <<row, logs>>
                             /\ faults.kinds \subseteq faults'.kinds
         /\ WriteLog(o, s) => /\ logs[o] # "deleted" /\ logs'[o] = s
                              /\ \A p \in Ops \ {o} : logs'[p] = logs[p]
                              /\ UNCHANGED row /\ faults.kinds \subseteq faults'.kinds
         /\ LogWriteFails(o) => /\ UNCHANGED <<row, logs>>
                                /\ faults.kinds \subseteq faults'.kinds
BY KindsGrow, KindsKept DEF Typed, TypeOK, WriteRow, RowWriteFails, WriteLog, LogWriteFails, db

\* The log of o is the only one a switch writes.
LogsOf(o) ==
    /\ \A p \in Ops \ {o} : logs'[p] = logs[p]
    /\ row'.exists = row.exists /\ faults.kinds \subseteq faults'.kinds

\* The switch is given up or over: what is left to say of its record.
LEMMA FinallyRecorded ==
  ASSUME Typed, RecordOK, NEW o \in Ops, task'[o].pc = "finally",
         task'[o].verbose => "verbose" \in faults'.kinds,
         row'.exists => logs'[o] # "deleted"
  PROVE  Recorded(o)'
BY MarkedPlaces DEF Recorded

LEMMA SwitchRecorded ==
  ASSUME Typed, RecordOK, NEW o \in Ops, SwitchStep(o) \/ UploadPlanet(o) \/ Load(o)
  PROVE  Recorded(o)' /\ LogsOf(o)
<1>0. /\ task[o] \in Tasks /\ Fits(task[o]) /\ row \in Rows /\ Recorded(o)
      /\ logs \in [Ops -> {"none", "RUNNING", "SUCCESS", "FAILED", "deleted"}]
  BY DEF Typed, TypeOK, TasksFit, RecordOK
<1>v. task[o].verbose => "verbose" \in faults.kinds
  BY <1>0 DEF Recorded
<1>e. row.exists => logs[o] # "deleted"
  BY <1>0 DEF Recorded
<1>1. CASE RemoteStep(o)
  BY <1>1, QuietSteps, QuietRecorded DEF Quiet, LogsOf
<1>2. CASE Load(o)
  <2>1. UNCHANGED <<row, logs, faults>> /\ task[o].pc = "load"
    BY <1>2 DEF Load, db, At
  <2>2. PICK l \in {"finally", "prepare", "svcConnect"} :
            Go(o, l) /\ (l = "prepare" => row.sw # "RUNNING")
    BY <1>2 DEF Load
  <2>3. task'[o].pc = l /\ task'[o].verbose = task[o].verbose
    BY <2>2, GoMoves, GoKeeps
  <2>4. logs[o] = "none"
    BY <1>0, <2>1 DEF Recorded
  <2>5. l \notin MarkedPcs
    BY MarkedPlaces
  <2> QED
    BY <1>v, <2>1, <2>2, <2>3, <2>4, <2>5 DEF Recorded, LogsOf
<1>3. CASE Prepare(o)
  <2>1. UNCHANGED <<row, logs, faults>> /\ task[o].pc = "prepare"
    BY <1>3 DEF Prepare, db, At
  <2>2. PICK l \in {"createLog", "finally"} : Go(o, l)
    BY <1>3 DEF Prepare
  <2>3. task'[o].pc = l /\ task'[o].verbose = task[o].verbose
    BY <2>2, GoMoves, GoKeeps
  <2>4. logs[o] = "none" /\ row.sw # "RUNNING"
    BY <1>0, <2>1 DEF Recorded
  <2>5. l \notin MarkedPcs
    BY MarkedPlaces
  <2> QED
    BY <1>v, <2>1, <2>2, <2>3, <2>4, <2>5 DEF Recorded, LogsOf
<1>4. CASE CreateLog(o)
  <2>1. task[o].pc = "createLog" /\ logs[o] = "none" /\ row.sw # "RUNNING"
    BY <1>0, <1>4 DEF CreateLog, Recorded, At
  <2>2. CASE WriteLog(o, "RUNNING") /\ Go(o, "mark")
    <3>1. task'[o].pc = "mark" /\ task'[o].verbose = task[o].verbose
      BY <2>2, GoMoves, GoKeeps
    <3>2. "mark" \notin MarkedPcs
      BY MarkedPlaces
    <3> QED
      BY <1>v, <2>1, <2>2, <3>1, <3>2, Writes DEF Recorded, LogsOf
  <2>3. CASE RowWriteFails /\ Go(o, "finally")
    <3>1. task'[o].pc = "finally" /\ task'[o].verbose = task[o].verbose
      BY <2>3, GoMoves, GoKeeps
    <3> QED
      BY <1>v, <2>1, <2>3, <3>1, Writes, FinallyRecorded DEF LogsOf
  <2> QED
    BY <1>4, <2>2, <2>3 DEF CreateLog
<1>5. CASE Mark(o)
  <2>1. task[o].pc = "mark" /\ logs[o] \in {"RUNNING", "deleted"} /\ row.sw # "RUNNING"
    BY <1>0, <1>5 DEF Mark, Recorded, At
  <2>2. CASE /\ WriteRow([row EXCEPT !.sw = "RUNNING"])
             /\ task' = [task EXCEPT ![o].pc = "connect", ![o].found = host.planet]
    <3>1. task'[o].pc = "connect" /\ task'[o].verbose = task[o].verbose
      <4>1. task'[o] = [task[o] EXCEPT !.pc = "connect", !.found = host.planet]
        BY <2>2 DEF Typed, TypeOK
      <4> QED
        BY <1>0, <4>1 DEF Tasks
    <3>2. row'.sw = "RUNNING" /\ row'.exists = row.exists
      BY <1>0, <2>2, Writes DEF Rows
    <3> QED
      BY <1>v, <1>e, <2>1, <2>2, <3>1, <3>2, Writes DEF Recorded, LogsOf
  <2>3. CASE RowWriteFails /\ Go(o, "finally")
    <3>1. task'[o].pc = "finally" /\ task'[o].verbose = task[o].verbose
      BY <2>3, GoMoves, GoKeeps
    <3> QED
      BY <1>v, <1>e, <2>3, <3>1, Writes, FinallyRecorded DEF LogsOf
  <2> QED
    BY <1>5, <2>2, <2>3 DEF Mark
<1>m. /\ {"rowSuccess", "logSuccess", "rowFailed", "logFailed", "recover"} \subseteq MarkedPcs
      /\ "finally" \notin MarkedPcs
  BY MarkedPlaces
<1>6. CASE RowSuccess(o)
  <2>1. /\ task[o].pc = "rowSuccess" /\ logs[o] \in {"RUNNING", "deleted"}
        /\ task[o].target \in Networks
    BY <1>0, <1>6, <1>m DEF RowSuccess, Recorded, At, Fits, SwitchPcs
  <2>2. CASE /\ WriteRow([row EXCEPT !.sw = "SUCCESS", !.net = task[o].target,
                                     !.zt = "RUNNING", !.on = host.at])
             /\ Go(o, "logSuccess")
    <3>1. task'[o].pc = "logSuccess" /\ task'[o].verbose = task[o].verbose
          /\ task'[o].target = task[o].target
      BY <2>2, GoMoves, GoKeeps DEF Same
    <3>2. row'.sw = "SUCCESS" /\ row'.net = task[o].target /\ row'.exists = row.exists
      <4>1. row' = [row EXCEPT !.sw = "SUCCESS", !.net = task[o].target, !.zt = "RUNNING",
                        !.on = host.at]
        BY <2>2, Writes
      <4> QED
        BY <1>0, <4>1 DEF Rows
    <3> QED
      BY <1>v, <1>e, <1>m, <2>1, <2>2, <3>1, <3>2, Writes DEF Recorded, LogsOf
  <2>3. CASE RowWriteFails /\ Throw(o, FALSE)
    BY <1>m, <2>1, <2>3, Writes, QuietThrow, QuietRecorded DEF LogsOf
  <2> QED
    BY <1>6, <2>2, <2>3 DEF RowSuccess
<1>7. CASE LogSuccess(o)
  <2>1. /\ task[o].pc = "logSuccess" /\ logs[o] \in {"RUNNING", "deleted"}
    BY <1>0, <1>7, <1>m DEF LogSuccess, Recorded, At
  <2>2. CASE WriteLog(o, "SUCCESS") /\ Go(o, "finally")
    <3>1. task'[o].pc = "finally" /\ task'[o].verbose = task[o].verbose
      BY <2>2, GoMoves, GoKeeps
    <3> QED
      BY <1>v, <2>2, <3>1, Writes, FinallyRecorded DEF LogsOf
  <2>3. CASE LogWriteFails(o) /\ Throw(o, FALSE)
    BY <1>m, <2>1, <2>3, Writes, QuietThrow, QuietRecorded DEF LogsOf
  <2> QED
    BY <1>7, <2>2, <2>3 DEF LogSuccess
<1>8. CASE RowFailed(o)
  <2>1. /\ task[o].pc = "rowFailed" /\ logs[o] \in {"RUNNING", "deleted"}
    BY <1>0, <1>8, <1>m DEF RowFailed, Recorded, At
  <2>2. CASE WriteRow([row EXCEPT !.sw = "FAILED"]) /\ Go(o, "logFailed")
    <3>1. task'[o].pc = "logFailed" /\ task'[o].verbose = task[o].verbose
      BY <2>2, GoMoves, GoKeeps
    <3>2. row'.sw = "FAILED" /\ row'.exists = row.exists
      BY <1>0, <2>2, Writes DEF Rows
    <3> QED
      BY <1>v, <1>e, <1>m, <2>1, <2>2, <3>1, <3>2, Writes DEF Recorded, LogsOf
  <2>3. CASE Go(o, "finally") /\ (RowWriteFails \/ (UNCHANGED db /\ NoFault))
    <3>1. task'[o].pc = "finally" /\ task'[o].verbose = task[o].verbose
      BY <2>3, GoMoves, GoKeeps
    <3>2. UNCHANGED <<row, logs>> /\ faults.kinds \subseteq faults'.kinds
      BY <2>3, Writes, KindsGrow DEF db
    <3> QED
      BY <1>v, <1>e, <3>1, <3>2, FinallyRecorded DEF LogsOf
  <2> QED
    BY <1>8, <2>2, <2>3 DEF RowFailed
<1>9. CASE LogFailed(o)
  <2>1. task'[o].pc = "finally" /\ task'[o].verbose = task[o].verbose
    BY <1>9, GoMoves, GoKeeps DEF LogFailed
  <2>2. CASE WriteLog(o, "FAILED")
    BY <1>v, <2>1, <2>2, Writes, FinallyRecorded DEF LogsOf
  <2>3. CASE LogWriteFails(o)
    BY <1>v, <1>e, <2>1, <2>3, Writes, FinallyRecorded DEF LogsOf
  <2> QED
    BY <1>9, <2>2, <2>3 DEF LogFailed
<1> QED
  BY <1>1, <1>2, <1>3, <1>4, <1>5, <1>6, <1>7, <1>8, <1>9 DEF SwitchStep, RemoteStep

\* A service action writes the status column only.
LEMMA ServiceRecorded ==
  ASSUME Typed, RecordOK, NEW o \in Ops, ServiceStep(o)
  PROVE  /\ Recorded(o)' /\ LogsOf(o)
         /\ row'.sw = row.sw /\ row'.net = row.net
<1>0. /\ task[o] \in Tasks /\ Fits(task[o]) /\ row \in Rows /\ Recorded(o)
  BY DEF Typed, TypeOK, TasksFit, RecordOK
<1> DEFINE Plain == /\ UNCHANGED logs /\ row'.exists = row.exists /\ row'.sw = row.sw
                    /\ row'.net = row.net /\ faults.kinds \subseteq faults'.kinds
                    /\ task'[o].pc \in SvcPcs \cup {"finally"}
                    /\ task'[o].verbose = task[o].verbose
<1>s. /\ {"svcConnect", "svcAct", "svcRead", "svcCatch", "svcWrite"} = SvcPcs
      /\ (SvcPcs \cup {"finally"}) \cap (MarkedPcs \cup {"idle", "queued", "load", "prepare",
              "createLog", "guard", "write", "mark", "logSuccess"}) = {}
  BY MarkedPlaces DEF SvcPcs
<1> SUFFICES Plain
  BY <1>0, <1>s DEF Recorded, LogsOf
<1>1. CASE SvcConnect(o)
  <2>1. UNCHANGED <<row, logs>> /\ faults.kinds \subseteq faults'.kinds
    BY <1>1, KindsGrow DEF SvcConnect, db
  <2>2. CASE task' = [task EXCEPT ![o].pc = "svcWrite", ![o].seen = "UNKNOWN",
                                  ![o].catching = TRUE]
    <3>1. task'[o].pc = "svcWrite" /\ task'[o].verbose = task[o].verbose
      BY <1>0, <2>2 DEF Typed, TypeOK, Tasks
    <3> QED
      BY <1>s, <2>1, <3>1
  <2>3. CASE \E l \in {"svcRead", "svcAct"} : Go(o, l)
    BY <1>s, <2>1, <2>3, GoMoves, GoKeeps
  <2> QED
    BY <1>1, <2>2, <2>3 DEF SvcConnect
<1>2. CASE SvcAct(o)
  <2>1. UNCHANGED <<row, logs>> /\ faults.kinds \subseteq faults'.kinds
    BY <1>2, KindsGrow, KindsKept DEF SvcAct, db
  <2>2. Go(o, "svcRead") \/ SvcThrow(o)
    BY <1>2 DEF SvcAct
  <2> QED
    BY <1>s, <2>1, <2>2, GoMoves, GoKeeps
<1>3. CASE SvcRead(o)
  <2>1. UNCHANGED <<row, logs>> /\ faults.kinds \subseteq faults'.kinds
    BY <1>3, KindsGrow DEF SvcRead, db
  <2>2. See(o, "svcWrite", Status) \/ SvcThrow(o)
    BY <1>3 DEF SvcRead
  <2> QED
    BY <1>s, <2>1, <2>2, GoMoves, GoKeeps
<1>4. CASE SvcCatch(o)
  <2>1. UNCHANGED <<row, logs>> /\ faults.kinds \subseteq faults'.kinds
    BY <1>4, KindsGrow DEF SvcCatch, db
  <2>2. \E s \in {"UNKNOWN", Status} : See(o, "svcWrite", s)
    BY <1>4 DEF SvcCatch
  <2> QED
    BY <1>s, <2>1, <2>2, GoMoves, GoKeeps
<1>5. CASE SvcWrite(o)
  <2>1. UNCHANGED logs /\ row'.exists = row.exists /\ row'.sw = row.sw
        /\ row'.net = row.net /\ faults.kinds \subseteq faults'.kinds
    <3>1. CASE WriteRow([row EXCEPT !.zt = task[o].seen])
      BY <1>0, <3>1, Writes DEF Rows
    <3>2. CASE RowWriteFails
      BY <3>2, Writes
    <3> QED
      BY <1>5, <3>1, <3>2 DEF SvcWrite
  <2>2. Go(o, "finally") \/ SvcThrow(o)
    BY <1>5 DEF SvcWrite
  <2> QED
    BY <1>s, <2>1, <2>2, GoMoves, GoKeeps
<1> QED
  BY <1>1, <1>2, <1>3, <1>4, <1>5 DEF ServiceStep

\* A request outside the lock that moves, and writes no log but to delete it.
LEMMA OutsideRecorded ==
  ASSUME Typed, RecordOK, NEW o \in Ops, Others(o),
         task[o].pc \in {"idle", "queued", "guard", "write", "finally"},
         task'[o].pc \in {"queued", "guard", "load", "write", "done"},
         task'[o].verbose => task[o].verbose,
         task[o].pc = "finally" => task'[o].pc = "done",
         row'.exists => row.exists, row'.sw = row.sw, row'.net = row.net,
         UNCHANGED logs \/ (~ row'.exists
             /\ \A p \in Ops : logs'[p] = IF logs[p] = "none" THEN "none" ELSE "deleted"),
         faults.kinds \subseteq faults'.kinds
  PROVE  RecordOK'
<1>1. {"idle", "queued", "guard", "load", "write", "done"} \cap MarkedPcs = {}
  BY MarkedPlaces
<1> SUFFICES ASSUME NEW p \in Ops PROVE Recorded(p)'
  BY DEF RecordOK
<1>2. Recorded(p) /\ Recorded(o)
  BY DEF RecordOK
<1>3. CASE p = o
  BY <1>1, <1>2, <1>3 DEF Recorded
<1>4. CASE p # o
  BY <1>2, <1>4 DEF Recorded, Others
<1> QED
  BY <1>3, <1>4

LEMMA RecordStep ==
  ASSUME Typed, QueueOK, RecordOK, [Next]_vars PROVE RecordOK'
<1>0. task \in [Ops -> Tasks] /\ row \in Rows
  BY DEF Typed, TypeOK
<1>1. ASSUME NEW o \in Ops, Load(o) \/ SwitchStep(o) \/ UploadPlanet(o) \/ ServiceStep(o)
      PROVE  RecordOK'
  BY <1>1, SwitchRecorded, ServiceRecorded, InsideStays, OneRecorded DEF LogsOf
<1>2. ASSUME NEW o \in Ops, Call(o) PROVE RecordOK'
  <2>1. PICK k \in Kinds, t \in Networks \cup {None} :
            task' = [task EXCEPT ![o] = [Blank EXCEPT
                    !.pc = IF k \in LockedKinds THEN "queued" ELSE "guard",
                    !.kind = k, !.target = t]]
    BY <1>2 DEF Call
  <2>2. Others(o) /\ task'[o].pc \in {"queued", "guard"} /\ ~ task'[o].verbose
    BY <1>0, <2>1 DEF Others, Blank
  <2>3. UNCHANGED <<row, logs, faults>> /\ task[o].pc = "idle"
    BY <1>2 DEF Call, db, At
  <2> QED
    BY <2>2, <2>3, OutsideRecorded
<1>3. ASSUME NEW o \in Ops, Enter(o) PROVE RecordOK'
  <2>1. UNCHANGED <<row, logs, faults>> /\ task[o].pc = "queued"
    BY <1>3 DEF Enter, db, At
  <2>2. Others(o) /\ task'[o].pc = "load" /\ task'[o].verbose = task[o].verbose
    BY <1>3, GoMoves, GoKeeps DEF Enter
  <2> QED
    BY <2>1, <2>2, OutsideRecorded
<1>4. ASSUME NEW o \in Ops, Finish(o) PROVE RecordOK'
  <2>1. Others(o) /\ task'[o].pc = "done" /\ ~ task'[o].verbose
    BY <1>0, <1>4 DEF Finish, Others, Blank
  <2>2. UNCHANGED <<row, logs, faults>> /\ task[o].pc = "finally"
    BY <1>4 DEF Finish, db, At
  <2> QED
    BY <2>1, <2>2, OutsideRecorded
<1>5. ASSUME NEW o \in Ops, Guard(o) PROVE RecordOK'
  <2>1. UNCHANGED <<row, logs, faults>> /\ task[o].pc = "guard"
    BY <1>5 DEF Guard, db, At
  <2>2. Others(o) /\ task'[o].pc \in {"write", "done"} /\ task'[o].verbose = task[o].verbose
    BY <1>5, GoMoves, GoKeeps DEF Guard
  <2> QED
    BY <2>1, <2>2, OutsideRecorded
<1>6. ASSUME NEW o \in Ops, Edit(o) PROVE RecordOK'
  <2>1. task[o].pc = "write"
    BY <1>6 DEF Edit, At
  <2>2. Others(o) /\ task'[o].pc = "done" /\ task'[o].verbose = task[o].verbose
    BY <1>6, GoMoves, GoKeeps DEF Edit
  <2>3. /\ row'.exists = row.exists /\ row'.sw = row.sw /\ row'.net = row.net
        /\ UNCHANGED logs /\ faults.kinds \subseteq faults'.kinds
    <3>1. CASE RowWriteFails
      BY <3>1, Writes
    <3>2. CASE \E e \in BOOLEAN, a \in {row.addr, row.addr + 1} :
                 WriteRow([row EXCEPT !.enabled = e, !.addr = a])
      <4>1. PICK e \in BOOLEAN, a \in {row.addr, row.addr + 1} :
                WriteRow([row EXCEPT !.enabled = e, !.addr = a])
        BY <3>2
      <4>2. row' = [row EXCEPT !.enabled = e, !.addr = a] /\ UNCHANGED logs
        BY <4>1 DEF WriteRow
      <4>3. row'.exists = row.exists /\ row'.sw = row.sw /\ row'.net = row.net
        BY <1>0, <4>2 DEF Rows
      <4> QED
        BY <4>1, <4>2, <4>3, KindsGrow DEF WriteRow
    <3> QED
      BY <1>6, <3>1, <3>2 DEF Edit
  <2> QED
    BY <2>1, <2>2, <2>3, OutsideRecorded
<1>7. ASSUME NEW o \in Ops, Remove(o) PROVE RecordOK'
  <2>1. task[o].pc = "write"
    BY <1>7 DEF Remove, At
  <2>2. Others(o) /\ task'[o].pc = "done" /\ task'[o].verbose = task[o].verbose
    BY <1>7, GoMoves, GoKeeps DEF Remove
  <2>3. CASE RowWriteFails
    BY <2>1, <2>2, <2>3, Writes, OutsideRecorded
  <2>4. CASE /\ row.exists /\ row' = [row EXCEPT !.exists = FALSE]
             /\ logs' = [p \in Ops |-> IF logs[p] = "none" THEN "none" ELSE "deleted"]
             /\ NoFault
    <3>1. ~ row'.exists /\ row'.sw = row.sw /\ row'.net = row.net
      BY <1>0, <2>4 DEF Rows
    <3> QED
      BY <2>1, <2>2, <2>4, <3>1, KindsGrow, OutsideRecorded
  <2> QED
    BY <1>7, <2>3, <2>4 DEF Remove
<1>8. CASE Crash
  <2>1. \A o \in Ops : \/ task'[o] = task[o] /\ ~ Inside(o)
                       \/ task'[o].pc = "lost" /\ ~ task'[o].verbose
    BY <1>8, InsidePlaces DEF Crash, Blank, Inside
  <2>2. UNCHANGED <<row, logs>> /\ faults.kinds \subseteq faults'.kinds
    BY <1>8, KindsGrow DEF Crash, db
  <2>3. "lost" \notin MarkedPcs
    BY MarkedPlaces
  <2>4. ASSUME NEW o \in Ops PROVE Recorded(o)'
    <3>1. CASE task'[o] = task[o] /\ ~ Inside(o)
      BY <2>2, <3>1, StillRecorded
    <3>2. CASE task'[o].pc = "lost" /\ ~ task'[o].verbose
      BY <2>2, <2>3, <3>2 DEF RecordOK, Recorded
    <3> QED
      BY <2>1, <3>1, <3>2
  <2> QED
    BY <2>4 DEF RecordOK
<1>9. CASE LateCommand \/ LoseLateCommand \/ UNCHANGED vars
  BY <1>9 DEF LateCommand, LoseLateCommand, vars, db, RecordOK, Recorded
<1> QED
  BY <1>1, <1>2, <1>3, <1>4, <1>5, <1>6, <1>7, <1>8, <1>9 DEF Next, Step
-----------------------------------------------------------------------------
(* Every step keeps what is known of the host. *)

FaultsGrow ==
    faults.kinds \subseteq faults'.kinds /\ (faults'.count = 0 => faults.count = 0)

LEMMA FaultsGrowing ==
  ASSUME Typed, NEW c, NEW f, NEW b, NEW v
  PROVE  /\ Fault(f) => FaultsGrow /\ f \in faults'.kinds /\ faults'.count # 0
         /\ NoFault => FaultsGrow
         /\ FailsIf(b, f) => FaultsGrow /\ (b \/ faults'.count # 0)
         /\ Succeeds(c) => FaultsGrow
         /\ Fails(c) => FaultsGrow /\ (~ Accepts(c) \/ faults'.count # 0)
         /\ TimesOut(c) => FaultsGrow /\ "late" \in faults'.kinds
BY KindsGrow DEF FaultsGrow, FailsIf, Succeeds, Fails, TimesOut

\* What a request outside the lock does leaves the view of the others alone.
LEMMA StillView ==
  ASSUME NEW o \in Ops, View(o), task'[o] = task[o], FaultsGrow,
         ~ Inside(o) \/ UNCHANGED <<host, authd>>
  PROVE  View(o)'
<1>1. CASE UNCHANGED <<host, authd>>
  BY <1>1 DEF View, TargetUp, JoinedLate, PlanetKept, SeenIsReal, DaemonRuns, Reachable,
              Status, FaultsGrow
<1>2. CASE ~ Inside(o)
  <2>1. /\ task[o].pc \notin Done \cup Leaving \cup SwitchPcs
        /\ task[o].pc \notin {"connect", "prerequisites", "nodeInfo", "stop", "backup",
                              "rollbackStart", "svcWrite", "rowFailed", "logFailed"}
    BY <1>2, InsidePlaces DEF Inside, Done, Leaving, InsidePcs
  <2> QED
    BY <2>1 DEF View, TargetUp, JoinedLate, PlanetKept, SeenIsReal, DaemonRuns
<1> QED
  BY <1>1, <1>2

\* It is enough to look at the request that moves.
LEMMA OneView ==
  ASSUME Typed, QueueOK, HostOK, NEW o \in Ops, Inside(o), Others(o), FaultsGrow,
         Punctual' => late' = {} /\ RowDescribesHost' /\ View(o)'
  PROVE  HostOK'
<1> SUFFICES ASSUME Punctual' PROVE \A p \in Ops : View(p)'
  BY DEF HostOK
<1>1. Punctual
  BY DEF Punctual, FaultsGrow
<1>2. \A p \in Ops \ {o} : ~ Inside(p) /\ View(p) /\ task'[p] = task[p]
  BY <1>1, OneInside DEF HostOK, Others
<1> QED
  BY <1>2, StillView

\* A request outside the lock moves.
LEMMA OutsideView ==
  ASSUME Typed, HostOK, NEW o \in Ops, Others(o), FaultsGrow, UNCHANGED remote,
         task'[o].pc \in {"queued", "load", "guard", "write", "done"},
         task'[o].joined => task'[o].pc \notin {"queued", "load"},
         row'.sw = row.sw, row'.net = row.net, row'.addr = row'.on => row.addr = row.on
  PROVE  HostOK'
<1> SUFFICES ASSUME Punctual' PROVE late' = {} /\ RowDescribesHost' /\ \A p \in Ops : View(p)'
  BY DEF HostOK
<1>1. Punctual
  BY DEF Punctual, FaultsGrow
<1>2. UNCHANGED <<host, authd, late>>
  BY DEF remote
<1>3. \A p \in Ops \ {o} : View(p)'
  BY <1>1, <1>2, StillView DEF HostOK, Others
<1>4. View(o)'
  <2>1. {"queued", "load", "guard", "write", "done"} \cap (Done \cup Leaving \cup SwitchPcs) = {}
    BY DEF Done, Leaving, SwitchPcs, MarkedPcs, CatchPcs
  <2> QED
    BY <2>1 DEF View, TargetUp, JoinedLate, PlanetKept, SeenIsReal, DaemonRuns
<1> QED
  BY <1>1, <1>2, <1>3, <1>4 DEF HostOK, RowDescribesHost

\* What each command does to the host.
LEMMA Effects ==
  ASSUME host \in Hosts, NEW n, NEW c
  PROVE  /\ Effect(Cmd("stop", c)) = [host EXCEPT !.running = None]
         /\ Effect(Cmd("start", c)) =
              [host EXCEPT !.running = IF @ = None THEN host.planet ELSE @]
         /\ Effect(Cmd("backup", c)) = [host EXCEPT !.backup = host.planet]
         /\ Effect(Cmd("restore", c)) =
              [host EXCEPT !.planet = IF host.backup = None THEN @ ELSE host.backup]
         /\ Effect(Cmd("upload", n)) = [host EXCEPT !.planet = n]
         /\ Effect(Cmd("join", n)) = [host EXCEPT !.joined = @ \cup {n}]
         /\ Effect(Cmd("leave", n)) = [host EXCEPT !.joined = @ \ {n}]
BY DEF Effect, Cmd

\* An error inside the switch.
LEMMA ThrowView ==
  ASSUME Typed, NEW o \in Ops, NEW v, View(o), Throw(o, v), task[o].pc \in SwitchPcs,
         host' = host
  PROVE  View(o)'
<1>1. task'[o].pc \in {"recover", "finally"} /\ Same(o)
  BY GoMoves, GoKeeps
<1>2. PlanetKept(o)'
  BY <1>1 DEF View, PlanetKept, Same, Leaving
<1> QED
  BY <1>1, <1>2 DEF View, TargetUp, JoinedLate, SeenIsReal, DaemonRuns, Done, Leaving

\* What the switch may rely on, whatever its next step.
HostNow(o) ==
    /\ task[o] \in Tasks /\ Fits(task[o]) /\ host \in Hosts /\ row \in Rows
    /\ View(o) /\ RowDescribesHost /\ late = {}
HostThen(o) == late' = {} /\ RowDescribesHost' /\ View(o)'

\* A remote command inside the switch, that is not given up on.
LEMMA ExecView ==
  ASSUME Typed, NEW o \in Ops, HostNow(o), NEW c, NEW next, Exec(o, c, next), Punctual',
         task[o].pc \in SwitchPcs,
         ASSUME Succeeds(c), Go(o, next), UNCHANGED <<row, authd>>
         PROVE  RowDescribesHost' /\ View(o)'
  PROVE  FaultsGrow /\ HostThen(o)
<1>1. UNCHANGED <<row, authd>>
  BY DEF Exec, db
<1>2. CASE Succeeds(c) /\ Go(o, next)
  BY <1>1, <1>2, FaultsGrowing DEF HostThen, HostNow, Succeeds
<1>3. CASE (Fails(c) \/ TimesOut(c)) /\ Throw(o, FALSE)
  <2>1. FaultsGrow /\ UNCHANGED <<host, late>>
    BY <1>3, FaultsGrowing DEF Punctual, Fails
  <2> QED
    BY <1>1, <1>3, <2>1, ThrowView DEF HostThen, HostNow, RowDescribesHost
<1>4. CASE Fault("verbose") /\ UNCHANGED <<host, late>> /\ Throw(o, TRUE)
  BY <1>1, <1>4, FaultsGrowing, ThrowView DEF HostThen, HostNow, RowDescribesHost
<1> QED
  BY <1>2, <1>3, <1>4 DEF Exec

\* The first half of a switch, up to the stop of the daemon.
LEMMA EarlyView ==
  ASSUME Typed, RecordOK, LoginsOK, NEW o \in Ops, HostNow(o), Punctual',
         \/ Load(o) \/ Prepare(o) \/ CreateLog(o) \/ Mark(o) \/ Connect(o)
         \/ Prerequisites(o) \/ NodeInfo(o)
  PROVE  FaultsGrow /\ HostThen(o)
<1> USE DEF HostThen
<1>0. /\ task[o] \in Tasks /\ Fits(task[o]) /\ host \in Hosts /\ row \in Rows
      /\ TargetUp(o) /\ JoinedLate(o) /\ PlanetKept(o) /\ RowDescribesHost /\ late = {}
  BY DEF HostNow, View
<1>p. {"prepare", "createLog", "mark", "connect", "prerequisites", "nodeInfo"} \subseteq SwitchPcs
  BY MarkedPlaces DEF SwitchPcs
<1> DEFINE Quietly == /\ UNCHANGED <<host, late>> /\ RowDescribesHost' /\ FaultsGrow
<1>g. ASSUME NEW l, Go(o, l), late' = {}, RowDescribesHost', FaultsGrow, ~ task[o].joined, ~ task[o].saved,
             l \in {"prepare", "createLog", "mark", "svcConnect", "finally"}
      PROVE  HostThen(o)
  <2>1. task'[o].pc = l /\ Same(o)
    BY <1>g, GoMoves, GoKeeps
  <2> QED
    BY <1>0, <1>g, <2>1 DEF View, TargetUp, JoinedLate, PlanetKept, SeenIsReal, DaemonRuns,
                            Done, Leaving, Same
<1>t. ASSUME Throw(o, FALSE), Quietly, task[o].pc \in SwitchPcs
      PROVE  HostThen(o)
  BY <1>0, <1>t, ThrowView DEF HostNow
<1>1. CASE Load(o)
  <2>1. UNCHANGED row /\ FaultsGrow /\ task[o].pc = "load"
    BY <1>1 DEF Load, db, At, FaultsGrow
  <2>2. PICK l \in {"finally", "prepare", "svcConnect"} : Go(o, l)
    BY <1>1 DEF Load
  <2>3. CASE UNCHANGED remote
    BY <1>0, <1>g, <2>1, <2>2, <2>3 DEF JoinedLate, Fits, remote, RowDescribesHost
  <2>4. CASE row.addr # host.at /\ Reaches
    <3>1. late' = {}
      BY <1>0, <2>4 DEF Reaches
    <3>2. row.addr # row.on
      BY <1>0, <2>4 DEF LoginsOK, Rows, Hosts
    <3> QED
      BY <1>0, <1>g, <2>1, <2>2, <3>1, <3>2 DEF JoinedLate, Fits, RowDescribesHost
  <2> QED
    BY <1>1, <2>3, <2>4 DEF Load, Reaches
<1>2. CASE Prepare(o)
  <2>1. Quietly /\ task[o].pc = "prepare"
    BY <1>0, <1>2 DEF Prepare, db, remote, At, RowDescribesHost, FaultsGrow
  <2>2. PICK l \in {"finally", "createLog"} : Go(o, l)
    BY <1>2 DEF Prepare
  <2> QED
    BY <1>0, <1>g, <2>1, <2>2 DEF JoinedLate, Fits
<1>3. CASE CreateLog(o)
  <2>1. /\ UNCHANGED <<host, late, row>> /\ task[o].pc = "createLog" /\ FaultsGrow
    BY <1>3, FaultsGrowing DEF CreateLog, db, remote, At, WriteLog, RowWriteFails
  <2>2. PICK l \in {"finally", "mark"} : Go(o, l)
    BY <1>3 DEF CreateLog
  <2> QED
    BY <1>0, <1>g, <2>1, <2>2 DEF JoinedLate, Fits, RowDescribesHost
<1>4. CASE Mark(o)
  <2>1. UNCHANGED <<host, late>> /\ task[o].pc = "mark" /\ ~ task[o].joined /\ ~ task[o].saved
    BY <1>0, <1>4 DEF Mark, remote, At, JoinedLate, Fits
  <2>2. CASE WriteRow([row EXCEPT !.sw = "RUNNING"])
             /\ task' = [task EXCEPT ![o].pc = "connect", ![o].found = host.planet]
    <3>1. FaultsGrow /\ row'.sw = "RUNNING"
      BY <1>0, <2>2, FaultsGrowing DEF WriteRow, Rows
    <3>2. task'[o] = [task[o] EXCEPT !.pc = "connect", !.found = host.planet]
      BY <2>2 DEF Typed, TypeOK
    <3>3. /\ task'[o].pc = "connect" /\ task'[o].found = host.planet
          /\ ~ task'[o].joined /\ ~ task'[o].saved
      BY <1>0, <2>1, <3>2 DEF Tasks
    <3> QED
      BY <1>0, <2>1, <3>1, <3>3 DEF View, TargetUp, JoinedLate, PlanetKept, SeenIsReal,
                                    DaemonRuns, Done, Leaving, RowDescribesHost
  <2>3. CASE RowWriteFails /\ Go(o, "finally")
    <3>1. Quietly
      BY <1>0, <2>1, <2>3, FaultsGrowing DEF RowWriteFails, db, RowDescribesHost
    <3> QED
      BY <1>0, <1>g, <2>1, <2>3, <3>1
  <2> QED
    BY <1>4, <2>2, <2>3 DEF Mark
<1>5. CASE Connect(o)
  <2>1. /\ UNCHANGED <<host, late, row>> /\ ~ task[o].joined /\ host.planet = task[o].found
        /\ task[o].pc = "connect"
    BY <1>0, <1>5 DEF Connect, db, remote, At, JoinedLate, PlanetKept
  <2>2. task[o].saved => host.backup = task[o].found /\ task[o].found # None
    BY <1>0, <1>p, <2>1 DEF PlanetKept
  <2>3. FaultsGrow /\ \/ Go(o, "prerequisites")
                      \/ Go(o, "rowFailed") /\ faults'.count # 0
    BY <1>5, FaultsGrowing DEF Connect
  <2>4. task'[o].pc \in {"prerequisites", "rowFailed"} /\ Same(o)
        /\ (task'[o].pc = "rowFailed" => faults'.count # 0)
    BY <2>3, GoMoves, GoKeeps
  <2> QED
    BY <1>0, <2>1, <2>2, <2>3, <2>4 DEF View, TargetUp, JoinedLate, PlanetKept, SeenIsReal,
             DaemonRuns, Done, Leaving, Same, RowDescribesHost
<1>6. CASE Prerequisites(o)
  <2>1. /\ UNCHANGED <<host, late, row>> /\ ~ task[o].joined /\ host.planet = task[o].found
        /\ task[o].pc = "prerequisites"
    BY <1>0, <1>6 DEF Prerequisites, db, remote, At, JoinedLate, PlanetKept
  <2>2. task[o].saved => host.backup = task[o].found /\ task[o].found # None
    BY <1>0, <1>p, <2>1 DEF PlanetKept
  <2>3. FaultsGrow /\ (Go(o, "nodeInfo") \/ Throw(o, FALSE))
    BY <1>6, FaultsGrowing DEF Prerequisites
  <2>4. CASE Go(o, "nodeInfo")
    <3>1. task'[o].pc = "nodeInfo" /\ Same(o)
      BY <2>4, GoMoves, GoKeeps
    <3> QED
      BY <1>0, <2>1, <2>2, <2>3, <3>1 DEF View, TargetUp, JoinedLate, PlanetKept, SeenIsReal,
               DaemonRuns, Done, Leaving, Same, RowDescribesHost
  <2>5. CASE Throw(o, FALSE)
    BY <1>0, <1>t, <1>p, <2>1, <2>3, <2>5 DEF RowDescribesHost
  <2> QED
    BY <2>3, <2>4, <2>5
<1>7. CASE NodeInfo(o)
  <2>1. /\ UNCHANGED <<host, late, row>> /\ ~ task[o].joined /\ host.planet = task[o].found
        /\ task[o].pc = "nodeInfo"
    BY <1>0, <1>7 DEF NodeInfo, db, remote, At, JoinedLate, PlanetKept
  <2>2. task[o].saved => host.backup = task[o].found /\ task[o].found # None
    BY <1>0, <1>p, <2>1 DEF PlanetKept
  <2>3. FaultsGrow /\ (Go(o, "listExtra") \/ Throw(o, FALSE))
    BY <1>7, FaultsGrowing DEF NodeInfo
  <2>4. CASE Go(o, "listExtra")
    <3>1. task'[o].pc = "listExtra" /\ Same(o)
      BY <2>4, GoMoves, GoKeeps
    <3> QED
      BY <1>0, <2>1, <2>2, <2>3, <3>1 DEF View, TargetUp, JoinedLate, PlanetKept, SeenIsReal,
               DaemonRuns, Done, Leaving, Same, RowDescribesHost
  <2>5. CASE Throw(o, FALSE)
    BY <1>0, <1>t, <1>p, <2>1, <2>3, <2>5 DEF RowDescribesHost
  <2> QED
    BY <2>3, <2>4, <2>5
<1> QED
  BY <1>1, <1>2, <1>3, <1>4, <1>5, <1>6, <1>7

\* The networks that are not the target are left: before the planet is replaced, and again
\* when the target is up.
LEMMA LeavingView ==
  ASSUME Typed, RecordOK, NEW o \in Ops, HostNow(o), Punctual',
         ListExtra(o) \/ LeaveExtra(o) \/ RecheckExtra(o)
  PROVE  FaultsGrow /\ HostThen(o)
<1> USE DEF HostThen
<1>0. /\ task[o] \in Tasks /\ Fits(task[o]) /\ host \in Hosts /\ row \in Rows
      /\ TargetUp(o) /\ JoinedLate(o) /\ PlanetKept(o) /\ RowDescribesHost /\ late = {}
  BY DEF HostNow, View
<1>1. task[o].pc \in {"listExtra", "leave"} /\ task[o].pc \in SwitchPcs
      /\ task[o].pc \in MarkedPcs
  BY MarkedPlaces DEF ListExtra, LeaveExtra, RecheckExtra, At, SwitchPcs
<1>2. /\ task[o].joined => Reachable(task[o].target)
      /\ ~ task[o].joined => host.planet = task[o].found
      /\ task[o].saved => host.backup = task[o].found /\ task[o].found # None
  BY <1>0, <1>1 DEF TargetUp, PlanetKept, Leaving
<1>3. UNCHANGED <<row, authd>>
  BY DEF ListExtra, LeaveExtra, RecheckExtra, db, remote
<1>t. ASSUME Throw(o, FALSE), UNCHANGED <<host, late>>
      PROVE  HostThen(o)
  BY <1>0, <1>1, <1>3, <1>t, ThrowView DEF HostNow, RowDescribesHost
<1>4. ASSUME UNCHANGED <<host, late>>, Same(o),
             \/ task'[o].pc = "leave"
             \/ task'[o].pc = ExtraLeft(o) /\ Extra(o) = {}
      PROVE  HostThen(o)
  <2>1. CASE task'[o].pc = "leave"
    BY <1>0, <1>2, <1>3, <1>4, <2>1 DEF View, TargetUp, JoinedLate, PlanetKept, SeenIsReal,
       DaemonRuns, Done, Leaving, Same, RowDescribesHost, Reachable
  <2>2. CASE task'[o].pc = "cleanup" /\ task[o].joined /\ Extra(o) = {}
    <3>1. host.joined = {task[o].target}
      BY <1>0, <1>2, <2>2 DEF Reachable, Extra, Hosts
    <3> QED
      BY <1>0, <1>2, <1>3, <1>4, <2>2, <3>1 DEF View, TargetUp, JoinedLate, PlanetKept,
         SeenIsReal, DaemonRuns, Done, Leaving, Same, RowDescribesHost, Reachable
  <2>3. CASE task'[o].pc = "stop" /\ ~ task[o].joined
    BY <1>0, <1>2, <1>3, <1>4, <2>3 DEF View, TargetUp, JoinedLate, PlanetKept, SeenIsReal,
       DaemonRuns, Done, Leaving, Same, RowDescribesHost
  <2> QED
    BY <1>4, <2>1, <2>2, <2>3 DEF ExtraLeft
<1>5. CASE ListExtra(o)
  <2>1. UNCHANGED <<host, late>> /\ FaultsGrow
    BY <1>5, FaultsGrowing DEF ListExtra, remote
  <2>2. CASE Throw(o, FALSE)
    BY <1>t, <2>1, <2>2
  <2>3. CASE task' = [task EXCEPT ![o].pc = IF Extra(o) = {} THEN ExtraLeft(o) ELSE "leave",
                                  ![o].todo = Extra(o)]
    <3>1. task'[o] = [task[o] EXCEPT !.pc = IF Extra(o) = {} THEN ExtraLeft(o) ELSE "leave",
                                     !.todo = Extra(o)]
      BY <2>3 DEF Typed, TypeOK
    <3>2. Same(o) /\ task'[o].pc = IF Extra(o) = {} THEN ExtraLeft(o) ELSE "leave"
      BY <1>0, <3>1 DEF Tasks, Same
    <3> QED
      BY <1>4, <2>1, <3>2
  <2> QED
    BY <1>5, <2>1, <2>2, <2>3 DEF ListExtra
<1>6. CASE RecheckExtra(o)
  <2>1. UNCHANGED <<host, late>> /\ FaultsGrow
    BY <1>6, FaultsGrowing DEF RecheckExtra, remote
  <2>2. CASE Throw(o, FALSE)
    BY <1>t, <2>1, <2>2
  <2>3. CASE Extra(o) = {} /\ Go(o, ExtraLeft(o))
    BY <1>4, <2>1, <2>3, GoMoves, GoKeeps
  <2> QED
    BY <1>6, <2>1, <2>2, <2>3 DEF RecheckExtra
<1>7. CASE LeaveExtra(o)
  <2>1. PICK n \in task[o].todo :
          LET gone == [task EXCEPT ![o].todo = @ \ {n}]
          IN  \/ Succeeds(Cmd("leave", n)) /\ task' = gone
              \/ Fails(Cmd("leave", n)) /\ (Throw(o, FALSE) \/ task' = gone)
              \/ TimesOut(Cmd("leave", n)) /\ Throw(o, FALSE)
    BY <1>7 DEF LeaveExtra
  <2>2. ~ TimesOut(Cmd("leave", n))
    BY FaultsGrowing DEF Punctual
  <2>3. FaultsGrow
    BY <2>1, FaultsGrowing
  <2>4. ASSUME task' = [task EXCEPT ![o].todo = @ \ {n}]
        PROVE  Same(o) /\ task'[o].pc = "leave"
    <3>1. task'[o] = [task[o] EXCEPT !.todo = @ \ {n}] /\ task[o].pc = "leave"
      BY <1>7, <2>4, SetMoves DEF LeaveExtra, At
    <3> QED
      BY <1>0, <3>1 DEF Tasks, Same
  <2>5. CASE Fails(Cmd("leave", n))
    <3>1. UNCHANGED <<host, late>>
      BY <2>5 DEF Fails
    <3>2. CASE Throw(o, FALSE)
      BY <1>t, <2>3, <3>1, <3>2
    <3>3. CASE task' = [task EXCEPT ![o].todo = @ \ {n}]
      BY <1>4, <2>3, <2>4, <3>1, <3>3
    <3>4. Throw(o, FALSE) \/ task' = [task EXCEPT ![o].todo = @ \ {n}]
      BY <2>1
    <3> QED
      BY <3>2, <3>3, <3>4
  <2>6. CASE Succeeds(Cmd("leave", n)) /\ task' = [task EXCEPT ![o].todo = @ \ {n}]
    <3>1. UNCHANGED late /\ host' = [host EXCEPT !.joined = @ \ {n}]
      BY <1>0, <2>6, Effects DEF Succeeds
    <3>2. /\ host'.joined = host.joined \ {n} /\ host'.planet = host.planet
          /\ host'.backup = host.backup /\ host'.running = host.running
      BY <1>0, <3>1 DEF Hosts
    <3>3. n # task[o].target
      BY <1>0 DEF Fits
    <3>4. row.sw = "SUCCESS" => row.net = task[o].target
      BY <1>1 DEF RecordOK, Recorded
    <3>5. RowDescribesHost'
      BY <1>0, <1>3, <3>2, <3>3, <3>4 DEF RowDescribesHost
    <3>6. task[o].joined => Reachable(task[o].target)'
      <4>1. (task[o].target)' = task[o].target
        BY <2>4, <2>6 DEF Same
      <4> QED
        BY <1>2, <1>3, <3>2, <3>3, <4>1 DEF Reachable
    <3> QED
      BY <1>0, <1>2, <2>3, <2>4, <2>6, <3>1, <3>2, <3>5, <3>6 DEF View, TargetUp, JoinedLate,
         PlanetKept, SeenIsReal, DaemonRuns, Done, Leaving, Same
  <2> QED
    BY <2>1, <2>2, <2>5, <2>6
<1> QED
  BY <1>5, <1>6, <1>7

\* The planet is replaced, the daemon restarted and the network joined.
LEMMA ReplaceView ==
  ASSUME Typed, RecordOK, NEW o \in Ops, HostNow(o), Punctual',
         \/ StopDaemon(o) \/ BackupPlanet(o) \/ UploadPlanet(o) \/ StartDaemon(o)
         \/ JoinNetwork(o)
  PROVE  FaultsGrow /\ HostThen(o)
<1>0. /\ task[o] \in Tasks /\ Fits(task[o]) /\ host \in Hosts /\ row \in Rows
      /\ TargetUp(o) /\ JoinedLate(o) /\ PlanetKept(o) /\ RowDescribesHost /\ late = {}
  BY DEF HostNow, View
<1>1. task[o].pc \in {"stop", "backup", "upload", "start", "join"} /\ task[o].pc \in SwitchPcs
      /\ task[o].pc \in MarkedPcs
  BY MarkedPlaces DEF StopDaemon, BackupPlanet, UploadPlanet, StartDaemon, JoinNetwork, At,
                      SwitchPcs
<1>2. task[o].saved => host.backup = task[o].found /\ task[o].found # None
  BY <1>0, <1>1 DEF PlanetKept
<1> DEFINE Rest == View(o)' /\ RowDescribesHost'
<1>g. ASSUME NEW l, Go(o, l), UNCHANGED <<row, authd>>, host'.joined = host.joined,
             task[o].saved => host'.backup = host.backup,
             \/ l \in {"start", "join"}
             \/ l = "backup" /\ host'.planet = task[o].found
      PROVE  Rest
  <2>1. task'[o].pc = l /\ Same(o)
    BY <1>g, GoMoves, GoKeeps
  <2> QED
    BY <1>0, <1>2, <1>g, <2>1 DEF View, TargetUp, JoinedLate, PlanetKept, SeenIsReal,
       DaemonRuns, Done, Leaving, Same, RowDescribesHost
<1>3. CASE StopDaemon(o)
  <2>1. task[o].pc = "stop" /\ Exec(o, Cmd("stop", None), "backup")
        /\ host.planet = task[o].found
    BY <1>0, <1>3 DEF StopDaemon, At, PlanetKept
  <2>2. ASSUME Succeeds(Cmd("stop", None)), Go(o, "backup"), UNCHANGED <<row, authd>>
        PROVE  RowDescribesHost' /\ View(o)'
    <3>1. host' = [host EXCEPT !.running = None]
      BY <1>0, <2>2, Effects DEF Succeeds
    <3>2. host'.planet = host.planet /\ host'.backup = host.backup /\ host'.joined = host.joined
      BY <1>0, <3>1 DEF Hosts
    <3> QED
      BY <1>g, <2>1, <2>2, <3>2
  <2> QED
    BY <1>1, <2>1, <2>2, ExecView
<1>4. CASE UploadPlanet(o)
  <2>1. Exec(o, Cmd("upload", ControllerOf[task[o].target]), "start")
    BY <1>4 DEF UploadPlanet
  <2>2. ASSUME Succeeds(Cmd("upload", ControllerOf[task[o].target])), Go(o, "start"),
               UNCHANGED <<row, authd>>
        PROVE  RowDescribesHost' /\ View(o)'
    <3>1. host' = [host EXCEPT !.planet = ControllerOf[task[o].target]]
      BY <1>0, <2>2, Effects DEF Succeeds
    <3>2. host'.backup = host.backup /\ host'.joined = host.joined
      BY <1>0, <3>1 DEF Hosts
    <3> QED
      BY <1>g, <2>2, <3>2
  <2> QED
    BY <1>1, <2>1, <2>2, ExecView
<1>5. CASE StartDaemon(o)
  <2>1. Exec(o, Cmd("start", None), "join")
    BY <1>5 DEF StartDaemon
  <2>2. ASSUME Succeeds(Cmd("start", None)), Go(o, "join"), UNCHANGED <<row, authd>>
        PROVE  RowDescribesHost' /\ View(o)'
    <3>1. host' = [host EXCEPT !.running = IF @ = None THEN host.planet ELSE @]
      BY <1>0, <2>2, Effects DEF Succeeds
    <3>2. host'.backup = host.backup /\ host'.joined = host.joined
      BY <1>0, <3>1 DEF Hosts
    <3> QED
      BY <1>g, <2>2, <3>2
  <2> QED
    BY <1>1, <2>1, <2>2, ExecView
<1>t. ASSUME NEW c, Throw(o, FALSE), Fails(c) \/ TimesOut(c), UNCHANGED <<row, authd>>
      PROVE  FaultsGrow /\ HostThen(o)
  <2>1. FaultsGrow /\ UNCHANGED <<host, late>>
    BY <1>t, FaultsGrowing DEF Punctual, Fails
  <2> QED
    BY <1>0, <1>1, <1>t, <2>1, ThrowView DEF HostNow, HostThen, RowDescribesHost
<1>6. CASE BackupPlanet(o)
  <2>1. UNCHANGED <<row, authd>> /\ task[o].pc = "backup" /\ host.planet = task[o].found
    BY <1>0, <1>6 DEF BackupPlanet, db, At, PlanetKept
  <2>2. CASE /\ Succeeds(Cmd("backup", None))
             /\ task' = [task EXCEPT ![o].pc = "upload", ![o].saved = TRUE]
    <3>1. host' = [host EXCEPT !.backup = host.planet] /\ UNCHANGED late /\ FaultsGrow
      BY <1>0, <2>2, Effects, FaultsGrowing DEF Succeeds
    <3>2. /\ host'.backup = host.planet /\ host'.joined = host.joined
          /\ host.planet # None
      BY <1>0, <3>1, SwitchAssumption DEF Hosts, Planets
    <3>3. task'[o] = [task[o] EXCEPT !.pc = "upload", !.saved = TRUE]
      BY <2>2 DEF Typed, TypeOK
    <3>4. task'[o].pc = "upload" /\ task'[o].found = task[o].found
      BY <1>0, <3>3 DEF Tasks
    <3> QED
      BY <1>0, <2>1, <3>1, <3>2, <3>4 DEF View, TargetUp, JoinedLate, PlanetKept, SeenIsReal,
         DaemonRuns, Done, Leaving, RowDescribesHost, HostThen
  <2>3. CASE /\ Fails(Cmd("backup", None)) \/ TimesOut(Cmd("backup", None))
             /\ Throw(o, FALSE)
    BY <1>t, <2>1, <2>3
  <2> QED
    BY <1>6, <2>2, <2>3 DEF BackupPlanet
<1>7. CASE JoinNetwork(o)
  <2>1. UNCHANGED <<row, authd>>
    BY <1>7 DEF JoinNetwork, db
  <2>2. CASE /\ Succeeds(Cmd("join", task[o].target))
             /\ task' = [task EXCEPT ![o].pc = "authorize", ![o].joined = TRUE]
    <3>1. host' = [host EXCEPT !.joined = @ \cup {task[o].target}] /\ UNCHANGED late /\ FaultsGrow
      BY <1>0, <2>2, Effects, FaultsGrowing DEF Succeeds
    <3>2. /\ host'.backup = host.backup /\ host'.joined = host.joined \cup {task[o].target}
      BY <1>0, <3>1 DEF Hosts
    <3>3. task'[o] = [task[o] EXCEPT !.pc = "authorize", !.joined = TRUE]
      BY <2>2 DEF Typed, TypeOK
    <3>4. /\ task'[o].pc = "authorize" /\ task'[o].joined /\ task'[o].found = task[o].found
          /\ task'[o].saved = task[o].saved
      BY <1>0, <3>3 DEF Tasks
    <3>5. row.sw = "SUCCESS" => row.net = task[o].target
      BY <1>1 DEF RecordOK, Recorded
    <3>6. RowDescribesHost'
      BY <1>0, <2>1, <3>2, <3>5 DEF RowDescribesHost
    <3> QED
      BY <1>0, <1>2, <3>1, <3>2, <3>4, <3>6 DEF View, TargetUp, JoinedLate, PlanetKept,
         SeenIsReal, DaemonRuns, Done, Leaving, HostThen
  <2>3. CASE /\ Fails(Cmd("join", task[o].target)) \/ TimesOut(Cmd("join", task[o].target))
             /\ Throw(o, FALSE)
    BY <1>t, <2>1, <2>3
  <2> QED
    BY <1>7, <2>2, <2>3 DEF JoinNetwork
<1> QED
  BY <1>3, <1>4, <1>5, <1>6, <1>7

\* The target comes up, and the switch is recorded.
LEMMA ReadyView ==
  ASSUME Typed, RecordOK, NEW o \in Ops, HostNow(o), Punctual',
         Authorize(o) \/ AwaitReady(o) \/ Cleanup(o) \/ RowSuccess(o) \/ LogSuccess(o)
  PROVE  FaultsGrow /\ HostThen(o)
<1>0. /\ task[o] \in Tasks /\ Fits(task[o]) /\ host \in Hosts /\ row \in Rows
      /\ TargetUp(o) /\ JoinedLate(o) /\ PlanetKept(o) /\ RowDescribesHost /\ late = {}
  BY DEF HostNow, View
<1>1. /\ task[o].pc \in {"authorize", "ready", "cleanup", "rowSuccess", "logSuccess"}
      /\ task[o].pc \in SwitchPcs /\ UNCHANGED <<host, late>>
  BY MarkedPlaces DEF Authorize, AwaitReady, Cleanup, RowSuccess, LogSuccess, At, SwitchPcs,
                      remote
<1>2. task[o].saved => host.backup = task[o].found /\ task[o].found # None
  BY <1>0, <1>1 DEF PlanetKept
<1>t. ASSUME Throw(o, FALSE), UNCHANGED row
      PROVE  HostThen(o)
  BY <1>0, <1>1, <1>t, ThrowView DEF HostNow, HostThen, RowDescribesHost
<1>3. CASE Authorize(o)
  <2>1. UNCHANGED row /\ FaultsGrow /\ task[o].joined
    BY <1>0, <1>3 DEF Authorize, db, FaultsGrow, At, JoinedLate
  <2>2. CASE Throw(o, FALSE)
    BY <1>t, <2>1, <2>2
  <2>3. CASE Go(o, "ready")
    <3>1. task'[o].pc = "ready" /\ Same(o)
      BY <2>3, GoMoves, GoKeeps
    <3> QED
      BY <1>0, <1>1, <1>2, <2>1, <3>1 DEF View, TargetUp, JoinedLate, PlanetKept, SeenIsReal,
         DaemonRuns, Done, Leaving, Same, RowDescribesHost, HostThen
  <2> QED
    BY <1>3, <2>1, <2>2, <2>3 DEF Authorize
<1>4. CASE AwaitReady(o)
  <2>1. UNCHANGED <<row, authd>> /\ FaultsGrow /\ task[o].joined
    BY <1>0, <1>4 DEF AwaitReady, db, remote, FaultsGrow, At, JoinedLate
  <2>2. CASE Throw(o, FALSE)
    BY <1>t, <2>1, <2>2
  <2>3. CASE Reachable(task[o].target) /\ Go(o, "listExtra")
    <3>1. task'[o].pc = "listExtra" /\ Same(o)
      BY <2>3, GoMoves, GoKeeps
    <3> QED
      BY <1>0, <1>1, <1>2, <2>1, <2>3, <3>1 DEF View, TargetUp, JoinedLate, PlanetKept,
         SeenIsReal, DaemonRuns, Done, Leaving, Same, RowDescribesHost, HostThen, Reachable
  <2> QED
    BY <1>4, <2>1, <2>2, <2>3 DEF AwaitReady
<1>5. CASE Cleanup(o)
  <2>1. UNCHANGED row /\ FaultsGrow
    BY <1>5 DEF Cleanup, db, FaultsGrow
  <2>2. Reachable(task[o].target) /\ host.joined = {task[o].target}
    BY <1>0, <1>5 DEF Cleanup, At, TargetUp, Done
  <2>3. task'[o].pc = "rowSuccess" /\ Same(o)
    BY <1>5, GoMoves, GoKeeps DEF Cleanup
  <2>4. task[o].target \in authd'
    BY <1>5, <2>2 DEF Cleanup, Reachable
  <2> QED
    BY <1>0, <1>1, <1>2, <2>1, <2>2, <2>3, <2>4 DEF View, TargetUp, JoinedLate, PlanetKept,
       SeenIsReal, DaemonRuns, Done, Leaving, Same, RowDescribesHost, HostThen, Reachable
<1>6. CASE RowSuccess(o)
  <2>1. Reachable(task[o].target) /\ host.joined = {task[o].target} /\ UNCHANGED authd
    BY <1>0, <1>6 DEF RowSuccess, At, TargetUp, Done, remote
  <2>2. CASE /\ WriteRow([row EXCEPT !.sw = "SUCCESS", !.net = task[o].target,
                                     !.zt = "RUNNING", !.on = host.at])
             /\ Go(o, "logSuccess")
    <3>1. row' = [row EXCEPT !.sw = "SUCCESS", !.net = task[o].target, !.zt = "RUNNING",
                        !.on = host.at]
          /\ FaultsGrow
      BY <2>2, FaultsGrowing DEF WriteRow
    <3>2. row'.net = task[o].target
      BY <1>0, <3>1 DEF Rows
    <3>3. task'[o].pc = "logSuccess" /\ Same(o)
      BY <2>2, GoMoves, GoKeeps
    <3> QED
      BY <1>0, <1>1, <1>2, <2>1, <3>1, <3>2, <3>3 DEF View, TargetUp, JoinedLate, PlanetKept,
         SeenIsReal, DaemonRuns, Done, Leaving, Same, RowDescribesHost, HostThen, Reachable
  <2>3. CASE RowWriteFails /\ Throw(o, FALSE)
    BY <1>t, <2>3, FaultsGrowing DEF RowWriteFails, db
  <2> QED
    BY <1>6, <2>2, <2>3 DEF RowSuccess
<1>7. CASE LogSuccess(o)
  <2>2. CASE WriteLog(o, "SUCCESS") /\ Go(o, "finally")
    <3>1. UNCHANGED row /\ FaultsGrow
      BY <2>2, FaultsGrowing DEF WriteLog
    <3>2. task'[o].pc = "finally" /\ Same(o)
      BY <2>2, GoMoves, GoKeeps
    <3> QED
      BY <1>0, <1>1, <1>2, <3>1, <3>2 DEF View, TargetUp, JoinedLate, PlanetKept,
         SeenIsReal, DaemonRuns, Done, Leaving, Same, RowDescribesHost, HostThen
  <2>3. CASE LogWriteFails(o) /\ Throw(o, FALSE)
    BY <1>t, <2>3, FaultsGrowing DEF LogWriteFails, db
  <2> QED
    BY <1>7, <2>2, <2>3 DEF LogSuccess
<1> QED
  BY <1>3, <1>4, <1>5, <1>6, <1>7

\* The catch block: the host is rolled back, the failure recorded.
LEMMA CatchView ==
  ASSUME Typed, RecordOK, NEW o \in Ops, HostNow(o), Punctual',
         \/ Recover(o) \/ RollbackStop(o) \/ RollbackRestore(o) \/ RollbackStart(o)
         \/ RowFailed(o) \/ LogFailed(o)
  PROVE  FaultsGrow /\ HostThen(o)
<1>0. /\ task[o] \in Tasks /\ Fits(task[o]) /\ host \in Hosts /\ row \in Rows
      /\ TargetUp(o) /\ JoinedLate(o) /\ PlanetKept(o) /\ RowDescribesHost /\ late = {}
      /\ DaemonRuns(o)
  BY DEF HostNow, View
<1>1. /\ task[o].pc \in {"recover", "rollbackStop", "rollbackRestore", "rollbackStart",
                         "rowFailed", "logFailed"}
      /\ task[o].pc \in SwitchPcs /\ UNCHANGED authd
  BY MarkedPlaces DEF Recover, RollbackStop, RollbackRestore, RollbackStart, Rollback, RowFailed,
                      LogFailed, At, SwitchPcs, remote
<1>2. task[o].saved => host.backup = task[o].found /\ task[o].found # None
  BY <1>0, <1>1 DEF PlanetKept
<1>g. ASSUME NEW l, task'[o].pc = l, Same(o), FaultsGrow, RowDescribesHost', UNCHANGED late,
             host'.backup = host.backup, host'.root = host.root,
             \/ l \in {"rollbackStop", "rollbackRestore", "finally"}
             \/ l = "rollbackStart" /\ (task[o].saved => host'.planet = task[o].found)
             \/ l \in {"rowFailed", "logFailed"} /\ (\/ faults'.count # 0 \/ ~ host.root
                                                     \/ host'.running # None)
      PROVE  FaultsGrow /\ HostThen(o)
  BY <1>0, <1>2, <1>g DEF View, TargetUp, JoinedLate, PlanetKept, SeenIsReal,
     DaemonRuns, Done, Leaving, Same, HostThen
<1>3. CASE Recover(o)
  <2>1. UNCHANGED <<row, host, late>> /\ FaultsGrow
    BY <1>3 DEF Recover, db, remote, FaultsGrow
  <2>2. PICK l \in {"listExtra", "rollbackStop"} :
            /\ task' = [task EXCEPT ![o].pc = l, ![o].catching = TRUE]
            /\ l = "listExtra" => task[o].joined /\ Reachable(task[o].target)
    BY <1>3 DEF Recover
  <2>3. task'[o] = [task[o] EXCEPT !.pc = l, !.catching = TRUE]
    BY <2>2 DEF Typed, TypeOK
  <2>4. task'[o].pc = l /\ Same(o)
    BY <1>0, <2>3 DEF Tasks, Same
  <2>5. CASE l = "rollbackStop"
    BY <1>0, <1>g, <2>1, <2>4, <2>5 DEF RowDescribesHost
  <2>6. CASE l = "listExtra"
    BY <1>0, <1>1, <1>2, <2>1, <2>2, <2>4, <2>6 DEF View, TargetUp, JoinedLate, PlanetKept,
       SeenIsReal, DaemonRuns, Done, Leaving, Same, RowDescribesHost, HostThen, Reachable
  <2> QED
    BY <2>2, <2>5, <2>6
<1>r. ASSUME NEW c \in {Cmd("stop", None), Cmd("restore", None), Cmd("start", None)},
             NEW from, NEW next, Rollback(o, from, c, next)
      PROVE  /\ FaultsGrow /\ UNCHANGED <<row, late>> /\ Same(o)
             /\ \/ task'[o].pc = next /\ host' = Effect(c)
                \/ /\ host' = host /\ (~ Accepts(c) \/ faults'.count # 0)
                   /\ task'[o].pc = "rowFailed" \/ (task'[o].pc = next /\ c.do # "restore")
  <2>1. ~ TimesOut(c)
    BY FaultsGrowing DEF Punctual
  <2>2. UNCHANGED row
    BY <1>r DEF Rollback, db
  <2>3. CASE Succeeds(c) /\ Go(o, next)
    BY <2>2, <2>3, GoMoves, GoKeeps, FaultsGrowing DEF Succeeds
  <2>4. CASE c.do # "restore" /\ Fails(c) /\ Go(o, next)
    BY <2>2, <2>4, GoMoves, GoKeeps, FaultsGrowing DEF Fails
  <2>5. CASE Fails(c) /\ Go(o, "rowFailed")
    BY <2>2, <2>5, GoMoves, GoKeeps, FaultsGrowing DEF Fails
  <2> QED
    BY <1>r, <2>1, <2>3, <2>4, <2>5 DEF Rollback
<1>c. /\ Cmd("stop", None).do = "stop" /\ Cmd("start", None).do = "start"
      /\ Cmd("restore", None).do = "restore"
      /\ Accepts(Cmd("stop", None)) /\ Accepts(Cmd("start", None))
      /\ host.root => Accepts(Cmd("restore", None))
  BY DEF Cmd, Accepts
<1>4. CASE RollbackStop(o)
  <2>1. Rollback(o, "rollbackStop", Cmd("stop", None), "rollbackRestore")
    BY <1>4 DEF RollbackStop
  <2>2. FaultsGrow /\ UNCHANGED <<row, late>> /\ Same(o)
    BY <1>r, <2>1
  <2>3. CASE task'[o].pc = "rollbackRestore" /\ host' = Effect(Cmd("stop", None))
    <3>1. host' = [host EXCEPT !.running = None]
      BY <1>0, <2>3, Effects
    <3>2. host'.backup = host.backup /\ host'.joined = host.joined /\ host'.root = host.root
      BY <1>0, <3>1 DEF Hosts
    <3> QED
      BY <1>0, <1>g, <2>2, <2>3, <3>2 DEF RowDescribesHost
  <2>4. CASE /\ host' = host /\ faults'.count # 0
             /\ task'[o].pc \in {"rowFailed", "rollbackRestore"}
    BY <1>0, <1>g, <2>2, <2>4 DEF RowDescribesHost
  <2> QED
    BY <1>c, <1>r, <2>1, <2>3, <2>4
<1>5. CASE RollbackRestore(o)
  <2>1. Rollback(o, "rollbackRestore", Cmd("restore", None), "rollbackStart")
    BY <1>5 DEF RollbackRestore
  <2>2. FaultsGrow /\ UNCHANGED <<row, late>> /\ Same(o)
    BY <1>r, <2>1
  <2>3. CASE task'[o].pc = "rollbackStart" /\ host' = Effect(Cmd("restore", None))
    <3>1. host' = [host EXCEPT !.planet = IF host.backup = None THEN @ ELSE host.backup]
      BY <1>0, <2>3, Effects
    <3>2. /\ host'.backup = host.backup /\ host'.joined = host.joined /\ host'.root = host.root
          /\ host.backup # None => host'.planet = host.backup
      BY <1>0, <3>1 DEF Hosts
    <3> QED
      BY <1>0, <1>2, <1>g, <2>2, <2>3, <3>2 DEF RowDescribesHost
  <2>4. CASE /\ host' = host /\ (~ host.root \/ faults'.count # 0)
             /\ task'[o].pc = "rowFailed"
    BY <1>0, <1>g, <2>2, <2>4 DEF RowDescribesHost
  <2> QED
    BY <1>c, <1>r, <2>1, <2>3, <2>4
<1>6. CASE RollbackStart(o)
  <2>1. Rollback(o, "rollbackStart", Cmd("start", None), "rowFailed")
    BY <1>6 DEF RollbackStart
  <2>2. FaultsGrow /\ UNCHANGED <<row, late>> /\ Same(o) /\ task'[o].pc = "rowFailed"
    BY <1>r, <2>1
  <2>3. CASE host' = Effect(Cmd("start", None))
    <3>1. host' = [host EXCEPT !.running = IF @ = None THEN host.planet ELSE @]
      BY <1>0, <2>3, Effects
    <3>2. /\ host'.backup = host.backup /\ host'.joined = host.joined /\ host'.root = host.root
          /\ host'.running # None
      BY <1>0, <3>1, SwitchAssumption DEF Hosts, Planets
    <3> QED
      BY <1>0, <1>g, <2>2, <2>3, <3>2 DEF RowDescribesHost
  <2>4. CASE host' = host /\ faults'.count # 0
    BY <1>0, <1>g, <2>2, <2>4 DEF RowDescribesHost
  <2> QED
    BY <1>c, <1>r, <2>1, <2>3, <2>4
<1>7. CASE RowFailed(o)
  <2>1. UNCHANGED <<host, late>> /\ task[o].pc = "rowFailed"
    BY <1>7 DEF RowFailed, remote, At
  <2>2. CASE WriteRow([row EXCEPT !.sw = "FAILED"]) /\ Go(o, "logFailed")
    <3>1. FaultsGrow /\ row'.sw = "FAILED"
      BY <1>0, <2>2, FaultsGrowing DEF WriteRow, Rows
    <3>2. faults'.count # 0 \/ ~ host.root \/ host'.running # None
      BY <1>0, <2>1, <3>1 DEF DaemonRuns, FaultsGrow
    <3> QED
      BY <1>g, <2>1, <2>2, <3>1, <3>2, GoMoves, GoKeeps DEF RowDescribesHost
  <2>3. CASE (RowWriteFails \/ (UNCHANGED db /\ NoFault)) /\ Go(o, "finally")
    <3>1. FaultsGrow /\ UNCHANGED row
      BY <2>3, FaultsGrowing DEF RowWriteFails, db
    <3> QED
      BY <1>0, <1>g, <2>1, <2>3, <3>1, GoMoves, GoKeeps DEF RowDescribesHost
  <2> QED
    BY <1>7, <2>2, <2>3 DEF RowFailed
<1>8. CASE LogFailed(o)
  <2>1. UNCHANGED <<host, late, row>> /\ FaultsGrow /\ Go(o, "finally")
    BY <1>8, FaultsGrowing DEF LogFailed, remote, WriteLog, LogWriteFails, db
  <2> QED
    BY <1>0, <1>g, <2>1, GoMoves, GoKeeps DEF RowDescribesHost
<1> QED
  BY <1>3, <1>4, <1>5, <1>6, <1>7, <1>8

\* The service actions: what they are about to write is what they have just read.
LEMMA ServiceView ==
  ASSUME Typed, RecordOK, NEW o \in Ops, HostNow(o), Punctual', ServiceStep(o)
  PROVE  FaultsGrow /\ HostThen(o)
<1>0. /\ task[o] \in Tasks /\ Fits(task[o]) /\ host \in Hosts /\ row \in Rows
      /\ RowDescribesHost /\ late = {}
  BY DEF HostNow
<1>r. row'.sw = row.sw /\ row'.net = row.net /\ row'.addr = row.addr /\ row'.on = row.on
  <2>1. row' = row \/ row' = [row EXCEPT !.zt = task[o].seen]
    BY DEF ServiceStep, SvcConnect, SvcAct, SvcRead, SvcCatch, SvcWrite, db, WriteRow,
       RowWriteFails
  <2> QED
    BY <1>0, <2>1 DEF Rows
<1>g. ASSUME NEW l, task'[o].pc = l, FaultsGrow, late' = {}, host'.joined = host.joined,
             \/ l \in {"svcAct", "svcRead", "svcCatch", "finally"}
             \/ l = "svcWrite" /\ task'[o].seen \in {"UNKNOWN", Status'}
      PROVE  FaultsGrow /\ HostThen(o)
  <2>1. {"svcAct", "svcRead", "svcCatch", "finally", "svcWrite"}
        \cap (SwitchPcs \cup Done \cup Leaving) = {}
    BY DEF SwitchPcs, MarkedPcs, CatchPcs, Done, Leaving
  <2> QED
    BY <1>0, <1>r, <1>g, <2>1 DEF HostThen, View, TargetUp, JoinedLate, PlanetKept, SeenIsReal,
       DaemonRuns, RowDescribesHost
<1>1. CASE SvcConnect(o)
  <2>1. UNCHANGED <<host, late>> /\ FaultsGrow
    BY <1>1, FaultsGrowing DEF SvcConnect, remote
  <2>2. CASE task' = [task EXCEPT ![o].pc = "svcWrite", ![o].seen = "UNKNOWN",
                                  ![o].catching = TRUE]
    <3>1. task'[o].pc = "svcWrite" /\ task'[o].seen = "UNKNOWN"
      BY <1>0, <2>2 DEF Typed, TypeOK, Tasks
    <3> QED
      BY <1>0, <1>g, <2>1, <3>1
  <2>3. CASE \E l \in {"svcRead", "svcAct"} : Go(o, l)
    BY <1>0, <1>g, <2>1, <2>3, GoMoves
  <2> QED
    BY <1>1, <2>2, <2>3 DEF SvcConnect
<1>2. CASE SvcAct(o)
  <2>1. (Go(o, "svcRead") \/ SvcThrow(o)) /\ task[o].pc = "svcAct"
    BY <1>2 DEF SvcAct, At
  <2>2. task'[o].pc \in {"svcRead", "svcCatch"}
    BY <2>1, GoMoves
  <2>3. ~ TimesOut(Cmd(task[o].kind, None))
    BY FaultsGrowing DEF Punctual
  <2>4. CASE Succeeds(Cmd(task[o].kind, None))
    <3>1. task[o].kind \in {"start", "stop"}
      BY <1>0, <2>1 DEF Fits, SvcPcs
    <3>2. host'.joined = host.joined
      <4>1. CASE task[o].kind = "start"
        <5>1. host' = [host EXCEPT !.running = IF @ = None THEN host.planet ELSE @]
          BY <1>0, <2>4, <4>1, Effects DEF Succeeds
        <5> QED
          BY <1>0, <5>1 DEF Hosts
      <4>2. CASE task[o].kind = "stop"
        <5>1. host' = [host EXCEPT !.running = None]
          BY <1>0, <2>4, <4>2, Effects DEF Succeeds
        <5> QED
          BY <1>0, <5>1 DEF Hosts
      <4> QED
        BY <3>1, <4>1, <4>2
    <3> QED
      BY <1>0, <1>g, <2>2, <2>4, <3>2, FaultsGrowing DEF Succeeds
  <2>5. CASE Fails(Cmd(task[o].kind, None)) \/ (UNCHANGED <<host, late>> /\ NoFault)
    BY <1>0, <1>g, <2>2, <2>5, FaultsGrowing DEF Fails
  <2> QED
    BY <1>2, <2>3, <2>4, <2>5 DEF SvcAct
<1>3. CASE SvcRead(o)
  <2>1. UNCHANGED <<host, late>> /\ FaultsGrow /\ Status' = Status
    BY <1>3, FaultsGrowing DEF SvcRead, remote, Status
  <2>2. See(o, "svcWrite", Status) \/ SvcThrow(o)
    BY <1>3 DEF SvcRead
  <2> QED
    BY <1>0, <1>g, <2>1, <2>2, GoMoves, GoKeeps
<1>4. CASE SvcCatch(o)
  <2>1. UNCHANGED <<host, late>> /\ FaultsGrow /\ Status' = Status
    BY <1>4, FaultsGrowing DEF SvcCatch, remote, Status
  <2>2. PICK s \in {"UNKNOWN", Status} : See(o, "svcWrite", s)
    BY <1>4 DEF SvcCatch
  <2> QED
    BY <1>0, <1>g, <2>1, <2>2, GoMoves, GoKeeps
<1>5. CASE SvcWrite(o)
  <2>1. UNCHANGED <<host, late>> /\ FaultsGrow
    BY <1>5, FaultsGrowing DEF SvcWrite, remote, WriteRow, RowWriteFails
  <2>2. Go(o, "finally") \/ SvcThrow(o)
    BY <1>5 DEF SvcWrite
  <2> QED
    BY <1>0, <1>g, <2>1, <2>2, GoMoves
<1> QED
  BY <1>1, <1>2, <1>3, <1>4, <1>5 DEF ServiceStep

LEMMA HostStep ==
  ASSUME Typed, QueueOK, RecordOK, HostOK, LoginsOK, [Next]_vars PROVE HostOK'
<1>0. task \in [Ops -> Tasks] /\ row \in Rows /\ host \in Hosts
  BY DEF Typed, TypeOK
<1>h. ASSUME NEW o \in Ops, Punctual PROVE HostNow(o)
  BY <1>h DEF HostNow, HostOK, Typed, TypeOK, TasksFit
<1>1. ASSUME NEW o \in Ops, Load(o) \/ SwitchStep(o) \/ UploadPlanet(o) \/ ServiceStep(o)
      PROVE  HostOK'
  <2>1. Inside(o) /\ Others(o) /\ faults.kinds \subseteq faults'.kinds
    BY <1>1, InsideStays, SwitchRecorded, ServiceRecorded DEF LogsOf
  <2> SUFFICES ASSUME Punctual' PROVE HostOK'
    BY DEF HostOK
  <2>2. HostNow(o)
    BY <1>h, <2>1 DEF Punctual
  <2>3. FaultsGrow /\ HostThen(o)
    BY <1>1, <2>2, EarlyView, LeavingView, ReplaceView, ReadyView, CatchView, ServiceView
       DEF SwitchStep
  <2> QED
    BY <2>1, <2>3, OneView DEF HostThen
<1>2. ASSUME NEW o \in Ops, Call(o) PROVE HostOK'
  <2>1. PICK k \in Kinds, t \in Networks \cup {None} :
            task' = [task EXCEPT ![o] = [Blank EXCEPT
                    !.pc = IF k \in LockedKinds THEN "queued" ELSE "guard",
                    !.kind = k, !.target = t]]
    BY <1>2 DEF Call
  <2>2. Others(o) /\ task'[o].pc \in {"queued", "guard"} /\ ~ task'[o].joined
    BY <1>0, <2>1 DEF Others, Blank
  <2>3. UNCHANGED <<row, remote>> /\ FaultsGrow
    BY <1>2 DEF Call, db, FaultsGrow
  <2> QED
    BY <2>2, <2>3, OutsideView
<1>3. ASSUME NEW o \in Ops, Enter(o) PROVE HostOK'
  <2>1. UNCHANGED <<row, remote>> /\ FaultsGrow /\ task[o].pc = "queued"
    BY <1>3 DEF Enter, db, At, FaultsGrow
  <2>2. Others(o) /\ task'[o].pc = "load" /\ task'[o].joined = task[o].joined
    BY <1>3, GoMoves, GoKeeps DEF Enter, Same
  <2>3. Punctual => ~ task[o].joined
    BY <1>h, <2>1 DEF HostNow, View, JoinedLate
  <2>4. CASE Punctual
    BY <2>1, <2>2, <2>3, <2>4, OutsideView
  <2>5. CASE ~ Punctual
    BY <2>1, <2>5 DEF HostOK, Punctual, FaultsGrow
  <2> QED
    BY <2>4, <2>5
<1>4. ASSUME NEW o \in Ops, Finish(o) PROVE HostOK'
  <2>1. Others(o) /\ task'[o].pc = "done"
    BY <1>0, <1>4 DEF Finish, Others, Blank
  <2>2. UNCHANGED <<row, remote>> /\ FaultsGrow
    BY <1>4 DEF Finish, db, FaultsGrow
  <2> QED
    BY <2>1, <2>2, OutsideView
<1>5. ASSUME NEW o \in Ops, Guard(o) PROVE HostOK'
  <2>1. UNCHANGED <<row, remote>> /\ FaultsGrow
    BY <1>5 DEF Guard, db, FaultsGrow
  <2>2. Others(o) /\ task'[o].pc \in {"write", "done"}
    BY <1>5, GoMoves DEF Guard
  <2> QED
    BY <2>1, <2>2, OutsideView
<1>6. ASSUME NEW o \in Ops, Edit(o) \/ Remove(o) PROVE HostOK'
  <2>1. Others(o) /\ task'[o].pc = "done" /\ UNCHANGED remote
    BY <1>6, GoMoves DEF Edit, Remove
  <2>2. /\ row'.sw = row.sw /\ row'.net = row.net /\ FaultsGrow
        /\ row'.addr = row'.on => row.addr = row.on
    <3>1. CASE RowWriteFails
      BY <3>1, FaultsGrowing DEF RowWriteFails, db
    <3>2. CASE \E e \in BOOLEAN, a \in {row.addr, row.addr + 1} :
                 WriteRow([row EXCEPT !.enabled = e, !.addr = a])
      <4>1. PICK e \in BOOLEAN, a \in {row.addr, row.addr + 1} :
                row' = [row EXCEPT !.enabled = e, !.addr = a]
        BY <3>2 DEF WriteRow
      <4>2. /\ row'.sw = row.sw /\ row'.net = row.net /\ row'.addr = a /\ row'.on = row.on
            /\ row.addr \in Nat /\ row.on \in Nat /\ host.at \in Nat
        BY <1>0, <4>1 DEF Rows, Hosts
      <4>3. row.on <= row.addr
        BY <4>2 DEF LoginsOK
      <4> QED
        BY <3>2, <4>2, <4>3, FaultsGrowing DEF WriteRow
    <3>3. CASE row' = [row EXCEPT !.exists = FALSE] /\ NoFault
      BY <1>0, <3>3, FaultsGrowing DEF Rows
    <3> QED
      BY <1>6, <3>1, <3>2, <3>3 DEF Edit, Remove
  <2> QED
    BY <2>1, <2>2, OutsideView
<1>7. CASE Crash
  <2>1. \A o \in Ops : \/ task'[o] = task[o] /\ ~ Inside(o)
                      \/ task'[o].pc = "lost"
    BY <1>7, InsidePlaces DEF Crash, Blank, Inside
  <2>2. UNCHANGED <<row, host, authd, late>> /\ FaultsGrow
    BY <1>7, FaultsGrowing DEF Crash, db, remote
  <2>3. "lost" \notin Done \cup Leaving \cup SwitchPcs
    BY DEF Done, Leaving, SwitchPcs, MarkedPcs, CatchPcs
  <2>4. \A o \in Ops : task'[o].pc = "lost" => View(o)'
    BY <2>3 DEF View, TargetUp, JoinedLate, PlanetKept, SeenIsReal, DaemonRuns
  <2>5. \A o \in Ops : View(o) => View(o)'
    BY <2>1, <2>2, <2>4, StillView
  <2> QED
    BY <2>2, <2>5 DEF HostOK, RowDescribesHost, Punctual, FaultsGrow
<1>8. CASE LateCommand \/ LoseLateCommand
  <2>1. late # {} /\ UNCHANGED faults
    BY <1>8 DEF LateCommand, LoseLateCommand
  <2> QED
    BY <2>1 DEF HostOK, Punctual
<1>9. CASE UNCHANGED vars
  <2>1. UNCHANGED <<row, host, authd, late, task>> /\ FaultsGrow
    BY <1>9 DEF vars, FaultsGrow
  <2> QED
    BY <2>1, StillView DEF HostOK, RowDescribesHost, Punctual, FaultsGrow
<1> QED
  BY <1>1, <1>2, <1>3, <1>4, <1>5, <1>6, <1>7, <1>8, <1>9 DEF Next, Step
-----------------------------------------------------------------------------
(* The invariant. *)

LEMMA FaultsStep ==
  ASSUME Typed, FaultsOK, [Next]_vars PROVE FaultsOK'
<1> DEFINE Counted == UNCHANGED faults \/ \E f \in Faults : Fault(f)
<1> SUFFICES Counted
  BY FaultsGrowing DEF FaultsOK
<1> USE DEF Fault, FailsIf, NoFault, Succeeds, Fails, TimesOut, WriteRow, RowWriteFails,
            WriteLog, LogWriteFails
<1>1. ASSUME NEW o \in Ops, SwitchStep(o) PROVE Counted
  <2>1. CASE RemoteStep(o)
    BY <2>1 DEF RemoteStep, Connect, Prerequisites, NodeInfo, ListExtra, LeaveExtra,
       RecheckExtra, StopDaemon, BackupPlanet, UploadPlanet, StartDaemon, JoinNetwork,
       Authorize, AwaitReady, Cleanup, Recover, RollbackStop, RollbackRestore,
       RollbackStart, Exec, Rollback
  <2>2. CASE ~ RemoteStep(o)
    BY <1>1, <2>2 DEF RemoteStep, SwitchStep, Prepare, CreateLog, Mark, RowSuccess, LogSuccess,
       RowFailed, LogFailed
  <2> QED
    BY <2>1, <2>2
<1>2. ASSUME NEW o \in Ops, ServiceStep(o) PROVE Counted
  BY <1>2 DEF ServiceStep, SvcConnect, SvcAct, SvcRead, SvcCatch, SvcWrite
<1>3. ASSUME NEW o \in Ops,
             \/ Call(o) \/ Enter(o) \/ Load(o) \/ Finish(o) \/ Guard(o) \/ Edit(o) \/ Remove(o)
             \/ UploadPlanet(o)
      PROVE Counted
  BY <1>3 DEF Call, Enter, Load, Finish, Guard, Edit, Remove, UploadPlanet, Exec
<1>4. CASE LateCommand \/ LoseLateCommand \/ Crash \/ UNCHANGED vars
  BY <1>4 DEF LateCommand, LoseLateCommand, Crash, vars
<1> QED
  BY <1>1, <1>2, <1>3, <1>4 DEF Next, Step

\* A command leaves the login that the host was reached with.
LEMMA LoginKept ==
  ASSUME host \in Hosts, NEW c \in Commands
  PROVE  Effect(c).at = host.at
<1>1. CASE c.do \in {"stop", "start", "backup", "restore"}
  BY <1>1 DEF Effect, Hosts
<1>2. CASE c.do \in {"upload", "join", "leave"}
  BY <1>2 DEF Effect, Hosts
<1> QED
  BY <1>1, <1>2 DEF Commands

LEMMA CommandLogin ==
  ASSUME host \in Hosts, NEW c \in Commands, Succeeds(c) \/ Fails(c) \/ TimesOut(c)
  PROVE  host'.at = host.at
BY LoginKept DEF Succeeds, Fails, TimesOut

\* A step of a switch reaches no other host, and only a success records the login.
LEMMA SwitchLogin ==
  ASSUME Typed, NEW o \in Ops, SwitchStep(o) \/ UploadPlanet(o)
  PROVE  /\ host'.at = host.at /\ row'.addr = row.addr
         /\ row'.on = row.on \/ row'.on = host.at
<1>0. /\ task[o] \in Tasks /\ Fits(task[o]) /\ host \in Hosts /\ row \in Rows
  BY DEF Typed, TypeOK, TasksFit
<1>1. CASE RemoteStep(o)
  <2>1. row' = row
    BY <1>1, QuietSteps DEF Quiet
  <2>2. host'.at = host.at
    <3>1. CASE \/ Connect(o) \/ Prerequisites(o) \/ NodeInfo(o) \/ ListExtra(o)
               \/ RecheckExtra(o) \/ Authorize(o) \/ AwaitReady(o) \/ Cleanup(o) \/ Recover(o)
      BY <3>1 DEF Connect, Prerequisites, NodeInfo, ListExtra, RecheckExtra, Authorize,
         AwaitReady, Cleanup, Recover, remote
    <3>2. CASE LeaveExtra(o)
      <4>1. \A n \in task[o].todo : n \in Networks
        BY <1>0 DEF Tasks
      <4> QED
        BY <1>0, <3>2, <4>1, CmdTyped, CommandLogin DEF LeaveExtra
    <3>3. CASE StopDaemon(o) \/ StartDaemon(o)
      BY <1>0, <3>3, CmdTyped, CommandLogin DEF StopDaemon, StartDaemon, Exec
    <3>4. CASE BackupPlanet(o)
      BY <1>0, <3>4, CmdTyped, CommandLogin DEF BackupPlanet
    <3>5. CASE UploadPlanet(o) \/ JoinNetwork(o)
      <4>1. task[o].target \in Networks
        BY <1>0, <3>5, MarkedPlaces DEF UploadPlanet, JoinNetwork, At, Fits, SwitchPcs
      <4>2. ControllerOf[task[o].target] \in Controllers
        BY <4>1, SwitchAssumption
      <4> QED
        BY <1>0, <3>5, <4>1, <4>2, CmdTyped, CommandLogin DEF UploadPlanet, JoinNetwork, Exec
    <3>6. CASE RollbackStop(o) \/ RollbackRestore(o) \/ RollbackStart(o)
      BY <1>0, <3>6, CmdTyped, CommandLogin
      DEF RollbackStop, RollbackRestore, RollbackStart, Rollback
    <3> QED
      BY <1>1, <3>1, <3>2, <3>3, <3>4, <3>5, <3>6 DEF RemoteStep
  <2> QED
    BY <2>1, <2>2
<1>2. CASE ~ RemoteStep(o)
  <2>1. /\ UNCHANGED remote
        /\ \/ Prepare(o) \/ CreateLog(o) \/ Mark(o) \/ RowSuccess(o) \/ LogSuccess(o)
           \/ RowFailed(o) \/ LogFailed(o)
    BY <1>2 DEF RemoteStep, SwitchStep, Prepare, CreateLog, Mark, RowSuccess, LogSuccess,
       RowFailed, LogFailed
  <2>2. CASE UNCHANGED row
    BY <2>1, <2>2 DEF remote
  <2>3. CASE row' \in {[row EXCEPT !.sw = "RUNNING"], [row EXCEPT !.sw = "FAILED"],
                       [row EXCEPT !.sw = "SUCCESS", !.net = task[o].target,
                                   !.zt = "RUNNING", !.on = host.at]}
    BY <1>0, <2>1, <2>3 DEF remote, Rows
  <2> QED
    BY <2>1, <2>2, <2>3 DEF Prepare, CreateLog, Mark, RowSuccess, LogSuccess, RowFailed, LogFailed,
       WriteRow, RowWriteFails, WriteLog, LogWriteFails, db
<1> QED
  BY <1>1, <1>2

LEMMA LoginsStep ==
  ASSUME Typed, LoginsOK, [Next]_vars PROVE LoginsOK'
<1>0. /\ host \in Hosts /\ row \in Rows
      /\ row.on \in Nat /\ row.addr \in Nat /\ host.at \in Nat
      /\ row.on <= host.at /\ host.at <= row.addr /\ row.on <= row.addr
  BY DEF Typed, TypeOK, Rows, Hosts, LoginsOK
<1>1. ASSUME NEW o \in Ops, SwitchStep(o) \/ UploadPlanet(o) PROVE LoginsOK'
  BY <1>0, <1>1, SwitchLogin DEF LoginsOK
<1>2. ASSUME NEW o \in Ops, ServiceStep(o) PROVE LoginsOK'
  <2>1. row'.on = row.on /\ row'.addr = row.addr
    <3>1. CASE row' = row
      BY <3>1
    <3>2. CASE row' = [row EXCEPT !.zt = task[o].seen]
      BY <1>0, <3>2 DEF Rows
    <3> QED
      BY <1>2, <3>1, <3>2 DEF ServiceStep, SvcConnect, SvcAct, SvcRead, SvcCatch, SvcWrite, db,
         WriteRow, RowWriteFails
  <2>2. host'.at = host.at
    <3>1. CASE SvcAct(o)
      <4>1. task[o].kind \in {"start", "stop"}
        BY <3>1 DEF SvcAct, At, Typed, TasksFit, Fits, SvcPcs
      <4>2. Cmd(task[o].kind, None) \in Commands
        BY <4>1, CmdTyped
      <4> QED
        BY <1>0, <3>1, <4>2, CommandLogin DEF SvcAct
    <3> QED
      BY <1>2, <3>1 DEF ServiceStep, SvcConnect, SvcRead, SvcCatch, SvcWrite, remote
  <2> QED
    BY <1>0, <2>1, <2>2 DEF LoginsOK
<1>3. ASSUME NEW o \in Ops, Load(o) PROVE LoginsOK'
  <2>1. row' = row
    BY <1>3 DEF Load, db
  <2>2. host'.at \in {host.at, row.addr}
    <3>1. CASE UNCHANGED remote
      BY <3>1 DEF remote
    <3>2. CASE host' \in Untouched(row.addr)
      BY <3>2 DEF Untouched
    <3>3. CASE \E r \in BOOLEAN : host' = [host EXCEPT !.root = r, !.at = row.addr]
      BY <1>0, <3>3 DEF Hosts
    <3> QED
      BY <1>3, <3>1, <3>2, <3>3 DEF Load, Reaches
  <2> QED
    BY <1>0, <2>1, <2>2 DEF LoginsOK
<1>4. ASSUME NEW o \in Ops, Edit(o) \/ Remove(o) PROVE LoginsOK'
  <2>1. UNCHANGED host
    BY <1>4 DEF Edit, Remove, remote
  <2>2. row'.on = row.on /\ row'.addr \in {row.addr, row.addr + 1}
    <3>1. CASE UNCHANGED row
      BY <3>1
    <3>2. CASE row' = [row EXCEPT !.exists = FALSE]
      BY <1>0, <3>2 DEF Rows
    <3>3. ASSUME NEW e \in BOOLEAN, NEW a \in {row.addr, row.addr + 1},
                 row' = [row EXCEPT !.enabled = e, !.addr = a]
          PROVE  row'.on = row.on /\ row'.addr = a
      BY <1>0, <3>3 DEF Rows
    <3> QED
      BY <1>4, <3>1, <3>2, <3>3 DEF Edit, Remove, WriteRow, RowWriteFails, db
  <2> QED
    BY <1>0, <2>1, <2>2 DEF LoginsOK
<1>5. CASE \/ \E o \in Ops : Call(o) \/ Enter(o) \/ Finish(o) \/ Guard(o)
           \/ Crash \/ LoseLateCommand \/ UNCHANGED vars
  BY <1>5 DEF Call, Enter, Finish, Guard, Crash, LoseLateCommand, vars, db, remote, LoginsOK
<1>6. CASE LateCommand
  <2>1. row' = row
    BY <1>6 DEF LateCommand, db
  <2>2. host'.at = host.at
    BY <1>0, <1>6, LoginKept DEF LateCommand, Typed, TypeOK
  <2> QED
    BY <2>1, <2>2 DEF LoginsOK
<1> QED
  BY <1>1, <1>2, <1>3, <1>4, <1>5, <1>6 DEF Next, Step

LEMMA InvInit == Init => Inv
<1> SUFFICES ASSUME Init PROVE Inv
  OBVIOUS
<1>1. \A o \in Ops : task[o] = Blank
  BY DEF Init
<1>2. Blank.pc = "idle" /\ ~ Blank.verbose
  BY DEF Blank
<1>3. "idle" \notin InsidePcs \cup MarkedPcs \cup Done \cup Leaving \cup SwitchPcs
  BY InsidePlaces, MarkedPlaces DEF Done, Leaving, InsidePcs
<1>4. QueueOK
  BY <1>1, <1>2, <1>3 DEF QueueOK, Inside, Present
<1>5. RecordOK
  BY <1>1, <1>2, <1>3 DEF Init, RecordOK, Recorded
<1>6. \A o \in Ops : View(o)
  BY <1>1, <1>2, <1>3 DEF View, TargetUp, JoinedLate, PlanetKept, SeenIsReal, DaemonRuns
<1>7. HostOK /\ FaultsOK
  BY <1>6 DEF Init, HostOK, RowDescribesHost, FaultsOK
<1>8. LoginsOK
  BY DEF Init, LoginsOK, Untouched
<1> QED
  BY <1>4, <1>5, <1>7, <1>8, InitTyped DEF Inv

LEMMA InvStep == Inv /\ [Next]_vars => Inv'
BY StepTyped, QueueStep, RecordStep, HostStep, FaultsStep, LoginsStep DEF Inv

\* The inductive invariant of the machine: types, the queue, the record, the logins, and
\* what a switch, and a row whose login was not edited since, may rely on of the host.
THEOREM Invariance == Spec => []Inv
BY InvInit, InvStep, PTL DEF Spec

\* Only a switch and the service actions write the status column.
LEMMA RowWriters ==
  ASSUME Typed, [Next]_vars, row'.zt # row.zt
  PROVE  \E o \in Ops : RowSuccess(o) \/ SvcWrite(o)
<1>0. row \in Rows
  BY DEF Typed, TypeOK
<1>1. ASSUME NEW o \in Ops, SwitchStep(o) \/ UploadPlanet(o) PROVE RowSuccess(o)
  <2>1. ~ RemoteStep(o)
    BY QuietSteps DEF Quiet
  <2>2. ~ Prepare(o) /\ ~ CreateLog(o) /\ ~ LogSuccess(o) /\ ~ LogFailed(o)
    BY DEF Prepare, CreateLog, LogSuccess, LogFailed, WriteLog, LogWriteFails, RowWriteFails, db
  <2>3. ~ Mark(o) /\ ~ RowFailed(o)
    BY <1>0 DEF Mark, RowFailed, WriteRow, RowWriteFails, db, Rows
  <2> QED
    BY <1>1, <2>1, <2>2, <2>3 DEF SwitchStep, RemoteStep
<1>2. ASSUME NEW o \in Ops, ServiceStep(o) PROVE SvcWrite(o)
  BY <1>2 DEF ServiceStep, SvcConnect, SvcAct, SvcRead, SvcCatch, db
<1>3. ASSUME NEW o \in Ops,
             Call(o) \/ Enter(o) \/ Load(o) \/ Finish(o) \/ Guard(o) \/ Edit(o) \/ Remove(o)
      PROVE  FALSE
  BY <1>0, <1>3 DEF Call, Enter, Load, Finish, Guard, Edit, Remove, WriteRow, RowWriteFails,
     db, Rows
<1>4. CASE LateCommand \/ LoseLateCommand \/ Crash \/ UNCHANGED vars
  BY <1>4 DEF LateCommand, LoseLateCommand, Crash, vars, db
<1> QED
  BY <1>1, <1>2, <1>3, <1>4 DEF Next, Step

\* Who moves a request that is inside the lock.
LEMMA Mover ==
  ASSUME Inv, [Next]_vars, NEW o \in Ops, Inside(o), task'[o] # task[o]
  PROVE  \/ Load(o) \/ SwitchStep(o) \/ UploadPlanet(o) \/ ServiceStep(o) \/ Finish(o)
         \/ Crash
<1>0. task \in [Ops -> Tasks] /\ Typed /\ QueueOK
  BY DEF Inv, Typed, TypeOK
<1>1. ASSUME NEW p \in Ops, Load(p) \/ SwitchStep(p) \/ UploadPlanet(p) \/ ServiceStep(p)
      PROVE  p = o
  BY <1>0, <1>1, InsideStays DEF Others
<1>2. ASSUME NEW p \in Ops, Call(p) \/ Enter(p) \/ Finish(p) \/ Guard(p) \/ Edit(p) \/ Remove(p)
      PROVE  p = o
  BY <1>0, <1>2 DEF Call, Enter, Finish, Guard, Edit, Remove, Go
<1>3. ~ (Call(o) \/ Enter(o) \/ Guard(o) \/ Edit(o) \/ Remove(o))
  BY InsidePlaces DEF Call, Enter, Guard, Edit, Remove, At, Inside
<1>4. ~ (LateCommand \/ LoseLateCommand \/ UNCHANGED vars)
  BY DEF LateCommand, LoseLateCommand, vars
<1> QED
  BY <1>1, <1>2, <1>3, <1>4 DEF Next, Step

\* Only the last step of the rollback moves a request there.
LEMMA Starters ==
  ASSUME Inv, [Next]_vars, NEW o \in Ops, At(o, "rollbackStart"), task'[o].pc = "rowFailed"
  PROVE  RollbackStart(o)
<1>0. task \in [Ops -> Tasks] /\ task[o].pc = "rollbackStart" /\ Inside(o)
  BY InsidePlaces DEF Inv, Typed, TypeOK, At, Inside
<1>1. ~ Crash
  BY <1>0 DEF Crash, Blank
<1>2. Load(o) \/ SwitchStep(o) \/ UploadPlanet(o) \/ ServiceStep(o) \/ Finish(o)
  BY <1>0, <1>1, Mover
<1> QED
  BY <1>0, <1>2 DEF SwitchStep, ServiceStep, At, Load, Prepare, CreateLog, Mark, Connect,
     Prerequisites, NodeInfo, ListExtra, LeaveExtra, RecheckExtra, StopDaemon, BackupPlanet,
     UploadPlanet, StartDaemon, JoinNetwork, Authorize, AwaitReady, Cleanup, RowSuccess,
     LogSuccess, Recover, RollbackStop, RollbackRestore, RowFailed, LogFailed, Finish,
     SvcConnect, SvcAct, SvcRead, SvcCatch, SvcWrite, Rollback

-----------------------------------------------------------------------------
(* What the host is when the record speaks of it. *)

LEMMA AlwaysPunctual ==
  ASSUME "late" \notin Faults, Inv
  PROVE  Punctual
BY DEF Inv, Typed, TypeOK, Punctual

\* With remote commands that answer in time, a switch that is recorded as a success has
\* left the host joined to its network and to nothing else, on the planet of the network's
\* controller and authorised by it.
THEOREM SwitchedForReal ==
  ASSUME "late" \notin Faults
  PROVE  Spec => SuccessIsReal
<1> DEFINE Real == \A o \in Ops : At(o, "rowSuccess") /\ task'[o].pc = "logSuccess" =>
                     /\ host.joined = {task[o].target}
                     /\ Reachable(task[o].target)
<1>1. Inv => Real
  BY AlwaysPunctual DEF Inv, HostOK, View, TargetUp, Done, At
<1> QED
  BY <1>1, Invariance, PTL DEF SuccessIsReal

\* With remote commands that answer in time, a row that says SUCCESS names the one network
\* the host is joined to, whatever other requests, failures and restarts come in between,
\* as long as the row's login has not been edited since that switch read it.
THEOREM RowIsTrue ==
  ASSUME "late" \notin Faults
  PROVE  Spec => []SuccessDescribesHost
<1>1. ASSUME Inv PROVE SuccessDescribesHost
  <2>1. row.addr = row.on => host.at = row.addr
    BY <1>1 DEF Inv, Typed, TypeOK, Rows, Hosts, LoginsOK
  <2>2. Punctual
    BY <1>1, AlwaysPunctual
  <2> QED
    BY <1>1, <2>1, <2>2 DEF Inv, HostOK, RowDescribesHost, SuccessDescribesHost
<1> QED
  BY <1>1, Invariance, PTL

\* With remote commands that answer in time, the service status that a check, a start or a
\* stop records is the one the host has at that moment, even for an action that failed.
THEOREM StatusRecorded ==
  ASSUME "late" \notin Faults
  PROVE  Spec => StatusIsReal
<1> DEFINE Real == row'.zt # row.zt /\ row'.zt # "UNKNOWN" =>
                     row'.zt = IF host.running = None THEN "STOPPED" ELSE "RUNNING"
<1>1. ASSUME Inv, [Next]_vars, row'.zt # row.zt, row'.zt # "UNKNOWN" PROVE Real
  <2>0. Punctual /\ row \in Rows /\ host \in Hosts
    BY <1>1, AlwaysPunctual DEF Inv, Typed, TypeOK
  <2>1. PICK o \in Ops : RowSuccess(o) \/ SvcWrite(o)
    BY <1>1, RowWriters DEF Inv
  <2>2. View(o)
    BY <1>1, <2>0 DEF Inv, HostOK
  <2>3. CASE RowSuccess(o)
    <3>1. Reachable(task[o].target) /\ task[o].target \in Networks
      BY <1>1, <2>2, <2>3, MarkedPlaces DEF RowSuccess, At, View, TargetUp, Done, Inv, Typed,
         TasksFit, Fits, SwitchPcs
    <3>2. host.running # None
      BY <3>1, SwitchAssumption DEF Reachable
    <3>3. row'.zt = "RUNNING"
      <4>1. row' = [row EXCEPT !.sw = "SUCCESS", !.net = task[o].target, !.zt = "RUNNING",
                        !.on = host.at]
        BY <1>1, <2>3 DEF RowSuccess, WriteRow, RowWriteFails, db
      <4> QED
        BY <2>0, <4>1 DEF Rows
    <3> QED
      BY <3>2, <3>3
  <2>4. CASE SvcWrite(o)
    <3>1. row' = [row EXCEPT !.zt = task[o].seen]
      BY <1>1, <2>4 DEF SvcWrite, WriteRow, RowWriteFails, db
    <3>2. row'.zt = task[o].seen
      BY <2>0, <3>1 DEF Rows
    <3>3. task[o].seen \in {"UNKNOWN", Status}
      BY <2>2, <2>4 DEF SvcWrite, At, View, SeenIsReal
    <3> QED
      BY <1>1, <3>2, <3>3 DEF Status
  <2> QED
    BY <2>1, <2>3, <2>4
<1>2. Inv /\ [Next]_vars => Real
  BY <1>1
<1> QED
  BY <1>2, Invariance, PTL DEF Spec, StatusIsReal

\* With remote commands that answer in time, a rollback that gets through gives the host
\* the planet file the switch found, and a running daemon.
THEOREM RollbackWorks ==
  ASSUME "late" \notin Faults
  PROVE  Spec => RollbackUndoesReplacement
<1> DEFINE Undone == \A o \in Ops :
      At(o, "rollbackStart") /\ task'[o].pc = "rowFailed" /\ task[o].saved
      /\ faults' = faults => host'.planet = task[o].found /\ host'.running # None
<1>1. ASSUME Inv, [Next]_vars, NEW o \in Ops, At(o, "rollbackStart"),
             task'[o].pc = "rowFailed", task[o].saved, faults' = faults
      PROVE  host'.planet = task[o].found /\ host'.running # None
  <2>0. /\ Punctual /\ host \in Hosts /\ faults.count \in Nat
        /\ task \in [Ops -> Tasks]
    BY <1>1, AlwaysPunctual, SwitchAssumption DEF Inv, Typed, TypeOK
  <2>1. RollbackStart(o)
    BY <1>1, Starters
  <2>2. ~ Fails(Cmd("start", None)) /\ ~ TimesOut(Cmd("start", None))
    <3>1. Accepts(Cmd("start", None))
      BY DEF Accepts, Cmd
    <3> QED
      BY <1>1, <2>0, <3>1 DEF Fails, TimesOut, FailsIf, Fault
  <2>3. host' = [host EXCEPT !.running = IF @ = None THEN host.planet ELSE @]
    BY <2>0, <2>1, <2>2, Effects DEF RollbackStart, Rollback, Succeeds
  <2>4. host.planet = task[o].found
    BY <1>1, <2>0 DEF Inv, HostOK, View, PlanetKept, At
  <2> QED
    BY <2>0, <2>3, <2>4, SwitchAssumption DEF Hosts, Planets
<1>2. Inv /\ [Next]_vars => Undone
  BY <1>1
<1> QED
  BY <1>2, Invariance, PTL DEF Spec, RollbackUndoesReplacement

\* On a host whose SSH user is root, a switch that nothing went wrong for leaves the daemon
\* running, whether it succeeded or was rolled back.
THEOREM DaemonIsBack == Spec => DaemonComesBack
<1> DEFINE Back == \A o \in Ops :
      task[o].pc \in {"logSuccess", "logFailed"} /\ faults.count = 0 /\ host.root =>
          host.running # None
<1>1. ASSUME Inv, NEW o \in Ops, task[o].pc \in {"logSuccess", "logFailed"},
             faults.count = 0, host.root
      PROVE  host.running # None
  <2>1. Punctual
    BY <1>1 DEF Inv, FaultsOK, Punctual
  <2>2. View(o)
    BY <1>1, <2>1 DEF Inv, HostOK
  <2>3. CASE task[o].pc = "logFailed"
    BY <1>1, <2>2, <2>3 DEF View, DaemonRuns
  <2>4. CASE task[o].pc = "logSuccess"
    <3>1. task[o].target \in Networks
      BY <1>1, <2>4, MarkedPlaces DEF Inv, Typed, TasksFit, Fits, SwitchPcs
    <3> QED
      BY <2>2, <2>4, <3>1, SwitchAssumption DEF View, TargetUp, Done, Reachable
  <2> QED
    BY <1>1, <2>3, <2>4
<1>2. Inv => Back
  BY <1>1
<1> QED
  BY <1>2, Invariance, PTL DEF DaemonComesBack
-----------------------------------------------------------------------------
(* The record of the switches. *)

\* A switch in progress, by its place.
LEMMA SwitchingTask ==
  ASSUME NEW t \in Tasks, Fits(t)
  PROVE  /\ t.kind = "switch"
         /\ ~ (Outside(t.pc) \/ t.pc \in {"load", "prepare", "createLog", "finally"})
         <=> t.pc \in MarkedPcs \cup {"mark"}
<1>0. t.pc \in Pcs
  BY DEF Tasks
<1>1. t.pc \in MarkedPcs \cup {"mark"} => t.kind = "switch"
  BY DEF Fits, SwitchPcs
<1>2. Pcs = MarkedPcs \cup {"mark", "idle", "queued", "load", "prepare", "createLog", "finally",
                            "svcConnect", "svcAct", "svcRead", "svcCatch", "svcWrite", "guard",
                            "write", "done", "lost"}
  BY MarkedPlaces DEF Pcs
<1>3. t.pc \in {"svcConnect", "svcAct", "svcRead", "svcCatch", "svcWrite"} => t.kind # "switch"
  BY DEF Fits, SvcPcs
<1>4. MarkedPcs \cap ({"idle", "queued", "guard", "write", "done", "lost"}
                      \cup {"load", "prepare", "createLog", "finally"}) = {}
  BY MarkedPlaces
<1> QED
  BY <1>0, <1>1, <1>2, <1>3, <1>4 DEF Outside

LEMMA SwitchingPlaces ==
  ASSUME Typed, NEW o \in Ops
  PROVE  /\ Switching(o) <=> task[o].pc \in MarkedPcs \cup {"mark"}
         /\ Switching(o) => Inside(o)
<1>1. task[o] \in Tasks /\ Fits(task[o])
  BY DEF Typed, TypeOK, TasksFit
<1>2. Switching(o) <=> task[o].pc \in MarkedPcs \cup {"mark"}
  BY <1>1, SwitchingTask DEF Switching
<1> QED
  BY <1>2 DEF Inside, InsidePcs, SwitchPcs

\* Where a request that only throws, or only goes on, cannot be given up.
LEMMA GivenUp ==
  ASSUME Typed, NEW o \in Ops, RemoteStep(o), task'[o].pc = "finally"
  PROVE  task[o].catching /\ task[o].pc \in {"listExtra", "leave"}
<1>0. task[o] \in Tasks /\ Fits(task[o]) /\ task \in [Ops -> Tasks]
  BY DEF Typed, TypeOK, TasksFit
<1>1. task[o].catching => task[o].pc \notin {"connect", "prerequisites", "nodeInfo", "stop",
              "backup", "upload", "start", "join", "authorize", "ready", "recover"}
  BY <1>0 DEF Fits, CatchPcs, SvcPcs
<1>2. ASSUME NEW v, Throw(o, v) PROVE task[o].catching
  <2>1. task'[o].pc = IF task[o].catching THEN "finally" ELSE "recover"
    BY <1>0, <1>2 DEF Throw, Tasks
  <2> QED
    BY <2>1
<1>3. ASSUME NEW l, l # "finally" PROVE ~ Go(o, l)
  BY <1>3, GoMoves
<1>4. CASE Connect(o) \/ Prerequisites(o) \/ NodeInfo(o) \/ Authorize(o) \/ AwaitReady(o)
           \/ Cleanup(o)
  BY <1>1, <1>2, <1>3, <1>4 DEF Connect, Prerequisites, NodeInfo, Authorize, AwaitReady, Cleanup,
     At
<1>5. CASE StopDaemon(o) \/ UploadPlanet(o) \/ StartDaemon(o)
  BY <1>1, <1>2, <1>3, <1>5 DEF StopDaemon, UploadPlanet, StartDaemon, Exec, At
<1>6. CASE RollbackStop(o) \/ RollbackRestore(o) \/ RollbackStart(o)
  BY <1>3, <1>6 DEF RollbackStop, RollbackRestore, RollbackStart, Rollback
<1>7. CASE ListExtra(o)
  <2>1. CASE task' = [task EXCEPT ![o].pc = IF Extra(o) = {} THEN ExtraLeft(o) ELSE "leave",
                                  ![o].todo = Extra(o)]
    <3>1. task'[o].pc \in {"cleanup", "stop", "leave"}
      BY <1>0, <2>1, SetMoves DEF Tasks, ExtraLeft
    <3> QED
      BY <3>1
  <2> QED
    BY <1>2, <1>7, <2>1 DEF ListExtra, At
<1>8. CASE LeaveExtra(o)
  <2>1. CASE \E n \in task[o].todo : task' = [task EXCEPT ![o].todo = @ \ {n}]
    <3>1. PICK n \in task[o].todo : task' = [task EXCEPT ![o].todo = @ \ {n}]
      BY <2>1
    <3>2. task'[o] = [task[o] EXCEPT !.todo = @ \ {n}] /\ task[o].pc = "leave"
      BY <1>8, <3>1, SetMoves DEF LeaveExtra, At
    <3> QED
      BY <1>0, <3>2 DEF Tasks
  <2> QED
    BY <1>2, <1>8, <2>1 DEF LeaveExtra, At
<1>9. CASE RecheckExtra(o)
  BY <1>2, <1>3, <1>9 DEF RecheckExtra, ExtraLeft, At
<1>10. CASE BackupPlanet(o)
  <2>1. ~ task' = [task EXCEPT ![o].pc = "upload", ![o].saved = TRUE]
    <3>1. task' = [task EXCEPT ![o].pc = "upload", ![o].saved = TRUE] =>
            task'[o].pc = "upload"
      BY <1>0 DEF Tasks
    <3> QED
      BY <3>1
  <2> QED
    BY <1>1, <1>2, <1>10, <2>1 DEF BackupPlanet, At
<1>11. CASE JoinNetwork(o)
  <2>1. ~ task' = [task EXCEPT ![o].pc = "authorize", ![o].joined = TRUE]
    <3>1. task' = [task EXCEPT ![o].pc = "authorize", ![o].joined = TRUE] =>
            task'[o].pc = "authorize"
      BY <1>0 DEF Tasks
    <3> QED
      BY <3>1
  <2> QED
    BY <1>1, <1>2, <1>11, <2>1 DEF JoinNetwork, At
<1>12. CASE Recover(o)
  <2>1. PICK l \in {"listExtra", "rollbackStop"} :
            task' = [task EXCEPT ![o].pc = l, ![o].catching = TRUE]
    BY <1>12 DEF Recover
  <2>2. task'[o].pc = l
    BY <1>0, <2>1, SetMoves DEF Tasks
  <2> QED
    BY <2>2
<1> QED
  BY <1>4, <1>5, <1>6, <1>7, <1>8, <1>9, <1>10, <1>11, <1>12 DEF RemoteStep

\* However a switch ends, the machine's row and the switch's log say that it is over,
\* unless the database failed, a text was too long, or the fallback of the catch block was
\* struck while it left networks.
THEOREM OutcomesRecorded == Spec => OutcomeIsRecorded
<1> DEFINE Told == \A o \in Ops :
             /\ Switching(o) /\ task'[o].pc = "finally" /\ row.exists
             /\ ~ Happened("db") /\ ~ Happened("verbose")
             /\ ~ (task[o].catching /\ task[o].pc \in {"listExtra", "leave"})
             => row'.sw # "RUNNING" /\ logs'[o] # "RUNNING"
<1>1. ASSUME Inv, [Next]_vars, NEW o \in Ops, Switching(o), task'[o].pc = "finally", row.exists,
             ~ Happened("db"), ~ Happened("verbose"),
             ~ (task[o].catching /\ task[o].pc \in {"listExtra", "leave"})
      PROVE  row'.sw # "RUNNING" /\ logs'[o] # "RUNNING"
  <2>0. /\ Typed /\ Recorded(o) /\ Inside(o) /\ task[o].pc \in MarkedPcs \cup {"mark"}
        /\ row \in Rows /\ logs \in [Ops -> {"none", "RUNNING", "SUCCESS", "FAILED", "deleted"}]
        /\ Fits(task[o])
    BY <1>1, SwitchingPlaces DEF Inv, RecordOK, Typed, TypeOK, TasksFit
  <2>1. logs[o] # "deleted"
    BY <1>1, <2>0 DEF Recorded
  <2>2. ~ RowWriteFails /\ ~ LogWriteFails(o)
    <3>1. ~ Fault("db")
      BY <1>1, <2>0, KindsGrow DEF Happened
    <3> QED
      BY <1>1, <2>1, <3>1 DEF RowWriteFails, LogWriteFails, FailsIf
  <2>4. task'[o] # task[o] /\ ~ Load(o) /\ ~ Finish(o) /\ ~ ServiceStep(o) /\ ~ Crash
    <3>1. task[o].pc \notin {"finally", "load", "svcConnect", "svcAct", "svcRead", "svcCatch",
                             "svcWrite"}
      BY <2>0, MarkedPlaces
    <3> QED
      <4>1. Crash => task'[o] = task[o] \/ task'[o].pc = "lost"
        BY DEF Crash, Blank
      <4>2. "lost" # "finally"
        OBVIOUS
      <4> QED
        BY <1>1, <3>1, <4>1, <4>2 DEF Load, Finish, ServiceStep, SvcConnect, SvcAct, SvcRead,
           SvcCatch, SvcWrite, At
  <2>5. SwitchStep(o) /\ ~ RemoteStep(o)
    BY <1>1, <2>0, <2>4, Mover, GivenUp DEF RemoteStep
  <2>3. ~ task[o].verbose
    BY <1>1, <2>0, <2>5, SwitchRecorded DEF Inv, LogsOf, Recorded, Happened
  <2>6. ~ Prepare(o) /\ ~ CreateLog(o)
    BY <2>0, MarkedPlaces DEF Prepare, CreateLog, At
  <2>7. ~ Mark(o) /\ ~ RowSuccess(o)
    <3>1. task' = [task EXCEPT ![o].pc = "connect", ![o].found = host.planet] =>
            task'[o].pc = "connect"
      BY <2>0 DEF Typed, TypeOK, Tasks
    <3>2. ~ Go(o, "logSuccess")
      BY <1>1, <2>0, GoMoves
    <3> QED
      BY <1>1, <2>2, <3>1, <3>2 DEF Mark, RowSuccess
  <2>8. CASE LogSuccess(o)
    <3>1. row' = row /\ logs' = [logs EXCEPT ![o] = "SUCCESS"]
      BY <2>2, <2>8 DEF LogSuccess, WriteLog
    <3>2. row.sw = "SUCCESS"
      BY <2>0, <2>8 DEF LogSuccess, At, Recorded
    <3> QED
      BY <2>0, <3>1, <3>2
  <2>9. ~ RowFailed(o)
    <3>1. ~ Go(o, "logFailed")
      BY <1>1, <2>0, GoMoves
    <3> QED
      BY <2>2, <2>3, <3>1 DEF RowFailed
  <2>10. CASE LogFailed(o)
    <3>1. row' = row /\ logs' = [logs EXCEPT ![o] = "FAILED"]
      BY <2>2, <2>10 DEF LogFailed, WriteLog
    <3>2. row.sw = "FAILED"
      BY <2>0, <2>10, MarkedPlaces DEF LogFailed, At, Recorded
    <3> QED
      BY <2>0, <3>1, <3>2
  <2> QED
    BY <2>5, <2>6, <2>7, <2>8, <2>9, <2>10 DEF SwitchStep, RemoteStep
<1>2. Inv /\ [Next]_vars => Told
  BY <1>1
<1> QED
  BY <1>2, Invariance, PTL DEF Spec, OutcomeIsRecorded
-----------------------------------------------------------------------------
(* The refinement of MachineSwitch. *)

\* The switch in progress, as the refinement maps it.
Owner == IF \E o \in Ops : Switching(o) THEN CHOOSE o \in Ops : Switching(o) ELSE None

\* There is one switch in progress at most.
LEMMA OwnerIs ==
  ASSUME Typed, QueueOK, NEW o \in Ops, Switching(o)
  PROVE  Owner = o
<1>1. \A p \in Ops : Switching(p) => p = o
  BY SwitchingPlaces, OneInside
<1> QED
  BY <1>1 DEF Owner

LEMMA NoOwner ==
  ASSUME \A o \in Ops : ~ Switching(o) PROVE Owner = None
BY DEF Owner

\* A request inside the lock moves: the switch in progress can only be its own.
LEMMA OwnerMoves ==
  ASSUME Inv, Inv', NEW o \in Ops, Inside(o), Others(o)
  PROVE  /\ Owner = IF Switching(o) THEN o ELSE None
         /\ Owner' = IF Switching(o)' THEN o ELSE None
<1>1. \A p \in Ops \ {o} : ~ Switching(p)
  BY OneInside, SwitchingPlaces DEF Inv
<1>2. \A p \in Ops \ {o} : ~ Switching(p)'
  BY <1>1 DEF Switching, Others
<1>3. Switching(o) => Owner = o
  BY OwnerIs DEF Inv
<1>4. Switching(o)' => Owner' = o
  <2>1. \A p \in Ops : Switching(p)' => p = o
    BY <1>2
  <2> QED
    BY <2>1 DEF Owner
<1> QED
  BY <1>1, <1>2, <1>3, <1>4, NoOwner DEF Owner

\* Requests outside the lock come and go: the switch in progress stays the same.
LEMMA OwnerStays ==
  ASSUME Inv, \A p \in Ops : Switching(p)' <=> Switching(p)
  PROVE  Owner' = Owner
<1>1. CASE \E o \in Ops : Switching(o)
  <2>1. PICK o \in Ops : Switching(o)
    BY <1>1
  <2>2. \A p \in Ops : Switching(p) => p = o
    BY <2>1, SwitchingPlaces, OneInside DEF Inv
  <2>3. \A p \in Ops : Switching(p)' => p = o
    BY <2>2
  <2> QED
    BY <2>1, <2>2, <2>3 DEF Owner
<1>2. CASE ~ \E o \in Ops : Switching(o)
  BY <1>2 DEF Owner
<1> QED
  BY <1>1, <1>2

\* A remote step of a switch, or one that is given up, only ever abandons the record.
LEMMA QuietSimulates ==
  ASSUME Inv, Inv', NEW o \in Ops, Inside(o), Others(o), Quiet(o)
  PROVE  [Record!RecordNext]_(Record!recordVars)
<1>1. Owner = o /\ Owner' \in {o, None}
  BY OwnerMoves, SwitchingPlaces DEF Inv, Quiet
<1>2. o # None
  BY SwitchAssumption
<1>3. CASE Owner' = Owner
  BY <1>3 DEF Quiet, Record!recordVars, Owner
<1>4. CASE Owner' = None
  BY <1>1, <1>2, <1>4 DEF Quiet, Record!RecordNext, Record!Abandon, Owner
<1> QED
  BY <1>1, <1>3, <1>4

\* Nothing of the record changes.
LEMMA SameRecord ==
  ASSUME Inv, \A p \in Ops : Switching(p)' <=> Switching(p),
         row'.exists = row.exists, row'.sw = row.sw, row'.net = row.net, UNCHANGED logs
  PROVE  UNCHANGED Record!recordVars
BY OwnerStays DEF Owner, Record!recordVars

\* The writes of a switch are the steps of MachineSwitch.
LEMMA SwitchSimulates ==
  ASSUME Inv, Inv', NEW o \in Ops, SwitchStep(o) \/ UploadPlanet(o) \/ Load(o)
  PROVE  [Record!RecordNext]_(Record!recordVars)
<1>0. /\ Typed /\ Typed' /\ Inside(o) /\ Others(o) /\ Recorded(o) /\ row \in Rows
      /\ logs \in [Ops -> {"none", "RUNNING", "SUCCESS", "FAILED", "deleted"}]
      /\ o # None /\ Fits(task[o])
  BY InsideStays, SwitchAssumption DEF Inv, RecordOK, Typed, TypeOK, TasksFit
<1>o. /\ Owner = IF task[o].pc \in MarkedPcs \cup {"mark"} THEN o ELSE None
      /\ Owner' = IF task'[o].pc \in MarkedPcs \cup {"mark"} THEN o ELSE None
  <2>1. Switching(o) <=> task[o].pc \in MarkedPcs \cup {"mark"}
    BY <1>0, SwitchingPlaces
  <2>2. Switching(o)' <=> task'[o].pc \in MarkedPcs \cup {"mark"}
    <3>1. task'[o] \in Tasks /\ Fits(task'[o])
      BY <1>0 DEF Typed, TypeOK, TasksFit
    <3> QED
      BY <3>1, SwitchingTask DEF Switching
  <2> QED
    BY <1>0, <2>1, <2>2, OwnerMoves
<1>m. /\ {"rowSuccess", "logSuccess", "rowFailed", "logFailed", "recover", "connect"} \subseteq MarkedPcs
      /\ {"load", "prepare", "createLog", "mark", "finally", "svcConnect"} \cap MarkedPcs = {}
  BY MarkedPlaces
<1>e. row.exists => logs[o] # "deleted"
  BY <1>0 DEF Recorded
<1>g. ASSUME NEW l, Go(o, l) PROVE task'[o].pc = l
  BY <1>0, <1>g, GoMoves
<1>s. ASSUME Owner' = Owner, UNCHANGED <<row, logs>>
      PROVE  UNCHANGED Record!recordVars
  BY <1>s DEF Owner, Record!recordVars
<1>a. ASSUME Owner # None, Owner' = None, UNCHANGED <<row, logs>>
      PROVE  Record!RecordNext
  BY <1>a DEF Owner, Record!RecordNext, Record!Abandon
<1>1. CASE RemoteStep(o)
  BY <1>0, <1>1, QuietSteps, QuietSimulates
<1>2. CASE Load(o) \/ Prepare(o)
  <2>1. /\ UNCHANGED <<row, logs>> /\ task[o].pc \in {"load", "prepare"}
        /\ \E l \in {"finally", "prepare", "svcConnect", "createLog"} : Go(o, l)
    BY <1>2 DEF Load, Prepare, db, At
  <2> QED
    BY <1>g, <1>m, <1>o, <1>s, <2>1
<1>3. CASE CreateLog(o)
  <2>1. task[o].pc = "createLog" /\ logs[o] = "none" /\ row.sw # "RUNNING" /\ Owner = None
    BY <1>0, <1>3, <1>m, <1>o DEF CreateLog, Recorded, At
  <2>2. CASE row.exists /\ WriteLog(o, "RUNNING") /\ Go(o, "mark")
    <3>1. Owner' = o /\ row' = row /\ logs' = [logs EXCEPT ![o] = "RUNNING"]
      BY <1>g, <1>o, <2>2 DEF WriteLog
    <3>2. Record!Open(o)
      BY <2>1, <2>2, <3>1 DEF Record!Open, Owner
    <3> QED
      BY <3>2 DEF Record!RecordNext
  <2>3. CASE RowWriteFails /\ Go(o, "finally")
    BY <1>g, <1>m, <1>o, <1>s, <2>1, <2>3, Writes, <1>0
  <2> QED
    BY <1>3, <2>2, <2>3 DEF CreateLog
<1>4. CASE Mark(o)
  <2>1. task[o].pc = "mark" /\ logs[o] \in {"RUNNING", "deleted"} /\ row.sw # "RUNNING"
        /\ Owner = o
    BY <1>0, <1>4, <1>m, <1>o DEF Mark, Recorded, At
  <2>2. CASE /\ WriteRow([row EXCEPT !.sw = "RUNNING"])
             /\ task' = [task EXCEPT ![o].pc = "connect", ![o].found = host.planet]
    <3>1. task'[o].pc = "connect"
      BY <1>0, <2>2 DEF Typed, TypeOK, Tasks
    <3>2. Owner' = o /\ row.exists /\ logs' = logs
      BY <1>m, <1>o, <2>2, <3>1 DEF WriteRow
    <3>3. row'.sw = "RUNNING" /\ row'.exists = row.exists /\ row'.net = row.net
      BY <1>0, <2>2 DEF WriteRow, Rows
    <3>4. Record!Begin(o)
      BY <1>e, <2>1, <3>2, <3>3 DEF Record!Begin, Owner
    <3> QED
      BY <3>4 DEF Record!RecordNext
  <2>3. CASE RowWriteFails /\ Go(o, "finally")
    BY <1>0, <1>a, <1>g, <1>m, <1>o, <2>1, <2>3, Writes
  <2> QED
    BY <1>4, <2>2, <2>3 DEF Mark
<1>5. CASE RowSuccess(o)
  <2>1. task[o].pc = "rowSuccess" /\ logs[o] \in {"RUNNING", "deleted"} /\ Owner = o
        /\ row.sw \in {"RUNNING", "SUCCESS"} /\ task[o].target \in Networks
    BY <1>0, <1>5, <1>m, <1>o DEF RowSuccess, Recorded, At, Fits, SwitchPcs
  <2>2. CASE /\ WriteRow([row EXCEPT !.sw = "SUCCESS", !.net = task[o].target,
                                     !.zt = "RUNNING", !.on = host.at])
             /\ Go(o, "logSuccess")
    <3>1. row' = [row EXCEPT !.sw = "SUCCESS", !.net = task[o].target, !.zt = "RUNNING",
                        !.on = host.at]
          /\ row.exists /\ logs' = logs
      BY <2>2 DEF WriteRow
    <3>2. row'.sw = "SUCCESS" /\ row'.exists = row.exists /\ row'.net = task[o].target
      BY <1>0, <3>1 DEF Rows
    <3>3. Owner' = o
      BY <1>g, <1>m, <1>o, <2>2
    <3>4. Record!Succeed(o)
      BY <1>e, <2>1, <3>1, <3>2, <3>3 DEF Record!Succeed, Owner
    <3> QED
      BY <3>4 DEF Record!RecordNext
  <2>3. CASE RowWriteFails /\ Throw(o, FALSE)
    BY <1>0, <1>m, <2>1, <2>3, Writes, QuietThrow, QuietSimulates
  <2> QED
    BY <1>5, <2>2, <2>3 DEF RowSuccess
<1>6. CASE LogSuccess(o)
  <2>1. task[o].pc = "logSuccess" /\ logs[o] \in {"RUNNING", "deleted"} /\ Owner = o
        /\ row.sw = "SUCCESS"
    BY <1>0, <1>6, <1>m, <1>o DEF LogSuccess, Recorded, At
  <2>2. CASE WriteLog(o, "SUCCESS") /\ Go(o, "finally")
    <3>1. Owner' = None /\ row' = row /\ logs' = [logs EXCEPT ![o] = "SUCCESS"]
          /\ logs[o] # "deleted"
      BY <1>g, <1>m, <1>o, <2>2 DEF WriteLog
    <3>2. Record!Close(o)
      BY <2>1, <3>1 DEF Record!Close, Owner
    <3> QED
      BY <3>2 DEF Record!RecordNext
  <2>3. CASE LogWriteFails(o) /\ Throw(o, FALSE)
    BY <1>0, <1>m, <2>1, <2>3, Writes, QuietThrow, QuietSimulates
  <2> QED
    BY <1>6, <2>2, <2>3 DEF LogSuccess
<1>7. CASE RowFailed(o)
  <2>1. task[o].pc = "rowFailed" /\ logs[o] \in {"RUNNING", "deleted"} /\ Owner = o
        /\ row.sw \in {"RUNNING", "SUCCESS"}
    BY <1>0, <1>7, <1>m, <1>o DEF RowFailed, Recorded, At
  <2>2. CASE WriteRow([row EXCEPT !.sw = "FAILED"]) /\ Go(o, "logFailed")
    <3>1. row' = [row EXCEPT !.sw = "FAILED"] /\ row.exists /\ logs' = logs
      BY <2>2 DEF WriteRow
    <3>2. row'.sw = "FAILED" /\ row'.exists = row.exists /\ row'.net = row.net
      BY <1>0, <3>1 DEF Rows
    <3>3. Owner' = o
      BY <1>g, <1>m, <1>o, <2>2
    <3>4. Record!Fail(o)
      BY <1>e, <2>1, <3>1, <3>2, <3>3 DEF Record!Fail, Owner
    <3> QED
      BY <3>4 DEF Record!RecordNext
  <2>3. CASE Go(o, "finally") /\ (RowWriteFails \/ (UNCHANGED db /\ NoFault))
    <3>1. UNCHANGED <<row, logs>> /\ Owner' = None
      BY <1>g, <1>m, <1>o, <2>3 DEF RowWriteFails, db
    <3> QED
      BY <1>0, <1>a, <2>1, <3>1
  <2> QED
    BY <1>7, <2>2, <2>3 DEF RowFailed
<1>8. CASE LogFailed(o)
  <2>1. task[o].pc = "logFailed" /\ logs[o] \in {"RUNNING", "deleted"} /\ Owner = o
        /\ row.sw = "FAILED" /\ Owner' = None
    BY <1>0, <1>8, <1>g, <1>m, <1>o DEF LogFailed, Recorded, At
  <2>2. CASE WriteLog(o, "FAILED")
    <3>1. row' = row /\ logs' = [logs EXCEPT ![o] = "FAILED"] /\ logs[o] # "deleted"
      BY <2>2 DEF WriteLog
    <3>2. Record!Close(o)
      BY <2>1, <3>1 DEF Record!Close, Owner
    <3> QED
      BY <3>2 DEF Record!RecordNext
  <2>3. CASE LogWriteFails(o)
    BY <1>0, <1>a, <2>1, <2>3 DEF LogWriteFails, db
  <2> QED
    BY <1>8, <2>2, <2>3 DEF LogFailed
<1> QED
  BY <1>1, <1>2, <1>3, <1>4, <1>5, <1>6, <1>7, <1>8 DEF SwitchStep, RemoteStep

\* Where a service action goes on.
LEMMA ServiceMoves ==
  ASSUME Typed, NEW o \in Ops, ServiceStep(o)
  PROVE  task'[o].pc \in {"finally", "svcAct", "svcRead", "svcCatch", "svcWrite"}
<1>1. CASE SvcConnect(o)
  <2>1. task' = [task EXCEPT ![o].pc = "svcWrite", ![o].seen = "UNKNOWN",
                             ![o].catching = TRUE] => task'[o].pc = "svcWrite"
    BY DEF Typed, TypeOK, Tasks
  <2> QED
    BY <1>1, <2>1, GoMoves DEF SvcConnect
<1>2. CASE SvcAct(o)
  BY <1>2, GoMoves DEF SvcAct
<1>3. CASE SvcRead(o)
  BY <1>3, GoMoves DEF SvcRead
<1>4. CASE SvcCatch(o)
  BY <1>4, GoMoves DEF SvcCatch
<1>5. CASE SvcWrite(o)
  BY <1>5, GoMoves DEF SvcWrite
<1> QED
  BY <1>1, <1>2, <1>3, <1>4, <1>5 DEF ServiceStep

\* A service action is not part of the record, nor are requests outside the lock, but for
\* the removal of the machine.
LEMMA StepSimulates ==
  ASSUME Inv, Inv', [Next]_vars
  PROVE  [Record!RecordNext]_(Record!recordVars)
<1>0. task \in [Ops -> Tasks] /\ row \in Rows /\ Typed /\ Typed' /\ RecordOK
  BY DEF Inv, Typed, TypeOK
<1>n. ASSUME NEW pc \in {"idle", "queued", "guard", "write", "done", "lost", "load", "prepare",
                         "createLog", "finally", "svcConnect", "svcAct", "svcRead", "svcCatch",
                         "svcWrite"}
      PROVE  /\ pc \notin MarkedPcs \cup {"mark"}
  BY MarkedPlaces
<1>w. ASSUME NEW o \in Ops PROVE /\ Switching(o) <=> task[o].pc \in MarkedPcs \cup {"mark"}
                                 /\ Switching(o)' <=> task'[o].pc \in MarkedPcs \cup {"mark"}
  <2>1. task'[o] \in Tasks /\ Fits(task'[o])
    BY <1>0 DEF Typed, TypeOK, TasksFit
  <2> QED
    BY <1>0, <2>1, SwitchingPlaces, SwitchingTask DEF Switching
\* A request that is no switch in progress, before and after.
<1>i. ASSUME NEW o \in Ops, Others(o), task[o].pc \notin MarkedPcs \cup {"mark"},
             task'[o].pc \notin MarkedPcs \cup {"mark"}
      PROVE  \A p \in Ops : Switching(p)' <=> Switching(p)
  BY <1>i, <1>w DEF Others
<1>1. ASSUME NEW o \in Ops, Load(o) \/ SwitchStep(o) \/ UploadPlanet(o)
      PROVE  [Record!RecordNext]_(Record!recordVars)
  BY <1>1, SwitchSimulates
<1>2. ASSUME NEW o \in Ops, ServiceStep(o) PROVE UNCHANGED Record!recordVars
  <2>1. /\ row'.exists = row.exists /\ row'.sw = row.sw /\ row'.net = row.net
        /\ Others(o)
    BY <1>0, <1>2, ServiceRecorded, InsideStays DEF LogsOf
  <2>2. UNCHANGED logs
    BY <1>2 DEF ServiceStep, SvcConnect, SvcAct, SvcRead, SvcCatch, SvcWrite, db, WriteRow,
       RowWriteFails
  <2>3. task[o].pc \in {"svcConnect", "svcAct", "svcRead", "svcCatch", "svcWrite"}
    BY <1>2 DEF ServiceStep, SvcConnect, SvcAct, SvcRead, SvcCatch, SvcWrite, At
  <2>4. task'[o].pc \in {"finally", "svcAct", "svcRead", "svcCatch", "svcWrite"}
    BY <1>0, <1>2, ServiceMoves
  <2> QED
    BY <1>i, <1>n, <2>1, <2>2, <2>3, <2>4, SameRecord
<1>3. ASSUME NEW o \in Ops, Call(o) \/ Enter(o) \/ Finish(o) \/ Guard(o) \/ Edit(o) \/ Remove(o)
      PROVE  [Record!RecordNext]_(Record!recordVars)
  <2>1. Others(o)
    BY <1>0, <1>3 DEF Call, Enter, Finish, Guard, Edit, Remove, Go, Others
  <2>2. /\ task[o].pc \in {"idle", "queued", "finally", "guard", "write"}
        /\ task'[o].pc \in {"queued", "guard", "load", "done", "write"}
    BY <1>0, <1>3, GoMoves DEF Call, Enter, Finish, Guard, Edit, Remove, At, Blank
  <2>3. \A p \in Ops : Switching(p)' <=> Switching(p)
    BY <1>i, <1>n, <2>1, <2>2
  <2>4. CASE /\ row.exists /\ row' = [row EXCEPT !.exists = FALSE]
             /\ logs' = [p \in Ops |-> IF logs[p] = "none" THEN "none" ELSE "deleted"]
    <3>1. ~ row'.exists /\ row'.sw = row.sw /\ row'.net = row.net
      BY <1>0, <2>4 DEF Rows
    <3>2. Owner' = Owner
      BY <2>3, OwnerStays
    <3>3. Record!Delete
      <4>1. row'.exists = FALSE
        BY <1>0, <2>4 DEF Rows
      <4> QED
        BY <2>4, <3>1, <3>2, <4>1 DEF Record!Delete, Owner
    <3> QED
      BY <3>3 DEF Record!RecordNext
  <2>5. CASE UNCHANGED <<row, logs>>
    BY <2>3, <2>5, SameRecord
  <2>6. CASE UNCHANGED logs /\ \E e \in BOOLEAN, a \in {row.addr, row.addr + 1} :
                                  row' = [row EXCEPT !.enabled = e, !.addr = a]
    <3>1. row'.exists = row.exists /\ row'.sw = row.sw /\ row'.net = row.net
      BY <1>0, <2>6 DEF Rows
    <3> QED
      BY <2>3, <2>6, <3>1, SameRecord
  <2> QED
    BY <1>3, <2>4, <2>5, <2>6 DEF Call, Enter, Finish, Guard, Edit, Remove, db, WriteRow,
       RowWriteFails
<1>4. CASE Crash
  <2>1. \A o \in Ops : task'[o].pc \in {"idle", "done", "lost"}
    BY <1>4 DEF Crash, Blank
  <2>2. \A o \in Ops : ~ Switching(o)'
    BY <1>n, <1>w, <2>1
  <2>3. Owner' = None
    BY <2>2 DEF Owner
  <2>4. UNCHANGED <<row, logs>>
    BY <1>4 DEF Crash, db
  <2>5. CASE Owner = None
    BY <2>3, <2>4, <2>5 DEF Owner, Record!recordVars
  <2>6. CASE Owner # None
    BY <2>3, <2>4, <2>6 DEF Owner, Record!RecordNext, Record!Abandon
  <2> QED
    BY <2>5, <2>6
<1>5. CASE LateCommand \/ LoseLateCommand \/ UNCHANGED vars
  <2>1. UNCHANGED <<row, logs, task>>
    BY <1>5 DEF LateCommand, LoseLateCommand, vars, db
  <2> QED
    BY <2>1, SameRecord DEF Switching
<1> QED
  BY <1>1, <1>2, <1>3, <1>4, <1>5 DEF Next, Step

\* The rows and logs of the database change only as MachineSwitch says, whatever fails,
\* times out, or is restarted.
THEOREM Refinement == Spec => ImplementsMachineSwitch
<1>1. Init => Record!RecordInit
  <2> SUFFICES ASSUME Init PROVE Record!RecordInit
    OBVIOUS
  <2>1. \A o \in Ops : ~ Switching(o)
    BY DEF Init, Switching, Outside, Blank
  <2> QED
    BY <2>1 DEF Init, Record!RecordInit
<1> QED
  BY <1>1, StepSimulates, Invariance, PTL DEF Spec, ImplementsMachineSwitch, Record!RecordSpec
=============================================================================
