--------------------------- MODULE SwitchNetwork ----------------------------
(***************************************************************************)
(* TestMachinesService as seen by one test machine: the network switch,    *)
(* the ZeroTier service check / start / stop, and the edits and the        *)
(* removal of the machine's record, with the remote host they drive over   *)
(* SSH.  The first two kinds run under the machine's lock (FifoLock), the  *)
(* last two do not.                                                        *)
(*                                                                         *)
(* Every await of the handlers is the end of a step, so that the requests  *)
(* interleave as they do on the event loop.                                *)
(***************************************************************************)
EXTENDS Naturals

CONSTANTS
    Ops,            \* the requests of a behaviour; each is made at most once
    Kinds,          \* the kinds of request made, a subset of AllKinds
    Networks,       \* the networks a request may switch to
    Controllers,
    ControllerOf,   \* which controller serves a network
    Stock,          \* the planet file ZeroTier ships with
    None,
    Faults,         \* the kinds of failure that may happen, of AllFaults
    MaxFaults       \* and how many of them a behaviour has at most

AllKinds == {"switch", "check", "start", "stop", "edit", "remove"}

\* "ssh"     a remote command or connection fails without effect
\* "verbose" a remote command fails with an error text of over 255 characters
\* "late"    a remote command times out, to take effect later or never
\* "db"      a database write fails
\* "crash"   the server process dies and is restarted
AllFaults == {"ssh", "verbose", "late", "db", "crash"}

ASSUME SwitchAssumption ==
    /\ Kinds \subseteq AllKinds /\ Faults \subseteq AllFaults
    /\ MaxFaults \in Nat
    /\ ControllerOf \in [Networks -> Controllers]
    /\ Stock \notin Controllers
    /\ None \notin Ops \cup Controllers \cup Networks \cup {Stock}

VARIABLES
    task,   \* the local state of each request
    row,    \* the machine's TestMachine row; `addr' numbers the login it gives (host,
            \* port, user), `on' (history) the one the last success was obtained with
    logs,   \* the status of the TestMachineSwitchLog row each request created
    host,   \* the test machine: planet file, its backup, the planet the
            \* running daemon uses (None: stopped), the networks it is joined to,
            \* whether the SSH user is root or needs `sudo -n', and the number of
            \* the login it was reached with
    authd,  \* the networks whose controller lists the machine as authorised
    late,   \* commands that timed out and may still take effect
    ahead,  \* the queue of the machine's lock
    faults  \* how many failures have happened, and of which kinds

vars == <<task, row, logs, host, authd, late, ahead, faults>>
db == <<row, logs>>
remote == <<host, authd, late>>

Planets == Controllers \cup {Stock}
LockedKinds == AllKinds \ {"edit", "remove"}
At(o, l) == task[o].pc = l
Outside(pc) == pc \in {"idle", "queued", "guard", "write", "done", "lost"}

Blank == [pc |-> "idle", kind |-> None, target |-> None, todo |-> {},
          joined |-> FALSE, catching |-> FALSE, verbose |-> FALSE,
          seen |-> None, found |-> None, saved |-> FALSE]

Lock == INSTANCE FifoLock WITH
    Requests <- Ops, Keys <- {"machine"},
    phase <- [o \in Ops |-> IF At(o, "queued") THEN "queued"
                            ELSE IF Outside(task[o].pc) THEN "outside" ELSE "inside"],
    keyOf <- [o \in Ops |-> "machine"]

\* A machine that no switch has touched yet.
Untouched(a) == [planet : {Stock}, backup : {None}, running : {Stock, None},
                 joined : SUBSET Networks, root : BOOLEAN, at : {a}]

Init ==
    /\ task = [o \in Ops |-> Blank]
    /\ row = [exists |-> TRUE, enabled |-> TRUE, sw |-> "IDLE", net |-> None,
              zt |-> "UNKNOWN", addr |-> 0, on |-> 0]
    /\ logs = [o \in Ops |-> "none"]
    /\ host \in Untouched(0)
    /\ authd = {}
    /\ late = {}
    /\ ahead = [o \in Ops |-> {}]
    /\ faults = [count |-> 0, kinds |-> {}]

Go(o, l) == task' = [task EXCEPT ![o].pc = l]
Fault(f) ==
    /\ f \in Faults /\ faults.count < MaxFaults
    /\ faults' = [count |-> faults.count + 1, kinds |-> faults.kinds \cup {f}]
NoFault == UNCHANGED faults
FailsIf(condition, f) == (condition /\ NoFault) \/ Fault(f)
-----------------------------------------------------------------------------
(* The remote host. *)

Cmd(do, arg) == [do |-> do, arg |-> arg]

\* Does the command end with exit code 0?  zerotier-cli needs the daemon; the
\* `if ...; then ...; fi' commands are a syntax error behind the sudo prefix.
Accepts(c) ==
    /\ c.do \in {"join", "leave"} => host.running # None
    /\ c.do \in {"backup", "restore"} => host.root

Effect(c) ==
    CASE c.do = "stop" -> [host EXCEPT !.running = None]
      [] c.do = "start" -> [host EXCEPT !.running = IF @ = None THEN host.planet ELSE @]
      [] c.do = "backup" -> [host EXCEPT !.backup = host.planet]
      [] c.do = "restore" -> [host EXCEPT !.planet = IF host.backup = None THEN @ ELSE host.backup]
      [] c.do = "upload" -> [host EXCEPT !.planet = c.arg]
      [] c.do = "join" -> [host EXCEPT !.joined = @ \cup {c.arg}]
      [] c.do = "leave" -> [host EXCEPT !.joined = @ \ {c.arg}]

\* session.exec: the command runs; or it fails; or it is given up on.
Succeeds(c) == Accepts(c) /\ host' = Effect(c) /\ UNCHANGED late /\ NoFault
Fails(c) ==
    /\ UNCHANGED <<host, late>>
    /\ FailsIf(~ Accepts(c), "ssh")
TimesOut(c) == late' = late \cup {c} /\ UNCHANGED host /\ Fault("late")

\* An error thrown inside the switch's try block, or inside its catch block.
Throw(o, verbose) ==
    task' = [task EXCEPT ![o].pc = IF task[o].catching THEN "finally" ELSE "recover",
                         ![o].verbose = verbose]

Exec(o, c, next) ==
    /\ \/ Succeeds(c) /\ Go(o, next)
       \/ (Fails(c) \/ TimesOut(c)) /\ Throw(o, FALSE)
       \/ Fault("verbose") /\ UNCHANGED <<host, late>> /\ Throw(o, TRUE)
    /\ UNCHANGED <<authd, db, ahead>>

\* A command that was given up on takes effect after all, or is lost.
LateCommand ==
    /\ \E c \in late :
        /\ late' = late \ {c}
        /\ host' = IF Accepts(c) THEN Effect(c) ELSE host
    /\ UNCHANGED <<task, db, authd, ahead, faults>>

LoseLateCommand ==
    /\ \E c \in late : late' = late \ {c}
    /\ UNCHANGED <<task, db, host, authd, ahead, faults>>

\* Network t of the host can be in status OK.
Reachable(t) ==
    t \in host.joined /\ host.running = ControllerOf[t] /\ t \in authd
-----------------------------------------------------------------------------
(* The lock and the guards. *)

\* A switch arrives here once the network's visibility is checked.
Call(o) ==
    /\ At(o, "idle")
    /\ \E k \in Kinds, t \in Networks \cup {None} :
        /\ k = "switch" <=> t # None
        /\ task' = [task EXCEPT ![o] = [Blank EXCEPT
                !.pc = IF k \in LockedKinds THEN "queued" ELSE "guard",
                !.kind = k, !.target = t]]
        /\ IF k \in LockedKinds THEN Lock!Ask(o, "machine") ELSE UNCHANGED ahead
    /\ UNCHANGED <<db, remote, faults>>

Enter(o) ==
    /\ At(o, "queued")
    /\ Go(o, "load")
    /\ Lock!Admit(o)
    /\ UNCHANGED <<ahead, db, remote, faults>>

\* A request drives the host of the login it reads, to its end.  After an edit of the
\* login that is another machine, or the same one with another user.
Reaches ==
    \/ row.addr = host.at /\ UNCHANGED remote
    \/ row.addr # host.at /\ host' \in Untouched(row.addr) /\ authd' = {} /\ late' = {}
    \/ /\ row.addr # host.at /\ UNCHANGED <<authd, late>>
       /\ \E r \in BOOLEAN : host' = [host EXCEPT !.root = r, !.at = row.addr]

\* Mutant of Load: a row that is RUNNING is not turned away.
LoadUnguarded(o) ==
    /\ At(o, "load")
    /\ IF ~ row.exists \/ (task[o].kind = "switch" /\ ~ row.enabled)
         THEN Go(o, "finally") /\ UNCHANGED remote
         ELSE Go(o, IF task[o].kind = "switch" THEN "prepare" ELSE "svcConnect") /\ Reaches
    /\ UNCHANGED <<db, ahead, faults>>

\* findMachineEntity and the checks on what it read.
Load(o) ==
    /\ At(o, "load")
    /\ IF ~ row.exists \/ row.sw = "RUNNING" \/ (task[o].kind = "switch" /\ ~ row.enabled)
         THEN Go(o, "finally") /\ UNCHANGED remote
         ELSE Go(o, IF task[o].kind = "switch" THEN "prepare" ELSE "svcConnect") /\ Reaches
    /\ UNCHANGED <<db, ahead, faults>>

\* Mutant of Finish: the lock is released only by a request that succeeded.
FinishOnSuccess(o) ==
    /\ At(o, "finally")
    /\ task' = [task EXCEPT ![o] = [Blank EXCEPT !.pc = "done", !.kind = task[o].kind,
                                                 !.target = task[o].target]]
    /\ IF task[o].catching THEN UNCHANGED ahead ELSE Lock!Leave(o)
    /\ UNCHANGED <<db, remote, faults>>

\* Everything is over: the session is closed and the lock released.
Finish(o) ==
    /\ At(o, "finally")
    /\ task' = [task EXCEPT ![o] = [Blank EXCEPT !.pc = "done", !.kind = task[o].kind,
                                                 !.target = task[o].target]]
    /\ Lock!Leave(o)
    /\ UNCHANGED <<db, remote, faults>>

\* A write of the machine's row (of the log's row): P2025 when it is gone.
WriteRow(new) == row.exists /\ row' = new /\ UNCHANGED logs /\ NoFault
RowWriteFails == FailsIf(~ row.exists, "db") /\ UNCHANGED db
WriteLog(o, s) ==
    /\ logs[o] # "deleted"
    /\ logs' = [logs EXCEPT ![o] = s]
    /\ UNCHANGED row /\ NoFault
LogWriteFails(o) == FailsIf(logs[o] = "deleted", "db") /\ UNCHANGED db
-----------------------------------------------------------------------------
(* switchNetwork. *)

\* Controller, planet file and network are read, or one of them cannot be.
Prepare(o) ==
    /\ At(o, "prepare")
    /\ Go(o, "createLog") \/ Go(o, "finally")
    /\ UNCHANGED <<db, remote, ahead, faults>>

CreateLog(o) ==
    /\ At(o, "createLog")
    /\ \/ row.exists /\ WriteLog(o, "RUNNING") /\ Go(o, "mark")
       \/ RowWriteFails /\ Go(o, "finally")
    /\ UNCHANGED <<remote, ahead>>

\* Mutant of Mark: only the log says that the switch runs.
MarkLogOnly(o) ==
    /\ At(o, "mark")
    /\ \/ /\ WriteRow(row)
          /\ task' = [task EXCEPT ![o].pc = "connect", ![o].found = host.planet]
       \/ RowWriteFails /\ Go(o, "finally")
    /\ UNCHANGED <<remote, ahead>>

Mark(o) ==
    /\ At(o, "mark")
    /\ \/ /\ WriteRow([row EXCEPT !.sw = "RUNNING"])
          /\ task' = [task EXCEPT ![o].pc = "connect", ![o].found = host.planet]
       \/ RowWriteFails /\ Go(o, "finally")
    /\ UNCHANGED <<remote, ahead>>

\* Without a session there is nothing to recover or roll back.
Connect(o) ==
    /\ At(o, "connect")
    /\ \/ Go(o, "prerequisites") /\ NoFault
       \/ Go(o, "rowFailed") /\ Fault("ssh")
    /\ UNCHANGED <<db, remote, ahead>>

\* `sudo -n command -v ...' works only where `command' is also a program.
Prerequisites(o) ==
    /\ At(o, "prerequisites")
    /\ \/ Go(o, "nodeInfo") /\ NoFault
       \/ Throw(o, FALSE) /\ FailsIf(~ host.root, "ssh")
    /\ UNCHANGED <<db, remote, ahead>>

\* zerotier-cli info: the node id, from a running daemon only.
NodeInfo(o) ==
    /\ At(o, "nodeInfo")
    /\ \/ host.running # None /\ Go(o, "listExtra") /\ NoFault
       \/ Throw(o, FALSE) /\ FailsIf(host.running = None, "ssh")
    /\ UNCHANGED <<db, remote, ahead>>

\* leaveRemoteExtraNetworks: before the planet is replaced, after the target
\* network is up, and in the catch block.
Extra(o) == host.joined \ {task[o].target}
ExtraLeft(o) == IF task[o].joined THEN "cleanup" ELSE "stop"

ListExtra(o) ==
    /\ At(o, "listExtra")
    /\ \/ /\ host.running # None /\ NoFault
          /\ task' = [task EXCEPT ![o].pc = IF Extra(o) = {} THEN ExtraLeft(o) ELSE "leave",
                                  ![o].todo = Extra(o)]
       \/ Throw(o, FALSE) /\ FailsIf(host.running = None, "ssh")
    /\ UNCHANGED <<db, remote, ahead>>

\* leaveRemoteNetwork: the exit code is ignored; the network must be gone, or
\* unreadable, within five polls.
LeaveExtra(o) ==
    /\ At(o, "leave")
    /\ \E n \in task[o].todo :
        LET gone == [task EXCEPT ![o].todo = @ \ {n}]
        IN  \/ Succeeds(Cmd("leave", n)) /\ task' = gone
            \/ Fails(Cmd("leave", n)) /\ (Throw(o, FALSE) \/ task' = gone)
            \/ TimesOut(Cmd("leave", n)) /\ Throw(o, FALSE)
    /\ UNCHANGED <<authd, db, ahead>>

RecheckExtra(o) ==
    /\ At(o, "leave")
    /\ task[o].todo = {}
    /\ \/ host.running # None /\ Extra(o) = {} /\ Go(o, ExtraLeft(o)) /\ NoFault
       \/ Throw(o, FALSE) /\ FailsIf(host.running = None \/ Extra(o) # {}, "ssh")
    /\ UNCHANGED <<db, remote, ahead>>

StopDaemon(o) == At(o, "stop") /\ Exec(o, Cmd("stop", None), "backup")

\* Mutant of BackupPlanet: an existing backup is kept (cp -n).
BackupPlanetOnce(o) ==
    /\ At(o, "backup")
    /\ LET c == Cmd("backup", None) IN
        \/ /\ IF host.backup = None THEN Succeeds(c) ELSE UNCHANGED <<host, late, faults>>
           /\ task' = [task EXCEPT ![o].pc = "upload", ![o].saved = TRUE]
        \/ (Fails(c) \/ TimesOut(c)) /\ Throw(o, FALSE)
    /\ UNCHANGED <<authd, db, ahead>>

BackupPlanet(o) ==
    /\ At(o, "backup")
    /\ LET c == Cmd("backup", None) IN
        \/ Succeeds(c) /\ task' = [task EXCEPT ![o].pc = "upload", ![o].saved = TRUE]
        \/ (Fails(c) \/ TimesOut(c)) /\ Throw(o, FALSE)
    /\ UNCHANGED <<authd, db, ahead>>

UploadPlanet(o) ==
    At(o, "upload") /\ Exec(o, Cmd("upload", ControllerOf[task[o].target]), "start")

StartDaemon(o) == At(o, "start") /\ Exec(o, Cmd("start", None), "join")

JoinNetwork(o) ==
    /\ At(o, "join")
    /\ LET c == Cmd("join", task[o].target) IN
        \/ Succeeds(c) /\ task' = [task EXCEPT ![o].pc = "authorize", ![o].joined = TRUE]
        \/ (Fails(c) \/ TimesOut(c)) /\ Throw(o, FALSE)
    /\ UNCHANGED <<authd, db, ahead>>

\* waitForMemberAndAuthorize: within fifteen polls the controller lists the
\* member and authorises it, or the host says that the network is up.
Authorize(o) ==
    LET t == task[o].target
        listed == t \in authd \/ (t \in host.joined /\ host.running = ControllerOf[t])
    IN  /\ At(o, "authorize")
        /\ \/ listed /\ authd' = authd \cup {t} /\ Go(o, "ready")
           \/ Reachable(t) /\ UNCHANGED authd /\ Go(o, "ready")
           \/ /\ authd' \in {authd} \cup (IF listed THEN {authd \cup {t}} ELSE {})
              /\ Throw(o, FALSE)
        /\ UNCHANGED <<db, host, late, ahead, faults>>

\* waitForRemoteNetworkReady: the same for the status OK.
AwaitReady(o) ==
    /\ At(o, "ready")
    /\ \/ Reachable(task[o].target) /\ Go(o, "listExtra")
       \/ Throw(o, FALSE)
    /\ UNCHANGED <<db, remote, ahead, faults>>

\* cleanupDuplicateMembersAcrossNetworks: what cannot be deleted stays.
Cleanup(o) ==
    /\ At(o, "cleanup")
    /\ \E gone \in SUBSET {n \in authd \ {task[o].target} :
                            ControllerOf[n] = ControllerOf[task[o].target]} :
        authd' = authd \ gone
    /\ Go(o, "rowSuccess")
    /\ UNCHANGED <<db, host, late, ahead, faults>>

\* completeSwitchSuccess: first the machine's row, then the log's.
RowSuccess(o) ==
    /\ At(o, "rowSuccess")
    /\ \/ /\ WriteRow([row EXCEPT !.sw = "SUCCESS", !.net = task[o].target,
                                  !.zt = "RUNNING", !.on = host.at])
          /\ Go(o, "logSuccess")
       \/ RowWriteFails /\ Throw(o, FALSE)
    /\ UNCHANGED <<remote, ahead>>

LogSuccess(o) ==
    /\ At(o, "logSuccess")
    /\ \/ WriteLog(o, "SUCCESS") /\ Go(o, "finally")
       \/ LogWriteFails(o) /\ Throw(o, FALSE)
    /\ UNCHANGED <<remote, ahead>>

\* Mutant of Recover: a join that went through counts as switched.
RecoverUnchecked(o) ==
    /\ At(o, "recover")
    /\ task' = [task EXCEPT ![o].pc = IF task[o].joined THEN "listExtra" ELSE "rollbackStop",
                            ![o].catching = TRUE]
    /\ UNCHANGED <<db, remote, ahead, faults>>

\* The catch block: a host that reached the target network after all counts as
\* switched; otherwise the planet is rolled back.
Recover(o) ==
    /\ At(o, "recover")
    /\ \/ /\ task[o].joined /\ Reachable(task[o].target)
          /\ task' = [task EXCEPT ![o].pc = "listExtra", ![o].catching = TRUE]
       \/ task' = [task EXCEPT ![o].pc = "rollbackStop", ![o].catching = TRUE]
    /\ UNCHANGED <<db, remote, ahead, faults>>

\* rollbackPlanet: what it throws is only logged, and ends it.  The exit codes
\* of systemctl are ignored.
Rollback(o, from, c, next) ==
    /\ At(o, from)
    /\ \/ Succeeds(c) /\ Go(o, next)
       \/ c.do # "restore" /\ Fails(c) /\ Go(o, next)
       \/ (Fails(c) \/ TimesOut(c)) /\ Go(o, "rowFailed")
    /\ UNCHANGED <<authd, db, ahead>>

RollbackStop(o) == Rollback(o, "rollbackStop", Cmd("stop", None), "rollbackRestore")
\* Mutant of RollbackRestore: the rollback ends without starting the daemon.
RollbackRestoreOnly(o) == Rollback(o, "rollbackRestore", Cmd("restore", None), "rowFailed")

RollbackRestore(o) == Rollback(o, "rollbackRestore", Cmd("restore", None), "rollbackStart")
RollbackStart(o) == Rollback(o, "rollbackStart", Cmd("start", None), "rowFailed")

\* Mutant of RowFailed: the failure is recorded in the machine's row only.
RowFailedOnly(o) ==
    /\ At(o, "rowFailed")
    /\ WriteRow([row EXCEPT !.sw = "FAILED"]) \/ RowWriteFails
    /\ Go(o, "finally")
    /\ UNCHANGED <<remote, ahead>>

\* lastSwitchMessage has room for 255 characters.
RowFailed(o) ==
    /\ At(o, "rowFailed")
    /\ \/ /\ ~ task[o].verbose
          /\ WriteRow([row EXCEPT !.sw = "FAILED"])
          /\ Go(o, "logFailed")
       \/ (RowWriteFails \/ (task[o].verbose /\ UNCHANGED db /\ NoFault)) /\ Go(o, "finally")
    /\ UNCHANGED <<remote, ahead>>

LogFailed(o) ==
    /\ At(o, "logFailed")
    /\ WriteLog(o, "FAILED") \/ LogWriteFails(o)
    /\ Go(o, "finally")
    /\ UNCHANGED <<remote, ahead>>
-----------------------------------------------------------------------------
(* checkZeroTierStatus, startZeroTier, stopZeroTier. *)

\* Mutant of Status: systemctl's word is stored as it is.
StatusUnmapped == IF host.running = None THEN "inactive" ELSE "active"

Status == IF host.running = None THEN "STOPPED" ELSE "RUNNING"
Expected(o) == IF task[o].kind = "start" THEN "RUNNING" ELSE "STOPPED"

See(o, l, s) == task' = [task EXCEPT ![o].pc = l, ![o].seen = s]
SvcThrow(o) ==
    task' = [task EXCEPT ![o].pc = "svcCatch", ![o].catching = TRUE]

SvcConnect(o) ==
    /\ At(o, "svcConnect")
    /\ \/ Go(o, IF task[o].kind = "check" THEN "svcRead" ELSE "svcAct") /\ NoFault
       \/ /\ task' = [task EXCEPT ![o].pc = "svcWrite", ![o].seen = "UNKNOWN",
                                  ![o].catching = TRUE]
          /\ Fault("ssh")
    /\ UNCHANGED <<db, remote, ahead>>

\* systemctl start / stop, unless the service is already as it should be.
SvcAct(o) ==
    /\ At(o, "svcAct")
    /\ LET c == Cmd(task[o].kind, None) IN
        \/ Status = Expected(o) /\ UNCHANGED <<host, late>> /\ NoFault /\ Go(o, "svcRead")
        \/ Status # Expected(o) /\ Succeeds(c) /\ Go(o, "svcRead")
        \/ Fails(c) /\ SvcThrow(o)
        \/ Status # Expected(o) /\ TimesOut(c) /\ SvcThrow(o)
    /\ UNCHANGED <<authd, db, ahead>>

SvcRead(o) ==
    /\ At(o, "svcRead")
    /\ \/ /\ task[o].kind = "check" \/ Status = Expected(o)
          /\ See(o, "svcWrite", Status) /\ NoFault
       \/ task[o].kind # "check" /\ Status # Expected(o) /\ SvcThrow(o) /\ NoFault
       \/ SvcThrow(o) /\ Fault("ssh")
    /\ UNCHANGED <<db, remote, ahead>>

\* Mutant of SvcCatch: a failed start or stop records what it was to achieve.
SvcCatchOptimistic(o) ==
    /\ At(o, "svcCatch")
    /\ See(o, "svcWrite", IF task[o].kind = "check" THEN "UNKNOWN" ELSE Expected(o))
    /\ UNCHANGED <<db, remote, ahead, faults>>

\* A failed check records UNKNOWN, a failed start or stop what it reads now.
SvcCatch(o) ==
    /\ At(o, "svcCatch")
    /\ \/ See(o, "svcWrite", IF task[o].kind = "check" THEN "UNKNOWN" ELSE Status) /\ NoFault
       \/ See(o, "svcWrite", "UNKNOWN") /\ Fault("ssh")
    /\ UNCHANGED <<db, remote, ahead>>

SvcWrite(o) ==
    /\ At(o, "svcWrite")
    /\ \/ WriteRow([row EXCEPT !.zt = task[o].seen]) /\ Go(o, "finally")
       \/ RowWriteFails /\ (IF task[o].catching THEN Go(o, "finally") ELSE SvcThrow(o))
    /\ UNCHANGED <<remote, ahead>>
-----------------------------------------------------------------------------
(* update and remove: a check, then a write, without the lock. *)

Guard(o) ==
    /\ At(o, "guard")
    /\ Go(o, IF row.exists /\ row.sw # "RUNNING" THEN "write" ELSE "done")
    /\ UNCHANGED <<db, remote, ahead, faults>>

\* A new host, port or user leaves what the row says of the last switch and the service.
Edit(o) ==
    /\ At(o, "write") /\ task[o].kind = "edit"
    /\ \/ \E e \in BOOLEAN, a \in {row.addr, row.addr + 1} :
             WriteRow([row EXCEPT !.enabled = e, !.addr = a])
       \/ RowWriteFails
    /\ Go(o, "done")
    /\ UNCHANGED <<remote, ahead>>

\* The logs of the machine are deleted with it.
Remove(o) ==
    /\ At(o, "write") /\ task[o].kind = "remove"
    /\ \/ /\ row.exists /\ row' = [row EXCEPT !.exists = FALSE]
          /\ logs' = [p \in Ops |-> IF logs[p] = "none" THEN "none" ELSE "deleted"]
          /\ NoFault
       \/ RowWriteFails
    /\ Go(o, "done")
    /\ UNCHANGED <<remote, ahead>>
-----------------------------------------------------------------------------
\* The process dies: its requests are lost, and with them the lock.
Crash ==
    /\ Fault("crash")
    /\ task' = [o \in Ops |-> IF task[o].pc \in {"idle", "done", "lost"} THEN task[o]
                              ELSE [Blank EXCEPT !.pc = "lost", !.kind = task[o].kind]]
    /\ Lock!Forget
    /\ UNCHANGED <<db, remote>>

SwitchStep(o) ==
    \/ Prepare(o) \/ CreateLog(o) \/ Mark(o) \/ Connect(o) \/ Prerequisites(o)
    \/ NodeInfo(o) \/ ListExtra(o) \/ LeaveExtra(o) \/ RecheckExtra(o)
    \/ StopDaemon(o) \/ BackupPlanet(o) \/ StartDaemon(o) \/ JoinNetwork(o)
    \/ Authorize(o) \/ AwaitReady(o) \/ Cleanup(o) \/ RowSuccess(o) \/ LogSuccess(o)
    \/ Recover(o) \/ RollbackStop(o) \/ RollbackRestore(o) \/ RollbackStart(o)
    \/ RowFailed(o) \/ LogFailed(o)

ServiceStep(o) ==
    SvcConnect(o) \/ SvcAct(o) \/ SvcRead(o) \/ SvcCatch(o) \/ SvcWrite(o)

\* What the event loop, the timeouts of the commands and the database bring to
\* an end.  The SFTP upload has no timeout.
Step(o) ==
    \/ Enter(o) \/ Load(o) \/ Finish(o) \/ SwitchStep(o) \/ ServiceStep(o)
    \/ Guard(o) \/ Edit(o) \/ Remove(o)

Next ==
    \/ \E o \in Ops : Call(o) \/ Step(o) \/ UploadPlanet(o)
    \/ LateCommand \/ LoseLateCommand \/ Crash

Spec == Init /\ [][Next]_vars
FairSpec == Spec /\ \A o \in Ops : WF_vars(Step(o))
-----------------------------------------------------------------------------
(* Properties. *)

Pcs == {"idle", "queued", "load", "prepare", "createLog", "mark", "connect",
        "prerequisites", "nodeInfo", "listExtra", "leave", "stop", "backup", "upload",
        "start", "join", "authorize", "ready", "cleanup", "rowSuccess", "logSuccess",
        "recover", "rollbackStop", "rollbackRestore", "rollbackStart", "rowFailed",
        "logFailed", "svcConnect", "svcAct", "svcRead", "svcCatch", "svcWrite",
        "guard", "write", "finally", "done", "lost"}

Commands == [do : {"stop", "start", "backup", "restore"}, arg : {None}]
            \cup [do : {"upload"}, arg : Controllers]
            \cup [do : {"join", "leave"}, arg : Networks]

Tasks == [pc : Pcs, kind : AllKinds \cup {None}, target : Networks \cup {None},
          todo : SUBSET Networks, joined : BOOLEAN, catching : BOOLEAN,
          verbose : BOOLEAN, seen : {"UNKNOWN", "RUNNING", "STOPPED", None},
          found : Planets \cup {None}, saved : BOOLEAN]

Rows == [exists : BOOLEAN, enabled : BOOLEAN,
         sw : {"IDLE", "RUNNING", "SUCCESS", "FAILED"},
         net : Networks \cup {None}, zt : {"UNKNOWN", "RUNNING", "STOPPED"},
         addr : Nat, on : Nat]

Hosts == [planet : Planets, backup : Planets \cup {None},
          running : Planets \cup {None}, joined : SUBSET Networks, root : BOOLEAN,
          at : Nat]

TypeOK ==
    /\ task \in [Ops -> Tasks] /\ row \in Rows /\ host \in Hosts
    /\ logs \in [Ops -> {"none", "RUNNING", "SUCCESS", "FAILED", "deleted"}]
    /\ authd \subseteq Networks
    /\ late \subseteq Commands
    /\ ahead \in [Ops -> SUBSET Ops]
    /\ faults \in [count : 0..MaxFaults, kinds : SUBSET Faults]

\* The steps of a switch after its log is opened and before it is given up.
Switching(o) ==
    /\ task[o].kind = "switch"
    /\ ~ (Outside(task[o].pc) \/ task[o].pc \in {"load", "prepare", "createLog", "finally"})

\* Whatever the row calls a success was one: when a switch records SUCCESS, the
\* host is joined to the target and to nothing else, its daemon runs on the
\* target controller's planet, and the controller has authorised it.  The
\* fallback of the catch block may not claim more than the normal path.
SuccessIsReal ==
    [][ \A o \in Ops : At(o, "rowSuccess") /\ task'[o].pc = "logSuccess" =>
            /\ host.joined = {task[o].target}
            /\ Reachable(task[o].target) ]_vars

\* A switch that failed after it had saved the planet file, and whose rollback
\* got through, leaves the host with the planet it found and the daemon running.
RollbackUndoesReplacement ==
    [][ \A o \in Ops :
            At(o, "rollbackStart") /\ task'[o].pc = "rowFailed" /\ task[o].saved
            /\ faults' = faults =>
                host'.planet = task[o].found /\ host'.running # None ]_vars

\* The same without "after it had saved the planet file": what the log line
\* "stopped zerotier-one, about to roll back the planet" announces.  The code does not
\* give it: a switch that fails early restores the backup of an earlier one (section 3
\* of the README names the constants that show it).
RollbackRestores ==
    [][ \A o \in Ops :
            At(o, "rollbackStart") /\ task'[o].pc = "rowFailed" /\ faults' = faults =>
                host'.planet = task[o].found ]_vars

\* After a switch is over, failed or not, the daemon is not left stopped by it,
\* when no failure was injected and the SSH user is root.
DaemonComesBack ==
    [][ \A o \in Ops :
            task[o].pc \in {"logSuccess", "logFailed"} /\ faults.count = 0 /\ host.root =>
                host.running # None ]_vars

\* The service status column never reports a running daemon that is stopped, or
\* the other way round, at the moment it is written.
StatusIsReal ==
    [][ row'.zt # row.zt /\ row'.zt # "UNKNOWN" =>
            row'.zt = IF host.running = None THEN "STOPPED" ELSE "RUNNING" ]_vars

\* While the row says RUNNING, some switch is in progress: the message that
\* turns requests away, "the machine already has a switch task in progress", is
\* true.
RunningMeansInProgress ==
    row.exists /\ row.sw = "RUNNING" => \E o \in Ops : Switching(o)

\* It is true unless a failure strikes the fallback of the catch block, or one of
\* the writes of the outcome: any other failures of the remote host, and of the
\* rollback, leave neither the row nor the log of a switch RUNNING once it is
\* given up.
Happened(f) == f \in faults'.kinds
OutcomeIsRecorded ==
    [][ \A o \in Ops :
            /\ Switching(o) /\ task'[o].pc = "finally" /\ row.exists
            /\ ~ Happened("db") /\ ~ Happened("verbose")
            /\ ~ (task[o].catching /\ task[o].pc \in {"listExtra", "leave"})
            => row'.sw # "RUNNING" /\ logs'[o] # "RUNNING" ]_vars

\* Once the row says SUCCESS and no switch is in progress, the host is joined to
\* the row's network and to no other, until the next switch has marked the row; unless
\* the row's login was edited since the switch read it: the row then goes on to call a
\* machine switched that may never have joined the network.
SuccessDescribesHost ==
    row.sw = "SUCCESS" /\ ~ (\E o \in Ops : Switching(o)) /\ row.addr = row.on =>
        host.joined = {row.net} /\ host.at = row.addr

\* Every request that queues for the machine ends, unless a file upload, which
\* has no timeout, hangs.
EveryRequestEnds ==
    \A o \in Ops :
        At(o, "queued") ~> \/ At(o, "done") \/ At(o, "lost")
                           \/ \E p \in Ops : At(p, "upload")

\* The database record of the switches is as MachineSwitch says.
Record == INSTANCE MachineSwitch WITH
    exists <- row.exists,
    sw <- row.sw,
    net <- row.net,
    log <- logs,
    owner <- IF \E o \in Ops : Switching(o) THEN CHOOSE o \in Ops : Switching(o) ELSE None

ImplementsMachineSwitch == Record!RecordSpec
=============================================================================
