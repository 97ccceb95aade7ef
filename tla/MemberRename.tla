---------------------------- MODULE MemberRename ----------------------------
(***************************************************************************)
(* The renaming of a machine's member that TestMachinesService does in the *)
(* background after a switch: a timer a minute away, an attempt to set the *)
(* name on the controller, and another timer, up to MaxAttempts times.     *)
(*                                                                         *)
(* One Map holds a timer per machine; an attempt, once its timer has       *)
(* fired, runs beside new switches and removals of the machine, and what   *)
(* it throws outside its try block nobody catches, which ends the process. *)
(* The switches themselves are reduced to the writes the renaming sees.    *)
(***************************************************************************)
EXTENDS Naturals, FiniteSets

CONSTANTS
    Machines,
    Switches,       \* the switches of a behaviour
    MachineOf,      \* the machine each of them switches
    MaxAttempts,    \* BACKGROUND_MEMBER_NAME_RETRY_COUNT
    None,
    Removals,       \* TRUE: machines may be removed
    MaxFaults       \* how many database writes fail in a behaviour

ASSUME RenameAssumption ==
    /\ MachineOf \in [Switches -> Machines]
    /\ MaxAttempts \in Nat \ {0} /\ MaxFaults \in Nat
    /\ Removals \in BOOLEAN
    /\ None \notin Switches /\ None \notin Switches \X (1..MaxAttempts)

VARIABLES
    pc,         \* what each switch, and later its renaming, is doing
    attempt,    \* the attempt its renaming is at
    armed,      \* the timers that are running, as <<switch, attempt>>
    timers,     \* the Map memberRenameTimers: the timer it has for a machine
    exists,     \* the machines that have a row
    running,    \* the machines whose switchStatus is RUNNING
    message,    \* lastSwitchMessage of a row: which switch it speaks of, and
                \* what it says about the member's name
    current,    \* the switch whose network a row gives as the current one
    logs,       \* what the log row of each switch says
    faults      \* database failures so far

vars == <<pc, attempt, armed, timers, exists, running, message, current, logs, faults>>
rows == <<exists, running, message, current>>
clock == <<armed, timers>>

\* A switch is in its try block (switching, logging) or its catch block (catching,
\* relogging, closing), which it may leave with an error (stranded).  Its renaming
\* waits for a timer, makes an attempt (config .. noteSynced), notes why the attempt failed
\* (noteRetry, noteError) or gives up (rowManual .. noteManual).
Attempting == {"config", "rename", "rowSynced", "logSynced", "noteSynced",
               "noteRetry", "noteError", "rowManual", "logManual", "noteManual"}
InSwitch == {"switching", "logging", "catching", "relogging", "closing"}
Over == {"synced", "manual", "failed", "stranded", "superseded", "lost"}

Says(s, what) == [of |-> s, what |-> what]
Nothing == Says(None, "nothing")
Machine(s) == MachineOf[s]

Init ==
    /\ pc = [s \in Switches |-> "idle"]
    /\ attempt = [s \in Switches |-> 0]
    /\ armed = {}
    /\ timers = [m \in Machines |-> None]
    /\ exists = Machines
    /\ running = {}
    /\ message = [m \in Machines |-> Nothing]
    /\ current = [m \in Machines |-> None]
    /\ logs = [s \in Switches |-> "none"]
    /\ faults = 0

Go(s, l) == pc' = [pc EXCEPT ![s] = l]
Broken == faults < MaxFaults /\ faults' = faults + 1
Works == UNCHANGED faults

\* An update of the machine's row, or of the switch's log, fails when it is
\* gone.
RowFails(s) == (Machine(s) \notin exists /\ Works) \/ Broken
LogFails(s) == (logs[s] = "deleted" /\ Works) \/ Broken
LogThere(s) == logs[s] # "deleted" /\ Works

Tell(s, what) ==
    /\ Machine(s) \in exists /\ Works
    /\ message' = [message EXCEPT ![Machine(s)] = Says(s, what)]
    /\ UNCHANGED <<exists, running, current>>

\* A rejection nobody handles: the process exits, and starts again without its
\* timers.
Die ==
    /\ pc' = [s \in Switches |->
                IF pc[s] = "idle" \/ pc[s] \in Over THEN pc[s] ELSE "lost"]
    /\ armed' = {}
    /\ timers' = [m \in Machines |-> None]
    /\ UNCHANGED <<attempt, rows, logs>>

\* What a step of an attempt does when its await throws: inside the try block
\* the error is noted, outside of it the process dies.
Note(s) == Go(s, "noteError") /\ UNCHANGED <<attempt, clock, rows, logs>>
-----------------------------------------------------------------------------
(* The switch. *)

\* The machine's lock and its RUNNING status keep other switches out.
StartSwitch(s) ==
    /\ pc[s] = "idle" /\ Machine(s) \in exists \ running
    /\ \A t \in Switches : Machine(t) = Machine(s) => pc[t] \notin InSwitch
    /\ Go(s, "switching")
    /\ logs' = [logs EXCEPT ![s] = "open"]
    /\ running' = running \cup {Machine(s)}
    /\ message' = [message EXCEPT ![Machine(s)] = Says(s, "running")]
    /\ UNCHANGED <<attempt, clock, exists, current, faults>>

\* What a step of the switch, or its write to the row, throws.
SwitchErrs(s) ==
    /\ pc[s] = "switching"
    /\ Go(s, "catching")
    /\ UNCHANGED <<attempt, clock, rows, logs, faults>>

\* completeSwitchSuccess writes the row, at the end of the try block or in the
\* fallback of the catch block.
SwitchSucceeds(s) ==
    /\ pc[s] \in {"switching", "catching"} /\ Machine(s) \in exists
    /\ Go(s, IF pc[s] = "switching" THEN "logging" ELSE "relogging")
    /\ running' = running \ {Machine(s)}
    /\ message' = [message EXCEPT ![Machine(s)] = Says(s, "pending")]
    /\ current' = [current EXCEPT ![Machine(s)] = s]
    /\ UNCHANGED <<attempt, clock, exists, logs, faults>>

\* Then it writes the log.  A failure leads to the catch block, or out of it.
LogSuccessFails(s) ==
    /\ pc[s] \in {"logging", "relogging"} /\ LogFails(s)
    /\ Go(s, IF pc[s] = "logging" THEN "catching" ELSE "stranded")
    /\ UNCHANGED <<attempt, clock, rows, logs>>

\* The failure is recorded: first in the row, then in the log.
SwitchFails(s) ==
    /\ pc[s] = "catching" /\ Machine(s) \in exists
    /\ Go(s, "closing")
    /\ running' = running \ {Machine(s)}
    /\ message' = [message EXCEPT ![Machine(s)] = Says(s, "failed")]
    /\ UNCHANGED <<attempt, clock, exists, current, logs, faults>>

CloseFailed(s) ==
    /\ pc[s] = "closing"
    /\ Go(s, "failed")
    /\ \/ LogThere(s) /\ logs' = [logs EXCEPT ![s] = "failed"]
       \/ LogFails(s) /\ UNCHANGED logs
    /\ UNCHANGED <<attempt, clock, rows>>

\* The catch block throws: from its fallback, as it leaves the extra networks, or from
\* the write to the row.  The row stays as it is, and nothing is scheduled.
SwitchThrows(s) ==
    /\ pc[s] = "catching"
    /\ Go(s, "stranded")
    /\ UNCHANGED <<attempt, clock, rows, logs, faults>>

\* A timer for attempt n of s replaces what the Map has for the machine; only
\* the end of a switch stops the timer it replaces.
Arm(s, n, stopped) ==
    /\ attempt' = [attempt EXCEPT ![s] = n]
    /\ armed' = (armed \ stopped) \cup {<<s, n>>}
    /\ timers' = [timers EXCEPT ![Machine(s)] = <<s, n>>]

Known(m) == IF timers[m] = None THEN {} ELSE {timers[m]}

\* Mutant of Schedule: a machine that has a timer gets no other.
ScheduleOnce(s) ==
    /\ pc[s] \in {"logging", "relogging"} /\ LogThere(s)
    /\ logs' = [logs EXCEPT ![s] = "pending"]
    /\ IF Known(Machine(s)) = {}
         THEN Arm(s, 1, {}) /\ Go(s, "waiting")
         ELSE UNCHANGED <<attempt, clock>> /\ Go(s, "superseded")
    /\ UNCHANGED rows

\* Mutant of Schedule: the earlier timer is left running.
ScheduleBeside(s) ==
    /\ pc[s] \in {"logging", "relogging"} /\ LogThere(s)
    /\ logs' = [logs EXCEPT ![s] = "pending"]
    /\ Arm(s, 1, {})
    /\ Go(s, "waiting")
    /\ UNCHANGED rows

\* The log is closed and the renaming scheduled; a renaming whose timer is
\* stopped is over.
Schedule(s) ==
    /\ pc[s] \in {"logging", "relogging"} /\ LogThere(s)
    /\ logs' = [logs EXCEPT ![s] = "pending"]
    /\ Arm(s, 1, Known(Machine(s)))
    /\ pc' = [t \in Switches |->
                IF t = s THEN "waiting"
                ELSE IF \E n \in 1..MaxAttempts : <<t, n>> \in armed \cap Known(Machine(s))
                  THEN "superseded" ELSE pc[t]]
    /\ UNCHANGED rows
-----------------------------------------------------------------------------
(* runBackgroundMemberRename. *)

Fire(s) ==
    /\ pc[s] = "waiting" /\ <<s, attempt[s]>> \in armed
    /\ armed' = armed \ {<<s, attempt[s]>>}
    /\ Go(s, "config")
    /\ UNCHANGED <<attempt, timers, rows, logs, faults>>

\* The controller is looked up, which may fail, and the start noted.
LookUp(s) ==
    /\ pc[s] = "config"
    /\ \/ LogThere(s) /\ Go(s, "rename") /\ UNCHANGED <<attempt, clock, rows, logs>>
       \/ Works /\ Note(s)
       \/ Broken /\ Note(s)

\* setMemberName: confirmed, not confirmed, or an error.
Rename(s) ==
    /\ pc[s] = "rename"
    /\ Go(s, "rowSynced") \/ Go(s, "noteRetry") \/ Go(s, "noteError")
    /\ UNCHANGED <<attempt, clock, rows, logs, faults>>

RowSynced(s) ==
    /\ pc[s] = "rowSynced"
    /\ \/ Tell(s, "synced") /\ Go(s, "logSynced") /\ UNCHANGED <<attempt, clock, logs>>
       \/ RowFails(s) /\ Note(s)

LogSynced(s) ==
    /\ pc[s] = "logSynced"
    /\ \/ /\ LogThere(s) /\ logs' = [logs EXCEPT ![s] = "synced"]
          /\ Go(s, "noteSynced") /\ UNCHANGED <<attempt, clock, rows>>
       \/ LogFails(s) /\ Note(s)

\* The last note made, the Map entry goes, whosever timer it holds by now.
Forget(s) == timers' = [timers EXCEPT ![Machine(s)] = None] /\ UNCHANGED armed

NoteSynced(s) ==
    /\ pc[s] = "noteSynced"
    /\ \/ LogThere(s) /\ Go(s, "synced") /\ Forget(s) /\ UNCHANGED <<attempt, rows, logs>>
       \/ LogFails(s) /\ Note(s)

\* Mutant of Again: one attempt too many.
AgainOneMore(s) ==
    /\ IF attempt[s] > MaxAttempts
         THEN Go(s, "rowManual") /\ UNCHANGED <<attempt, clock>>
         ELSE Go(s, "waiting") /\ Arm(s, attempt[s] + 1, {})
    /\ UNCHANGED <<rows, logs>>

\* Mutant of Again: no timer after a failed attempt.
AgainUnarmed(s) ==
    /\ IF attempt[s] >= MaxAttempts
         THEN Go(s, "rowManual") /\ UNCHANGED <<attempt, clock>>
         ELSE Go(s, "waiting") /\ UNCHANGED <<attempt, clock>>
    /\ UNCHANGED <<rows, logs>>

\* After a failed attempt: another one in a minute, or the end.
Again(s) ==
    /\ IF attempt[s] >= MaxAttempts
         THEN Go(s, "rowManual") /\ UNCHANGED <<attempt, clock>>
         ELSE Go(s, "waiting") /\ Arm(s, attempt[s] + 1, {})
    /\ UNCHANGED <<rows, logs>>

NoteRetry(s) ==
    /\ pc[s] = "noteRetry"
    /\ \/ LogThere(s) /\ Again(s)
       \/ LogFails(s) /\ Note(s)

\* The catch block, and what follows it, is in no try block.
NoteError(s) ==
    /\ pc[s] = "noteError"
    /\ \/ LogThere(s) /\ Again(s)
       \/ LogFails(s) /\ Die

RowManual(s) ==
    /\ pc[s] = "rowManual"
    /\ \/ Tell(s, "manual") /\ Go(s, "logManual") /\ UNCHANGED <<attempt, clock, logs>>
       \/ RowFails(s) /\ Die

LogManual(s) ==
    /\ pc[s] = "logManual"
    /\ \/ /\ LogThere(s) /\ logs' = [logs EXCEPT ![s] = "manual"]
          /\ Go(s, "noteManual") /\ UNCHANGED <<attempt, clock, rows>>
       \/ LogFails(s) /\ Die

NoteManual(s) ==
    /\ pc[s] = "noteManual"
    /\ \/ LogThere(s) /\ Go(s, "manual") /\ Forget(s) /\ UNCHANGED <<attempt, rows, logs>>
       \/ LogFails(s) /\ Die
-----------------------------------------------------------------------------
\* remove: the check for RUNNING and the deletion are two awaits without the lock, and
\* a switch may begin in between, so that the deletion can come at any time.  The
\* machine's logs go with it, its timer stays.
Remove(m) ==
    /\ Removals /\ m \in exists
    /\ exists' = exists \ {m}
    /\ logs' = [s \in Switches |->
                  IF Machine(s) = m /\ logs[s] # "none" THEN "deleted" ELSE logs[s]]
    /\ UNCHANGED <<pc, attempt, clock, running, message, current, faults>>

RenameStep(s) ==
    \/ Fire(s) \/ LookUp(s) \/ Rename(s) \/ RowSynced(s) \/ LogSynced(s)
    \/ NoteSynced(s) \/ NoteRetry(s) \/ NoteError(s)
    \/ RowManual(s) \/ LogManual(s) \/ NoteManual(s)

Next ==
    \/ \E s \in Switches :
        \/ StartSwitch(s) \/ SwitchErrs(s) \/ SwitchSucceeds(s) \/ SwitchFails(s)
        \/ CloseFailed(s) \/ SwitchThrows(s) \/ LogSuccessFails(s)
        \/ Schedule(s) \/ RenameStep(s)
    \/ \E m \in Machines : Remove(m)

\* Timers fire, and commands, requests to the controller and the database end; a
\* switch in its try block may hang, as the upload of the planet file has no timeout.
Fairness == \A s \in Switches :
    /\ WF_vars(SwitchThrows(s) \/ LogSuccessFails(s) \/ Schedule(s))
    /\ WF_vars(RenameStep(s))

Spec == Init /\ [][Next]_vars
FairSpec == Spec /\ Fairness
-----------------------------------------------------------------------------
TypeOK ==
    /\ pc \in [Switches -> {"idle", "waiting"} \cup InSwitch \cup Attempting \cup Over]
    /\ attempt \in [Switches -> 0..MaxAttempts]
    /\ armed \subseteq Switches \X (1..MaxAttempts)
    /\ timers \in [Machines -> (Switches \X (1..MaxAttempts)) \cup {None}]
    /\ exists \subseteq Machines /\ running \subseteq Machines
    /\ message \in [Machines ->
         [of : Switches \cup {None},
          what : {"nothing", "running", "failed", "pending", "synced", "manual"}]]
    /\ current \in [Machines -> Switches \cup {None}]
    /\ logs \in [Switches ->
         {"none", "open", "failed", "pending", "synced", "manual", "deleted"}]
    /\ faults \in 0..MaxFaults

Renaming(s) == pc[s] = "waiting" \/ pc[s] \in Attempting

\* A renaming that waits has exactly one running timer and no other renaming
\* has one: no timer is stopped without ending the renaming it belongs to, and
\* none fires twice.
TimersMatchRenamings ==
    armed = {<<s, attempt[s]>> : s \in {t \in Switches : pc[t] = "waiting"}}

\* While a machine's message says that the name is being synchronised in the
\* background, it is: the renaming of that switch is under way, or its switch is
\* about to schedule it or to fail.  The code does not give it ...
UnderWay(s) == Renaming(s) \/ pc[s] \in InSwitch
PendingIsScheduled ==
    \A m \in Machines : m \in exists /\ message[m].what = "pending" =>
        UnderWay(message[m].of)

\* ... for two reasons and no others: the process died, as it does of an attempt whose
\* machine was removed, or the switch, having promised the renaming in the row, could
\* not write its log and then left its catch block with an error.
Forgotten(s) == pc[s] \in {"lost", "stranded"}
PendingUnlessForgotten ==
    \A m \in Machines : m \in exists /\ message[m].what = "pending" =>
        UnderWay(message[m].of) \/ Forgotten(message[m].of)

\* What the messages and the Map rest on: both speak of the machine's own
\* switches; the one switch that is in progress on a machine is the only one its
\* message can promise a renaming for; and a switch or a renaming that has told the row
\* of its end no longer has a promise there.
Told == {"closing", "logSynced", "noteSynced", "logManual", "noteManual"}
MessagesOK ==
    /\ \A m \in Machines :
        /\ timers[m] # None => Machine(timers[m][1]) = m
        /\ message[m].what = "pending" => message[m].of \in Switches
        /\ message[m].of # None => Machine(message[m].of) = m
    /\ \A s \in Switches : pc[s] \in InSwitch =>
        /\ \A t \in Switches : pc[t] \in InSwitch /\ Machine(t) = Machine(s) => t = s
        /\ message[Machine(s)].what = "pending" => message[Machine(s)].of = s
    /\ \A s \in Switches : pc[s] \in Told => message[Machine(s)] # Says(s, "pending")

\* The inductive invariant.
RenameInv == TypeOK /\ TimersMatchRenamings /\ MessagesOK /\ PendingUnlessForgotten

\* A machine's message speaks of the network the machine is in, unless of a
\* switch that runs or failed.  The code does not give it: an attempt that was under way
\* when a newer switch succeeded overwrites that switch's message (section 3 of the README).
MessageNamesCurrent ==
    \A m \in Machines : message[m].what \in {"pending", "synced", "manual"} =>
        message[m].of = current[m]

\* A running timer of a machine is the one its Map entry holds, so that the next
\* switch can stop it.
RunningTimersAreKnown == \A h \in armed : timers[Machine(h[1])] = h

\* A switch that is scheduled leaves no earlier renaming of its machine waiting,
\* when it finds none in the middle of an attempt.
Superseding(s) ==
    /\ pc[s] \in {"logging", "relogging"} /\ pc'[s] = "waiting"
    /\ \A t \in Switches : Machine(t) = Machine(s) => pc[t] \notin Attempting
    /\ RunningTimersAreKnown
NoneBefore(s) ==
    \A t \in Switches \ {s} :
        Machine(t) = Machine(s) => ~ \E n \in 1..MaxAttempts : <<t, n>> \in armed'
SchedulesAlone == \A s \in Switches : Superseding(s) => NoneBefore(s)
ScheduleSupersedes == [][SchedulesAlone]_vars

\* "Being synchronised" does not stay on a machine's row for good, unless it was
\* forgotten in one of those two ways.
PendingIsResolved ==
    \A m \in Machines, s \in Switches :
        message[m] = Says(s, "pending") ~>
            \/ message[m] # Says(s, "pending")
            \/ m \notin exists
            \/ Forgotten(s)
=============================================================================
