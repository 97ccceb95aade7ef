------------------------- MODULE MemberRenameProofs -------------------------
(***************************************************************************)
(* For any machines, switches and number of attempts, whatever is removed  *)
(* and whichever database writes fail: timers and renamings correspond,    *)
(* and a row that promises a renaming has one unless it was forgotten, with *)
(* the process or by a switch that ended with an error.                    *)
(***************************************************************************)
EXTENDS MemberRename, TLAPS

USE RenameAssumption

\* What every step of a renaming leaves alone, and where it can lead.
LEMMA Going ==
  ASSUME NEW s \in Switches, NEW l, TypeOK, Go(s, l)
  PROVE  /\ pc'[s] = l
         /\ \A t \in Switches \ {s} : pc'[t] = pc[t]
BY DEF Go, TypeOK

\* What a row is told has the type of a message.
LEMMA TellType ==
  ASSUME NEW s \in Switches, TypeOK, NEW what \in {"synced", "manual"}, Tell(s, what)
  PROVE  /\ message' \in [Machines ->
               [of : Switches \cup {None},
                what : {"nothing", "running", "failed", "pending", "synced", "manual"}]]
         /\ exists' = exists /\ running' = running /\ current' = current /\ faults' = faults
BY DEF TypeOK, Tell, Says, Machine, Works

\* Types are preserved by the three ways an attempt can end.
LEMMA AgainType ==
  ASSUME NEW s \in Switches, TypeOK, Again(s), faults' \in 0..MaxFaults
  PROVE  TypeOK'
<1>1. CASE attempt[s] >= MaxAttempts
  BY <1>1 DEF Again, Go, TypeOK, clock, rows, Attempting
<1>2. CASE ~ (attempt[s] >= MaxAttempts)
  <2>1. attempt[s] + 1 \in 1..MaxAttempts
    BY <1>2 DEF TypeOK
  <2>2. Machine(s) \in Machines
    BY DEF Machine
  <2>3. <<s, attempt[s] + 1>> \in Switches \X (1..MaxAttempts)
    BY <2>1
  <2>4. /\ armed' \subseteq Switches \X (1..MaxAttempts)
        /\ attempt' \in [Switches -> 0..MaxAttempts]
    BY <1>2, <2>1, <2>3 DEF Again, TypeOK, Arm
  <2>5. timers' \in [Machines -> (Switches \X (1..MaxAttempts)) \cup {None}]
    BY <1>2, <2>2, <2>3 DEF Again, TypeOK, Arm
  <2>6. pc' \in [Switches -> {"idle", "waiting"} \cup InSwitch \cup Attempting \cup Over]
    BY <1>2 DEF Again, TypeOK, Go
  <2>7. QED
    BY <2>4, <2>5, <2>6 DEF Again, TypeOK, rows
<1>3. QED
  BY <1>1, <1>2

LEMMA DieType ==
  ASSUME TypeOK, Die, faults' \in 0..MaxFaults
  PROVE  TypeOK'
BY DEF Die, TypeOK, rows, Over

LEMMA NoteType ==
  ASSUME NEW s \in Switches, TypeOK, Note(s), faults' \in 0..MaxFaults
  PROVE  TypeOK'
BY DEF Note, Go, TypeOK, rows, clock, Attempting

\* The counter of failures stays below its bound.
LEMMA FaultsType ==
  ASSUME TypeOK, Broken \/ Works
  PROVE  faults' \in 0..MaxFaults
BY DEF Broken, Works, TypeOK

\* The types of all variables, for every step.
LEMMA TypeStep == TypeOK /\ [Next]_vars => TypeOK'
<1> SUFFICES ASSUME TypeOK, [Next]_vars PROVE TypeOK'
  OBVIOUS
<1> USE DEF TypeOK, InSwitch, Attempting, Over, Go, Says
<1>1. ASSUME NEW s \in Switches, StartSwitch(s) PROVE TypeOK'
  BY <1>1 DEF StartSwitch, Machine, clock
<1>2. ASSUME NEW s \in Switches, SwitchFails(s) PROVE TypeOK'
  BY <1>2 DEF SwitchFails, Machine, clock
<1>3. ASSUME NEW s \in Switches, SwitchSucceeds(s) PROVE TypeOK'
  BY <1>3 DEF SwitchSucceeds, Machine, clock
<1>4. ASSUME NEW s \in Switches, LogSuccessFails(s) PROVE TypeOK'
  <2>1. faults' \in 0..MaxFaults
    BY <1>4, FaultsType DEF LogSuccessFails, LogFails
  <2>2. QED
    BY <1>4, <2>1 DEF LogSuccessFails, clock, rows
<1>5. ASSUME NEW s \in Switches, Schedule(s) PROVE TypeOK'
  <2>1. /\ 1 \in 1..MaxAttempts /\ Machine(s) \in Machines
    BY DEF Machine
  <2>2. QED
    BY <1>5, <2>1 DEF Schedule, Arm, LogThere, Works, rows
<1>6. ASSUME NEW s \in Switches, Fire(s) PROVE TypeOK'
  BY <1>6 DEF Fire, rows
<1>7. ASSUME NEW s \in Switches, LookUp(s) PROVE TypeOK'
  <2>1. faults' \in 0..MaxFaults
    BY <1>7, FaultsType DEF LookUp, LogThere
  <2>2. QED
    BY <1>7, <2>1, NoteType DEF LookUp, clock, rows
<1>8. ASSUME NEW s \in Switches, Rename(s) PROVE TypeOK'
  BY <1>8 DEF Rename, clock, rows
<1>9. ASSUME NEW s \in Switches, RowSynced(s) PROVE TypeOK'
  <2>1. faults' \in 0..MaxFaults
    BY <1>9, FaultsType DEF RowSynced, Tell, RowFails
  <2>2. CASE Note(s)
    BY <2>1, <2>2, NoteType
  <2>3. CASE Tell(s, "synced") /\ Go(s, "logSynced") /\ UNCHANGED <<attempt, clock, logs>>
    <3>1. /\ message' \in [Machines ->
               [of : Switches \cup {None},
                what : {"nothing", "running", "failed", "pending", "synced", "manual"}]]
          /\ exists' = exists /\ running' = running /\ current' = current
      BY <2>3, TellType
    <3>2. QED
      BY <2>1, <2>3, <3>1 DEF clock
  <2>4. QED
    BY <1>9, <2>2, <2>3 DEF RowSynced
<1>10. ASSUME NEW s \in Switches, LogSynced(s) PROVE TypeOK'
  <2>1. faults' \in 0..MaxFaults
    BY <1>10, FaultsType DEF LogSynced, LogThere, LogFails
  <2>2. QED
    BY <1>10, <2>1, NoteType DEF LogSynced, clock, rows
<1>11. ASSUME NEW s \in Switches, NoteSynced(s) PROVE TypeOK'
  <2>1. faults' \in 0..MaxFaults
    BY <1>11, FaultsType DEF NoteSynced, LogThere, LogFails
  <2>2. QED
    BY <1>11, <2>1, NoteType DEF NoteSynced, Forget, rows
<1>12. ASSUME NEW s \in Switches, NoteRetry(s) PROVE TypeOK'
  <2>1. faults' \in 0..MaxFaults
    BY <1>12, FaultsType DEF NoteRetry, LogThere, LogFails
  <2>2. QED
    BY <1>12, <2>1, NoteType, AgainType DEF NoteRetry
<1>13. ASSUME NEW s \in Switches, NoteError(s) PROVE TypeOK'
  <2>1. faults' \in 0..MaxFaults
    BY <1>13, FaultsType DEF NoteError, LogThere, LogFails
  <2>2. QED
    BY <1>13, <2>1, DieType, AgainType DEF NoteError
<1>14. ASSUME NEW s \in Switches, RowManual(s) PROVE TypeOK'
  <2>1. faults' \in 0..MaxFaults
    BY <1>14, FaultsType DEF RowManual, Tell, RowFails
  <2>2. CASE Die
    BY <2>1, <2>2, DieType
  <2>3. CASE Tell(s, "manual") /\ Go(s, "logManual") /\ UNCHANGED <<attempt, clock, logs>>
    <3>1. /\ message' \in [Machines ->
               [of : Switches \cup {None},
                what : {"nothing", "running", "failed", "pending", "synced", "manual"}]]
          /\ exists' = exists /\ running' = running /\ current' = current
      BY <2>3, TellType
    <3>2. QED
      BY <2>1, <2>3, <3>1 DEF clock
  <2>4. QED
    BY <1>14, <2>2, <2>3 DEF RowManual
<1>15. ASSUME NEW s \in Switches, LogManual(s) PROVE TypeOK'
  <2>1. faults' \in 0..MaxFaults
    BY <1>15, FaultsType DEF LogManual, LogThere, LogFails
  <2>2. QED
    BY <1>15, <2>1, DieType DEF LogManual, clock, rows
<1>16. ASSUME NEW s \in Switches, NoteManual(s) PROVE TypeOK'
  <2>1. faults' \in 0..MaxFaults
    BY <1>16, FaultsType DEF NoteManual, LogThere, LogFails
  <2>2. QED
    BY <1>16, <2>1, DieType DEF NoteManual, Forget, rows
<1>17. ASSUME NEW m \in Machines, Remove(m) PROVE TypeOK'
  BY <1>17 DEF Remove, clock
<1>18. ASSUME NEW s \in Switches, SwitchErrs(s) \/ SwitchThrows(s) PROVE TypeOK'
  BY <1>18 DEF SwitchErrs, SwitchThrows, clock, rows
<1>19. ASSUME NEW s \in Switches, CloseFailed(s) PROVE TypeOK'
  <2>1. faults' \in 0..MaxFaults
    BY <1>19, FaultsType DEF CloseFailed, LogThere, LogFails
  <2>2. QED
    BY <1>19, <2>1 DEF CloseFailed, clock, rows
<1>20. CASE UNCHANGED vars
  BY <1>20 DEF vars, rows, clock
<1>21. QED
  BY <1>1, <1>2, <1>3, <1>4, <1>5, <1>6, <1>7, <1>8, <1>9, <1>10, <1>11, <1>12,
     <1>13, <1>14, <1>15, <1>16, <1>17, <1>18, <1>19, <1>20 DEF Next, RenameStep

LEMMA InitType == Init => TypeOK
BY DEF Init, TypeOK, Nothing, Says

\* Every variable of the background renaming keeps its type.
THEOREM TypeCorrect == Spec => []TypeOK
<1>1. QED
  BY InitType, TypeStep, PTL DEF Spec
-----------------------------------------------------------------------------
(* Timers and renamings. *)

\* The same, switch by switch: a renaming that waits has the timer of its attempt,
\* and a timer that runs is that of a renaming that waits.
Matched ==
    \A t \in Switches :
        /\ pc[t] = "waiting" => <<t, attempt[t]>> \in armed
        /\ \A n \in 1..MaxAttempts :
             <<t, n>> \in armed => pc[t] = "waiting" /\ n = attempt[t]

LEMMA MatchedIsMatch ==
  ASSUME TypeOK
  PROVE  Matched <=> TimersMatchRenamings
<1>1. ASSUME Matched PROVE TimersMatchRenamings
  <2>1. armed \subseteq {<<s, attempt[s]>> : s \in {t \in Switches : pc[t] = "waiting"}}
    <3>1. ASSUME NEW h \in armed
          PROVE  h \in {<<s, attempt[s]>> : s \in {t \in Switches : pc[t] = "waiting"}}
      <4>1. PICK t \in Switches, n \in 1..MaxAttempts : h = <<t, n>>
        BY DEF TypeOK
      <4>2. pc[t] = "waiting" /\ n = attempt[t]
        BY <1>1, <4>1 DEF Matched
      <4>3. QED
        BY <4>1, <4>2
    <3>2. QED
      BY <3>1
  <2>2. {<<s, attempt[s]>> : s \in {t \in Switches : pc[t] = "waiting"}} \subseteq armed
    BY <1>1 DEF Matched
  <2>3. QED
    BY <2>1, <2>2 DEF TimersMatchRenamings
<1>2. ASSUME TimersMatchRenamings PROVE Matched
  BY <1>2 DEF TimersMatchRenamings, Matched
<1>3. QED
  BY <1>1, <1>2

LEMMA MatchedAgain ==
  ASSUME NEW s \in Switches, TypeOK, Matched, pc[s] # "waiting", Again(s)
  PROVE  Matched'
<1>1. CASE attempt[s] >= MaxAttempts
  BY <1>1 DEF Again, Go, TypeOK, clock, Matched
<1>2. CASE ~ (attempt[s] >= MaxAttempts)
  <2>1. /\ armed' = armed \cup {<<s, attempt[s] + 1>>}
        /\ attempt' = [attempt EXCEPT ![s] = attempt[s] + 1]
        /\ pc' = [pc EXCEPT ![s] = "waiting"]
    BY <1>2 DEF Again, Arm, Go
  <2>2. QED
    BY <2>1 DEF TypeOK, Matched
<1>3. QED
  BY <1>1, <1>2

LEMMA MatchedMove ==
  ASSUME NEW s \in Switches, NEW l, TypeOK, Matched, pc[s] # "waiting", l # "waiting",
         Go(s, l), UNCHANGED <<attempt, armed>>
  PROVE  Matched'
BY DEF Go, TypeOK, Matched

LEMMA MatchedStep == TypeOK /\ Matched /\ [Next]_vars => Matched'
<1> SUFFICES ASSUME TypeOK, Matched, [Next]_vars PROVE Matched'
  OBVIOUS
<1>1. ASSUME NEW s \in Switches,
             \/ StartSwitch(s) \/ SwitchErrs(s) \/ SwitchSucceeds(s) \/ LogSuccessFails(s)
             \/ SwitchFails(s) \/ CloseFailed(s) \/ SwitchThrows(s)
      PROVE  Matched'
  <2>1. /\ pc[s] # "waiting" /\ UNCHANGED <<attempt, armed>>
        /\ \E l \in InSwitch \cup Over : Go(s, l)
    BY <1>1 DEF StartSwitch, SwitchErrs, SwitchSucceeds, LogSuccessFails, SwitchFails,
                CloseFailed, SwitchThrows, clock, InSwitch, Over
  <2>2. QED
    BY <2>1, MatchedMove DEF InSwitch, Over
<1>2. ASSUME NEW s \in Switches, Schedule(s) PROVE Matched'
  <2>1. /\ armed' = (armed \ Known(Machine(s))) \cup {<<s, 1>>}
        /\ attempt' = [attempt EXCEPT ![s] = 1]
        /\ pc[s] # "waiting" /\ pc'[s] = "waiting"
    BY <1>2 DEF Schedule, Arm
  <2>2. ASSUME NEW t \in Switches \ {s}
        PROVE  pc'[t] = IF \E n \in 1..MaxAttempts : <<t, n>> \in armed \cap Known(Machine(s))
                          THEN "superseded" ELSE pc[t]
    BY <1>2 DEF Schedule
  <2>3. ASSUME NEW t \in Switches \ {s}
        PROVE  /\ pc'[t] = "waiting" => <<t, attempt'[t]>> \in armed'
               /\ \A n \in 1..MaxAttempts :
                    <<t, n>> \in armed' => pc'[t] = "waiting" /\ n = attempt'[t]
    <3>1. attempt'[t] = attempt[t]
      BY <2>1 DEF TypeOK
    <3>2. CASE \E n \in 1..MaxAttempts : <<t, n>> \in armed \cap Known(Machine(s))
      <4>1. PICK n \in 1..MaxAttempts : <<t, n>> \in armed \cap Known(Machine(s))
        BY <3>2
      <4>2. \A k \in 1..MaxAttempts : <<t, k>> \in armed => k = n
        BY <4>1 DEF Matched
      <4>3. QED
        BY <2>1, <2>2, <3>2, <4>1, <4>2
    <3>3. CASE ~ \E n \in 1..MaxAttempts : <<t, n>> \in armed \cap Known(Machine(s))
      <4>1. pc'[t] = pc[t]
        BY <2>2, <3>3
      <4>2. \A n \in 1..MaxAttempts : <<t, n>> \in armed' <=> <<t, n>> \in armed
        BY <2>1, <3>3
      <4>3. pc[t] = "waiting" => attempt[t] \in 1..MaxAttempts
        BY DEF Matched, TypeOK
      <4>4. QED
        BY <3>1, <4>1, <4>2, <4>3 DEF Matched
    <3>4. QED
      BY <3>2, <3>3
  <2>4. /\ <<s, attempt'[s]>> \in armed'
        /\ \A n \in 1..MaxAttempts : <<s, n>> \in armed' => n = attempt'[s]
    BY <2>1 DEF Matched, TypeOK
  <2>5. QED
    BY <2>1, <2>3, <2>4 DEF Matched
<1>3. ASSUME NEW s \in Switches, Fire(s) PROVE Matched'
  <2>1. /\ armed' = armed \ {<<s, attempt[s]>>}
        /\ attempt' = attempt
        /\ pc' = [pc EXCEPT ![s] = "config"]
    BY <1>3 DEF Fire, Go
  <2>2. QED
    BY <2>1 DEF TypeOK, Matched
<1>4. ASSUME NEW s \in Switches,
             LookUp(s) \/ Rename(s) \/ RowSynced(s) \/ LogSynced(s) \/ NoteSynced(s)
      PROVE  Matched'
  <2>1. /\ pc[s] # "waiting" /\ UNCHANGED <<attempt, armed>>
        /\ \E l \in Attempting \cup Over : Go(s, l)
    BY <1>4 DEF LookUp, Rename, RowSynced, LogSynced, NoteSynced, Note, Forget, clock,
                Attempting, Over
  <2>2. QED
    BY <2>1, MatchedMove DEF Attempting, Over
<1>5. ASSUME Die PROVE Matched'
  BY <1>5 DEF Die, Matched, TypeOK, Over
<1>6. ASSUME NEW s \in Switches, NoteRetry(s) PROVE Matched'
  <2>1. CASE Note(s)
    BY <1>6, <2>1, MatchedMove DEF NoteRetry, Note, clock
  <2>2. QED
    BY <1>6, <2>1, MatchedAgain DEF NoteRetry
<1>7. ASSUME NEW s \in Switches, NoteError(s) PROVE Matched'
  BY <1>7, <1>5, MatchedAgain DEF NoteError
<1>8. ASSUME NEW s \in Switches, RowManual(s) \/ LogManual(s) \/ NoteManual(s)
      PROVE  Matched'
  <2>1. CASE Die
    BY <2>1, <1>5
  <2>2. CASE ~ Die
    <3>1. /\ pc[s] # "waiting" /\ UNCHANGED <<attempt, armed>>
          /\ \E l \in {"logManual", "noteManual", "manual"} : Go(s, l)
      BY <1>8, <2>2 DEF RowManual, LogManual, NoteManual, Forget, clock
    <3>2. QED
      BY <3>1, MatchedMove
  <2>3. QED
    BY <2>1, <2>2
<1>9. ASSUME NEW m \in Machines, Remove(m) PROVE Matched'
  BY <1>9 DEF Remove, Matched, clock
<1>10. CASE UNCHANGED vars
  BY <1>10 DEF vars, Matched, clock
<1>11. QED
  BY <1>1, <1>2, <1>3, <1>4, <1>6, <1>7, <1>8, <1>9, <1>10 DEF Next, RenameStep

\* A renaming that waits has exactly one running timer, that of its attempt, and a
\* timer that runs belongs to a renaming that waits.
THEOREM TimersCorrect == Spec => []TimersMatchRenamings
<1>1. Init => TypeOK /\ Matched
  BY InitType DEF Init, Matched
<1>2. (TypeOK /\ Matched) /\ [Next]_vars => (TypeOK /\ Matched)'
  BY TypeStep, MatchedStep
<1>3. TypeOK /\ Matched => TimersMatchRenamings
  BY MatchedIsMatch
<1>4. QED
  BY <1>1, <1>2, <1>3, PTL DEF Spec
-----------------------------------------------------------------------------
(* Messages and promises. *)

Promises == MessagesOK /\ PendingUnlessForgotten

\* A message that promises a renaming promises that of a switch of its machine.
LEMMA Promise ==
  ASSUME TypeOK, MessagesOK, NEW m \in Machines, message[m].what = "pending"
  PROVE  /\ message[m].of \in Switches /\ Machine(message[m].of) = m
         /\ message[m] = Says(message[m].of, "pending")
<1>1. message[m].of \in Switches
  BY DEF MessagesOK
<1>2. message[m].of # None
  BY <1>1
<1>3. QED
  BY <1>1, <1>2 DEF MessagesOK, TypeOK, Says

\* A renaming goes on, and writes nothing to the row: if its new place says that the
\* row has been told of its end, the old one said so too.
LEMMA PromisesGoOn ==
  ASSUME NEW s \in Switches, NEW l \in {"waiting"} \cup Attempting, TypeOK, Promises,
         pc[s] \notin InSwitch, Go(s, l), UNCHANGED rows,
         l \in Told => pc[s] \in Told,
         \A m \in Machines : timers'[m] # None => Machine(timers'[m][1]) = m
  PROVE  Promises'
<1>1. /\ pc'[s] = l /\ \A t \in Switches \ {s} : pc'[t] = pc[t]
      /\ message' = message /\ exists' = exists
  BY DEF Go, TypeOK, rows
<1>2. PendingUnlessForgotten'
  <2>1. ASSUME NEW m \in Machines, m \in exists, message[m].what = "pending"
        PROVE  (UnderWay(message[m].of) \/ Forgotten(message[m].of))'
    <3>1. message[m].of \in Switches
      BY <2>1, Promise DEF Promises
    <3>2. UnderWay(message[m].of) \/ Forgotten(message[m].of)
      BY <2>1 DEF Promises, PendingUnlessForgotten
    <3>3. QED
      BY <1>1, <3>1, <3>2 DEF UnderWay, Renaming, Forgotten
  <2>2. QED
    BY <1>1, <2>1 DEF PendingUnlessForgotten
<1>3. MessagesOK'
  BY <1>1 DEF Promises, MessagesOK, InSwitch, Attempting, Told, Machine
<1>4. QED
  BY <1>2, <1>3 DEF Promises

\* A renaming tells the row of its end.
LEMMA PromisesTold ==
  ASSUME NEW s \in Switches, NEW l \in Told \ InSwitch, NEW what \in {"synced", "manual"},
         TypeOK, Promises, pc[s] \notin InSwitch, Tell(s, what), Go(s, l),
         UNCHANGED timers
  PROVE  Promises'
<1>1. /\ pc'[s] = l /\ \A t \in Switches \ {s} : pc'[t] = pc[t]
      /\ exists' = exists /\ Machine(s) \in Machines
      /\ message'[Machine(s)] = Says(s, what)
      /\ \A m \in Machines \ {Machine(s)} : message'[m] = message[m]
  BY DEF Go, TypeOK, Tell, Machine
<1>2. PendingUnlessForgotten'
  <2>1. ASSUME NEW m \in Machines, m \in exists, message'[m].what = "pending"
        PROVE  (UnderWay(message[m].of) \/ Forgotten(message[m].of))'
    <3>1. m # Machine(s)
      BY <1>1, <2>1 DEF Says
    <3>2. message'[m] = message[m]
      BY <1>1, <3>1
    <3>3. message[m].of \in Switches /\ Machine(message[m].of) = m
      BY <2>1, <3>2, Promise DEF Promises
    <3>4. UnderWay(message[m].of) \/ Forgotten(message[m].of)
      BY <2>1, <3>2 DEF Promises, PendingUnlessForgotten
    <3>5. message[m].of # s
      BY <3>1, <3>3
    <3>6. QED
      BY <1>1, <3>2, <3>3, <3>4, <3>5 DEF UnderWay, Renaming, Forgotten
  <2>2. QED
    BY <1>1, <2>1 DEF PendingUnlessForgotten
<1>3. MessagesOK'
  <2>1. \A m \in Machines :
          /\ timers'[m] # None => Machine(timers'[m][1]) = m
          /\ message'[m].what = "pending" => message'[m].of \in Switches
          /\ message'[m].of # None => Machine(message'[m].of) = m
    BY <1>1 DEF Promises, MessagesOK, Says
  <2>2. \A t \in Switches : pc'[t] \in InSwitch =>
          /\ \A u \in Switches : pc'[u] \in InSwitch /\ Machine(u) = Machine(t) => u = t
          /\ message'[Machine(t)].what = "pending" => message'[Machine(t)].of = t
    <3>1. pc'[s] \notin InSwitch
      BY <1>1
    <3>2. ASSUME NEW t \in Switches, pc'[t] \in InSwitch,
                 message'[Machine(t)].what = "pending"
          PROVE  message'[Machine(t)].of = t
      <4>1. Machine(t) \in Machines /\ Machine(t) # Machine(s)
        BY <1>1, <3>2 DEF Machine, Says
      <4>2. QED
        BY <1>1, <3>1, <3>2, <4>1 DEF Promises, MessagesOK
    <3>3. QED
      BY <1>1, <3>1, <3>2 DEF Promises, MessagesOK
  <2>3. ASSUME NEW t \in Switches, pc'[t] \in Told
        PROVE  message'[Machine(t)] # Says(t, "pending")
    <3>1. CASE Machine(t) = Machine(s)
      BY <1>1, <3>1 DEF Says
    <3>2. CASE Machine(t) # Machine(s)
      BY <1>1, <2>3, <3>2 DEF Promises, MessagesOK, Machine, Told
    <3>3. QED
      BY <3>1, <3>2
  <2>4. QED
    BY <2>1, <2>2, <2>3 DEF MessagesOK, Told, Machine
<1>4. QED
  BY <1>2, <1>3 DEF Promises

\* A renaming, or a switch that failed, is over once the row has been told.
LEMMA PromisesOver ==
  ASSUME NEW s \in Switches, NEW l \in Over, TypeOK, Promises, pc[s] \in Told,
         Go(s, l), Forget(s) \/ UNCHANGED timers, UNCHANGED rows
  PROVE  Promises'
<1>1. /\ pc'[s] = l /\ \A t \in Switches \ {s} : pc'[t] = pc[t]
      /\ message' = message /\ exists' = exists
  BY DEF Go, TypeOK, rows
<1>2. PendingUnlessForgotten'
  <2>1. ASSUME NEW m \in Machines, m \in exists, message[m].what = "pending"
        PROVE  (UnderWay(message[m].of) \/ Forgotten(message[m].of))'
    <3>1. /\ message[m].of \in Switches /\ Machine(message[m].of) = m
          /\ message[m] = Says(message[m].of, "pending")
      BY <2>1, Promise DEF Promises
    <3>2. message[m].of # s
      BY <3>1 DEF Promises, MessagesOK, Told
    <3>3. UnderWay(message[m].of) \/ Forgotten(message[m].of)
      BY <2>1 DEF Promises, PendingUnlessForgotten
    <3>4. QED
      BY <1>1, <3>1, <3>2, <3>3 DEF UnderWay, Renaming, Forgotten
  <2>2. QED
    BY <1>1, <2>1 DEF PendingUnlessForgotten
<1>3. \A m \in Machines : timers'[m] # None => Machine(timers'[m][1]) = m
  BY DEF Forget, Promises, MessagesOK, TypeOK
<1>4. MessagesOK'
  BY <1>1, <1>3 DEF Promises, MessagesOK, InSwitch, Over, Told, Machine
<1>5. QED
  BY <1>2, <1>4 DEF Promises

LEMMA PromisesNote ==
  ASSUME NEW s \in Switches, TypeOK, Promises, pc[s] \notin InSwitch, Note(s)
  PROVE  Promises'
<1>1. /\ Go(s, "noteError") /\ UNCHANGED rows /\ UNCHANGED timers
      /\ "noteError" \in {"waiting"} \cup Attempting /\ "noteError" \notin Told
  BY DEF Note, clock, Attempting, Told
<1>2. \A m \in Machines : timers'[m] # None => Machine(timers'[m][1]) = m
  BY <1>1 DEF Promises, MessagesOK
<1>3. QED
  BY <1>1, <1>2, PromisesGoOn

LEMMA PromisesAgain ==
  ASSUME NEW s \in Switches, TypeOK, Promises, pc[s] \notin InSwitch, Again(s)
  PROVE  Promises'
<1>1. PICK l \in {"waiting", "rowManual"} : Go(s, l)
  BY DEF Again
<1>2. l \in {"waiting"} \cup Attempting /\ l \notin Told /\ UNCHANGED rows
  BY DEF Attempting, Told, Again
<1>3. \A m \in Machines : timers'[m] # None => Machine(timers'[m][1]) = m
  <2>1. CASE UNCHANGED timers
    BY <2>1 DEF Promises, MessagesOK
  <2>2. CASE timers' = [timers EXCEPT ![Machine(s)] = <<s, attempt[s] + 1>>]
    BY <2>2 DEF Promises, MessagesOK, TypeOK
  <2>3. QED
    BY <2>1, <2>2 DEF Again, Arm, clock
<1>4. QED
  BY <1>1, <1>2, <1>3, PromisesGoOn

LEMMA PromisesDie ==
  ASSUME TypeOK, Promises, Die
  PROVE  Promises'
<1>1. /\ message' = message /\ exists' = exists /\ timers' = [m \in Machines |-> None]
      /\ \A s \in Switches :
           /\ pc'[s] = "lost" \/ (pc'[s] = pc[s] /\ (pc[s] = "idle" \/ pc[s] \in Over))
           /\ pc'[s] \notin InSwitch /\ pc'[s] \notin Told
           /\ UnderWay(s) => pc'[s] = "lost"
  BY DEF Die, rows, Over, InSwitch, Told, UnderWay, Renaming, Attempting
<1>2. PendingUnlessForgotten'
  <2>1. ASSUME NEW m \in Machines, m \in exists, message[m].what = "pending"
        PROVE  Forgotten(message[m].of)'
    <3>1. message[m].of \in Switches
      BY <2>1, Promise DEF Promises
    <3>2. UnderWay(message[m].of) \/ Forgotten(message[m].of)
      BY <2>1 DEF Promises, PendingUnlessForgotten
    <3>3. pc'[message[m].of] = "lost" \/ pc'[message[m].of] = pc[message[m].of]
      BY <1>1, <3>1
    <3>4. QED
      BY <1>1, <3>1, <3>2, <3>3 DEF Forgotten
  <2>2. QED
    BY <1>1, <2>1 DEF PendingUnlessForgotten
<1>3. MessagesOK'
  BY <1>1 DEF Promises, MessagesOK, Told
<1>4. QED
  BY <1>2, <1>3 DEF Promises

\* The steps of a switch, which speaks for its machine alone.
LEMMA PromisesSwitch ==
  ASSUME NEW s \in Switches, NEW l \in InSwitch, NEW what,
         what \in {"running", "failed", "pending"},
         TypeOK, Promises, Go(s, l), UNCHANGED <<timers, exists>>,
         message' = [message EXCEPT ![Machine(s)] = Says(s, what)],
         \A t \in Switches \ {s} : Machine(t) = Machine(s) => pc[t] \notin InSwitch,
         what = "pending" => l \notin Told
  PROVE  Promises'
<1>1. /\ pc'[s] = l /\ \A t \in Switches \ {s} : pc'[t] = pc[t]
      /\ Machine(s) \in Machines
      /\ message'[Machine(s)] = Says(s, what)
      /\ \A m \in Machines \ {Machine(s)} : message'[m] = message[m]
  BY DEF Go, TypeOK, Machine
<1>2. PendingUnlessForgotten'
  <2>1. ASSUME NEW m \in Machines, m \in exists, message'[m].what = "pending"
        PROVE  (UnderWay(message[m].of) \/ Forgotten(message[m].of))'
    <3>1. CASE m = Machine(s)
      BY <1>1, <2>1, <3>1 DEF Says, UnderWay
    <3>2. CASE m # Machine(s)
      <4>1. message'[m] = message[m]
        BY <1>1, <3>2
      <4>2. message[m].of \in Switches /\ Machine(message[m].of) = m
        BY <2>1, <4>1, Promise DEF Promises
      <4>3. UnderWay(message[m].of) \/ Forgotten(message[m].of)
        BY <2>1, <4>1 DEF Promises, PendingUnlessForgotten
      <4>4. QED
        BY <1>1, <3>2, <4>1, <4>2, <4>3 DEF UnderWay, Renaming, Forgotten
    <3>3. QED
      BY <3>1, <3>2
  <2>2. QED
    BY <2>1 DEF PendingUnlessForgotten
<1>3. MessagesOK'
  <2>1. \A m \in Machines :
          /\ timers'[m] # None => Machine(timers'[m][1]) = m
          /\ message'[m].what = "pending" => message'[m].of \in Switches
          /\ message'[m].of # None => Machine(message'[m].of) = m
    BY <1>1 DEF Promises, MessagesOK, Says
  <2>2. ASSUME NEW t \in Switches, pc'[t] \in InSwitch
        PROVE  /\ \A u \in Switches : pc'[u] \in InSwitch /\ Machine(u) = Machine(t) => u = t
               /\ message'[Machine(t)].what = "pending" => message'[Machine(t)].of = t
    <3>1. CASE t = s
      BY <1>1, <3>1 DEF Says
    <3>2. CASE t # s
      <4>1. pc[t] \in InSwitch /\ Machine(t) # Machine(s) /\ Machine(t) \in Machines
        BY <1>1, <2>2, <3>2 DEF Machine
      <4>2. QED
        BY <1>1, <3>2, <4>1 DEF Promises, MessagesOK
    <3>3. QED
      BY <3>1, <3>2
  <2>3. ASSUME NEW t \in Switches, pc'[t] \in Told
        PROVE  message'[Machine(t)] # Says(t, "pending")
    <3>1. CASE t = s
      BY <1>1, <2>3, <3>1 DEF Says
    <3>2. CASE t # s /\ Machine(t) = Machine(s)
      BY <1>1, <3>2 DEF Says
    <3>3. CASE t # s /\ Machine(t) # Machine(s)
      BY <1>1, <2>3, <3>3 DEF Promises, MessagesOK, Machine
    <3>4. QED
      BY <3>1, <3>2, <3>3
  <2>4. QED
    BY <2>1, <2>2, <2>3 DEF MessagesOK, Told
<1>4. QED
  BY <1>2, <1>3 DEF Promises

\* A switch goes on, or is left with an error, and writes nothing to the row.
LEMMA PromisesWithin ==
  ASSUME NEW s \in Switches, NEW l \in (InSwitch \ Told) \cup {"stranded"},
         TypeOK, Promises, pc[s] \in InSwitch, Go(s, l), UNCHANGED rows,
         UNCHANGED timers
  PROVE  Promises'
<1>1. /\ pc'[s] = l /\ \A t \in Switches \ {s} : pc'[t] = pc[t]
      /\ message' = message /\ exists' = exists /\ timers' = timers
      /\ pc'[s] \notin Told
  BY DEF Go, rows, TypeOK, Told
<1>2. MessagesOK'
  BY <1>1 DEF Promises, MessagesOK
<1>3. PendingUnlessForgotten'
  <2>1. ASSUME NEW m \in Machines, m \in exists, message[m].what = "pending"
        PROVE  (UnderWay(message[m].of) \/ Forgotten(message[m].of))'
    <3>1. message[m].of \in Switches
      BY <2>1, Promise DEF Promises
    <3>2. UnderWay(message[m].of) \/ Forgotten(message[m].of)
      BY <2>1 DEF Promises, PendingUnlessForgotten
    <3>3. QED
      BY <1>1, <3>1, <3>2 DEF UnderWay, Renaming, Forgotten
  <2>2. QED
    BY <1>1, <2>1 DEF PendingUnlessForgotten
<1>4. QED
  BY <1>2, <1>3 DEF Promises

\* The end of a switch stops the timer it finds, and with it the renaming, whose
\* promise its own has replaced.
LEMMA PromisesSchedule ==
  ASSUME NEW s \in Switches, TypeOK, Promises, Schedule(s)
  PROVE  Promises'
<1>1. /\ pc[s] \in {"logging", "relogging"} /\ pc'[s] = "waiting"
      /\ timers' = [timers EXCEPT ![Machine(s)] = <<s, 1>>]
      /\ message' = message /\ exists' = exists
  BY DEF Schedule, Arm, rows
<1>2. ASSUME NEW t \in Switches \ {s}
      PROVE  \/ pc'[t] = pc[t]
             \/ pc'[t] = "superseded" /\ Machine(t) = Machine(s)
  <2>0. pc'[t] = IF \E n \in 1..MaxAttempts : <<t, n>> \in armed \cap Known(Machine(s))
                   THEN "superseded" ELSE pc[t]
    BY DEF Schedule
  <2>1. CASE \E n \in 1..MaxAttempts : <<t, n>> \in armed \cap Known(Machine(s))
    <3>1. PICK n \in 1..MaxAttempts : <<t, n>> \in Known(Machine(s))
      BY <2>1
    <3>2. timers[Machine(s)] = <<t, n>> /\ timers[Machine(s)] # None
      BY <3>1 DEF Known
    <3>3. Machine(s) \in Machines
      BY DEF Machine
    <3>4. Machine(timers[Machine(s)][1]) = Machine(s)
      BY <3>2, <3>3 DEF Promises, MessagesOK
    <3>5. timers[Machine(s)][1] = t
      BY <3>2
    <3>6. QED
      BY <2>0, <2>1, <3>4, <3>5
  <2>2. CASE ~ \E n \in 1..MaxAttempts : <<t, n>> \in armed \cap Known(Machine(s))
    BY <2>0, <2>2
  <2>3. QED
    BY <2>1, <2>2
<1>3. Machine(s) \in Machines /\ pc[s] \in InSwitch
  BY <1>1 DEF Machine, InSwitch
<1>4. PendingUnlessForgotten'
  <2>1. ASSUME NEW m \in Machines, m \in exists, message[m].what = "pending"
        PROVE  (UnderWay(message[m].of) \/ Forgotten(message[m].of))'
    <3>1. message[m].of \in Switches /\ Machine(message[m].of) = m
      BY <2>1, Promise DEF Promises
    <3>2. UnderWay(message[m].of) \/ Forgotten(message[m].of)
      BY <2>1 DEF Promises, PendingUnlessForgotten
    <3>3. CASE message[m].of = s
      BY <1>1, <3>3 DEF UnderWay, Renaming, Forgotten
    <3>4. CASE message[m].of # s
      <4>1. m # Machine(s)
        BY <1>3, <2>1, <3>4 DEF Promises, MessagesOK
      <4>2. pc'[message[m].of] = pc[message[m].of]
        BY <1>2, <3>1, <3>4, <4>1
      <4>3. QED
        BY <1>1, <3>2, <4>2 DEF UnderWay, Renaming, Forgotten
    <3>5. QED
      BY <3>3, <3>4
  <2>2. QED
    BY <1>1, <2>1 DEF PendingUnlessForgotten
<1>5. MessagesOK'
  <2>1. \A m \in Machines : timers'[m] # None => Machine(timers'[m][1]) = m
    BY <1>1, <1>3 DEF Promises, MessagesOK, TypeOK
  <2>2. \A t \in Switches : pc'[t] \in InSwitch \cup Told => t # s /\ pc'[t] = pc[t]
    BY <1>1, <1>2 DEF InSwitch, Told
  <2>3. QED
    BY <1>1, <2>1, <2>2 DEF Promises, MessagesOK, Told
<1>6. QED
  BY <1>4, <1>5 DEF Promises

LEMMA PromisesStep == TypeOK /\ Promises /\ [Next]_vars => Promises'
<1> SUFFICES ASSUME TypeOK, Promises, [Next]_vars PROVE Promises'
  OBVIOUS
<1>0. \A m \in Machines : timers[m] # None => Machine(timers[m][1]) = m
  BY DEF Promises, MessagesOK
<1>1. ASSUME NEW s \in Switches, StartSwitch(s) PROVE Promises'
  BY <1>1, PromisesSwitch DEF StartSwitch, clock, InSwitch
<1>2. ASSUME NEW s \in Switches, SwitchFails(s) \/ SwitchSucceeds(s) PROVE Promises'
  <2>1. pc[s] \in InSwitch
    BY <1>2 DEF SwitchFails, SwitchSucceeds, InSwitch
  <2>2. \A t \in Switches \ {s} : Machine(t) = Machine(s) => pc[t] \notin InSwitch
    BY <2>1 DEF Promises, MessagesOK
  <2>3. CASE SwitchFails(s)
    BY <2>2, <2>3, PromisesSwitch DEF SwitchFails, clock, InSwitch
  <2>4. CASE SwitchSucceeds(s)
    <3>1. PICK l \in {"logging", "relogging"} : Go(s, l)
      BY <2>4 DEF SwitchSucceeds
    <3>2. l \in InSwitch /\ l \notin Told
      BY DEF InSwitch, Told
    <3>3. QED
      BY <2>2, <2>4, <3>1, <3>2, PromisesSwitch DEF SwitchSucceeds, clock
  <2>5. QED
    BY <1>2, <2>3, <2>4
<1>3. ASSUME NEW s \in Switches, SwitchErrs(s) \/ LogSuccessFails(s) \/ SwitchThrows(s)
      PROVE  Promises'
  <2>1. PICK l \in {"catching", "stranded"} : Go(s, l)
    BY <1>3 DEF SwitchErrs, LogSuccessFails, SwitchThrows
  <2>2. /\ l \in (InSwitch \ Told) \cup {"stranded"} /\ pc[s] \in InSwitch
        /\ UNCHANGED rows /\ UNCHANGED timers
    BY <1>3 DEF SwitchErrs, LogSuccessFails, SwitchThrows, clock, InSwitch, Told
  <2>3. QED
    BY <2>1, <2>2, PromisesWithin
<1>3a. ASSUME NEW s \in Switches, CloseFailed(s) PROVE Promises'
  BY <1>3a, PromisesOver DEF CloseFailed, clock, Told, Over
<1>4. ASSUME NEW s \in Switches, Schedule(s) PROVE Promises'
  BY <1>4, PromisesSchedule
<1>5. ASSUME NEW s \in Switches, Fire(s) PROVE Promises'
  <2>1. /\ pc[s] \notin InSwitch /\ Go(s, "config") /\ UNCHANGED rows /\ UNCHANGED timers
        /\ "config" \in {"waiting"} \cup Attempting /\ "config" \notin Told
    BY <1>5 DEF Fire, InSwitch, Attempting, Told
  <2>2. QED
    BY <1>0, <2>1, PromisesGoOn
<1>6. ASSUME NEW s \in Switches, LookUp(s) PROVE Promises'
  <2>1. CASE Note(s)
    BY <1>6, <2>1, PromisesNote DEF LookUp, InSwitch
  <2>2. CASE ~ Note(s)
    <3>1. /\ pc[s] \notin InSwitch /\ Go(s, "rename") /\ UNCHANGED rows /\ UNCHANGED timers
          /\ "rename" \in {"waiting"} \cup Attempting /\ "rename" \notin Told
      BY <1>6, <2>2 DEF LookUp, InSwitch, Attempting, Told, clock
    <3>2. QED
      BY <1>0, <3>1, PromisesGoOn
  <2>3. QED
    BY <2>1, <2>2
<1>7. ASSUME NEW s \in Switches, Rename(s) PROVE Promises'
  <2>1. PICK l \in {"rowSynced", "noteRetry", "noteError"} : Go(s, l)
    BY <1>7 DEF Rename
  <2>2. /\ pc[s] \notin InSwitch /\ UNCHANGED rows /\ UNCHANGED timers
        /\ l \in {"waiting"} \cup Attempting /\ l \notin Told
    BY <1>7 DEF Rename, InSwitch, Attempting, Told, clock
  <2>3. QED
    BY <1>0, <2>1, <2>2, PromisesGoOn
<1>8. ASSUME NEW s \in Switches, RowSynced(s) PROVE Promises'
  <2>1. pc[s] \notin InSwitch /\ "logSynced" \in Told \ InSwitch
    BY <1>8 DEF RowSynced, InSwitch, Told
  <2>2. CASE Note(s)
    BY <2>1, <2>2, PromisesNote
  <2>3. CASE Tell(s, "synced") /\ Go(s, "logSynced") /\ UNCHANGED timers
    BY <2>1, <2>3, PromisesTold
  <2>4. QED
    BY <1>8, <2>2, <2>3 DEF RowSynced, clock
<1>9. ASSUME NEW s \in Switches, LogSynced(s) PROVE Promises'
  <2>1. pc[s] \notin InSwitch /\ pc[s] \in Told /\ "noteSynced" \in Attempting
    BY <1>9 DEF LogSynced, InSwitch, Told, Attempting
  <2>2. CASE Note(s)
    BY <2>1, <2>2, PromisesNote
  <2>3. CASE Go(s, "noteSynced") /\ UNCHANGED rows /\ UNCHANGED timers
    BY <1>0, <2>1, <2>3, PromisesGoOn
  <2>4. QED
    BY <1>9, <2>2, <2>3 DEF LogSynced, clock
<1>10. ASSUME NEW s \in Switches, NoteSynced(s) PROVE Promises'
  <2>1. pc[s] \notin InSwitch /\ pc[s] \in Told /\ "synced" \in Over
    BY <1>10 DEF NoteSynced, InSwitch, Told, Over
  <2>2. CASE Note(s)
    BY <2>1, <2>2, PromisesNote
  <2>3. CASE Go(s, "synced") /\ Forget(s) /\ UNCHANGED rows
    BY <2>1, <2>3, PromisesOver
  <2>4. QED
    BY <1>10, <2>2, <2>3 DEF NoteSynced
<1>11. ASSUME NEW s \in Switches, NoteRetry(s) PROVE Promises'
  <2>1. pc[s] \notin InSwitch
    BY <1>11 DEF NoteRetry, InSwitch
  <2>2. QED
    BY <1>11, <2>1, PromisesNote, PromisesAgain DEF NoteRetry
<1>12. ASSUME NEW s \in Switches, NoteError(s) PROVE Promises'
  <2>1. pc[s] \notin InSwitch
    BY <1>12 DEF NoteError, InSwitch
  <2>2. QED
    BY <1>12, <2>1, PromisesDie, PromisesAgain DEF NoteError
<1>13. ASSUME NEW s \in Switches, RowManual(s) PROVE Promises'
  <2>1. pc[s] \notin InSwitch /\ "logManual" \in Told \ InSwitch
    BY <1>13 DEF RowManual, InSwitch, Told
  <2>2. CASE Die
    BY <2>2, PromisesDie
  <2>3. CASE Tell(s, "manual") /\ Go(s, "logManual") /\ UNCHANGED timers
    BY <2>1, <2>3, PromisesTold
  <2>4. QED
    BY <1>13, <2>2, <2>3 DEF RowManual, clock
<1>14. ASSUME NEW s \in Switches, LogManual(s) PROVE Promises'
  <2>1. pc[s] \notin InSwitch /\ pc[s] \in Told /\ "noteManual" \in Attempting
    BY <1>14 DEF LogManual, InSwitch, Told, Attempting
  <2>2. CASE Die
    BY <2>2, PromisesDie
  <2>3. CASE Go(s, "noteManual") /\ UNCHANGED rows /\ UNCHANGED timers
    BY <1>0, <2>1, <2>3, PromisesGoOn
  <2>4. QED
    BY <1>14, <2>2, <2>3 DEF LogManual, clock
<1>15. ASSUME NEW s \in Switches, NoteManual(s) PROVE Promises'
  <2>1. pc[s] \in Told /\ "manual" \in Over
    BY <1>15 DEF NoteManual, Told, Over
  <2>2. CASE Die
    BY <2>2, PromisesDie
  <2>3. CASE Go(s, "manual") /\ Forget(s) /\ UNCHANGED rows
    BY <2>1, <2>3, PromisesOver
  <2>4. QED
    BY <1>15, <2>2, <2>3 DEF NoteManual
<1>16. ASSUME NEW m \in Machines, Remove(m) PROVE Promises'
  <2>1. pc' = pc /\ message' = message /\ timers' = timers /\ exists' \subseteq exists
    BY <1>16 DEF Remove, clock
  <2>2. QED
    BY <2>1 DEF Promises, MessagesOK, PendingUnlessForgotten, UnderWay, Renaming, Forgotten
<1>17. CASE UNCHANGED vars
  BY <1>17 DEF vars, clock, rows, Promises, MessagesOK, PendingUnlessForgotten, UnderWay,
               Renaming, Forgotten
<1>18. QED
  BY <1>1, <1>2, <1>3, <1>4, <1>5, <1>6, <1>7, <1>8, <1>9, <1>10, <1>11, <1>12,
     <1>13, <1>14, <1>15, <1>16, <1>17, <1>3a DEF Next, RenameStep

LEMMA InitPromises == Init => Promises
BY DEF Init, Promises, MessagesOK, PendingUnlessForgotten, Nothing, Says, InSwitch, Told

\* A row that says the name is being synchronised in the background has a renaming
\* under way for it, or its switch is about to schedule one or to fail, or it was
\* forgotten: the process died in the meantime, or the switch could not write its log
\* after the promise and its catch block then threw as well.
THEOREM PromisesKept == Spec => []PendingUnlessForgotten
<1>1. Init => TypeOK /\ Promises
  BY InitType, InitPromises
<1>2. (TypeOK /\ Promises) /\ [Next]_vars => (TypeOK /\ Promises)'
  BY TypeStep, PromisesStep
<1>3. TypeOK /\ Promises => PendingUnlessForgotten
  BY DEF Promises
<1>4. QED
  BY <1>1, <1>2, <1>3, PTL DEF Spec

\* A switch that is scheduled leaves no earlier renaming of its machine waiting, if
\* none is in an attempt and the Map knows every running timer.
THEOREM Supersedes == Spec => ScheduleSupersedes
<1>1. TypeOK /\ [Next]_vars => SchedulesAlone
  <2> SUFFICES ASSUME TypeOK, [Next]_vars, NEW s \in Switches, Superseding(s)
               PROVE  NoneBefore(s)
    BY DEF SchedulesAlone
  <2> USE DEF Superseding
  <2>1. Schedule(s)
    <3>1. ASSUME NEW u \in Switches, RenameStep(u), ~ Die PROVE FALSE
      <4>1. pc[u] \notin {"logging", "relogging"} /\ \A t \in Switches \ {u} : pc'[t] = pc[t]
        BY <3>1 DEF RenameStep, Fire, LookUp, Rename, RowSynced, LogSynced, NoteSynced,
                    NoteRetry, NoteError, RowManual, LogManual, NoteManual, Note, Again,
                    Go, TypeOK
      <4>2. QED
        BY <4>1
    <3>2. ASSUME Die PROVE FALSE
      BY <3>2 DEF Die, Over
    <3>3. ASSUME NEW u \in Switches,
                 \/ StartSwitch(u) \/ SwitchErrs(u) \/ SwitchSucceeds(u)
                 \/ LogSuccessFails(u) \/ SwitchFails(u) \/ CloseFailed(u) \/ SwitchThrows(u)
          PROVE  FALSE
      BY <3>3 DEF StartSwitch, SwitchErrs, SwitchSucceeds, LogSuccessFails, SwitchFails,
                  CloseFailed, SwitchThrows, Go, TypeOK
    <3>4. ASSUME NEW u \in Switches, u # s, Schedule(u) PROVE FALSE
      <4>1. pc'[s] \in {"superseded", pc[s]}
        BY <3>4 DEF Schedule
      <4>2. QED
        BY <4>1
    <3>5. ASSUME NEW m \in Machines, Remove(m) PROVE FALSE
      BY <3>5 DEF Remove
    <3>6. ASSUME UNCHANGED vars PROVE FALSE
      BY <3>6 DEF vars
    <3>7. QED
      BY <3>1, <3>2, <3>3, <3>4, <3>5, <3>6 DEF Next
  <2>2. armed' = (armed \ Known(Machine(s))) \cup {<<s, 1>>}
    BY <2>1 DEF Schedule, Arm
  <2>3. ASSUME NEW t \in Switches \ {s}, Machine(t) = Machine(s),
               NEW n \in 1..MaxAttempts, <<t, n>> \in armed'
        PROVE  FALSE
    <3>1. <<t, n>> \in armed /\ <<t, n>> \notin Known(Machine(s))
      BY <2>2, <2>3
    <3>2. timers[Machine(s)] = <<t, n>>
      BY <2>3, <3>1 DEF RunningTimersAreKnown
    <3>3. <<t, n>> # None
      BY <2>3
    <3>4. QED
      BY <3>1, <3>2, <3>3 DEF Known
  <2>4. QED
    BY <2>3 DEF NoneBefore
<1>2. QED
  BY <1>1, TypeCorrect, PTL DEF Spec, ScheduleSupersedes
=============================================================================
