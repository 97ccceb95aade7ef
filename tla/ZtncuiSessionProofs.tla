------------------------ MODULE ZtncuiSessionProofs ------------------------
(***************************************************************************)
(* For any calls, versions of the row, servers, retries and failures: an   *)
(* edit of a controller ends the session of its old login; a renaming that *)
(* is confirmed stays; an answer "ok" is of a request that was carried out.*)
(***************************************************************************)
EXTENDS ZtncuiSession, TLAPS

Places == {"idle", "session", "login", "send", "answered", "clear", "done"}

\* Where the calls are and which version of the row they have read.
CallsOK ==
    /\ pc \in [Ops -> Places] /\ conf \in [Ops -> Versions \cup {0}]
    /\ config \in Versions \cup {0} /\ met \subseteq Ops
    /\ \A o \in Ops : InFlight(o) => conf[o] \in Versions
    /\ \A o \in met : pc[o] # "idle"

\* A call that goes on with an old version of the row does so because its edit is not yet
\* over, or has noted that it met the call.
OldCallsAreMet ==
    \A o \in Ops : InFlight(o) /\ conf[o] # config =>
        o \in met \/ \E e \in Ops : pc[e] = "clear"

SInv == CallsOK /\ OldCallsAreMet /\ SessionIsCurrent

\* What a call moves to, seen from the places of all calls.
LEMMA Moves ==
    ASSUME CallsOK, NEW o \in Ops, NEW l \in Places, Goes(o, l)
    PROVE  /\ pc' \in [Ops -> Places]
           /\ \A p \in Ops : pc'[p] = IF p = o THEN l ELSE pc[p]
  BY DEF CallsOK, Goes

LEMMA ClearStays ==
    ASSUME NEW o \in Ops, pc[o] # "clear", NEW l \in Places, CallsOK, Goes(o, l)
    PROVE  (\E e \in Ops : pc[e] = "clear") => \E e \in Ops : pc'[e] = "clear"
<1>1. \A p \in Ops : pc'[p] = IF p = o THEN l ELSE pc[p] BY Moves
<1> QED BY <1>1

\* A step of a call that is under way and leaves the row, the session and what was met.
LEMMA StepKeeps ==
    ASSUME SInv, NEW o \in Ops, InFlight(o), NEW l \in Places \ {"idle", "clear"}, Goes(o, l),
           UNCHANGED <<config, conf, met>>,
           cookie' = cookie \/ cookie' = None
    PROVE  SInv'
<1>1. /\ pc' \in [Ops -> Places]
      /\ \A p \in Ops : pc'[p] = IF p = o THEN l ELSE pc[p]
  BY Moves DEF SInv
<1>2. \A p \in Ops : InFlight(p)' => InFlight(p) BY <1>1 DEF InFlight
<1>3. CallsOK' BY <1>1, <1>2 DEF SInv, CallsOK
<1>4. (\E e \in Ops : pc[e] = "clear") => \E e \in Ops : pc'[e] = "clear"
  BY <1>1 DEF InFlight
<1>5. OldCallsAreMet' BY <1>2, <1>4 DEF SInv, OldCallsAreMet
<1>6. SessionIsCurrent' BY <1>4 DEF SInv, SessionIsCurrent
<1> QED BY <1>3, <1>5, <1>6 DEF SInv

\* Nobody moves.
LEMMA StillKeeps ==
    ASSUME SInv, UNCHANGED <<config, cookie, pc, conf, met>> PROVE SInv'
  BY DEF SInv, CallsOK, OldCallsAreMet, SessionIsCurrent, InFlight
-----------------------------------------------------------------------------
LEMMA InitS == Init => SInv
<1> SUFFICES ASSUME Init PROVE SInv OBVIOUS
<1> USE SessionAssumption DEF Init
<1>1. 1 \in Versions /\ config \in Versions BY DEF Versions
<1>2. CallsOK BY <1>1 DEF CallsOK, Places, InFlight
<1> QED BY <1>2 DEF SInv, OldCallsAreMet, SessionIsCurrent, InFlight

LEMMA CallKeeps == ASSUME SInv, NEW o \in Ops, Call(o) PROVE SInv'
<1> USE DEF Call
<1>1. CASE config = 0
  <2>1. Goes(o, "done") /\ UNCHANGED <<config, cookie, conf, met>> BY <1>1 DEF End
  <2>2. /\ pc' \in [Ops -> Places]
        /\ \A p \in Ops : pc'[p] = IF p = o THEN "done" ELSE pc[p]
    BY <2>1, Moves DEF SInv, Places
  <2>3. \A p \in Ops : InFlight(p)' => InFlight(p) BY <2>2 DEF InFlight
  <2>4. CallsOK' BY <2>1, <2>2, <2>3 DEF SInv, CallsOK
  <2>5. (\E e \in Ops : pc[e] = "clear") => \E e \in Ops : pc'[e] = "clear" BY <2>2
  <2>6. OldCallsAreMet' BY <2>1, <2>3, <2>5 DEF SInv, OldCallsAreMet
  <2>7. SessionIsCurrent' BY <2>1, <2>5 DEF SInv, SessionIsCurrent
  <2> QED BY <2>4, <2>6, <2>7 DEF SInv
<1>2. CASE config # 0
  <2>1. /\ Goes(o, "session") /\ UNCHANGED <<config, cookie, met>> /\ pc[o] = "idle"
        /\ conf' = [conf EXCEPT ![o] = config]
    BY <1>2
  <2>2. /\ pc' \in [Ops -> Places]
        /\ \A p \in Ops : pc'[p] = IF p = o THEN "session" ELSE pc[p]
    BY <2>1, Moves DEF SInv, Places
  <2>3. /\ conf' \in [Ops -> Versions \cup {0}]
        /\ \A p \in Ops : conf'[p] = IF p = o THEN config ELSE conf[p]
    BY <2>1 DEF SInv, CallsOK
  <2>4. config \in Versions BY <1>2 DEF SInv, CallsOK
  <2>5. \A p \in Ops : InFlight(p)' /\ p # o => InFlight(p) BY <2>2 DEF InFlight
  <2>6. CallsOK' BY <2>1, <2>2, <2>3, <2>4, <2>5 DEF SInv, CallsOK
  <2>7. (\E e \in Ops : pc[e] = "clear") => \E e \in Ops : pc'[e] = "clear" BY <2>1, <2>2
  <2>8. OldCallsAreMet'
    <3> SUFFICES ASSUME NEW p \in Ops, InFlight(p)', conf'[p] # config
                 PROVE  p \in met \/ \E e \in Ops : pc'[e] = "clear"
      BY <2>1 DEF OldCallsAreMet
    <3>1. p # o /\ conf'[p] = conf[p] BY <2>3
    <3> QED BY <2>5, <2>7, <3>1 DEF SInv, OldCallsAreMet
  <2>9. SessionIsCurrent'
    <3>1. o \notin met BY <2>1 DEF SInv, CallsOK
    <3>2. \A p \in met : conf'[p] = conf[p] BY <2>3, <3>1 DEF SInv, CallsOK
    <3> QED BY <2>1, <2>7, <3>2 DEF SInv, SessionIsCurrent
  <2> QED BY <2>6, <2>8, <2>9 DEF SInv
<1> QED BY <1>1, <1>2

LEMMA LoginKeeps == ASSUME SInv, NEW o \in Ops, Login(o) PROVE SInv'
<1> USE DEF Login
<1>1. CASE Breaks(o) /\ UNCHANGED cookie
  BY <1>1, StepKeeps DEF Breaks, InFlight, Places
<1>2. CASE cookie' = [by |-> conf[o], gen |-> gen[Host(o)]] /\ Goes(o, "send")
  <2>1. /\ pc' \in [Ops -> Places]
        /\ \A p \in Ops : pc'[p] = IF p = o THEN "send" ELSE pc[p]
    BY <1>2, Moves DEF SInv, Places
  <2>2. \A p \in Ops : InFlight(p)' => InFlight(p) BY <2>1 DEF InFlight
  <2>3. CallsOK' BY <2>1, <2>2 DEF SInv, CallsOK
  <2>4. (\E e \in Ops : pc[e] = "clear") => \E e \in Ops : pc'[e] = "clear" BY <2>1
  <2>5. OldCallsAreMet' BY <2>2, <2>4 DEF SInv, OldCallsAreMet
  <2>6. cookie'.by = conf[o] BY <1>2
  <2>7. conf[o] # config => o \in met \/ \E e \in Ops : pc[e] = "clear"
    BY DEF SInv, OldCallsAreMet, InFlight
  <2>8. SessionIsCurrent' BY <2>4, <2>6, <2>7 DEF SessionIsCurrent
  <2> QED BY <2>3, <2>5, <2>8 DEF SInv
<1> QED BY <1>1, <1>2

LEMMA WriteKeeps ==
    ASSUME SInv, NEW o \in Ops, NEW k, NEW new \in Versions \cup {0}, Write(o, k, new) PROVE SInv'
<1> USE DEF Write
<1>1. CASE End(o, "failed") /\ UNCHANGED config
  <2>1. Goes(o, "done") BY <1>1 DEF End
  <2>2. /\ pc' \in [Ops -> Places]
        /\ \A p \in Ops : pc'[p] = IF p = o THEN "done" ELSE pc[p]
    BY <2>1, Moves DEF SInv, Places
  <2>3. \A p \in Ops : InFlight(p)' => InFlight(p) BY <2>2 DEF InFlight
  <2>4. CallsOK' BY <1>1, <2>2, <2>3 DEF SInv, CallsOK
  <2>5. (\E e \in Ops : pc[e] = "clear") => \E e \in Ops : pc'[e] = "clear" BY <2>2
  <2>6. OldCallsAreMet' BY <1>1, <2>3, <2>5 DEF SInv, OldCallsAreMet
  <2>7. SessionIsCurrent' BY <1>1, <2>5 DEF SInv, SessionIsCurrent
  <2> QED BY <2>4, <2>6, <2>7 DEF SInv
<1>2. CASE config' = new /\ Goes(o, "clear")
  <2>1. /\ pc' \in [Ops -> Places]
        /\ \A p \in Ops : pc'[p] = IF p = o THEN "clear" ELSE pc[p]
    BY <1>2, Moves DEF SInv, Places
  <2>2. \A p \in Ops : InFlight(p)' => InFlight(p) BY <2>1 DEF InFlight
  <2>3. CallsOK' BY <1>2, <2>1, <2>2 DEF SInv, CallsOK
  <2>4. \E e \in Ops : pc'[e] = "clear" BY <2>1
  <2> QED BY <2>3, <2>4 DEF SInv, OldCallsAreMet, SessionIsCurrent
<1> QED BY <1>1, <1>2

LEMMA ClearKeeps == ASSUME SInv, NEW o \in Ops, Clear(o) PROVE SInv'
<1> USE DEF Clear
<1>1. Goes(o, "done") BY DEF End
<1>2. /\ pc' \in [Ops -> Places]
      /\ \A p \in Ops : pc'[p] = IF p = o THEN "done" ELSE pc[p]
  BY <1>1, Moves DEF SInv, Places
<1>3. \A p \in Ops : InFlight(p)' => InFlight(p) /\ p \in met' BY <1>2 DEF InFlight
<1>4. \A p \in met' : p \in Ops /\ pc'[p] # "idle" BY <1>2 DEF SInv, CallsOK, InFlight
<1>5. CallsOK' BY <1>2, <1>3, <1>4 DEF SInv, CallsOK
<1>6. OldCallsAreMet' BY <1>3 DEF OldCallsAreMet
<1>7. SessionIsCurrent' BY DEF SessionIsCurrent
<1> QED BY <1>5, <1>6, <1>7 DEF SInv

\* The steps of a request other than its login.
LEMMA OthersKeep ==
    ASSUME SInv, NEW o \in Ops,
           Session(o) \/ Send(o) \/ LogInAgain(o) \/ Return(o) \/ Posted(o) \/ Read(o)
    PROVE  SInv'
<1>1. CASE Session(o)
  <2>1. PICK l \in {"send", "login"} : Goes(o, l) BY <1>1 DEF Session
  <2> QED BY <1>1, <2>1, StepKeeps DEF Session, InFlight, Places
<1>2. CASE Send(o) BY <1>2, StepKeeps DEF Send, Breaks, InFlight, Places
<1>3. CASE LogInAgain(o) BY <1>3, StepKeeps DEF LogInAgain, InFlight, Places
<1>4. CASE Return(o) BY <1>4, StepKeeps DEF Return, Through, Over, End, InFlight, Places
<1>5. CASE Posted(o)
  BY <1>5, StepKeeps DEF Posted, Through, Another, Over, End, InFlight, Places
<1>6. CASE Read(o)
  <2>1. Goes(o, "session") \/ Goes(o, "done")
    BY <1>6 DEF Read, Staged, Another, Over, End
  <2> QED BY <1>6, <2>1, StepKeeps DEF Read, Through, InFlight, Places
<1> QED BY <1>1, <1>2, <1>3, <1>4, <1>5, <1>6

LEMMA StepS == SInv /\ [Next]_vars => SInv'
<1> SUFFICES ASSUME SInv, [Next]_vars PROVE SInv' OBVIOUS
<1>1. ASSUME NEW o \in Ops, Step(o) PROVE SInv'
  BY <1>1, OthersKeep, LoginKeeps, ClearKeeps DEF Step
<1>2. ASSUME NEW o \in Ops, Edit(o) \/ Remove(o) PROVE SInv'
  BY <1>2, WriteKeeps DEF Edit, Remove
<1>3. ASSUME NEW o \in Ops, Call(o) PROVE SInv' BY <1>3, CallKeeps
<1>4. CASE \E r \in late : LateRequest(r) BY <1>4, StillKeeps DEF LateRequest
<1>5. CASE \E s \in Servers : Forget(s) BY <1>5, StillKeeps DEF Forget
<1>6. CASE UNCHANGED vars BY <1>6, StillKeeps DEF vars
<1> QED BY <1>1, <1>2, <1>3, <1>4, <1>5, <1>6 DEF Next

\* After an edit or a removal of a controller its shared cookie is not the old login's,
\* unless a call that was under way at the edit has logged in with it (SessionIsCurrent):
\* update() and remove() clear the session after the row is written, and every call that
\* could bring the old one back is one they met.
THEOREM EditsEndSessions == Spec => []SessionIsCurrent
<1>1. SInv => SessionIsCurrent BY DEF SInv
<1> QED BY <1>1, InitS, StepS, PTL DEF Spec

-----------------------------------------------------------------------------
\* The types, by the parts of the state a step changes together.
Gots == {"nothing", "ok", "redirect", "page", "failed", "timeout"}
Lates == [op : Ops, text : Texts \cup {None}, at : Servers]
RequestTypes ==
    /\ held \in [Ops -> Cookies \cup {None}] /\ again \in [Ops -> BOOLEAN]
    /\ got \in [Ops -> Gots] /\ seen \in [Ops -> Texts \cup {None}]
LoopTypes ==
    /\ phase \in [Ops -> {"call", "post", "verify"}]
    /\ stage \in [Ops -> {"direct", "bridge", "final"}]
    /\ tries \in [Ops -> 1..MaxTries] /\ reads \in [Ops -> 1..MaxReads]
    /\ answer \in [Ops -> {"nothing", "ok", "failed", "confirmed", "unconfirmed"}]
ServerTypes ==
    /\ gen \in [Servers -> Nat] /\ name \in [Servers -> Texts \cup {None}]
    /\ late \subseteq Lates /\ done \subseteq Ops
    /\ cookie \in Cookies \cup {None}
OtherTypes ==
    /\ kind \in [Ops -> AllKinds \cup {None}]
    /\ faults \in 0..MaxFaults /\ restarts \in 0..MaxRestarts

Types == RequestTypes /\ LoopTypes /\ ServerTypes /\ OtherTypes

LEMMA TypesAre == Types /\ CallsOK => TypeOK
  BY Zenon DEF Types, CallsOK, RequestTypes, LoopTypes, ServerTypes, OtherTypes, TypeOK, Places, Gots, Lates

LEMMA HostType == ASSUME CallsOK, NEW o \in Ops, InFlight(o) PROVE Host(o) \in Servers
  BY SessionAssumption DEF CallsOK, Host, Versions

LEMMA OverTypes ==
    ASSUME RequestTypes, LoopTypes, NEW o \in Ops,
           NEW a \in {"nothing", "ok", "failed", "confirmed", "unconfirmed"}, Over(o, a)
    PROVE  RequestTypes' /\ LoopTypes'
<1>1. 1 \in 1..MaxTries /\ 1 \in 1..MaxReads BY SessionAssumption
<1>2. RequestTypes' BY DEF Over, RequestTypes, Gots
<1>3. LoopTypes' BY <1>1 DEF Over, End, LoopTypes
<1> QED BY <1>2, <1>3

LEMMA InitTypes == Init => Types
<1> SUFFICES ASSUME Init PROVE Types OBVIOUS
<1> USE SessionAssumption DEF Init
<1>1. 1 \in 1..MaxTries /\ 1 \in 1..MaxReads OBVIOUS
<1>2. RequestTypes BY DEF RequestTypes, Gots
<1>3. LoopTypes BY <1>1 DEF LoopTypes
<1>4. ServerTypes BY DEF ServerTypes
<1>5. OtherTypes BY DEF OtherTypes
<1> QED BY <1>2, <1>3, <1>4, <1>5 DEF Types

LEMMA FaultTypes == ASSUME OtherTypes, Fault, UNCHANGED kind PROVE OtherTypes'
  BY SessionAssumption DEF OtherTypes, Fault

LEMMA StepTypes == ASSUME SInv, Types, NEW o \in Ops, Step(o) PROVE Types'
<1> USE DEF Types
<1>1. CASE Session(o)
  <2>1. RequestTypes' BY <1>1 DEF Session, RequestTypes, ServerTypes
  <2>2. LoopTypes' /\ OtherTypes' BY <1>1 DEF Session, progress, limits, LoopTypes, OtherTypes
  <2>3. ServerTypes' BY <1>1 DEF Session, ztncui, ServerTypes
  <2> QED BY <2>1, <2>2, <2>3
<1>2. CASE Login(o)
  <2>1. conf[o] \in Versions /\ Host(o) \in Servers
    BY <1>2, HostType DEF Login, SInv, CallsOK, InFlight
  <2>2. [by |-> conf[o], gen |-> gen[Host(o)]] \in Cookies BY <2>1 DEF Cookies, ServerTypes
  <2>3. RequestTypes' BY <1>2, <2>2 DEF Login, Breaks, RequestTypes, Gots
  <2>4. LoopTypes' BY <1>2 DEF Login, progress, LoopTypes
  <2>5. ServerTypes' BY <1>2, <2>2 DEF Login, ztncui, ServerTypes
  <2>6. OtherTypes' BY <1>2, FaultTypes DEF Login, Breaks, limits, OtherTypes
  <2> QED BY <2>3, <2>4, <2>5, <2>6
<1>3. CASE Send(o)
  <2>1. Host(o) \in Servers BY <1>3, HostType DEF Send, SInv, InFlight
  <2>2. Text(o) \in Texts BY DEF Text, Texts
  <2>3. /\ Effect(o) => done' \subseteq Ops /\ name' \in [Servers -> Texts \cup {None}]
                        /\ seen' \in [Ops -> Texts \cup {None}]
    BY <2>1, <2>2 DEF Effect, ServerTypes, RequestTypes
  <2>4. /\ name' \in [Servers -> Texts \cup {None}] /\ done' \subseteq Ops
        /\ seen' \in [Ops -> Texts \cup {None}]
    <3>1. CASE Effect(o) BY <2>3, <3>1
    <3>2. CASE UNCHANGED <<name, done>> /\ (UNCHANGED seen \/ seen' = [seen EXCEPT ![o] = None])
      BY <3>2 DEF ServerTypes, RequestTypes
    <3> QED BY <1>3, <3>1, <3>2 DEF Send
  <2>5. \E g \in Gots : got' = [got EXCEPT ![o] = g] BY <1>3 DEF Send, Breaks, Gots
  <2>6. RequestTypes' BY <1>3, <2>4, <2>5 DEF Send, RequestTypes
  <2>7. late' \subseteq Lates
    <3>1. \A t \in Texts \cup {None} : [op |-> o, text |-> t, at |-> Host(o)] \in Lates
      BY <2>1 DEF Lates
    <3>2. UNCHANGED late \/ \E t \in Texts \cup {None} :
             late' = late \cup {[op |-> o, text |-> t, at |-> Host(o)]}
      BY <1>3, <2>2 DEF Send
    <3> QED BY <3>1, <3>2 DEF ServerTypes
  <2>8. ServerTypes' BY <1>3, <2>4, <2>7 DEF Send, ServerTypes
  <2>9. LoopTypes' BY <1>3 DEF Send, progress, LoopTypes
  <2>10. OtherTypes' BY <1>3, FaultTypes DEF Send, Breaks, limits, OtherTypes
  <2> QED BY <2>6, <2>8, <2>9, <2>10
<1>4. CASE LogInAgain(o)
  BY <1>4 DEF LogInAgain, progress, limits, ztncui, RequestTypes, LoopTypes, ServerTypes, OtherTypes
<1>5. ASSUME NEW ph, Through(o, ph) PROVE ServerTypes' /\ OtherTypes'
  BY <1>5 DEF Through, ztncui, limits, ServerTypes, OtherTypes
<1>6. CASE Return(o)
  <2>1. RequestTypes' /\ LoopTypes' BY <1>6, OverTypes DEF Return
  <2> QED BY <1>5, <1>6, <2>1 DEF Return
<1>7. CASE Posted(o)
  <2>1. 1 \in 1..MaxReads BY SessionAssumption
  <2>2. CASE Over(o, "failed") BY <1>5, <1>7, <2>2, OverTypes DEF Posted
  <2>3. CASE ~ Over(o, "failed")
    <3>1. RequestTypes' BY <1>7, <2>3 DEF Posted, Another, local, RequestTypes
    <3>2. LoopTypes' BY <1>7, <2>1, <2>3 DEF Posted, Another, LoopTypes
    <3> QED BY <1>5, <1>7, <3>1, <3>2 DEF Posted
  <2> QED BY <2>2, <2>3
<1>8. CASE Read(o)
  <2>1. 1 \in 1..MaxTries /\ MaxReads \in Nat /\ MaxTries \in Nat BY SessionAssumption
  <2>2. CASE \E a \in {"confirmed", "unconfirmed"} : Over(o, a)
    BY <1>5, <1>8, <2>2, OverTypes DEF Read
  <2>3. CASE Another(o)
    <3>1. RequestTypes' BY <2>3 DEF Another, local, RequestTypes
    <3>2. tries[o] \in 1..MaxTries /\ reads[o] \in 1..MaxReads BY DEF LoopTypes
    <3>3. tries' \in [Ops -> 1..MaxTries] /\ reads' \in [Ops -> 1..MaxReads]
      BY <1>8, <2>1, <2>3, <3>2 DEF Read, Staged, Over, LoopTypes
    <3>4. /\ stage' \in [Ops -> {"direct", "bridge", "final"}]
          /\ phase' \in [Ops -> {"call", "post", "verify"}]
      BY <1>8 DEF Read, Staged, NextStage, Over, LoopTypes
    <3>5. LoopTypes' BY <2>3, <3>3, <3>4 DEF Another, LoopTypes
    <3> QED BY <1>5, <1>8, <3>1, <3>5 DEF Read
  <2> QED BY <1>8, <2>2, <2>3 DEF Read, Staged
<1>9. CASE Clear(o)
  <2>1. LoopTypes' BY <1>9 DEF Clear, End, progress, LoopTypes
  <2>2. RequestTypes' /\ ServerTypes' /\ OtherTypes'
    BY <1>9 DEF Clear, local, ztncui, limits, RequestTypes, ServerTypes, OtherTypes
  <2> QED BY <2>1, <2>2
<1> QED BY <1>1, <1>2, <1>3, <1>4, <1>6, <1>7, <1>8, <1>9 DEF Step

LEMMA NextTypes == SInv /\ Types /\ [Next]_vars => Types'
<1> SUFFICES ASSUME SInv, Types, [Next]_vars PROVE Types' OBVIOUS
<1>1. ASSUME NEW o \in Ops, Step(o) PROVE Types' BY <1>1, StepTypes
<1>2. ASSUME NEW o \in Ops, NEW k, NEW new, Write(o, k, new) PROVE Types'
  BY <1>2 DEF Write, End, local, ztncui, progress, limits,
     Types, RequestTypes, LoopTypes, ServerTypes, OtherTypes
<1>3. ASSUME NEW o \in Ops, Call(o) PROVE Types'
  <2>1. LoopTypes' BY <1>3 DEF Call, End, Types, LoopTypes
  <2>2. RequestTypes' /\ ServerTypes' /\ OtherTypes'
    BY <1>3 DEF Call, local, ztncui, limits, Types, RequestTypes, ServerTypes, OtherTypes
  <2> QED BY <2>1, <2>2 DEF Types
<1>4. ASSUME NEW r \in late, LateRequest(r) PROVE Types'
  <2>1. r \in Lates BY DEF Types, ServerTypes
  <2>2. r.op \in Ops /\ r.text \in Texts \cup {None} BY <2>1 DEF Lates
  <2>3. ServerTypes' BY <1>4, <2>2 DEF LateRequest, Types, ServerTypes
  <2>4. RequestTypes' /\ LoopTypes' /\ OtherTypes'
    BY <1>4 DEF LateRequest, local, progress, limits, Types, RequestTypes, LoopTypes, OtherTypes
  <2> QED BY <2>3, <2>4 DEF Types
<1>5. ASSUME NEW z \in Servers, Forget(z) PROVE Types'
  <2>1. ServerTypes' BY <1>5 DEF Forget, Types, ServerTypes
  <2>2. OtherTypes' BY <1>5, SessionAssumption DEF Forget, Types, OtherTypes
  <2>3. RequestTypes' /\ LoopTypes'
    BY <1>5 DEF Forget, progress, Types, RequestTypes, LoopTypes
  <2> QED BY <2>1, <2>2, <2>3 DEF Types
<1>6. CASE UNCHANGED vars
  BY <1>6 DEF vars, local, ztncui, progress, limits,
     Types, RequestTypes, LoopTypes, ServerTypes, OtherTypes
<1> QED BY <1>1, <1>2, <1>3, <1>4, <1>5, <1>6 DEF Next, Edit, Remove

\* The session, the requests and the loops of a renaming keep their types: the tries and
\* reads stay within their bounds, in every mix of failures and restarts (TypeOK).
THEOREM SessionTypes == Spec => []TypeOK
<1>1. Init => SInv /\ Types BY InitS, InitTypes
<1>2. SInv /\ Types /\ [Next]_vars => SInv' /\ Types' BY StepS, NextTypes
<1>3. SInv /\ Types => TypeOK BY TypesAre DEF SInv
<1> QED BY <1>1, <1>2, <1>3, PTL DEF Spec
-----------------------------------------------------------------------------
(* A confirmed name stays. *)

\* The call is the only renaming; its state can be relied on: no detour, or no failure.
Sole(o) == kind[o] \in Renames /\ \A p \in Ops \ {o} : kind[p] \notin Renames
Trusted(o) == stage[o] = "direct" \/ faults = 0

\* A call that is no renaming never enters the loops of one.
InPlace(o) ==
    /\ pc[o] = "idle" => stage[o] = "direct" /\ phase[o] = "call" /\ answer[o] = "nothing"
    /\ kind[o] \notin Renames =>
         phase[o] = "call" /\ stage[o] = "direct" /\ answer[o] # "confirmed"

\* Before the detour every request given up on asks for the name itself; a verification
\* has read the name there is; and so has one that confirmed it.
LateTexts(o) == stage[o] = "direct" => \A r \in late : r.text \in {o, None}
ReadIsName(o) ==
    pc[o] = "answered" /\ phase[o] = "verify" =>
        /\ got[o] = "ok" /\ Trusted(o) /\ seen[o] = o => name[Host(o)] = o
        /\ got[o] = "page" => seen[o] = None
ConfirmedIsName(o) ==
    answer[o] = "confirmed" =>
        pc[o] = "done" /\ conf[o] \in Versions /\ (Trusted(o) => name[Host(o)] = o)

NameOK(o) ==
    InPlace(o) /\ (Sole(o) => LateTexts(o) /\ ReadIsName(o) /\ ConfirmedIsName(o))
NInv == (faults = 0 => late = {}) /\ \A o \in Ops : NameOK(o)

\* What a step leaves of the calls that do not take it, and what others may do to them.
Apart(o) ==
    /\ pc'[o] = pc[o] /\ kind' = kind /\ conf'[o] = conf[o] /\ got'[o] = got[o]
    /\ seen'[o] = seen[o] /\ phase'[o] = phase[o] /\ stage'[o] = stage[o]
    /\ answer'[o] = answer[o]
Harmless(o) ==
    /\ faults' = 0 => faults = 0
    /\ Sole(o) => UNCHANGED name /\ \A r \in late' : r \in late \/ r.text = None

LEMMA ApartKeeps ==
  ASSUME NEW o \in Ops, NameOK(o), Apart(o), Harmless(o)
  PROVE  NameOK(o)'
<1>1. Host(o)' = Host(o) /\ (Sole(o)' <=> Sole(o)) /\ (Trusted(o)' => Trusted(o))
  BY DEF Apart, Harmless, Host, Sole, Trusted
<1>2. InPlace(o)'
  BY DEF NameOK, InPlace, Apart
<1>3. ASSUME Sole(o) PROVE LateTexts(o)' /\ ReadIsName(o)' /\ ConfirmedIsName(o)'
  <2>1. LateTexts(o)'
    BY <1>3 DEF NameOK, LateTexts, Apart, Harmless
  <2>2. ReadIsName(o)'
    BY <1>1, <1>3 DEF NameOK, ReadIsName, Apart, Harmless
  <2>3. ConfirmedIsName(o)'
    BY <1>1, <1>3 DEF NameOK, ConfirmedIsName, Apart, Harmless
  <2> QED
    BY <2>1, <2>2, <2>3
<1> QED
  BY <1>1, <1>2, <1>3 DEF NameOK

\* A step of the call itself that neither writes nor reads the name, and confirms nothing.
LEMMA OwnKeeps ==
  ASSUME NEW o \in Ops, NameOK(o), pc[o] # "done", pc'[o] # "idle", UNCHANGED kind,
         pc'[o] = "answered" => got'[o] \in {"failed", "timeout"},
         answer'[o] # "confirmed" \/ answer'[o] = answer[o],
         stage'[o] = "direct" => stage[o] = "direct",
         kind[o] \notin Renames => phase'[o] = "call" /\ stage'[o] = "direct",
         late' \subseteq late
  PROVE  NameOK(o)'
<1>1. kind[o] \notin Renames \/ Sole(o) => answer[o] # "confirmed"
  BY DEF NameOK, InPlace, ConfirmedIsName
<1> QED
  BY <1>1 DEF NameOK, InPlace, Sole, LateTexts, ReadIsName, ConfirmedIsName

\* A step of one call is apart from the others.
OthersApart(o) == \A p \in Ops \ {o} : Apart(p)

LEMMA OneKeeps ==
  ASSUME NInv, NEW o \in Ops, OthersApart(o), NameOK(o)', faults' = 0 => faults = 0,
         faults' = 0 => late' = {},
         \A p \in Ops \ {o} : Sole(p) => UNCHANGED name /\ \A r \in late' : r \in late \/ r.text = None
  PROVE  NInv'
<1>1. \A p \in Ops \ {o} : NameOK(p)'
  BY ApartKeeps DEF NInv, OthersApart, Harmless
<1> QED
  BY <1>1 DEF NInv

LEMMA QuietKeeps ==
  ASSUME NInv, NEW o \in Ops, OthersApart(o), NameOK(o)', UNCHANGED <<name, late>>,
         faults' = 0 => faults = 0
  PROVE  NInv'
BY OneKeeps DEF NInv

\* The end of a call.
LEMMA OverKeeps ==
  ASSUME Types, CallsOK, NInv, NEW o \in Ops, pc[o] # "done", NEW a \in {"ok", "failed", "unconfirmed"},
         Over(o, a), UNCHANGED <<kind, conf, name, late, faults>>
  PROVE  NInv'
<1>1. pc'[o] = "done" /\ answer'[o] = a /\ phase' = phase /\ stage' = stage
  BY DEF Over, End, Goes, Types, CallsOK, LoopTypes
<1>2. OthersApart(o)
  BY DEF Over, End, Goes, Types, CallsOK, RequestTypes, LoopTypes, OthersApart, Apart
<1>3. NameOK(o)'
  BY <1>1, OwnKeeps DEF NInv, NameOK, InPlace
<1> QED
  BY <1>2, <1>3, QuietKeeps

\* The server carries out a request, or a request breaks.
LEMMA SendKeeps ==
  ASSUME Types, SInv, NInv, NEW o \in Ops, Send(o) PROVE NInv'
<1>1. /\ pc[o] = "send" /\ pc' = [pc EXCEPT ![o] = "answered"] /\ UNCHANGED <<conf, kind, phase, stage, answer>>
      /\ \E g \in Gots : got' = [got EXCEPT ![o] = g]
  BY DEF Send, Breaks, Goes, progress, Gots
<1>2. \E t \in Texts \cup {None} : seen' = [seen EXCEPT ![o] = t]
  <2>1. Host(o) \in Servers
    BY <1>1, HostType DEF SInv, InFlight
  <2>2. name[Host(o)] \in Texts \cup {None} /\ seen = [seen EXCEPT ![o] = seen[o]] /\ seen[o] \in Texts \cup {None}
    BY <2>1 DEF Types, ServerTypes, RequestTypes
  <2> QED
    BY <2>2 DEF Send, Effect
<1>3. OthersApart(o)
  BY <1>1, <1>2 DEF OthersApart, Apart, Types, CallsOK, SInv, RequestTypes, LoopTypes
<1>4. faults \in Nat /\ (faults' = 0 => faults = 0 /\ UNCHANGED late)
  BY SessionAssumption DEF Send, Breaks, Fault, limits, Types, OtherTypes
<1>5. kind[o] \notin Renames =>
        UNCHANGED name /\ \A r \in late' : r \in late \/ r.text = None
  <2>1. kind[o] \notin Renames => phase[o] = "call"
    BY DEF NInv, NameOK, InPlace
  <2>2. phase[o] = "call" => UNCHANGED name
    BY DEF Send, Effect
  <2>3. ASSUME phase[o] = "call", NEW r \in late', r \notin late PROVE r.text = None
    <3>1. r = [op |-> o, text |-> IF phase[o] = "post" THEN Text(o) ELSE None, at |-> Host(o)]
      BY <2>3 DEF Send
    <3> QED
      BY <2>3, <3>1
  <2> QED
    BY <2>1, <2>2, <2>3
<1>6. \A p \in Ops \ {o} : Sole(p) => kind[o] \notin Renames
  BY DEF Sole
<1>7. NameOK(o)'
  <2>1. pc'[o] = "answered" /\ (Sole(o) => answer'[o] # "confirmed")
    BY <1>1 DEF NInv, NameOK, ConfirmedIsName, SInv, CallsOK
  <2>2. InPlace(o)'
    BY <1>1, <2>1 DEF NInv, NameOK, InPlace, SInv, CallsOK
  <2>3. ASSUME Sole(o) PROVE LateTexts(o)' /\ ReadIsName(o)' /\ ConfirmedIsName(o)'
    <3>1. ConfirmedIsName(o)'
      BY <2>1, <2>3, <1>1 DEF ConfirmedIsName, NInv, NameOK
    <3>2. LateTexts(o)'
      <4>1. \A r \in late' : r \in late \/ r.text \in {Text(o), None}
        BY DEF Send
      <4> QED
        BY <1>1, <2>3, <4>1 DEF LateTexts, NInv, NameOK, Text
    <3>3. ReadIsName(o)'
      <4>1. got'[o] \in Gots /\ got' = [got EXCEPT ![o] = got'[o]]
        BY <1>1 DEF Types, RequestTypes
      <4>2. CASE Known(o) /\ Effect(o) /\ got' = [got EXCEPT ![o] = "ok"]
        BY <1>1, <4>2 DEF ReadIsName, Effect, Host, Types, RequestTypes
      <4>3. CASE /\ \E g \in {"redirect", "page"} : got' = [got EXCEPT ![o] = g]
                 /\ seen' = [seen EXCEPT ![o] = None]
        BY <4>3 DEF ReadIsName, Types, RequestTypes
      <4>4. CASE Breaks(o)
        BY <4>4 DEF Breaks, ReadIsName, Types, RequestTypes
      <4> QED
        BY <4>2, <4>3, <4>4 DEF Send
    <3> QED
      BY <3>1, <3>2, <3>3
  <2>4. Sole(o)' <=> Sole(o)
    BY <1>1 DEF Sole
  <2> QED
    BY <2>2, <2>3, <2>4 DEF NameOK
<1> QED
  BY <1>3, <1>4, <1>5, <1>6, <1>7, OneKeeps DEF NInv

\* A renaming ends confirmed: its last verification has read the name.
LEMMA ConfirmedKeeps ==
  ASSUME Types, CallsOK, NInv, NEW o \in Ops, Through(o, "verify"), Verified(o),
         NextStage(o) = "none", Over(o, "confirmed")
  PROVE  NInv'
<1>1. pc'[o] = "done" /\ phase' = phase /\ stage' = stage /\ UNCHANGED <<kind, conf, name, late, faults>>
  BY DEF Through, Over, End, Goes, Types, CallsOK, LoopTypes, ztncui, limits
<1>2. OthersApart(o)
  BY <1>1 DEF Over, End, Goes, Types, CallsOK, RequestTypes, LoopTypes, OthersApart, Apart
<1>3. kind[o] \in Renames
  BY DEF NInv, NameOK, InPlace, Through
<1>4. stage[o] # "bridge" /\ Text(o) = o
  BY DEF NextStage, Text
<1>5. InPlace(o)'
  BY <1>1, <1>3 DEF InPlace
<1>6. ASSUME Sole(o) PROVE LateTexts(o)' /\ ReadIsName(o)' /\ ConfirmedIsName(o)'
  <2>1. seen[o] = o /\ got[o] \in {"ok", "page"}
    BY <1>3, <1>4 DEF Verified, Passes, Renames
  <2>2. Trusted(o) => name[Host(o)] = o
    BY <1>6, <2>1, SessionAssumption DEF NInv, NameOK, ReadIsName, Through
  <2>3. conf[o] \in Versions
    BY DEF CallsOK, InFlight, Through
  <2> QED
    BY <1>1, <1>6, <2>2, <2>3 DEF NInv, NameOK, LateTexts, ReadIsName, ConfirmedIsName, Trusted, Host,
       Versions
<1>7. Sole(o)' <=> Sole(o)
  BY <1>1 DEF Sole
<1>8. NameOK(o)'
  BY <1>5, <1>6, <1>7 DEF NameOK
<1> QED
  BY <1>1, <1>2, <1>8, QuietKeeps

\* A renaming makes another request.
LEMMA AnotherKeeps ==
  ASSUME Types, CallsOK, NInv, NEW o \in Ops, pc[o] = "answered", phase[o] \in {"post", "verify"},
         Another(o), UNCHANGED <<kind, conf, name, late, faults>>,
         \A p \in Ops \ {o} : phase'[p] = phase[p] /\ stage'[p] = stage[p],
         stage'[o] = "direct" => stage[o] = "direct"
  PROVE  NInv'
<1>1. /\ pc'[o] = "session" /\ UNCHANGED <<answer, got, seen>>
      /\ \A p \in Ops \ {o} : pc'[p] = pc[p]
  BY DEF Another, Goes, local, CallsOK
<1>2. OthersApart(o)
  BY <1>1 DEF OthersApart, Apart
<1>3. kind[o] \in Renames
  BY DEF NInv, NameOK, InPlace
<1>4. NameOK(o)'
  BY <1>1, <1>3, OwnKeeps DEF NInv
<1> QED
  BY <1>2, <1>4, QuietKeeps

LEMMA ReadKeeps ==
  ASSUME Types, CallsOK, NInv, NEW o \in Ops, Read(o) PROVE NInv'
<1>1. /\ Through(o, "verify") /\ pc[o] = "answered" /\ phase[o] = "verify"
      /\ UNCHANGED <<kind, conf, name, late, faults>>
  BY DEF Read, Through, ztncui, limits
<1>2. CASE Staged(o) /\ NextStage(o) = "none"
  <2>1. CASE Verified(o)
    BY <1>1, <1>2, <2>1, ConfirmedKeeps DEF Staged
  <2>2. CASE ~ Verified(o)
    BY <1>1, <1>2, <2>2, OverKeeps DEF Staged
  <2> QED
    BY <2>1, <2>2
<1>3. CASE Staged(o) /\ NextStage(o) # "none"
  <2>1. NextStage(o) \in {"bridge", "final"}
    BY <1>3 DEF NextStage
  <2>2. /\ Another(o) /\ phase' = [phase EXCEPT ![o] = "post"]
        /\ stage' = [stage EXCEPT ![o] = NextStage(o)]
    BY <1>3 DEF Staged
  <2> QED
    BY <1>1, <2>1, <2>2, AnotherKeeps DEF Types, LoopTypes
<1>4. CASE Another(o) /\ UNCHANGED stage /\ (UNCHANGED phase \/ phase' = [phase EXCEPT ![o] = "post"])
  BY <1>1, <1>4, AnotherKeeps DEF Types, LoopTypes
<1> QED
  BY <1>2, <1>3, <1>4 DEF Read

LEMMA PostedKeeps ==
  ASSUME Types, CallsOK, NInv, NEW o \in Ops, Posted(o) PROVE NInv'
<1>1. /\ Through(o, "post") /\ pc[o] = "answered" /\ phase[o] = "post"
      /\ UNCHANGED <<kind, conf, name, late, faults>>
  BY DEF Posted, Through, ztncui, limits
<1>2. CASE Over(o, "failed")
  BY <1>1, <1>2, OverKeeps
<1>3. CASE Another(o) /\ UNCHANGED stage /\ phase' = [phase EXCEPT ![o] = "verify"]
  BY <1>1, <1>3, AnotherKeeps DEF Types, LoopTypes
<1> QED
  BY <1>2, <1>3 DEF Posted

\* The steps before a request is sent, and after it when it is one call.
LEMMA RequestKeeps ==
  ASSUME Types, SInv, NInv, NEW o \in Ops,
         Session(o) \/ Login(o) \/ LogInAgain(o) \/ Return(o)
  PROVE  NInv'
<1>0. CallsOK
  BY DEF SInv
<1>1. CASE Return(o)
  BY <1>0, <1>1, OverKeeps DEF Return, Through, ztncui, limits
<1>2. CASE Session(o) \/ LogInAgain(o)
  <2>1. \E l \in {"send", "login"} : pc' = [pc EXCEPT ![o] = l]
    BY <1>2 DEF Session, LogInAgain, Goes
  <2>2. /\ pc[o] # "done"
        /\ UNCHANGED <<kind, conf, name, late, faults, got, seen, phase, stage, answer>>
    BY <1>2 DEF Session, LogInAgain, ztncui, progress, limits
  <2>3. OthersApart(o)
    BY <1>0, <2>1, <2>2 DEF OthersApart, Apart, CallsOK
  <2>4. NameOK(o)'
    BY <1>0, <2>1, <2>2, OwnKeeps DEF NInv, NameOK, InPlace, CallsOK
  <2> QED
    BY <2>2, <2>3, <2>4, QuietKeeps
<1>3. CASE Login(o)
  <2>1. \/ pc' = [pc EXCEPT ![o] = "send"] /\ UNCHANGED <<got, faults>>
        \/ /\ pc' = [pc EXCEPT ![o] = "answered"] /\ Fault
           /\ \E g \in {"failed", "timeout"} : got' = [got EXCEPT ![o] = g]
    BY <1>3 DEF Login, Breaks, Goes, limits
  <2>2. /\ pc[o] # "done" /\ UNCHANGED <<kind, conf, name, late, seen, phase, stage, answer>>
    BY <1>3 DEF Login, ztncui, progress
  <2>3. OthersApart(o)
    BY <1>0, <2>1, <2>2 DEF OthersApart, Apart, CallsOK, Types, RequestTypes
  <2>4. pc'[o] = "answered" => got'[o] \in {"failed", "timeout"}
    BY <1>0, <2>1 DEF CallsOK, Types, RequestTypes
  <2>5. pc'[o] # "idle"
    BY <1>0, <2>1 DEF CallsOK
  <2>6. NameOK(o)'
    BY <2>2, <2>4, <2>5, OwnKeeps DEF NInv, NameOK, InPlace
  <2>7. faults' = 0 => faults = 0
    BY <2>1 DEF Fault, Types, OtherTypes
  <2> QED
    BY <2>2, <2>3, <2>6, <2>7, QuietKeeps
<1> QED
  BY <1>1, <1>2, <1>3

\* The start of a call, and the edits of the row.
LEMMA OutsideKeeps ==
  ASSUME Types, CallsOK, NInv, NEW o \in Ops, NEW k, NEW new,
         Call(o) \/ Write(o, k, new) \/ Clear(o)
  PROVE  NInv'
<1>1. \E l \in {"session", "clear", "done"} : pc' = [pc EXCEPT ![o] = l]
  BY DEF Call, Write, Clear, End, Goes
<1>2. UNCHANGED answer \/ \E a \in {"ok", "failed"} : answer' = [answer EXCEPT ![o] = a]
  BY DEF Call, Write, Clear, End
<1>3. /\ pc[o] # "done" /\ UNCHANGED <<kind, name, late, faults, got, seen, stage>>
      /\ conf' = conf \/ conf' = [conf EXCEPT ![o] = config]
      /\ phase' = phase \/ \E ph \in {"post", "call"} : phase' = [phase EXCEPT ![o] = ph]
      /\ kind[o] \notin Renames /\ phase[o] = "call" => phase'[o] = "call"
  BY DEF Call, Write, Clear, ztncui, local, progress, limits, Types, LoopTypes
<1>4. OthersApart(o)
  BY <1>1, <1>2, <1>3 DEF OthersApart, Apart, CallsOK, Types, LoopTypes
<1>5. pc'[o] \in {"session", "clear", "done"}
  BY <1>1 DEF CallsOK
<1>6. answer'[o] # "confirmed" \/ answer'[o] = answer[o]
  BY <1>2 DEF Types, LoopTypes
<1>7. NameOK(o)'
  BY <1>3, <1>5, <1>6, OwnKeeps DEF NInv, NameOK, InPlace
<1> QED
  BY <1>3, <1>4, <1>7, QuietKeeps

\* A request that was given up on is carried out.
LEMMA LateKeeps ==
  ASSUME Types, CallsOK, NInv, NEW r \in late, LateRequest(r) PROVE NInv'
<1>1. /\ UNCHANGED <<pc, kind, conf, got, seen, phase, stage, answer, faults>>
      /\ late' \subseteq late /\ faults # 0
  BY DEF LateRequest, local, progress, limits, NInv
<1>2. name' = name \/ (r.text # None /\ name' = [name EXCEPT ![r.at] = r.text])
  BY DEF LateRequest
<1>3. ASSUME NEW o \in Ops PROVE NameOK(o)'
  <2>1. InPlace(o)' /\ (Sole(o)' <=> Sole(o)) /\ (Trusted(o)' <=> Trusted(o)) /\ Host(o)' = Host(o)
    BY <1>1 DEF NInv, NameOK, InPlace, Sole, Trusted, Host
  <2>2. ASSUME Sole(o), Trusted(o), name[Host(o)] = o, conf[o] \in Versions
        PROVE  name'[Host(o)] = o
    <3>0. Host(o) \in Servers
      BY <2>2, SessionAssumption DEF Host, Versions
    <3>1. r.text \in {o, None}
      BY <1>1, <2>2 DEF NInv, NameOK, LateTexts, Trusted
    <3> QED
      BY <1>2, <2>2, <3>0, <3>1 DEF Types, ServerTypes
  <2>3. ASSUME Sole(o) PROVE LateTexts(o)' /\ ReadIsName(o)' /\ ConfirmedIsName(o)'
    <3>1. InFlight(o) => conf[o] \in Versions
      BY DEF CallsOK
    <3>2. LateTexts(o)'
      BY <1>1, <2>3 DEF NInv, NameOK, LateTexts
    <3>3. ReadIsName(o)'
      BY <1>1, <2>1, <2>2, <2>3, <3>1 DEF NInv, NameOK, ReadIsName, InFlight
    <3>4. ConfirmedIsName(o)'
      BY <1>1, <2>1, <2>2, <2>3 DEF NInv, NameOK, ConfirmedIsName, Versions
    <3> QED
      BY <3>2, <3>3, <3>4
  <2> QED
    BY <2>1, <2>3 DEF NameOK
<1> QED
  BY <1>1, <1>3 DEF NInv

LEMMA StillNamed ==
  ASSUME NInv, UNCHANGED <<pc, kind, conf, got, seen, phase, stage, answer, name, late, faults>>
  PROVE  NInv'
<1>1. \A o \in Ops : Apart(o) /\ Harmless(o)
  BY DEF Apart, Harmless
<1> QED
  BY <1>1, ApartKeeps DEF NInv

LEMMA InitN == Init => NInv
BY DEF Init, NInv, NameOK, InPlace, LateTexts, ReadIsName, ConfirmedIsName

LEMMA NextN == SInv /\ Types /\ NInv /\ [Next]_vars => NInv'
<1> SUFFICES ASSUME SInv, Types, NInv, [Next]_vars PROVE NInv'
  OBVIOUS
<1>0. CallsOK
  BY DEF SInv
<1>1. ASSUME NEW o \in Ops, Step(o) PROVE NInv'
  BY <1>0, <1>1, RequestKeeps, SendKeeps, PostedKeeps, ReadKeeps, OutsideKeeps DEF Step
<1>2. ASSUME NEW o \in Ops, Edit(o) \/ Remove(o) \/ Call(o) PROVE NInv'
  BY <1>0, <1>2, OutsideKeeps DEF Edit, Remove
<1>3. CASE \E r \in late : LateRequest(r)
  BY <1>0, <1>3, LateKeeps
<1>4. CASE \E s \in Servers : Forget(s)
  BY <1>4, StillNamed DEF Forget, progress
<1>5. CASE UNCHANGED vars
  BY <1>5, StillNamed DEF vars, local, progress, ztncui, limits
<1> QED
  BY <1>1, <1>2, <1>3, <1>4, <1>5 DEF Next

\* setMemberName reports a name as confirmed only if it stays: requests it has repeated, or
\* given up on, can only write the same name again, unless it went over the bridge name
\* and something failed (ConfirmedSticks).
THEOREM ConfirmedNames == Spec => []ConfirmedSticks
<1>1. NInv => ConfirmedSticks
  BY DEF NInv, NameOK, InPlace, Sole, ConfirmedIsName, Trusted, ConfirmedSticks
<1>2. Init => SInv /\ Types /\ NInv
  BY InitS, InitTypes, InitN
<1>3. SInv /\ Types /\ NInv /\ [Next]_vars => SInv' /\ Types' /\ NInv'
  BY StepS, NextTypes, NextN
<1> QED
  BY <1>1, <1>2, <1>3, PTL DEF Spec
-----------------------------------------------------------------------------
(* A call that answers "ok" was carried out. *)

\* A second request carries a cookie of its own login; it is asked to log in only if its
\* server has forgotten that session as well.
Carries(o) ==
    /\ again[o] /\ pc[o] = "send" =>
         held[o] \in Cookies /\ held[o].by = conf[o] /\ held[o].gen <= gen[Host(o)]
    /\ again[o] /\ pc[o] = "answered" /\ LoginAsked(got[o]) =>
         held[o] \in Cookies /\ held[o].gen < gen[Host(o)]
    /\ kind[o] = "act" /\ pc[o] = "answered" /\ got[o] = "ok" => o \in done
    /\ kind[o] = "act" => pc[o] # "clear"
DInv == \A o \in Ops : Carries(o)

\* The steps of others: sessions are forgotten, requests are carried out.
LEMMA ApartCarries ==
  ASSUME Types, CallsOK, NEW o \in Ops, Carries(o), Apart(o), again'[o] = again[o], held'[o] = held[o],
         \A s \in Servers : gen'[s] \in Nat /\ gen[s] <= gen'[s], done \subseteq done'
  PROVE  Carries(o)'
<1>1. Host(o)' = Host(o)
  BY DEF Apart, Host
<1>2. InFlight(o) /\ pc[o] \in {"send", "answered"} => Host(o) \in Servers
  BY HostType
<1>3. again[o] /\ pc[o] \in {"send", "answered"} /\ (pc[o] = "answered" => LoginAsked(got[o])) =>
        /\ gen[Host(o)] \in Nat /\ gen'[Host(o)] \in Nat /\ gen[Host(o)] <= gen'[Host(o)]
        /\ held[o] \in Cookies /\ held[o].gen \in Nat
  BY <1>2 DEF InFlight, Types, ServerTypes, Carries, Cookies
<1>4. again'[o] /\ pc'[o] = "send" =>
        held'[o] \in Cookies /\ held'[o].by = conf'[o] /\ held'[o].gen <= gen'[Host(o)']
  BY <1>1, <1>3 DEF Carries, Apart
<1>5. again'[o] /\ pc'[o] = "answered" /\ LoginAsked(got'[o]) =>
         held'[o] \in Cookies /\ held'[o].gen < gen'[Host(o)']
  BY <1>1, <1>3 DEF Carries, Apart
<1> QED
  BY <1>1, <1>4, <1>5 DEF Carries, Apart, LoginAsked

LEMMA AloneCarries ==
  ASSUME Types, CallsOK, DInv, NEW o \in Ops, OthersApart(o), Carries(o)', UNCHANGED gen,
         done \subseteq done', \A p \in Ops \ {o} : again'[p] = again[p] /\ held'[p] = held[p]
  PROVE  DInv'
<1>1. \A s \in Servers : gen'[s] \in Nat /\ gen[s] <= gen'[s]
  BY DEF Types, ServerTypes
<1> QED
  BY <1>1, ApartCarries DEF DInv, OthersApart

\* A step that sends nothing and gets no answer.
LEMMA IdleCarries ==
  ASSUME Types, CallsOK, DInv, NEW o \in Ops, UNCHANGED <<gen, done, kind>>, OthersApart(o),
         \/ pc'[o] \in {"session", "login", "done"}
         \/ pc'[o] = "clear" /\ kind[o] # "act"
         \/ pc'[o] = "send" /\ ~ again'[o]
         \/ pc'[o] = "answered" /\ got'[o] \in {"failed", "timeout"},
         \A p \in Ops \ {o} : again'[p] = again[p] /\ held'[p] = held[p]
  PROVE  DInv'
<1>1. Carries(o)'
  BY DEF Carries, LoginAsked
<1> QED
  BY <1>1, AloneCarries

LEMMA SendCarries ==
  ASSUME Types, CallsOK, DInv, NEW o \in Ops, Send(o) PROVE DInv'
<1>1. /\ pc[o] = "send" /\ pc' = [pc EXCEPT ![o] = "answered"]
      /\ UNCHANGED <<conf, kind, phase, stage, answer, gen, held, again>>
      /\ \E g \in Gots : got' = [got EXCEPT ![o] = g]
  BY DEF Send, Breaks, Goes, progress, Gots
<1>2. InFlight(o) /\ Host(o) \in Servers /\ gen[Host(o)] \in Nat /\ UNCHANGED Host(o)
  BY <1>1, HostType DEF InFlight, Types, ServerTypes, Host
<1>3. \E t \in Texts \cup {None} : seen' = [seen EXCEPT ![o] = t]
  <2>1. name[Host(o)] \in Texts \cup {None} /\ seen = [seen EXCEPT ![o] = seen[o]] /\ seen[o] \in Texts \cup {None}
    BY <1>2 DEF Types, ServerTypes, RequestTypes
  <2> QED
    BY <2>1 DEF Send, Effect
<1>4. OthersApart(o)
  BY <1>1, <1>3 DEF OthersApart, Apart, Types, CallsOK, RequestTypes, LoopTypes
<1>5. done \subseteq done'
  BY DEF Send, Effect
<1>6. pc'[o] = "answered"
  BY <1>1 DEF CallsOK
<1>7. CASE Effect(o) /\ got' = [got EXCEPT ![o] = "ok"]
  <2>1. got'[o] = "ok" /\ (kind[o] = "act" => o \in done')
    BY <1>7 DEF Effect, Types, RequestTypes
  <2>2. Carries(o)'
    BY <1>1, <1>6, <2>1 DEF Carries, LoginAsked
  <2> QED
    BY <1>1, <1>4, <1>5, <2>2, AloneCarries
<1>8. CASE ~ Known(o) /\ \E g \in {"redirect", "page"} : got' = [got EXCEPT ![o] = g]
  <2>1. got'[o] # "ok"
    BY <1>8 DEF Types, RequestTypes
  <2>2. again[o] => held[o] \in Cookies /\ held[o].gen < gen[Host(o)]
    <3>1. again[o] => /\ held[o] \in Cookies /\ held[o].by = conf[o]
                      /\ held[o].gen <= gen[Host(o)] /\ held[o].gen \in Nat
      BY <1>1 DEF DInv, Carries, Cookies
    <3>2. again[o] => held[o].gen # gen[Host(o)]
      BY <1>8, <3>1 DEF Known, Host
    <3> QED
      BY <1>2, <3>1, <3>2
  <2>3. Carries(o)'
    BY <1>1, <1>2, <1>6, <2>1, <2>2 DEF Carries
  <2> QED
    BY <1>1, <1>4, <1>5, <2>3, AloneCarries
<1>9. CASE Breaks(o)
  <2>1. got'[o] \in {"failed", "timeout"}
    BY <1>9 DEF Breaks, Types, RequestTypes
  <2>2. Carries(o)'
    BY <1>1, <1>6, <2>1 DEF Carries, LoginAsked
  <2> QED
    BY <1>1, <1>4, <1>5, <2>2, AloneCarries
<1> QED
  BY <1>7, <1>8, <1>9 DEF Send

LEMMA LoginCarries ==
  ASSUME Types, CallsOK, DInv, NEW o \in Ops, Login(o) PROVE DInv'
<1>1. pc[o] = "login" /\ UNCHANGED <<kind, conf, gen, done, seen, phase, stage, answer, again>>
  BY DEF Login, ztncui, progress
<1>2. InFlight(o) /\ Host(o) \in Servers /\ gen[Host(o)] \in Nat /\ UNCHANGED Host(o)
  BY <1>1, HostType DEF InFlight, Types, ServerTypes, Host
<1>3. CASE /\ held' = [held EXCEPT ![o] = [by |-> conf[o], gen |-> gen[Host(o)]]]
           /\ pc' = [pc EXCEPT ![o] = "send"] /\ UNCHANGED got
  <2>1. OthersApart(o)
    BY <1>1, <1>3 DEF OthersApart, Apart, CallsOK
  <2>2. pc'[o] = "send" /\ held'[o] = [by |-> conf[o], gen |-> gen[Host(o)]]
    BY <1>3 DEF CallsOK, Types, RequestTypes
  <2>3. held'[o] \in Cookies /\ held'[o].by = conf[o] /\ held'[o].gen <= gen[Host(o)]
    BY <1>2, <2>2 DEF CallsOK, Cookies
  <2>4. Carries(o)'
    BY <1>1, <1>2, <2>2, <2>3 DEF Carries
  <2>5. \A p \in Ops \ {o} : held'[p] = held[p]
    BY <1>3 DEF Types, RequestTypes
  <2> QED
    BY <1>1, <2>1, <2>4, <2>5, AloneCarries
<1>4. CASE Breaks(o) /\ UNCHANGED held
  <2>1. /\ OthersApart(o) /\ pc'[o] = "answered" /\ got'[o] \in {"failed", "timeout"}
    BY <1>1, <1>4 DEF Breaks, Goes, OthersApart, Apart, CallsOK, Types, RequestTypes
  <2> QED
    BY <1>1, <1>4, <2>1, IdleCarries
<1> QED
  BY <1>3, <1>4 DEF Login, Goes

\* The end of a call, and another request of it.
LEMMA ThroughCarries ==
  ASSUME Types, CallsOK, DInv, NEW o \in Ops,
         Return(o) \/ Posted(o) \/ Read(o)
  PROVE  DInv'
<1>1. pc[o] = "answered" /\ UNCHANGED <<gen, done, kind, conf>>
  BY DEF Return, Posted, Read, Through, ztncui
<1>2. CASE \E a \in {"ok", "failed", "confirmed", "unconfirmed"} : Over(o, a)
  <2>1. /\ OthersApart(o) /\ pc'[o] = "done"
        /\ \A p \in Ops \ {o} : again'[p] = again[p] /\ held'[p] = held[p]
    BY <1>1, <1>2 DEF Over, End, Goes, OthersApart, Apart, CallsOK, Types, RequestTypes, LoopTypes
  <2> QED
    BY <1>1, <2>1, IdleCarries
<1>3. CASE Another(o) /\ ~ \E a \in {"ok", "failed", "confirmed", "unconfirmed"} : Over(o, a)
  <2>1. /\ \A p \in Ops \ {o} : phase'[p] = phase[p] /\ stage'[p] = stage[p]
    BY <1>3 DEF Return, Posted, Read, Staged, Types, LoopTypes
  <2>2. /\ OthersApart(o) /\ pc'[o] = "session" /\ UNCHANGED <<again, held>>
    BY <1>1, <1>3, <2>1 DEF Another, local, Goes, OthersApart, Apart, CallsOK
  <2> QED
    BY <1>1, <2>2, IdleCarries
<1> QED
  BY <1>2, <1>3 DEF Return, Posted, Read, Staged

LEMMA BeforeCarries ==
  ASSUME Types, CallsOK, DInv, NEW o \in Ops, Session(o) \/ LogInAgain(o)
  PROVE  DInv'
<1>1. \/ pc' = [pc EXCEPT ![o] = "login"]
      \/ pc' = [pc EXCEPT ![o] = "send"] /\ again' = [again EXCEPT ![o] = FALSE]
  BY DEF Session, LogInAgain, Goes
<1>2. UNCHANGED <<kind, conf, gen, done, got, seen, phase, stage, answer>>
  BY DEF Session, LogInAgain, ztncui, progress
<1>3. OthersApart(o)
  BY <1>1, <1>2 DEF OthersApart, Apart, CallsOK
<1>4. \A p \in Ops \ {o} : again'[p] = again[p] /\ held'[p] = held[p]
  BY DEF Session, LogInAgain, Types, RequestTypes
<1>5. pc'[o] = "login" \/ (pc'[o] = "send" /\ ~ again'[o])
  BY <1>1 DEF CallsOK, Types, RequestTypes
<1> QED
  BY <1>2, <1>3, <1>4, <1>5, IdleCarries

LEMMA OutsideCarries ==
  ASSUME Types, CallsOK, DInv, NEW o \in Ops, Call(o) \/ Edit(o) \/ Remove(o) \/ Clear(o)
  PROVE  DInv'
<1>1. \/ \E l \in {"session", "done"} : pc' = [pc EXCEPT ![o] = l]
      \/ pc' = [pc EXCEPT ![o] = "clear"] /\ kind[o] # "act"
  BY DEF Call, Edit, Remove, Write, Clear, End, Goes
<1>2. UNCHANGED answer \/ \E a \in {"ok", "failed"} : answer' = [answer EXCEPT ![o] = a]
  BY DEF Call, Edit, Remove, Write, Clear, End
<1>3. /\ UNCHANGED <<kind, gen, done, got, seen, stage, held, again>>
      /\ conf' = conf \/ conf' = [conf EXCEPT ![o] = config]
      /\ phase' = phase \/ \E ph \in {"post", "call"} : phase' = [phase EXCEPT ![o] = ph]
  BY DEF Call, Edit, Remove, Write, Clear, ztncui, local, progress
<1>4. OthersApart(o)
  BY <1>1, <1>2, <1>3 DEF OthersApart, Apart, CallsOK, Types, LoopTypes
<1>5. pc'[o] \in {"session", "done"} \/ (pc'[o] = "clear" /\ kind[o] # "act")
  BY <1>1 DEF CallsOK
<1> QED
  BY <1>3, <1>4, <1>5, IdleCarries

LEMMA NextD == SInv /\ Types /\ DInv /\ [Next]_vars => DInv'
<1> SUFFICES ASSUME SInv, Types, DInv, [Next]_vars PROVE DInv'
  OBVIOUS
<1>0. CallsOK
  BY DEF SInv
<1>1. ASSUME NEW o \in Ops, Step(o) PROVE DInv'
  BY <1>0, <1>1, SendCarries, LoginCarries, ThroughCarries, BeforeCarries, OutsideCarries DEF Step
<1>2. ASSUME NEW o \in Ops, Edit(o) \/ Remove(o) \/ Call(o) PROVE DInv'
  BY <1>0, <1>2, OutsideCarries
<1>3. ASSUME UNCHANGED <<pc, kind, conf, held, again, got, seen, phase, stage, answer>>,
             done \subseteq done', \A s \in Servers : gen'[s] \in Nat /\ gen[s] <= gen'[s]
      PROVE  DInv'
  <2>1. \A o \in Ops : Apart(o) /\ again'[o] = again[o] /\ held'[o] = held[o]
    BY <1>3 DEF Apart
  <2> QED
    BY <1>0, <1>3, <2>1, ApartCarries DEF DInv
<1>4. gen \in [Servers -> Nat]
  BY DEF Types, ServerTypes
<1>5. CASE \E r \in late : LateRequest(r)
  <2>1. UNCHANGED <<pc, kind, conf, held, again, got, seen, phase, stage, answer, gen>> /\ done \subseteq done'
    BY <1>5 DEF LateRequest, local, progress
  <2> QED
    BY <1>3, <1>4, <2>1
<1>6. CASE \E s \in Servers : Forget(s)
  <2>1. UNCHANGED <<pc, kind, conf, held, again, got, seen, phase, stage, answer, done>>
    BY <1>6 DEF Forget, progress
  <2>2. \A s \in Servers : gen'[s] \in Nat /\ gen[s] <= gen'[s]
    BY <1>4, <1>6 DEF Forget
  <2> QED
    BY <1>3, <2>1, <2>2
<1>7. CASE UNCHANGED vars
  BY <1>3, <1>4, <1>7 DEF vars, local, progress, ztncui
<1> QED
  BY <1>1, <1>2, <1>5, <1>6, <1>7 DEF Next

\* A single request that returns success was carried out by its server, unless it was sent
\* again after a new login whose session was forgotten before it arrived (AnsweredWasDone):
\* the answer to the second request is not examined for a login page.
THEOREM AnswersAreTrue == Spec => AnsweredWasDone
<1> DEFINE Told == \A o \in Ops :
          kind[o] = "act" /\ answer[o] # "ok" /\ answer'[o] = "ok" =>
              o \in done \/ (again[o] /\ held[o].gen # gen[Host(o)])
<1>1. SInv /\ Types /\ NInv /\ DInv /\ [Next]_vars => [Told]_vars
  <2> SUFFICES ASSUME SInv, Types, NInv, DInv, [Next]_vars, vars' # vars,
                      NEW o \in Ops, kind[o] = "act", answer[o] # "ok", answer'[o] = "ok"
               PROVE  o \in done \/ (again[o] /\ held[o].gen # gen[Host(o)])
    BY DEF vars
  <2>1. CallsOK /\ Carries(o) /\ InPlace(o)
    BY DEF SInv, DInv, NInv, NameOK
  <2>2. CASE Return(o)
    <3>1. pc[o] = "answered" /\ (again[o] \/ ~ LoginAsked(got[o])) /\ got[o] \in {"ok", "page"}
      BY <2>2 DEF Return, Through, Over, End, Passes, Types, LoopTypes
    <3>2. CASE got[o] = "ok"
      BY <2>1, <3>1, <3>2 DEF Carries
    <3>3. CASE got[o] = "page"
      <4>1. again[o] /\ held[o] \in Cookies /\ held[o].gen < gen[Host(o)]
        BY <2>1, <3>1, <3>3 DEF Carries, LoginAsked
      <4>2. Host(o) \in Servers /\ gen[Host(o)] \in Nat /\ held[o].gen \in Nat
        BY <2>1, <3>1, <4>1, HostType DEF InFlight, Types, ServerTypes, Cookies
      <4> QED
        BY <4>1, <4>2
    <3> QED
      BY <3>1, <3>2, <3>3
  <2>3. CASE ~ Return(o)
    <3>1. phase[o] = "call" /\ pc[o] # "clear"
      BY <2>1 DEF InPlace, Carries, Renames
    <3>2. ~ Posted(o) /\ ~ Read(o) /\ ~ Clear(o)
      BY <3>1 DEF Posted, Read, Through, Clear
    <3>3. ASSUME NEW p \in Ops, p # o, Step(p) \/ Edit(p) \/ Remove(p) \/ Call(p) PROVE answer'[o] = answer[o]
      <4>1. UNCHANGED answer \/ \E a : answer' = [answer EXCEPT ![p] = a]
        BY <3>3 DEF Step, Session, Login, Send, LogInAgain, Return, Posted, Read, Staged, Clear, Edit, Remove,
           Write, Call, Over, End, Another, Goes
      <4> QED
        BY <3>3, <4>1 DEF Types, LoopTypes
    <3>4. ASSUME Session(o) \/ Login(o) \/ Send(o) \/ LogInAgain(o) PROVE UNCHANGED answer
      BY <3>4 DEF Session, Login, Send, LogInAgain
    <3>5. ASSUME Edit(o) \/ Remove(o) \/ Call(o) PROVE answer'[o] # "ok" \/ UNCHANGED answer
      BY <3>5 DEF Edit, Remove, Call, Write, End, Types, LoopTypes
    <3>6. ASSUME (\E r \in late : LateRequest(r)) \/ (\E s \in Servers : Forget(s)) PROVE UNCHANGED answer
      BY <3>6 DEF LateRequest, Forget
    <3> QED
      BY <2>3, <3>2, <3>3, <3>4, <3>5, <3>6 DEF Next, Step
  <2> QED
    BY <2>2, <2>3
<1>2. Init => SInv /\ Types /\ NInv /\ DInv
  BY InitS, InitTypes, InitN DEF Init, DInv, Carries
<1>3. SInv /\ Types /\ NInv /\ DInv /\ [Next]_vars => SInv' /\ Types' /\ NInv' /\ DInv'
  BY StepS, NextTypes, NextN, NextD
<1>4. Told <=> Told
  OBVIOUS
<1> QED
  BY <1>1, <1>2, <1>3, PTL DEF Spec, AnsweredWasDone
=============================================================================
