--------------------------- MODULE ZtncuiSession ---------------------------
(***************************************************************************)
(* The requests the server makes to the ztncui of one controller: the      *)
(* session cookie that all requests of the controller share                *)
(* (ZtncuiSessionService), logging in again when ztncui has forgotten the  *)
(* session, timeouts, the renaming of a member with its retries and the    *)
(* detour over an ASCII name (setMemberName), and beside them the edits    *)
(* and the removal of the controller's row.  A request takes the row's     *)
(* address and login when it starts and uses them to its end.              *)
(***************************************************************************)
EXTENDS Naturals, Sequences

CONSTANTS
    Ops,            \* the calls of a behaviour
    Plans,          \* what they may be: each plan gives every call a kind, or none
    Servers,        \* the ztncui servers the row may point at
    Hosts,          \* for each version of the row, the server it points at
    Bridge,         \* the ASCII name `zt-<member id>'
    None,
    MaxTries, MaxReads,     \* MEMBER_NAME_UPDATE_RETRY_COUNT and ..._VERIFY_... (3, 3)
    MaxFaults,      \* requests that fail or time out
    MaxRestarts     \* how often a server forgets its sessions

\* "act" stands for every call that is one request of a stranger to the member's name,
\* "rename" and "rename wide" for setMemberName with an ASCII and another name.
AllKinds == {"act", "rename", "rename wide", "test", "edit", "remove"}

Versions == 1..Len(Hosts)

ASSUME SessionAssumption ==
    /\ Plans \subseteq [Ops -> AllKinds \cup {None}]
    /\ MaxTries \in Nat \ {0} /\ MaxReads \in Nat \ {0}
    /\ MaxFaults \in Nat /\ MaxRestarts \in Nat
    /\ Hosts \in Seq(Servers) /\ Len(Hosts) > 0
    /\ Bridge \notin Ops /\ None \notin Ops /\ None # Bridge

VARIABLES
    config,     \* the version of the controller's row, 0 once it is removed
    cookie,     \* the Map's cookie: the login it is of, the server's sessions
    gen,        \* how often each server has forgotten its sessions
    name,       \* the member's name at each server
    late,       \* requests given up on that their server may still carry out
    done,       \* the "act" calls whose request a server has carried out
    pc, kind, phase,
    conf,       \* the version of the row a call has read
    held,       \* the cookie its request carries
    again,      \* whether its request is made a second time, after a new login
    got,        \* what became of its request
    seen,       \* the name a verification has read
    stage,      \* which name setMemberName is trying
    tries, reads,
    answer,     \* what a call returned
    met,        \* the calls that were under way when an edit cleared the session
    faults, restarts

local == <<held, again, got, seen>>
progress == <<phase, stage, tries, reads>>
ztncui == <<gen, name, late, done>>
limits == <<faults, restarts>>
vars == <<config, cookie, ztncui, pc, kind, conf, local, progress,
          answer, met, limits>>

Texts == Ops \cup {Bridge}
Renames == {"rename", "rename wide"}
Requests == {"act", "test"} \cup Renames

Init ==
    /\ config = 1 /\ cookie = None
    /\ gen = [s \in Servers |-> 0] /\ name = [s \in Servers |-> None]
    /\ late = {} /\ done = {}
    /\ pc = [o \in Ops |-> "idle"] /\ kind \in Plans
    /\ phase = [o \in Ops |-> "call"] /\ conf = [o \in Ops |-> 0]
    /\ held = [o \in Ops |-> None] /\ again = [o \in Ops |-> FALSE]
    /\ got = [o \in Ops |-> "nothing"] /\ seen = [o \in Ops |-> None]
    /\ stage = [o \in Ops |-> "direct"]
    /\ tries = [o \in Ops |-> 1] /\ reads = [o \in Ops |-> 1]
    /\ answer = [o \in Ops |-> "nothing"]
    /\ met = {} /\ faults = 0 /\ restarts = 0

Host(o) == Hosts[conf[o]]
Goes(o, l) == pc' = [pc EXCEPT ![o] = l]
End(o, a) == Goes(o, "done") /\ answer' = [answer EXCEPT ![o] = a]
Another(o) == Goes(o, "session") /\ UNCHANGED <<answer, local>>
Fault == faults < MaxFaults /\ faults' = faults + 1 /\ UNCHANGED restarts
InFlight(o) == pc[o] \in {"session", "login", "send", "answered"}

\* The request under way, and the counters of its loops; they end with the call.
Over(o, a) ==
    /\ End(o, a) /\ UNCHANGED <<phase, stage>>
    /\ held' = [held EXCEPT ![o] = None] /\ again' = [again EXCEPT ![o] = FALSE]
    /\ got' = [got EXCEPT ![o] = "nothing"] /\ seen' = [seen EXCEPT ![o] = None]
    /\ tries' = [tries EXCEPT ![o] = 1] /\ reads' = [reads EXCEPT ![o] = 1]

\* The name setMemberName is trying: the one asked for, or the detour.
Text(o) == IF stage[o] = "bridge" THEN Bridge ELSE o

Call(o) ==
    /\ pc[o] = "idle" /\ kind[o] \in Requests
    /\ IF config = 0 THEN End(o, "failed") /\ UNCHANGED <<conf, phase>>
       ELSE /\ Goes(o, "session") /\ UNCHANGED answer
            /\ conf' = [conf EXCEPT ![o] = config]
            /\ phase' = [phase EXCEPT ![o] = IF kind[o] \in Renames THEN "post" ELSE "call"]
    /\ UNCHANGED <<config, cookie, ztncui, kind, local, stage, tries, reads, met, limits>>

\* A request starts: every one of a renaming drops the cookie and logs in, as the
\* connection test does without dropping it; others use the cookie there is.
Session(o) ==
    /\ pc[o] = "session"
    /\ again' = [again EXCEPT ![o] = FALSE]
    /\ cookie' = IF kind[o] \in Renames THEN None ELSE cookie
    /\ IF kind[o] = "act" /\ cookie # None
       THEN Goes(o, "send") /\ held' = [held EXCEPT ![o] = cookie]
       ELSE Goes(o, "login") /\ UNCHANGED held
    /\ UNCHANGED <<config, ztncui, kind, conf, got, seen, progress, answer, met, limits>>

\* A request fails (an error, a status of 400 or more, a refused login) or times out.
Breaks(o) ==
    /\ Fault /\ Goes(o, "answered")
    /\ \E g \in {"failed", "timeout"} : got' = [got EXCEPT ![o] = g]

Login(o) ==
    /\ pc[o] = "login"
    /\ \/ LET c == [by |-> conf[o], gen |-> gen[Host(o)]]
          IN  /\ held' = [held EXCEPT ![o] = c] /\ cookie' = c
              /\ Goes(o, "send") /\ UNCHANGED <<got, limits>>
       \/ Breaks(o) /\ UNCHANGED <<held, cookie>>
    /\ UNCHANGED <<config, ztncui, kind, conf, again, seen, progress, answer, met>>

\* Whether the server a request goes to knows the session of its cookie.
Known(o) == Hosts[held[o].by] = Host(o) /\ held[o].gen = gen[Host(o)]

\* The server carries out a request; a name that is not ASCII it may ignore.
Effect(o) ==
    /\ done' = IF kind[o] = "act" THEN done \cup {o} ELSE done
    /\ seen' = IF phase[o] = "verify" THEN [seen EXCEPT ![o] = name[Host(o)]] ELSE seen
    /\ \/ /\ phase[o] = "post"
          /\ name' = [name EXCEPT ![Host(o)] = Text(o)]
       \/ /\ phase[o] # "post" \/ (kind[o] = "rename wide" /\ stage[o] # "bridge")
          /\ UNCHANGED name

\* The request is answered; or it is not, whether it was carried out or not, or is
\* carried out later.
Send(o) ==
    /\ pc[o] = "send"
    /\ \/ /\ Known(o) /\ Effect(o) /\ Goes(o, "answered")
          /\ got' = [got EXCEPT ![o] = "ok"] /\ UNCHANGED <<late, limits>>
       \/ /\ ~ Known(o) /\ Goes(o, "answered")
          /\ \E g \in {"redirect", "page"} : got' = [got EXCEPT ![o] = g]
          /\ seen' = [seen EXCEPT ![o] = None]
          /\ UNCHANGED <<name, late, done, limits>>
       \/ /\ Breaks(o)
          /\ \/ Known(o) /\ Effect(o) /\ UNCHANGED late
             \/ UNCHANGED <<name, late, done, seen>>
             \/ /\ Known(o) /\ phase[o] # "verify"
                /\ late' = late \cup {[op |-> o, text |-> IF phase[o] = "post" THEN Text(o) ELSE None,
                                       at |-> Host(o)]}
                /\ UNCHANGED <<name, done, seen>>
    /\ UNCHANGED <<config, cookie, gen, kind, conf, held, again, progress, answer, met>>

\* Mutant of LoginAsked: only the redirect to the login page is recognised.
LoginAskedByRedirect(g) == g = "redirect"

\* isUnauthenticatedResponse.
LoginAsked(g) == g \in {"redirect", "page"}

\* The first answer that asks for a login drops the cookie, whose ever it is by now,
\* and is followed by a login and the request again.
LogInAgain(o) ==
    /\ pc[o] = "answered" /\ kind[o] # "test" /\ ~ again[o] /\ LoginAsked(got[o])
    /\ cookie' = None /\ again' = [again EXCEPT ![o] = TRUE]
    /\ Goes(o, "login")
    /\ UNCHANGED <<config, ztncui, kind, conf, held, got, seen, progress, answer, met, limits>>

\* A second answer is not looked at for that: a page passes, a redirect does not.  The
\* connection test looks at neither.
Passes(o) == got[o] \in {"ok", "page"} \/ (got[o] = "redirect" /\ kind[o] = "test")

Through(o, ph) ==
    /\ pc[o] = "answered" /\ phase[o] = ph
    /\ kind[o] = "test" \/ again[o] \/ ~ LoginAsked(got[o])
    /\ UNCHANGED <<config, cookie, ztncui, kind, conf, met, limits>>

\* Calls that are a single request; a connection test writes its result to the row.
Return(o) ==
    /\ Through(o, "call")
    /\ Over(o, IF Passes(o) /\ (kind[o] = "test" => config # 0) THEN "ok" ELSE "failed")

\* After the request that sets a name, unless it failed other than by a timeout, comes
\* its verification.
Posted(o) ==
    /\ Through(o, "post")
    /\ IF Passes(o) \/ got[o] = "timeout"
       THEN /\ Another(o) /\ UNCHANGED <<stage, tries>>
            /\ phase' = [phase EXCEPT ![o] = "verify"]
            /\ reads' = [reads EXCEPT ![o] = 1]
       ELSE Over(o, "failed")

\* Mutant of Verified: the name that was read is not compared.
VerifiedUnread(o) == Passes(o)

Verified(o) == Passes(o) /\ seen[o] = Text(o)

\* What setMemberName does once a name is confirmed or was tried for the last time.
NextStage(o) ==
    CASE stage[o] = "direct" /\ ~ Verified(o) /\ kind[o] = "rename wide" -> "bridge"
      [] stage[o] = "bridge" /\ Verified(o) -> "final"
      [] OTHER -> "none"

Staged(o) ==
    IF NextStage(o) = "none"
    THEN Over(o, IF Verified(o) THEN "confirmed" ELSE "unconfirmed")
    ELSE /\ Another(o) /\ UNCHANGED reads
         /\ stage' = [stage EXCEPT ![o] = NextStage(o)]
         /\ tries' = [tries EXCEPT ![o] = 1]
         /\ phase' = [phase EXCEPT ![o] = "post"]

\* Mutant of Read: the tries are not counted.
ReadUncounted(o) ==
    /\ Through(o, "verify")
    /\ \/ Verified(o) /\ Staged(o)
       \/ /\ ~ Verified(o) /\ reads[o] < MaxReads
          /\ Another(o) /\ reads' = [reads EXCEPT ![o] = @ + 1]
          /\ UNCHANGED <<stage, tries, phase>>
       \/ /\ ~ Verified(o) /\ reads[o] = MaxReads
          /\ Another(o) /\ phase' = [phase EXCEPT ![o] = "post"]
          /\ UNCHANGED <<stage, tries, reads>>

\* Mutant of Read: one verification too many.
ReadOneMore(o) ==
    /\ Through(o, "verify")
    /\ IF Verified(o) \/ reads[o] > MaxReads THEN Staged(o)
       ELSE Another(o) /\ reads' = [reads EXCEPT ![o] = @ + 1] /\ UNCHANGED <<stage, tries, phase>>

\* A verification, whatever goes wrong in it, is repeated, and after it the request.
Read(o) ==
    /\ Through(o, "verify")
    /\ \/ /\ Verified(o) \/ (reads[o] = MaxReads /\ tries[o] = MaxTries)
          /\ Staged(o)
       \/ /\ ~ Verified(o) /\ reads[o] < MaxReads
          /\ Another(o) /\ reads' = [reads EXCEPT ![o] = @ + 1]
          /\ UNCHANGED <<stage, tries, phase>>
       \/ /\ ~ Verified(o) /\ reads[o] = MaxReads /\ tries[o] < MaxTries
          /\ Another(o) /\ tries' = [tries EXCEPT ![o] = @ + 1]
          /\ phase' = [phase EXCEPT ![o] = "post"]
          /\ UNCHANGED <<stage, reads>>

\* A request that was given up on reaches its server, or never does.
LateRequest(r) ==
    /\ r \in late /\ late' = late \ {r}
    /\ \/ /\ r.text = None /\ done' = done \cup {r.op} /\ UNCHANGED name
       \/ /\ r.text # None /\ name' = [name EXCEPT ![r.at] = r.text] /\ UNCHANGED done
       \/ UNCHANGED <<name, done>>
    /\ UNCHANGED <<config, cookie, gen, pc, kind, conf, local, progress,
                   answer, met, limits>>

\* A server restarts or its sessions expire.
Forget(s) ==
    /\ restarts < MaxRestarts /\ restarts' = restarts + 1
    /\ gen' = [gen EXCEPT ![s] = @ + 1]
    /\ UNCHANGED <<config, cookie, name, late, done, pc, kind, conf, held, again, got, seen,
                   progress, answer, met, faults>>

\* The row gets another address or login, or is deleted; it may be gone.
Write(o, k, new) ==
    /\ pc[o] = "idle" /\ kind[o] = k
    /\ IF config = 0 THEN End(o, "failed") /\ UNCHANGED config
       ELSE config' = new /\ Goes(o, "clear") /\ UNCHANGED answer
    /\ UNCHANGED <<cookie, ztncui, kind, conf, local, progress, met, limits>>

Edit(o) == config + 1 \in Versions /\ Write(o, "edit", config + 1)
Remove(o) == Write(o, "remove", 0)

\* Mutant of Clear: an edit leaves the session.
ClearOnRemoval(o) ==
    /\ pc[o] = "clear"
    /\ cookie' = IF kind[o] = "remove" THEN None ELSE cookie
    /\ met' = met \cup {p \in Ops : InFlight(p)}
    /\ End(o, "ok")
    /\ UNCHANGED <<config, ztncui, kind, conf, local, progress, limits>>

\* Then the session of the old login is dropped.
Clear(o) ==
    /\ pc[o] = "clear"
    /\ cookie' = None
    /\ met' = met \cup {p \in Ops : InFlight(p)}
    /\ End(o, "ok")
    /\ UNCHANGED <<config, ztncui, kind, conf, local, progress, limits>>

Step(o) ==
    \/ Session(o) \/ Login(o) \/ Send(o) \/ LogInAgain(o) \/ Return(o) \/ Posted(o)
    \/ Read(o) \/ Clear(o)

Next ==
    \/ \E o \in Ops : Step(o) \/ Edit(o) \/ Remove(o) \/ Call(o)
    \/ \E r \in late : LateRequest(r)
    \/ \E s \in Servers : Forget(s)

\* Every request has a timeout, so a call that is under way goes on.
Fairness == \A o \in Ops : WF_vars(Step(o))

Spec == Init /\ [][Next]_vars /\ Fairness
-----------------------------------------------------------------------------
Cookies == [by : Versions, gen : Nat]

TypeOK ==
    /\ config \in Versions \cup {0} /\ cookie \in Cookies \cup {None}
    /\ gen \in [Servers -> Nat] /\ name \in [Servers -> Texts \cup {None}]
    /\ late \subseteq [op : Ops, text : Texts \cup {None}, at : Servers] /\ done \subseteq Ops
    /\ pc \in [Ops -> {"idle", "session", "login", "send", "answered", "clear", "done"}]
    /\ kind \in [Ops -> AllKinds \cup {None}]
    /\ phase \in [Ops -> {"call", "post", "verify"}]
    /\ conf \in [Ops -> Versions \cup {0}] /\ held \in [Ops -> Cookies \cup {None}]
    /\ again \in [Ops -> BOOLEAN]
    /\ got \in [Ops -> {"nothing", "ok", "redirect", "page", "failed", "timeout"}]
    /\ seen \in [Ops -> Texts \cup {None}]
    /\ stage \in [Ops -> {"direct", "bridge", "final"}]
    /\ tries \in [Ops -> 1..MaxTries] /\ reads \in [Ops -> 1..MaxReads]
    /\ answer \in [Ops -> {"nothing", "ok", "failed", "confirmed", "unconfirmed"}]
    /\ met \subseteq Ops /\ faults \in 0..MaxFaults /\ restarts \in 0..MaxRestarts

\* After an edit of the address or the login, the next requests do not go on with the
\* session of the old login, unless a call that was under way at the edit has logged in
\* with it since.
SessionIsCurrent ==
    cookie # None /\ cookie.by # config =>
        (\E e \in Ops : pc[e] = "clear") \/ (\E o \in met : conf[o] = cookie.by)

\* A call that returns success was carried out by the server; only one that was sent a
\* second time, and whose new session was forgotten before it arrived, may not have been.
AnsweredWasDone ==
    [][\A o \in Ops :
          kind[o] = "act" /\ answer[o] # "ok" /\ answer'[o] = "ok" =>
              o \in done \/ (again[o] /\ held[o].gen # gen[Host(o)])]_vars

\* A name that is reported as confirmed stays, if no other renaming is made: whatever was
\* repeated or arrives late, as long as the detour was not taken or nothing failed.
ConfirmedSticks ==
    \A o \in Ops :
        /\ answer[o] = "confirmed" /\ (stage[o] = "direct" \/ faults = 0)
        /\ \A p \in Ops \ {o} : kind[p] \notin Renames
        => name[Host(o)] = o

\* Every call returns, however often its requests fail, its name is ignored or its session
\* is forgotten: the retries of retries end.
EveryCallEnds == \A o \in Ops : pc[o] # "idle" ~> pc[o] = "done"
=============================================================================
