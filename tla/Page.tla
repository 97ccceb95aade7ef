-------------------------------- MODULE Page --------------------------------
(***************************************************************************)
(* What the pages of the web application have in common: calls to the API  *)
(* whose answers come in any order, a table loaded from the server and     *)
(* loaded again after every change, modals, and the flags that disable a   *)
(* button.  A modal can be closed (its cross, the mask) while its call is  *)
(* under way, and the continuation of a handler reads the page as it is by *)
(* then.                                                                   *)
(***************************************************************************)
EXTENDS Naturals

CONSTANTS
    Slots,          \* room for the handlers that wait for an answer at one time
    Items,          \* the rows of the page: users, controllers, machines, members
    None,
    MaxFaults       \* calls that fail

ASSUME FaultsAssumption == MaxFaults \in Nat

VARIABLES
    call,           \* the call each handler waits for
    left,           \* how many handlers may still be started in this behaviour
    broken,
    version,        \* the state of the server's table, numbered by its writes
    table,          \* the state the page shows
    modals,         \* the modals that are open, and the row each was opened for
    busy,           \* the flags that are set: loading, saving, ...
    seen,           \* history: the newest write a handler has ended successfully with
    overlapped      \* history: two calls for the table were under way at once

rows == <<version, table, seen, overlapped>>
page == <<call, left, broken, rows, modals, busy>>

Blank == [op |-> "none", of |-> None, arg |-> None, at |-> "none", got |-> None, flag |-> None]
Request(op, of, arg, flag) ==
    [op |-> op, of |-> of, arg |-> arg, at |-> "asked", got |-> None, flag |-> flag]

\* A handler calls the API for the first time, or again; and it ends.
Asks(k, c) ==
    /\ call[k] = Blank /\ left > 0 /\ left' = left - 1
    /\ call' = [call EXCEPT ![k] = c]
    /\ UNCHANGED broken
Proceeds(k, c) == call' = [call EXCEPT ![k] = c] /\ UNCHANGED <<left, broken>>
Ends(k) == Proceeds(k, Blank)

Came(k, op) == call[k].op = op /\ call[k].at \in {"ok", "failed"}
Good(k) == call[k].at = "ok"
UnderWay(op) == {k \in Slots : call[k].op = op}

\* Every page loads its table when it is mounted.
PageInit ==
    /\ \E k \in Slots : call = [j \in Slots |-> IF j = k THEN Request("load", None, 0, "loading") ELSE Blank]
    /\ broken = 0
    /\ version = 0 /\ table = 0 /\ seen = 0 /\ overlapped = FALSE
    /\ modals = {} /\ busy = {"loading"}

\* An open modal masks the page, and a table that is loading its rows; not the buttons
\* above the table, whose modals are for no row.
Unmasked == modals = {} /\ "loading" \notin busy
Opens(kind, of) ==
    /\ modals = {} /\ (of # None => Unmasked)
    /\ modals' = {[kind |-> kind, of |-> of]}
IsOpen(kind, of) == [kind |-> kind, of |-> of] \in modals
Shut(kind) == {d \in modals : d.kind # kind}

Close(d) ==
    /\ d \in modals /\ modals' = modals \ {d}
    /\ UNCHANGED <<call, left, broken, rows, busy>>

\* The button of an open modal, which its flag disables.
Submits(k, kind, of, arg, flag) ==
    /\ IsOpen(kind, of) /\ flag \notin busy
    /\ Asks(k, Request(kind, of, arg, flag)) /\ busy' = busy \cup {flag}
    /\ UNCHANGED <<rows, modals>>

\* The button of a Modal.confirm, which is busy while its handler runs.
Agrees(k, kind, of) ==
    /\ IsOpen(kind, of)
    /\ \A j \in Slots : call[j].flag # kind \/ call[j].of # of
    /\ Asks(k, Request(kind, of, None, kind))
    /\ UNCHANGED <<rows, modals, busy>>

\* A button of a row.
Presses(k, op, of, flag) ==
    /\ Unmasked
    /\ Asks(k, Request(op, of, None, flag)) /\ busy' = busy \cup {flag}
    /\ UNCHANGED <<rows, modals>>

\* The server: it answers a call, having changed its table or not; or the call fails.
Answers(k, got) == Proceeds(k, [call[k] EXCEPT !.at = "ok", !.got = got])
Served(k) == call[k].at = "asked"
ServeWrite(k, ops) ==
    /\ Served(k) /\ call[k].op \in ops
    /\ version' = version + 1 /\ Answers(k, version + 1)
    /\ UNCHANGED <<table, seen, overlapped, modals, busy>>
ServeRead(k, ops, got) ==
    /\ Served(k) /\ call[k].op \in ops
    /\ Answers(k, got)
    /\ UNCHANGED <<rows, modals, busy>>
ServeFault(k) ==
    /\ Served(k) /\ broken < MaxFaults /\ broken' = broken + 1
    /\ call' = [call EXCEPT ![k].at = "failed"]
    /\ UNCHANGED <<left, rows, modals, busy>>
ServeLoad(k) == ServeRead(k, {"load"}, version)

\* The server refuses a call for what is not there any more.
Refuses(k) ==
    /\ Served(k) /\ Proceeds(k, [call[k] EXCEPT !.at = "failed"])
    /\ UNCHANGED <<rows, modals, busy>>

\* The calls whose answer becomes the table.
Reading == UnderWay("load") \cup UnderWay("poll")

\* The button that loads the table again.
Refresh(k) ==
    /\ modals = {}
    /\ Asks(k, Request("load", None, 0, "loading")) /\ busy' = busy \cup {"loading"}
    /\ overlapped' = (overlapped \/ Reading # {})
    /\ UNCHANGED <<version, table, seen, modals>>

\* Mutant of Reloads: a handler ends without loading the table again.
ReloadsNot(k, write, flag) ==
    /\ Ends(k)
    /\ seen' = IF write > seen THEN write ELSE seen
    /\ busy' = busy \ {flag} /\ UNCHANGED overlapped

\* A handler that has changed something loads the table again before it ends; its flag
\* stays set meanwhile.
Reloads(k, write, flag) ==
    /\ Proceeds(k, Request("load", call[k].of, write, flag))
    /\ overlapped' = (overlapped \/ Reading \ {k} # {})
    /\ busy' = busy \cup {"loading"} /\ UNCHANGED seen

\* The answer to a change: if it is good the modal of that kind is closed, whichever row
\* it is open for by now (it is one flag of the page).  "again" is when the table is loaded again.
Returns(k, kind, again) ==
    /\ Came(k, kind)
    /\ modals' = IF Good(k) THEN Shut(kind) ELSE modals
    /\ IF again = "always" \/ (again = "ok" /\ Good(k)) \/ (again = "failed" /\ ~ Good(k))
       THEN Reloads(k, IF Good(k) THEN call[k].got ELSE 0, call[k].flag)
       ELSE Ends(k) /\ busy' = busy \ {call[k].flag} /\ UNCHANGED <<seen, overlapped>>
    /\ UNCHANGED <<version, table>>

\* The answer to a call that was confirmed: the Modal.confirm closes with its handler,
\* whatever the answer was.
Agreed(k) == [kind |-> call[k].flag, of |-> call[k].of]
AgreedReturns(k, kind) ==
    /\ Came(k, kind)
    /\ IF Good(k) THEN Reloads(k, call[k].got, call[k].flag) /\ UNCHANGED modals
       ELSE Ends(k) /\ modals' = modals \ {Agreed(k)} /\ UNCHANGED <<busy, seen, overlapped>>
    /\ UNCHANGED <<version, table>>

\* Mutant of LoadReturns: whatever came is shown, although the call failed.
LoadReturnsAny(k) ==
    /\ Came(k, "load") /\ Ends(k)
    /\ table' = call[k].got
    /\ busy' = busy \ {"loading", call[k].flag} /\ modals' = modals \ {Agreed(k)}
    /\ UNCHANGED <<version, seen, overlapped>>

\* The table is there, and with it the handler that loaded it ends.
LoadReturns(k) ==
    /\ Came(k, "load") /\ Ends(k)
    /\ table' = IF Good(k) THEN call[k].got ELSE table
    /\ seen' = IF Good(k) /\ call[k].arg > seen THEN call[k].arg ELSE seen
    /\ busy' = busy \ {"loading", call[k].flag} /\ modals' = modals \ {Agreed(k)}
    /\ UNCHANGED <<version, overlapped>>
-----------------------------------------------------------------------------
\* What a handler has saved is on the table when it is done, as long as no two calls for
\* the table crossed: of two that cross the older may come last and stay.
TableShowsOwnWrites == ~ overlapped => table >= seen
=============================================================================
