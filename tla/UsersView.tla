------------------------------ MODULE UsersView ------------------------------
(***************************************************************************)
(* The page of users (views/users/index.vue): users are created, passwords *)
(* are reset, and a modal edits which networks are hidden from a user.     *)
(***************************************************************************)
EXTENDS Page

CONSTANT Nets

VARIABLES
    stored,         \* at the server: the networks hidden from each user
    keys,           \* selectedHiddenKeys
    keysOf,         \* history: the user whose keys were loaded into it
    alone           \* history: no keys of another user were under way when it was opened

hiding == <<stored, keys, keysOf, alone>>

UsersInit == stored \in [Items -> SUBSET Nets] /\ keys = {} /\ keysOf = None /\ alone = TRUE

OpenCreateUser == Opens("create", None) /\ UNCHANGED <<call, left, broken, rows, busy, hiding>>
CreateUser(k) == Submits(k, "create", None, None, "saving") /\ UNCHANGED hiding
CreateUserReturns(k) == Returns(k, "create", "ok") /\ UNCHANGED hiding

OpenReset(u) == Opens("reset", u) /\ UNCHANGED <<call, left, broken, rows, busy, hiding>>
ResetPassword(k, u) == Submits(k, "reset", u, None, "saving") /\ UNCHANGED hiding
ResetReturns(k) == Returns(k, "reset", "never") /\ UNCHANGED hiding

\* Mutant of FirstKeys: the modal keeps what was selected for the last user.
FirstKeysLast == keys

FirstKeys == {}

OpenHidden(k, u) ==
    /\ Opens("hidden", u)
    /\ Asks(k, Request("keys", u, None, "hiddenLoading"))
    /\ busy' = busy \cup {"hiddenLoading"}
    /\ keys' = FirstKeys
    /\ keysOf' = IF FirstKeys = {} THEN None ELSE keysOf
    /\ alone' = \A j \in UnderWay("keys") : call[j].of = u
    /\ UNCHANGED <<rows, stored>>

ServeKeys(k) == ServeRead(k, {"keys"}, stored[call[k].of]) /\ UNCHANGED hiding

\* Whoever the modal is open for by now.
KeysReturn(k) ==
    /\ Came(k, "keys") /\ Ends(k)
    /\ IF Good(k) THEN keys' = call[k].got /\ keysOf' = call[k].of ELSE UNCHANGED <<keys, keysOf>>
    /\ busy' = busy \ {call[k].flag}
    /\ UNCHANGED <<rows, modals, stored, alone>>

\* The administrator selects a network or takes it back, once the table is there.
Choose(n) ==
    /\ \E u \in Items : IsOpen("hidden", u)
    /\ "hiddenLoading" \notin busy
    /\ keys' = (keys \cup {n}) \ (keys \cap {n})
    /\ UNCHANGED <<page, stored, keysOf, alone>>

SaveHidden(k, u) == Submits(k, "hidden", u, keys, "hiddenSaving") /\ UNCHANGED hiding

ServeHidden(k) ==
    /\ ServeWrite(k, {"hidden"})
    /\ stored' = [stored EXCEPT ![call[k].of] = call[k].arg]
    /\ UNCHANGED <<keys, keysOf, alone>>

SaveHiddenReturns(k) == Returns(k, "hidden", "ok") /\ UNCHANGED hiding

UsersNext ==
    \/ OpenCreateUser
    \/ \E d \in modals : Close(d) /\ UNCHANGED hiding
    \/ \E u \in Items : OpenReset(u)
    \/ \E n \in Nets : Choose(n)
    \/ \E k \in Slots :
        \/ \E u \in Items : ResetPassword(k, u) \/ OpenHidden(k, u) \/ SaveHidden(k, u)
        \/ CreateUser(k) \/ CreateUserReturns(k) \/ ResetReturns(k)
        \/ ServeKeys(k) \/ KeysReturn(k) \/ ServeHidden(k) \/ SaveHiddenReturns(k)
        \/ (Refresh(k) \/ ServeLoad(k) \/ ServeWrite(k, {"create", "reset"}) \/ ServeFault(k) \/ LoadReturns(k))
            /\ UNCHANGED hiding
-----------------------------------------------------------------------------
\* The networks selected in the modal are the ones hidden from the user in its title, as
\* loaded and edited since, or nothing was loaded; if no keys of another user were under
\* way when it was opened.
KeysAreTargets ==
    \A u \in Items : IsOpen("hidden", u) /\ alone /\ keys # {} => keysOf \in {None, u}
=============================================================================
