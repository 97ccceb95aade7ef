----------------------------- MODULE MembersView -----------------------------
(***************************************************************************)
(* The page of one network (views/networks/detail.vue): members are        *)
(* authorized, deleted and renamed.  The server accepts a name before it   *)
(* is applied (see MemberRename): after the answer the page polls the      *)
(* members until the name is there.                                        *)
(***************************************************************************)
EXTENDS Page

CONSTANTS
    Names,
    Attempts        \* RENAME_CONFIRM_ATTEMPTS

ASSUME AttemptsAssumption == Attempts \in Nat \ {0}

VARIABLES
    name,           \* at the server: the name of each member
    had,            \* history: the names each member has had
    late,           \* the names that were accepted and may yet be applied
    renameMember,   \* renameMemberId
    told            \* history: the renamings reported as successful

members == <<name, had, late, renameMember, told>>

MembersInit ==
    /\ name \in [Items -> Names] /\ had = [m \in Items |-> {name[m]}]
    /\ late = {} /\ renameMember = None /\ told = {}

OpenMember(kind, m) ==
    /\ Opens(kind, m)
    /\ renameMember' = IF kind = "rename" THEN m ELSE renameMember
    /\ UNCHANGED <<call, left, broken, rows, busy, name, had, late, told>>

DeleteMember(k, m) == Agrees(k, "delete", m) /\ UNCHANGED members

\* One switch of the table at a time.
ToggleAuth(k, m) ==
    /\ "authUpdating" \notin busy
    /\ Presses(k, "auth", m, "authUpdating") /\ UNCHANGED members

\* Only a failed authorisation loads the members again: after a success the page corrects
\* the row itself, which is not the version of a table and stays out of `seen`.
MemberReturns(k) ==
    /\ AgreedReturns(k, "delete") \/ Returns(k, "auth", "failed")
    /\ UNCHANGED members

ServeMember(k) ==
    /\ ServeWrite(k, {"delete", "auth"}) \/ ServeLoad(k) \/ ServeFault(k)
    /\ UNCHANGED members
MembersReturn(k) == (Refresh(k) \/ LoadReturns(k)) /\ UNCHANGED members
-----------------------------------------------------------------------------
\* The modal asks for the member it holds.
Rename(k, n) ==
    /\ \E m \in Items : IsOpen("rename", m) /\ Submits(k, "rename", m, [of |-> m, to |-> n, attempt |-> 0], "saving")
    /\ UNCHANGED members

\* The name is accepted, or the answer is an error though it may have been.
ServeRename(k) ==
    /\ \/ ServeRead(k, {"rename"}, None)
       \/ call[k].op = "rename" /\ ServeFault(k)
    /\ late' = late \cup {<<call[k].of, call[k].arg.to>>}
    /\ UNCHANGED <<name, had, renameMember, told>>

\* A name that was accepted is applied, or given up.
Settles(l) ==
    /\ l \in late /\ late' = late \ {l}
    /\ \/ UNCHANGED <<name, had>>
       \/ /\ name' = [name EXCEPT ![l[1]] = l[2]]
          /\ had' = [had EXCEPT ![l[1]] = @ \cup {l[2]}]
    /\ UNCHANGED <<page, renameMember, told>>

Poll(k, m) ==
    /\ Proceeds(k, Request("poll", m, [call[k].arg EXCEPT !.attempt = @ + 1], call[k].flag))
    /\ overlapped' = (overlapped \/ Reading \ {k} # {})
    /\ UNCHANGED busy
GivesUp(k) == Ends(k) /\ busy' = busy \ {call[k].flag} /\ UNCHANGED overlapped

\* confirmRenameApplied looks for the member the modal holds by now.
RenameReturns(k) ==
    /\ Came(k, "rename")
    /\ IF Good(k) THEN Poll(k, renameMember) ELSE GivesUp(k)
    /\ UNCHANGED <<version, table, seen, modals, members>>

ServePoll(k) == ServeRead(k, {"poll"}, [names |-> name, table |-> version]) /\ UNCHANGED members

\* Mutant of Confirmed: the last attempt counts as a confirmation.
ConfirmedAtLast(k) ==
    call[k].got.names[call[k].of] = call[k].arg.to \/ call[k].arg.attempt = Attempts

Confirmed(k) == call[k].got.names[call[k].of] = call[k].arg.to

\* What a poll has read becomes the table.
Polled(k) == table' = IF Good(k) THEN call[k].got.table ELSE table

\* The members are polled again, or in the end the user is told that it is not confirmed.
PollReturns(k) ==
    /\ Came(k, "poll") /\ (Good(k) => ~ Confirmed(k)) /\ Polled(k)
    /\ IF Good(k) /\ call[k].arg.attempt < Attempts THEN Poll(k, call[k].of) ELSE GivesUp(k)
    /\ UNCHANGED <<version, seen, modals, members>>

RenameConfirmed(k) ==
    /\ Came(k, "poll") /\ Good(k) /\ Confirmed(k) /\ Polled(k)
    /\ told' = told \cup {[asked |-> call[k].arg.of, polled |-> call[k].of, to |-> call[k].arg.to]}
    /\ modals' = Shut("rename")
    /\ Reloads(k, 0, call[k].flag)
    /\ UNCHANGED <<version, name, had, late, renameMember>>

MembersNext ==
    \/ \E d \in modals : Close(d) /\ UNCHANGED members
    \/ \E m \in Items : OpenMember("rename", m) \/ OpenMember("delete", m)
    \/ \E l \in late : Settles(l)
    \/ \E k \in Slots :
        \/ \E m \in Items : DeleteMember(k, m) \/ ToggleAuth(k, m)
        \/ \E n \in Names : Rename(k, n)
        \/ MemberReturns(k) \/ ServeMember(k) \/ MembersReturn(k)
        \/ ServeRename(k) \/ RenameReturns(k) \/ ServePoll(k) \/ PollReturns(k) \/ RenameConfirmed(k)
-----------------------------------------------------------------------------
\* A renaming is reported as successful only if the member has had that name, unless the
\* modal was opened for another member before the answer came, whose name is polled then.
SuccessWasApplied == \A t \in told : t.asked = t.polled => t.to \in had[t.asked]
=============================================================================
