----------------------------- MODULE PlanetLink -----------------------------
(***************************************************************************)
(* The planet file of one controller and its download link, as             *)
(* ControllersService handles them: uploads, removals, the creation and    *)
(* the rotation of the token with their conditional updates and retries,   *)
(* downloads, and the removal of the controller.  Nothing is locked; every *)
(* await is the end of a step.                                             *)
(***************************************************************************)
EXTENDS Naturals

CONSTANTS
    Ops,            \* the requests of a behaviour
    Kinds,          \* the kinds of request made, of AllKinds
    MaxTries,       \* how often a token is tried (3 in the code)
    None,
    MaxFaults       \* how many database failures a behaviour has

AllKinds == {"link", "rotate", "upload", "withdraw", "download", "remove"}

ASSUME LinkAssumption ==
    /\ Kinds \subseteq AllKinds
    /\ MaxTries \in Nat \ {0} /\ MaxFaults \in Nat
    /\ None \notin AllKinds /\ None \notin Ops /\ None \notin Ops \X (1..MaxTries)

VARIABLES
    row,        \* the controller's row: its planet file (named after the upload it
                \* came with) and its planetDownloadToken
    task,       \* the local state of each request
    answer,     \* what it was answered
    spent,      \* the tokens the row ever had; no request reads it
    faults      \* database failures so far

vars == <<row, task, answer, spent, faults>>

\* createPlanetDownloadToken: 32 random bytes, new for every try of a request.
Tokens == Ops \X (1..MaxTries)
Says(what) == [says |-> what, link |-> None, file |-> None]
Got(t, f) == [says |-> "got", link |-> t, file |-> f]

Blank == [pc |-> "idle", kind |-> None, tries |-> 0, token |-> None]

\* The row without a planet file; a deleted row is kept as one that does not exist.
Bare(exists) == [exists |-> exists, file |-> None, token |-> None]

Init ==
    /\ row = Bare(TRUE)
    /\ task = [o \in Ops |-> Blank]
    /\ answer = [o \in Ops |-> Says("nothing")]
    /\ spent = {}
    /\ faults = 0

At(o, kind, l) == task[o].kind = kind /\ task[o].pc = l
Go(o, l) == task' = [task EXCEPT ![o].pc = l] /\ UNCHANGED answer
End(o, a) == /\ task' = [task EXCEPT ![o].pc = "done"]
             /\ answer' = [answer EXCEPT ![o] = a]
Fault == faults < MaxFaults /\ faults' = faults + 1
HasFile == row.exists /\ row.file # None

\* A request arrives, a download with a token that was given out.
Call(o) ==
    /\ task[o].pc = "idle"
    /\ \E k \in Kinds, t \in spent \cup {None} :
        /\ k = "download" <=> t # None
        /\ task' = [task EXCEPT ![o] = [pc |-> "look", kind |-> k, tries |-> 0, token |-> t]]
    /\ UNCHANGED <<row, answer, spent, faults>>

\* What the row is read for at first: findEntity, findPlanetDownloadState, and
\* for a removal of the file getPlanetFileOrThrow in a step of its own.
Look(o) ==
    /\ task[o].pc = "look" /\ task[o].kind # "download"
    /\ CASE task[o].kind = "link" ->
              IF HasFile THEN IF row.token # None THEN End(o, Got(row.token, None))
                              ELSE Go(o, "write")
              ELSE End(o, Says("refused"))
         [] task[o].kind = "rotate" -> IF HasFile THEN Go(o, "write") ELSE End(o, Says("refused"))
         [] task[o].kind = "withdraw" -> IF row.exists THEN Go(o, "check") ELSE End(o, Says("refused"))
         [] OTHER -> IF row.exists THEN Go(o, "write") ELSE End(o, Says("refused"))
    /\ UNCHANGED <<row, spent, faults>>

\* An upload whose file is missing, empty or too big.
Unacceptable(o) ==
    /\ At(o, "upload", "look") /\ row.exists
    /\ End(o, Says("refused"))
    /\ UNCHANGED <<row, spent, faults>>

Check(o) ==
    /\ At(o, "withdraw", "check")
    /\ IF HasFile THEN Go(o, "write") ELSE End(o, Says("refused"))
    /\ UNCHANGED <<row, spent, faults>>

SetToken(t) == row' = [row EXCEPT !.token = t] /\ spent' = spent \cup {t}

\* Mutant of Unlinked: the update does not ask whether there is a token by now.
UnlinkedUnasked(o) == HasFile

\* The where clause of the update that sets a token.
Unlinked(o) == HasFile /\ (task[o].kind = "link" => row.token = None)

\* Another try of a new token: it is set and returned; or no row satisfied the
\* condition, or the token is taken (P2002), and the row is read again; or the
\* database fails, before or after it has set the token.
Try(o) ==
    /\ task[o].kind \in {"link", "rotate"} /\ task[o].pc = "write"
    /\ LET t == <<o, task[o].tries + 1>>
           tried == [task EXCEPT ![o].tries = @ + 1]
       IN  \/ /\ Unlinked(o) /\ SetToken(t)
              /\ task' = [tried EXCEPT ![o].pc = "done"]
              /\ answer' = [answer EXCEPT ![o] = Got(t, None)]
              /\ UNCHANGED faults
           \/ /\ (~ Unlinked(o) /\ UNCHANGED faults) \/ Fault
              /\ task' = [tried EXCEPT ![o].pc = "reread"]
              /\ UNCHANGED <<row, answer, spent>>
           \/ /\ Fault
              /\ UNCHANGED <<row, spent>> \/ (Unlinked(o) /\ SetToken(t))
              /\ task' = [tried EXCEPT ![o].pc = "done"]
              /\ answer' = [answer EXCEPT ![o] = Says("refused")]

\* Mutant of Reread: one try too many.
RereadOneMore(o) ==
    /\ task[o].pc = "reread"
    /\ IF ~ HasFile THEN End(o, Says("refused"))
       ELSE IF task[o].kind = "link" /\ row.token # None THEN End(o, Got(row.token, None))
       ELSE IF task[o].tries <= MaxTries THEN Go(o, "write")
       ELSE End(o, Says("refused"))
    /\ UNCHANGED <<row, spent, faults>>

\* No row was updated: without a file the request fails, a token that another
\* request has set meanwhile is the answer, and otherwise it is tried again.
Reread(o) ==
    /\ task[o].pc = "reread"
    /\ IF ~ HasFile THEN End(o, Says("refused"))
       ELSE IF task[o].kind = "link" /\ row.token # None THEN End(o, Got(row.token, None))
       ELSE IF task[o].tries < MaxTries THEN Go(o, "write")
       ELSE End(o, Says("refused"))
    /\ UNCHANGED <<row, spent, faults>>

\* One update of the row, P2025 when it is gone; the database may fail, before or
\* after it.
Update(o, kind, new) ==
    /\ At(o, kind, "write")
    /\ \/ row.exists /\ row' = new /\ End(o, Says("done")) /\ UNCHANGED faults
       \/ ~ row.exists /\ UNCHANGED row /\ End(o, Says("refused")) /\ UNCHANGED faults
       \/ (UNCHANGED row \/ (row.exists /\ row' = new)) /\ End(o, Says("refused")) /\ Fault
    /\ UNCHANGED spent

Upload(o) == Update(o, "upload", [row EXCEPT !.file = o])

\* Mutant of Withdraw: the token stays for the next file.
WithdrawFileOnly(o) == Update(o, "withdraw", [row EXCEPT !.file = None])

Withdraw(o) == Update(o, "withdraw", Bare(TRUE))
Remove(o) == Update(o, "remove", Bare(FALSE))

\* getPlanetFileByDownloadTokenOrThrow.
Download(o) ==
    /\ At(o, "download", "look")
    /\ End(o, IF HasFile /\ row.token = task[o].token THEN Got(row.token, row.file)
              ELSE Says("refused"))
    /\ UNCHANGED <<row, spent, faults>>

\* A row that cannot be read, or a link whose URL cannot be built, ends a request.
ReadFails(o) ==
    /\ task[o].pc \in {"look", "check", "reread"}
    /\ Fault /\ End(o, Says("refused"))
    /\ UNCHANGED <<row, spent>>

Step(o) ==
    \/ ReadFails(o) \/ Look(o) \/ Unacceptable(o) \/ Check(o) \/ Try(o) \/ Reread(o)
    \/ Upload(o) \/ Withdraw(o) \/ Remove(o) \/ Download(o)

Next == \E o \in Ops : Call(o) \/ Step(o)

Spec == Init /\ [][Next]_vars
-----------------------------------------------------------------------------
TypeOK ==
    /\ row \in [exists : BOOLEAN, file : Ops \cup {None}, token : Tokens \cup {None}]
    /\ task \in [Ops -> [pc : {"idle", "look", "check", "write", "reread", "done"},
                         kind : AllKinds \cup {None}, tries : 0..MaxTries,
                         token : Tokens \cup {None}]]
    /\ answer \in [Ops -> [says : {"nothing", "done", "refused", "got"},
                           link : Tokens \cup {None}, file : Ops \cup {None}]]
    /\ spent \subseteq Tokens
    /\ faults \in 0..MaxFaults

\* A link never outlives its file: a file that is uploaded later is not to be had
\* by a link of an earlier one, `after ... removing the planet file the old link is
\* invalid at once'.
LinkHasFile == row.token # None => HasFile

\* Requests that interleave come out as if each had been carried out at one moment:
\* two that create the link get the same one, an upload keeps it, and a rotated or
\* withdrawn one is neither given out again nor served.
Abstract == INSTANCE DownloadLink WITH
    Links <- Tokens, Files <- Ops, file <- row.file, link <- row.token,
    asks <- [o \in Ops |-> [kind |-> task[o].kind, link |-> task[o].token]]

ImplementsDownloadLink == Abstract!LinkSpec
=============================================================================
