---------------------------- MODULE DownloadLink ----------------------------
(***************************************************************************)
(* What the download link of a controller's planet file promises.  There   *)
(* is at most one, only while there is a file.  Who asks for it gets the   *)
(* one that is current at some moment of the request, and it stays the     *)
(* same until it is renewed or the file is withdrawn; it is then gone for  *)
(* good, and who comes with it gets nothing.                               *)
(***************************************************************************)
CONSTANTS
    Ops,        \* the requests
    Kinds,      \* "link", "rotate", "upload", "withdraw", "remove", "download"
    Links,      \* the links that can be made up
    Files,      \* the planet files that can be uploaded
    None

VARIABLES
    file,       \* the file, None if there is none
    link,       \* the current link, None if there is none
    spent,      \* every link there ever was
    asks,       \* what each request asks for, and the link it comes with
    answer      \* what it was answered: nothing yet, done, refused, or the link it
                \* got and, for a download, the file

linkVars == <<file, link, spent, asks, answer>>

Says(what) == [says |-> what, link |-> None, file |-> None]
Got(t, f) == [says |-> "got", link |-> t, file |-> f]

LinkInit ==
    /\ file = None /\ link = None /\ spent = {}
    /\ asks = [o \in Ops |-> [kind |-> None, link |-> None]]
    /\ answer = [o \in Ops |-> Says("nothing")]

Ask(o) ==
    /\ asks[o].kind = None
    /\ \E k \in Kinds, t \in spent \cup {None} :
          asks' = [asks EXCEPT ![o] = [kind |-> k, link |-> t]]
    /\ UNCHANGED <<file, link, spent, answer>>

\* The request was carried out, and that is its answer unless a failure hides it.
Answer(o, a) ==
    /\ answer[o] = Says("nothing")
    /\ \E b \in {a, Says("refused")} : answer' = [answer EXCEPT ![o] = b]
    /\ UNCHANGED asks

New(t) == t \notin spent /\ link' = t /\ spent' = spent \cup {t} /\ UNCHANGED file

\* The current link is given out, or the first one.
Give(o) ==
    /\ asks[o].kind = "link" /\ file # None
    /\ \/ link # None /\ Answer(o, Got(link, None)) /\ UNCHANGED <<file, link, spent>>
       \/ link = None /\ \E t \in Links : New(t) /\ Answer(o, Got(t, None))

\* Another link takes the place of the current one.
Renew(o) ==
    /\ asks[o].kind = "rotate" /\ file # None
    /\ \E t \in Links : New(t) /\ Answer(o, Got(t, None))

\* Whoever comes with the current link gets the current file.
Serve(o) ==
    /\ asks[o].kind = "download" /\ link # None /\ asks[o].link = link
    /\ Answer(o, Got(link, file))
    /\ UNCHANGED <<file, link, spent>>

\* A file takes the place of another, under the same link.
Replace(o) ==
    /\ asks[o].kind = "upload" /\ file' \in Files
    /\ Answer(o, Says("done"))
    /\ UNCHANGED <<link, spent>>

\* The file is withdrawn, or goes with its controller, and the link with it.
Withdraw(o) ==
    /\ asks[o].kind \in {"withdraw", "remove"} /\ file' = None /\ link' = None
    /\ Answer(o, Says("done"))
    /\ UNCHANGED spent

Refuse(o) == Answer(o, Says("refused")) /\ UNCHANGED <<file, link, spent>>

LinkNext == \E o \in Ops :
    Ask(o) \/ Give(o) \/ Renew(o) \/ Serve(o) \/ Replace(o) \/ Withdraw(o) \/ Refuse(o)

LinkSpec == LinkInit /\ [][LinkNext]_linkVars
=============================================================================
