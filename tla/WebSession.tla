----------------------------- MODULE WebSession -----------------------------
(***************************************************************************)
(* One tab of the web application beside the server's Accounts: the stored *)
(* session (stores/auth.ts), the cached keys of hidden networks            *)
(* (stores/network-visibility.ts), the layout and the view that lists      *)
(* networks.  Answers arrive in any order, also when the tab has moved on. *)
(***************************************************************************)
EXTENDS Accounts

VARIABLES
    session,    \* the token and user of the auth store, or None
    store,      \* the hidden keys, whether they are initialized, and whose they are
    pending,    \* the request of pendingLoad, or None
    view,       \* the view of networks: see NoView
    page,       \* "login", "entering" before the layout is mounted, or "app"
    awaited,    \* the requests this tab waits for
    revived     \* history: a late answer has put a session in another's place

browser == <<session, store, pending, view, page, awaited, revived>>
web == <<accounts, browser>>

NoKeys == [nets |-> {}, init |-> FALSE, of |-> None]

\* A view waits for its keys or its list ("on" some request); once it is shown it keeps
\* which networks it shows and whose keys filtered them.  "since" is history: what was
\* hidden from the user when the view was opened (and when it is shown).
NoView == [at |-> "off", on |-> None, since |-> {}, nets |-> {}, of |-> None]

\* The tab is opened, with or without a session in the local storage.
WInit ==
    /\ AInit
    /\ session \in {i.token : i \in issued} \cup {None}
    /\ store = NoKeys /\ pending = None /\ view = NoView
    /\ page = IF session = None THEN "login" ELSE "entering"
    /\ awaited = {} /\ revived = FALSE

Self == session.sub
Sends(o, r) == Ask(o, r) /\ awaited' = awaited \cup {o}
Delivered(o, kind) == o \in awaited /\ pc[o] = "answered" /\ req[o].kind = kind
Ok(o) == ans[o].status = "200"
Taken(o) == Leave(o) /\ awaited' = awaited \ {o}

\* A new document: nothing is left of the tab but what the local storage holds.
Fresh(next) ==
    /\ store' = NoKeys /\ pending' = None /\ view' = NoView
    /\ page' = next /\ awaited' = {} /\ revived' = FALSE

\* handleUnauthorized: any answer 401 clears the session the tab has by now; except on
\* the login page the application is loaded anew as well.
Clears(o) == ans[o].status = "401" /\ session # None
Stays(o) == ~ Clears(o) \/ page = "login"
Kept(o) == IF Clears(o) THEN None ELSE session

Unauthorized(o) ==
    /\ o \in awaited /\ pc[o] = "answered" /\ ~ Stays(o)
    /\ session' = None /\ Fresh("login") /\ Leave(o)

\* The user loads the page again; the router goes by the stored session.
Reload ==
    /\ Fresh(IF session = None THEN "login" ELSE "entering")
    /\ UNCHANGED <<accounts, session>>
-----------------------------------------------------------------------------
SubmitLogin(o, u, p) ==
    /\ page = "login" /\ ~ \E q \in awaited : req[q].kind = "login"
    /\ Sends(o, [Blank EXCEPT !.kind = "login", !.token = session, !.user = u, !.pw = p])
    /\ UNCHANGED <<session, store, pending, view, page, revived>>

HandleLogin(o) ==
    /\ Delivered(o, "login") /\ Stays(o) /\ Taken(o)
    /\ IF Ok(o) THEN session' = ans[o].token /\ page' = "entering" /\ revived' = FALSE
       ELSE session' = Kept(o) /\ UNCHANGED <<page, revived>>
    /\ UNCHANGED <<store, pending, view>>

ChangePassword(o, p, n) ==
    /\ page = "app"
    /\ Sends(o, [Blank EXCEPT !.kind = "change", !.token = session, !.pw = p, !.new = n])
    /\ UNCHANGED <<session, store, pending, view, page, revived>>

\* The user of an answered change is not the one who is logged in.
Parted(o) == session = None \/ Self # ans[o].token.sub

\* handleChangePassword sets the session whatever the tab does by now.
HandleChange(o) ==
    /\ Delivered(o, "change") /\ Stays(o) /\ Taken(o)
    /\ IF Ok(o)
       THEN /\ session' = ans[o].token
            /\ revived' = (revived \/ Parted(o))
       ELSE session' = Kept(o) /\ UNCHANGED revived
    /\ UNCHANGED <<store, pending, view, page>>

Logout(o) ==
    /\ page = "app"
    /\ Sends(o, [Blank EXCEPT !.kind = "logout", !.token = session])
    /\ UNCHANGED <<session, store, pending, view, page, revived>>

\* However the server answers.
HandleLogout(o) ==
    /\ Delivered(o, "logout") /\ Stays(o) /\ Taken(o)
    /\ session' = None /\ store' = NoKeys /\ pending' = None /\ view' = NoView
    /\ page' = "login" /\ revived' = FALSE
-----------------------------------------------------------------------------
\* ensureLoaded, as far as it goes without the server: no session, an administrator, or
\* the keys of this user are there.
Immediate(force) ==
    \/ session = None
    \/ session.role = "ADMIN"
    \/ ~ force /\ store.init /\ store.of = Self

Ensured(force) ==
    /\ Immediate(force)
    /\ store' = IF session = None THEN NoKeys
                ELSE IF session.role = "ADMIN" THEN [nets |-> {}, init |-> TRUE, of |-> Self]
                ELSE store
    /\ pending' = IF session = None THEN None ELSE pending
    /\ UNCHANGED <<accounts, awaited>>

Joined(force) ==
    /\ ~ Immediate(force) /\ pending # None
    /\ UNCHANGED <<accounts, awaited, store, pending>>

Started(force, o) ==
    /\ ~ Immediate(force) /\ pending = None /\ pending' = o
    /\ Sends(o, [Blank EXCEPT !.kind = "mine", !.token = session])
    /\ UNCHANGED store

EnsureLoaded(force, o) == Ensured(force) \/ Joined(force) \/ Started(force, o)

\* The layout asks for the keys as soon as it is mounted.
LayoutMount(o) ==
    /\ page = "entering" /\ page' = "app"
    /\ EnsureLoaded(FALSE, o)
    /\ UNCHANGED <<session, view, revived>>

\* A view is opened, from the menu or anew: the list of networks, or the test machines,
\* which ask for the keys in any case.
Open(o, force) ==
    /\ page = "app"
    /\ EnsureLoaded(force, o)
    /\ view' = [NoView EXCEPT !.at = IF Immediate(force) THEN "ready" ELSE "keys",
                              !.on = IF Immediate(force) THEN None ELSE pending',
                              !.since = hidden[Self]]
    /\ UNCHANGED <<session, page, revived>>

\* Mutant of SameUser: whoever is logged in takes the keys.
SomeUser(o) == session # None

SameUser(o) == session # None /\ Self = req[o].token.sub

\* Mutant of Settled: a load that failed is left pending.
SettledIfLoaded(o) == IF Ok(o) THEN None ELSE pending

\* The load is over, and with it whatever is noted as pending by now.
Settled(o) == None

HandleLoad(o) ==
    /\ Delivered(o, "mine") /\ Stays(o) /\ Taken(o)
    /\ session' = Kept(o)
    /\ store' = IF Ok(o) /\ SameUser(o)
                THEN [nets |-> ans[o].nets, init |-> TRUE, of |-> req[o].token.sub] ELSE store
    /\ pending' = Settled(o)
    /\ view' = IF view.at # "keys" \/ view.on # o THEN view
               ELSE [view EXCEPT !.at = IF Ok(o) THEN "ready" ELSE "failed", !.on = None]
    /\ UNCHANGED <<page, revived>>

FetchList(o) ==
    /\ view.at = "ready" /\ view' = [view EXCEPT !.at = "list", !.on = o]
    /\ Sends(o, [Blank EXCEPT !.kind = "list", !.token = session])
    /\ UNCHANGED <<session, store, pending, page, revived>>

\* The server lists every network; the view filters them with the keys of the store.
HandleList(o) ==
    /\ Delivered(o, "list") /\ Stays(o) /\ Taken(o)
    /\ session' = Kept(o)
    /\ view' = IF view.at # "list" \/ view.on # o THEN view
               ELSE IF ~ Ok(o) THEN [view EXCEPT !.at = "failed", !.on = None]
               ELSE [view EXCEPT !.at = "shown", !.on = None,
                                 !.nets = Networks \ store.nets, !.of = store.of,
                                 !.since = view.since \cap hidden[Self]]
    /\ UNCHANGED <<store, pending, page, revived>>
-----------------------------------------------------------------------------
\* An administrator at another browser, with a session the server accepts.
Elsewhere(o, r) ==
    /\ booted /\ users[Root] # None
    /\ Ask(o, [r EXCEPT !.token = [sub |-> Root, role |-> users[Root].role, stamp |-> users[Root].stamp]])
    /\ UNCHANGED browser

Order(k, u, n, h) == [kind |-> k, token |-> None, user |-> u, pw |-> None, new |-> n, nets |-> h]
Resets == {Order("reset", u, n, {}) : u \in Users, n \in Passwords}
Creations == {Order("create", u, n, {}) : u \in Users, n \in Passwords}
Hidings == {Order("hide", u, None, h) : u \in Users, h \in SUBSET Networks}

\* An answer nobody waits for: another browser's, or a document's that is gone.
Dropped(o) == o \notin awaited /\ Leave(o) /\ UNCHANGED browser

Server(o) == Serve(o) /\ UNCHANGED browser

WNext ==
    \/ Boot /\ UNCHANGED browser
    \/ Reload
    \/ \E o \in Slots :
        \/ Server(o) \/ Dropped(o) \/ Unauthorized(o)
        \/ \E u \in Users, p \in Passwords : SubmitLogin(o, u, p)
        \/ \E p, n \in Passwords : ChangePassword(o, p, n)
        \/ HandleLogin(o) \/ HandleChange(o) \/ Logout(o) \/ HandleLogout(o)
        \/ LayoutMount(o) \/ HandleLoad(o) \/ FetchList(o) \/ HandleList(o)
        \/ \E force \in BOOLEAN : Open(o, force)
        \/ \E r \in Resets \cup Creations \cup Hidings : Elsewhere(o, r)

WSpec == WInit /\ [][WNext]_web
-----------------------------------------------------------------------------
WTypeOK ==
    /\ ATypeOK
    /\ session \in Tokens \cup {None}
    /\ store \in [nets : SUBSET Networks, init : BOOLEAN, of : Users \cup {None}]
    /\ pending \in Slots \cup {None}
    /\ view \in [at : {"off", "keys", "ready", "list", "shown", "failed"}, on : Slots \cup {None},
                 since : SUBSET Networks, nets : SUBSET Networks, of : Users \cup {None}]
    /\ page \in {"login", "entering", "app"} /\ awaited \subseteq Slots /\ revived \in BOOLEAN

\* The list a view shows was filtered with the keys of the user who is logged in, however
\* logins, logouts and answers cross; except after the answer to a change of the password
\* that came when its user was already logged out (section 3 of the README).
ShownWasFiltered == view.at = "shown" /\ ~ revived => session # None /\ view.of = Self

\* While a load is noted as pending, it is under way and the tab waits for it: a later
\* ensureLoaded never joins a load that is over, which would show stale keys for good.
LoadIsPending ==
    pending # None => pending \in awaited /\ pc[pending] # "idle" /\ req[pending].kind = "mine"

\* What the page of users promises: a network that was hidden from a user when the view was
\* opened, and still is when it is shown, is not on the list.
HiddenIsNotListed == view.at = "shown" => view.nets \cap view.since = {}
=============================================================================
