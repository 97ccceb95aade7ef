------------------------------ MODULE Accounts ------------------------------
(***************************************************************************)
(* The users of the server, their sessions and their hidden networks       *)
(* (UsersService, AuthService, JwtStrategy).  A token is not stored: it    *)
(* carries the role and the updatedAt of the user's row and is accepted as *)
(* long as the row still has both.  Requests run interleaved; every await  *)
(* on the database or on scrypt is the end of a step.                      *)
(***************************************************************************)
EXTENDS Naturals

CONSTANTS
    Slots,          \* room for the requests that are under way at one time
    Users,          \* user names (and ids); a user may not exist yet
    Root,           \* the user name `admin'
    Passwords, Default,     \* Default is the password `admin'
    Networks,
    FirstUsers,     \* the tables of users the server may be started on
    None,
    MaxRequests,    \* requests in a behaviour
    MaxFaults       \* requests that end with an error of the database

Roles == {"ADMIN", "USER"}
Kinds == {"login", "change", "reset", "create", "hide", "mine", "list", "logout"}
AdminKinds == {"reset", "create", "hide"}
Rows == [role : Roles, pw : Passwords, stamp : Nat]
Tokens == [sub : Users, role : Roles, stamp : Nat]

ASSUME AccountsAssumption ==
    /\ Root \in Users /\ Default \in Passwords
    /\ FirstUsers \subseteq [Users -> [role : Roles, pw : Passwords, stamp : {0}] \cup {None}]
    /\ MaxRequests \in Nat /\ MaxFaults \in Nat
    /\ None \notin Rows \cup Tokens \cup Users \cup Passwords

VARIABLES
    booted,     \* whether the server has made sure of an administrator
    users,      \* the table of users: role, password and updatedAt (stamp)
    hidden,     \* the networks hidden from each user
    clock,      \* the number of writes to the table: the time they are stamped with
    pc, req,    \* the requests: where they are, and what they ask
    mem,        \* the row a request has read
    ans,        \* what it is answered
    issued,     \* the tokens that were signed, and the password each was signed for
    asked, faults

tasks == <<pc, req, mem, ans>>
accounts == <<booted, users, hidden, clock, tasks, issued, asked, faults>>

Silent == [status |-> "none", token |-> None, nets |-> {}]
Blank == [kind |-> None, token |-> None, user |-> None, pw |-> None, new |-> None, nets |-> {}]

\* The server is started on its tables; every user may still hold a token.
AInit ==
    /\ booted = FALSE /\ users \in FirstUsers
    /\ hidden = [u \in Users |-> {}] /\ clock = 0
    /\ pc = [o \in Slots |-> "idle"] /\ req = [o \in Slots |-> Blank]
    /\ mem = [o \in Slots |-> None] /\ ans = [o \in Slots |-> Silent]
    /\ issued = {[proved |-> users[u].pw,
                  token |-> [sub |-> u, role |-> users[u].role, stamp |-> users[u].stamp]]
                    : u \in {v \in Users : users[v] # None}}
    /\ asked = 0 /\ faults = 0

Exists(u) == users[u] # None
Is(o, l, kinds) == pc[o] = l /\ req[o].kind \in kinds
Goes(o, l) == pc' = [pc EXCEPT ![o] = l]
Answer(o, s, t, n) ==
    /\ Goes(o, "answered")
    /\ ans' = [ans EXCEPT ![o] = [status |-> s, token |-> t, nets |-> n]]
Refuse(o, s) == Answer(o, s, None, {})
Store(u, row) == users' = [users EXCEPT ![u] = row] /\ clock' = clock + 1

\* ensureDefaultAdmin, before any request is accepted: the user named admin becomes
\* an administrator, or is created as one.
Boot ==
    /\ ~ booted /\ booted' = TRUE
    /\ IF \E u \in Users : Exists(u) /\ users[u].role = "ADMIN" THEN UNCHANGED <<users, clock>>
       ELSE Store(Root, [role |-> "ADMIN", stamp |-> clock + 1,
                         pw |-> IF Exists(Root) THEN users[Root].pw ELSE Default])
    /\ UNCHANGED <<hidden, tasks, issued, asked, faults>>

Ask(o, r) ==
    /\ booted /\ pc[o] = "idle" /\ asked < MaxRequests /\ asked' = asked + 1
    /\ Goes(o, IF r.kind \in {"login", "logout"} THEN "read" ELSE "auth")
    /\ req' = [req EXCEPT ![o] = r]
    /\ UNCHANGED <<booted, users, hidden, clock, mem, ans, issued, faults>>

\* JwtStrategy.validate.
Accepted(t) == t # None /\ Exists(t.sub) /\ users[t.sub].stamp = t.stamp /\ users[t.sub].role = t.role

\* The guards of a route: JwtAuthGuard, then AdminGuard.
Authenticate(o) ==
    /\ pc[o] = "auth"
    /\ IF ~ Accepted(req[o].token) THEN Refuse(o, "401")
       ELSE IF req[o].kind \in AdminKinds /\ req[o].token.role # "ADMIN" THEN Refuse(o, "403")
       ELSE Goes(o, "read") /\ UNCHANGED ans
    /\ UNCHANGED <<booted, users, hidden, clock, req, mem, issued, asked, faults>>

\* Whose row a request is about.
Subject(o) == IF req[o].kind \in {"change", "mine"} THEN req[o].token.sub ELSE req[o].user

ReadRow(o) ==
    /\ Is(o, "read", {"login", "change"})
    /\ mem' = [mem EXCEPT ![o] = users[Subject(o)]]
    /\ Goes(o, "verify")
    /\ UNCHANGED <<booted, users, hidden, clock, req, ans, issued, asked, faults>>

\* Mutant of TokenFor: the row is read again when the token is signed.
TokenForNow(o) == [sub |-> Subject(o), role |-> mem[o].role, stamp |-> users[Subject(o)].stamp]

TokenFor(o) == [sub |-> Subject(o), role |-> mem[o].role, stamp |-> mem[o].stamp]

\* The password is verified against the hash that was read; a login is over with that.
Verify(o) ==
    /\ Is(o, "verify", {"login", "change"})
    /\ IF mem[o] = None \/ mem[o].pw # req[o].pw THEN Refuse(o, "401") /\ UNCHANGED issued
       ELSE IF req[o].kind = "change" THEN Goes(o, "write") /\ UNCHANGED <<ans, issued>>
       ELSE /\ Answer(o, "200", TokenFor(o), {})
            /\ issued' = issued \cup {[token |-> TokenFor(o), proved |-> req[o].pw]}
    /\ UNCHANGED <<booted, users, hidden, clock, req, mem, asked, faults>>

\* What the other requests check before they write or answer.
Check(o) ==
    /\ Is(o, "read", Kinds \ {"login", "change"})
    /\ CASE req[o].kind = "reset" ->
              IF req[o].token.sub = Subject(o) \/ ~ Exists(Subject(o)) \/ users[Subject(o)].role = "ADMIN"
              THEN Refuse(o, "409") ELSE Goes(o, "write") /\ UNCHANGED ans
         [] req[o].kind = "create" ->
              IF Exists(Subject(o)) THEN Refuse(o, "409") ELSE Goes(o, "write") /\ UNCHANGED ans
         [] req[o].kind = "hide" ->
              IF ~ Exists(Subject(o)) \/ users[Subject(o)].role = "ADMIN"
              THEN Refuse(o, "409") ELSE Goes(o, "write") /\ UNCHANGED ans
         [] req[o].kind = "mine" ->
              IF users[Subject(o)].role = "ADMIN" THEN Answer(o, "200", None, {})
              ELSE Goes(o, "rows") /\ UNCHANGED ans
         [] OTHER -> Answer(o, "200", None, {})
    /\ UNCHANGED <<booted, users, hidden, clock, req, mem, issued, asked, faults>>

\* listHiddenNetworks.
ListRows(o) ==
    /\ pc[o] = "rows"
    /\ Answer(o, "200", None, hidden[Subject(o)])
    /\ UNCHANGED <<booted, users, hidden, clock, req, mem, issued, asked, faults>>

\* Mutant of NewRow: the field of the old password is stored.
NewRowOfOld(o) == [role |-> users[Subject(o)].role, pw |-> req[o].pw, stamp |-> clock + 1]

\* The new row of a password that is changed or reset, stamped with the time.
NewRow(o) == [role |-> users[Subject(o)].role, pw |-> req[o].new, stamp |-> clock + 1]

\* changePassword ends with a token for the row it has written.
WriteChange(o) ==
    /\ Is(o, "write", {"change"})
    /\ Store(Subject(o), NewRow(o))
    /\ LET t == [sub |-> Subject(o), role |-> NewRow(o).role, stamp |-> clock + 1]
       IN  /\ Answer(o, "200", t, {})
           /\ issued' = issued \cup {[token |-> t, proved |-> req[o].new]}
    /\ UNCHANGED <<booted, hidden, req, mem, asked, faults>>

WriteReset(o) ==
    /\ Is(o, "write", {"reset"})
    /\ Store(Subject(o), NewRow(o)) /\ Answer(o, "200", None, {})
    /\ UNCHANGED <<booted, hidden, req, mem, issued, asked, faults>>

\* The name is unique in the table as well: of two creations the second fails there.
WriteCreate(o) ==
    /\ Is(o, "write", {"create"})
    /\ IF Exists(Subject(o)) THEN Refuse(o, "500") /\ UNCHANGED <<users, clock>>
       ELSE /\ Store(Subject(o), [role |-> "USER", pw |-> req[o].new, stamp |-> clock + 1])
            /\ Answer(o, "200", None, {})
    /\ UNCHANGED <<booted, hidden, req, mem, issued, asked, faults>>

\* The old rows are deleted and the new ones inserted in one transaction.
WriteHidden(o) ==
    /\ Is(o, "write", {"hide"})
    /\ hidden' = [hidden EXCEPT ![Subject(o)] = req[o].nets]
    /\ Answer(o, "200", None, req[o].nets)
    /\ UNCHANGED <<booted, users, clock, req, mem, issued, asked, faults>>

\* The database fails a request, if it is to write perhaps after it has written.
Fail(o) ==
    /\ pc[o] \in {"auth", "read", "rows", "write"}
    /\ faults < MaxFaults /\ faults' = faults + 1
    /\ Refuse(o, "500")
    /\ \/ UNCHANGED <<users, clock>>
       \/ Is(o, "write", {"change", "reset"}) /\ Store(Subject(o), NewRow(o))
    /\ UNCHANGED <<booted, hidden, req, mem, issued, asked>>

Serve(o) ==
    \/ Authenticate(o) \/ ReadRow(o) \/ Verify(o) \/ Check(o) \/ ListRows(o)
    \/ WriteChange(o) \/ WriteReset(o) \/ WriteCreate(o) \/ WriteHidden(o) \/ Fail(o)

\* The answer reaches whoever asked, or nobody.
Leave(o) ==
    /\ pc[o] = "answered" /\ Goes(o, "idle")
    /\ req' = [req EXCEPT ![o] = Blank] /\ mem' = [mem EXCEPT ![o] = None]
    /\ ans' = [ans EXCEPT ![o] = Silent]
    /\ UNCHANGED <<booted, users, hidden, clock, issued, asked, faults>>

Requests == [kind : Kinds, token : Tokens \cup {None}, user : Users \cup {None},
             pw : Passwords \cup {None}, new : Passwords \cup {None}, nets : SUBSET Networks]

\* A request as the routes and their validation let it through.
Sound(r) ==
    /\ r \in Requests
    /\ r.kind \in {"login", "reset", "create", "hide"} => r.user # None
    /\ r.kind \in {"login", "change"} => r.pw # None
    /\ r.kind \in {"change", "reset", "create"} => r.new # None

ANext == Boot \/ \E o \in Slots : Serve(o) \/ Leave(o) \/ \E r \in Requests : Sound(r) /\ Ask(o, r)

ASpec == AInit /\ [][ANext]_accounts
-----------------------------------------------------------------------------
ATypeOK ==
    /\ booted \in BOOLEAN /\ users \in [Users -> Rows \cup {None}]
    /\ hidden \in [Users -> SUBSET Networks] /\ clock \in Nat
    /\ pc \in [Slots -> {"idle", "auth", "read", "verify", "rows", "write", "answered"}]
    /\ req \in [Slots -> Requests \cup {Blank}]
    /\ mem \in [Slots -> Rows \cup {None}]
    /\ ans \in [Slots -> [status : {"none", "200", "401", "403", "409", "500"},
                          token : Tokens \cup {None}, nets : SUBSET Networks]]
    /\ issued \subseteq [token : Tokens, proved : Passwords]
    /\ asked \in 0..MaxRequests /\ faults \in 0..MaxFaults

\* A token that is accepted was signed for someone who proved to know the password the
\* user has now, or has just set it: whatever is changed or reset while it is signed, a
\* session never outlives the password it was opened with.
TokenProvesPassword ==
    \A i \in issued : Accepted(i.token) => i.proved = users[i.token.sub].pw
=============================================================================
