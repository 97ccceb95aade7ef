-------------------------- MODULE WebSessionProofs --------------------------
(***************************************************************************)
(* That a token which is accepted was signed for the password its user has *)
(* now, for any users, passwords, requests and failures; that the tab      *)
(* beside the server is a client like any other, so that this holds with   *)
(* it; and that its notes about pending loads and filtered lists are       *)
(* right.                                                                  *)
(***************************************************************************)
EXTENDS WebSession, TLAPS


Phases == {"idle", "auth", "read", "verify", "rows", "write", "answered"}
Inside == {"read", "verify", "rows", "write"}
Statuses == {"none", "200", "401", "403", "409", "500"}
Answers == [status : Statuses, token : Tokens \cup {None}, nets : SUBSET Networks]

\* A request that is under way is sound, and once it is let in it is about a user; one that
\* writes to a row writes to a row that exists.
RequestsOK ==
    \A o \in Slots :
        /\ pc[o] # "idle" => Sound(req[o])
        /\ pc[o] \in Inside /\ req[o].kind \notin {"list", "logout"} => Subject(o) \in Users
        /\ pc[o] = "rows" => req[o].kind = "mine"
        /\ Is(o, "write", {"change", "reset"}) => Exists(Subject(o))

\* Stamps come from the clock, so that a write makes everything read or signed before it
\* recognizably old.
StampsOK ==
    /\ \A u \in Users : Exists(u) => users[u].stamp <= clock
    /\ \A o \in Slots : mem[o] # None => mem[o].stamp <= clock
    /\ \A i \in issued : i.token.stamp <= clock

\* Who was read is not deleted, and a row that was read and has the stamp of the row in the
\* table is that row.
MemOK ==
    \A o \in Slots : pc[o] = "verify" /\ mem[o] # None =>
        /\ Exists(Subject(o))
        /\ mem[o].stamp = users[Subject(o)].stamp => mem[o] = users[Subject(o)]

AInv == ATypeOK /\ RequestsOK /\ StampsOK /\ MemOK /\ TokenProvesPassword

-----------------------------------------------------------------------------
\* Storing a row with the next stamp keeps the types of the table and lets no token signed
\* before, and no row read before, pass for the new one.
LEMMA StoreType ==
    ASSUME ATypeOK, NEW u \in Users, NEW row \in Rows, Store(u, row)
    PROVE  /\ users' \in [Users -> Rows \cup {None}] /\ clock' \in Nat
           /\ \A v \in Users : users'[v] = IF v = u THEN row ELSE users[v]
  BY DEF ATypeOK, Store

LEMMA StoreStamps ==
    ASSUME ATypeOK, StampsOK, NEW u \in Users, NEW row \in Rows, row.stamp = clock + 1,
           Store(u, row), UNCHANGED <<mem, issued>>, row # None
    PROVE  StampsOK'
<1>1. clock \in Nat /\ clock' = clock + 1 BY DEF ATypeOK, Store
<1>2. \A v \in Users : users'[v] = IF v = u THEN row ELSE users[v] BY StoreType
<1>3. (\A v \in Users : Exists(v) => users[v].stamp <= clock)'
  <2> SUFFICES ASSUME NEW v \in Users, users'[v] # None PROVE users'[v].stamp <= clock'
    BY DEF Exists
  <2>1. CASE v = u BY <1>1, <1>2, <2>1
  <2>2. CASE v # u
    <3>1. users'[v] = users[v] /\ users[v] # None BY <1>2, <2>2
    <3>2. users[v].stamp <= clock BY <3>1 DEF StampsOK, Exists
    <3>3. users[v].stamp \in Nat BY <3>1 DEF ATypeOK, Rows
    <3> QED BY <1>1, <3>1, <3>2, <3>3
  <2> QED BY <2>1, <2>2
<1>4. (\A o \in Slots : mem[o] # None => mem[o].stamp <= clock)'
  <2> SUFFICES ASSUME NEW o \in Slots, mem[o] # None PROVE mem[o].stamp <= clock + 1
    BY <1>1
  <2>1. mem[o].stamp <= clock BY DEF StampsOK
  <2>2. mem[o].stamp \in Nat BY DEF ATypeOK, Rows
  <2> QED BY <1>1, <2>1, <2>2
<1>5. (\A i \in issued : i.token.stamp <= clock)'
  <2> SUFFICES ASSUME NEW i \in issued PROVE i.token.stamp <= clock + 1
    BY <1>1
  <2>1. i.token.stamp <= clock BY DEF StampsOK
  <2>2. i.token.stamp \in Nat BY DEF ATypeOK, Tokens
  <2> QED BY <1>1, <2>1, <2>2
<1> QED BY <1>3, <1>4, <1>5 DEF StampsOK

LEMMA StoreTokens ==
    ASSUME ATypeOK, StampsOK, TokenProvesPassword, NEW u \in Users, NEW row \in Rows,
           row.stamp = clock + 1, Store(u, row), NEW i \in issued, Accepted(i.token)'
    PROVE  i.proved = users'[i.token.sub].pw
<1>1. clock \in Nat /\ i.token \in Tokens BY DEF ATypeOK
<1>2. i.token.sub \in Users /\ i.token.stamp \in Nat BY <1>1 DEF Tokens
<1>3. \A v \in Users : users'[v] = IF v = u THEN row ELSE users[v] BY StoreType
<1>4. i.token.stamp <= clock BY DEF StampsOK
<1>5. users'[i.token.sub].stamp = i.token.stamp BY DEF Accepted
<1>6. i.token.sub # u BY <1>1, <1>2, <1>3, <1>4, <1>5
<1>7. users'[i.token.sub] = users[i.token.sub] BY <1>2, <1>3, <1>6
<1>8. Accepted(i.token) BY <1>7 DEF Accepted, Exists
<1> QED BY <1>7, <1>8 DEF TokenProvesPassword

LEMMA StoreMem ==
    ASSUME ATypeOK, StampsOK, RequestsOK, MemOK, NEW u \in Users, NEW row \in Rows,
           row.stamp = clock + 1, Store(u, row), UNCHANGED <<mem, req>>,
           \A o \in Slots : pc'[o] = "verify" => pc[o] = "verify"
    PROVE  MemOK'
<1> SUFFICES ASSUME NEW o \in Slots, pc'[o] = "verify", mem[o] # None
             PROVE  /\ users'[Subject(o)] # None
                    /\ mem[o].stamp = users'[Subject(o)].stamp => mem[o] = users'[Subject(o)]
  BY DEF MemOK, Exists, Subject
<1>1. clock \in Nat /\ mem[o].stamp \in Nat BY DEF ATypeOK, Rows
<1>2. /\ \A v \in Users : users'[v] = IF v = u THEN row ELSE users[v]
      /\ row # None
  BY StoreType, AccountsAssumption
<1>3. mem[o].stamp <= clock BY DEF StampsOK
<1>4. pc[o] = "verify" OBVIOUS
<1>5. /\ users[Subject(o)] # None
      /\ mem[o].stamp = users[Subject(o)].stamp => mem[o] = users[Subject(o)]
  BY <1>4 DEF MemOK, Exists
<1>6. CASE Subject(o) = u BY <1>1, <1>2, <1>3, <1>6
<1>7. CASE Subject(o) # u
  <2>1. users'[Subject(o)] = users[Subject(o)] BY <1>7 DEF Store, ATypeOK
  <2> QED BY <1>5, <2>1
<1> QED BY <1>6, <1>7

\* A step that leaves the table alone leaves what only speaks of the table alone.
LEMMA NoStore ==
    ASSUME AInv, UNCHANGED <<users, clock, mem, req>>,
           \A o \in Slots : pc'[o] = "verify" => pc[o] = "verify",
           \A i \in issued' : i \in issued
    PROVE  StampsOK' /\ MemOK' /\ TokenProvesPassword'
<1>1. StampsOK' BY DEF AInv, StampsOK, Exists
<1>2. MemOK' BY DEF AInv, MemOK, Exists, Subject
<1>3. TokenProvesPassword' BY DEF AInv, TokenProvesPassword, Accepted, Exists
<1> QED BY <1>1, <1>2, <1>3
-----------------------------------------------------------------------------
LEMMA InitInv == AInit => AInv
<1> SUFFICES ASSUME AInit PROVE AInv OBVIOUS
<1> USE AccountsAssumption DEF AInit
<1>1. users \in [Users -> [role : Roles, pw : Passwords, stamp : {0}] \cup {None}] OBVIOUS
<1>2. \A u \in Users : users[u] # None =>
        users[u] \in Rows /\ users[u].stamp = 0
  BY <1>1 DEF Rows
<1>3. \A i \in issued : \E u \in Users : /\ users[u] # None /\ i.proved = users[u].pw
                                       /\ i.token = [sub |-> u, role |-> users[u].role, stamp |-> users[u].stamp]
                                       /\ i = [proved |-> i.proved, token |-> i.token]
  <2> SUFFICES ASSUME NEW i \in issued
               PROVE  \E u \in Users : /\ users[u] # None /\ i.proved = users[u].pw
                                      /\ i.token = [sub |-> u, role |-> users[u].role, stamp |-> users[u].stamp]
                                      /\ i = [proved |-> i.proved, token |-> i.token]
    OBVIOUS
  <2>1. PICK u \in {v \in Users : users[v] # None} :
           i = [proved |-> users[u].pw,
                token |-> [sub |-> u, role |-> users[u].role, stamp |-> users[u].stamp]]
    OBVIOUS
  <2>2. i.proved = users[u].pw
    BY <2>1
  <2>3. i.token = [sub |-> u, role |-> users[u].role, stamp |-> users[u].stamp]
    BY <2>1
  <2> QED BY <2>1, <2>2, <2>3
<1>4. \A i \in issued : i \in [token : Tokens, proved : Passwords] /\ i.token.stamp = 0
                        /\ i.proved = users[i.token.sub].pw
  BY <1>2, <1>3 DEF Rows, Tokens
<1>5. users \in [Users -> Rows \cup {None}] BY <1>1 DEF Rows
<1>6. ATypeOK
  <2>1. issued \subseteq [token : Tokens, proved : Passwords] BY <1>4
  <2>2. pc \in [Slots -> Phases] BY DEF Phases
  <2>3. ans \in [Slots -> Answers] BY DEF Answers, Silent, Statuses
  <2>4. req \in [Slots -> Requests \cup {Blank}] OBVIOUS
  <2>5. mem \in [Slots -> Rows \cup {None}] OBVIOUS
  <2>6. hidden \in [Users -> SUBSET Networks] OBVIOUS
  <2>7. booted \in BOOLEAN OBVIOUS
  <2>8. clock \in Nat /\ asked \in 0..MaxRequests /\ faults \in 0..MaxFaults OBVIOUS
  <2> QED
    BY <1>5, <2>1, <2>2, <2>3, <2>4, <2>5, <2>6, <2>7, <2>8, Zenon DEF ATypeOK, Phases, Answers, Statuses
<1>7. RequestsOK BY DEF RequestsOK, Inside, Is
<1>8. StampsOK BY <1>2, <1>4 DEF StampsOK, Exists
<1>9. MemOK BY DEF MemOK
<1>10. TokenProvesPassword BY <1>4 DEF TokenProvesPassword
<1> QED BY <1>6, <1>7, <1>8, <1>9, <1>10 DEF AInv

LEMMA AnswerType ==
    ASSUME AInv, NEW o \in Slots, NEW s \in Statuses, NEW t \in Tokens \cup {None},
           NEW n \in SUBSET Networks, Answer(o, s, t, n)
    PROVE  /\ pc' \in [Slots -> Phases] /\ ans' \in [Slots -> Answers]
           /\ \A p \in Slots : pc'[p] = IF p = o THEN "answered" ELSE pc[p]
<1>1. pc \in [Slots -> Phases] /\ ans \in [Slots -> Answers]
  BY DEF AInv, ATypeOK, Phases, Answers, Statuses
<1>2. [status |-> s, token |-> t, nets |-> n] \in Answers BY DEF Answers
<1> QED BY <1>1, <1>2 DEF Answer, Goes, Phases

LEMMA GoesType ==
    ASSUME AInv, NEW o \in Slots, NEW l \in Phases, Goes(o, l)
    PROVE  /\ pc' \in [Slots -> Phases]
           /\ \A p \in Slots : pc'[p] = IF p = o THEN l ELSE pc[p]
<1>1. pc \in [Slots -> Phases] BY DEF AInv, ATypeOK, Phases
<1> QED BY <1>1 DEF Goes

\* A request that is answered keeps the requests in order; so does one that goes on.
LEMMA AnsweredOK ==
    ASSUME AInv, NEW o \in Slots, pc[o] \notin {"idle"}, req' = req,
           \A p \in Slots : pc'[p] = IF p = o THEN "answered" ELSE pc[p],
           \A u \in Users : Exists(u) => users'[u] # None
    PROVE  RequestsOK'
<1> SUFFICES ASSUME NEW p \in Slots
             PROVE  /\ pc'[p] # "idle" => Sound(req[p])
                    /\ pc'[p] \in Inside /\ req[p].kind \notin {"list", "logout"} => Subject(p) \in Users
                    /\ pc'[p] = "rows" => req[p].kind = "mine"
                    /\ pc'[p] = "write" /\ req[p].kind \in {"change", "reset"} => users'[Subject(p)] # None
  BY DEF RequestsOK, Is, Exists, Subject, Sound, Requests
<1>1. CASE p = o BY <1>1 DEF AInv, RequestsOK, Inside
<1>2. CASE p # o
  <2>1. pc'[p] = pc[p] BY <1>2
  <2> QED BY <2>1 DEF AInv, RequestsOK, Inside, Is
<1> QED BY <1>1, <1>2
\* What a step that answers a request without touching the table comes to.
LEMMA AnswerInv ==
    ASSUME AInv, NEW o \in Slots, pc[o] # "idle",
           NEW s \in Statuses, NEW t \in Tokens \cup {None}, NEW n \in SUBSET Networks,
           Answer(o, s, t, n),
           UNCHANGED <<booted, users, hidden, clock, req, mem, asked>>, faults' \in 0..MaxFaults,
           issued' \subseteq [token : Tokens, proved : Passwords]
    PROVE  ATypeOK' /\ RequestsOK'
<1>1. /\ pc' \in [Slots -> Phases] /\ ans' \in [Slots -> Answers]
      /\ \A p \in Slots : pc'[p] = IF p = o THEN "answered" ELSE pc[p]
  BY AnswerType
<1>2. ATypeOK' BY <1>1 DEF AInv, ATypeOK, Phases, Answers, Statuses, Rows, Tokens
<1>3. RequestsOK' BY <1>1, AnsweredOK DEF Exists
<1> QED BY <1>2, <1>3

\* The same for one that goes on.
LEMMA GoesInv ==
    ASSUME AInv, NEW o \in Slots, NEW l \in {"read", "verify", "rows", "write"}, Goes(o, l),
           pc[o] \in {"auth", "read", "verify"},
           req[o].kind \notin {"list", "logout"} => Subject(o) \in Users,
           l = "rows" => req[o].kind = "mine",
           l = "write" /\ req[o].kind \in {"change", "reset"} => Exists(Subject(o)),
           UNCHANGED <<booted, users, hidden, clock, req, ans, issued, asked, faults>>,
           mem' \in [Slots -> Rows \cup {None}]
    PROVE  ATypeOK' /\ RequestsOK'
<1>1. /\ pc' \in [Slots -> Phases]
      /\ \A p \in Slots : pc'[p] = IF p = o THEN l ELSE pc[p]
  BY GoesType DEF Phases
<1>2. ATypeOK' BY <1>1 DEF AInv, ATypeOK, Phases, Answers, Statuses, Rows, Tokens
<1>3. RequestsOK'
  <2> SUFFICES ASSUME NEW p \in Slots
               PROVE  /\ pc'[p] # "idle" => Sound(req[p])
                      /\ pc'[p] \in Inside /\ req[p].kind \notin {"list", "logout"} => Subject(p) \in Users
                      /\ pc'[p] = "rows" => req[p].kind = "mine"
                      /\ pc'[p] = "write" /\ req[p].kind \in {"change", "reset"} => users[Subject(p)] # None
    BY DEF RequestsOK, Is, Exists, Subject, Sound, Requests
  <2>1. CASE p = o BY <1>1, <2>1 DEF AInv, RequestsOK, Inside, Exists
  <2>2. CASE p # o
    <3>1. pc'[p] = pc[p] BY <1>1, <2>2
    <3> QED BY <3>1 DEF AInv, RequestsOK, Inside, Is, Exists
  <2> QED BY <2>1, <2>2
<1> QED BY <1>2, <1>3

\* The same for one that writes a row of a user and is answered.
LEMMA WriteInv ==
    ASSUME AInv, NEW o \in Slots, pc[o] # "idle",
           NEW u \in Users, NEW row \in Rows, row.stamp = clock + 1, Store(u, row),
           NEW s \in Statuses, NEW t \in Tokens \cup {None}, Answer(o, s, t, {}),
           UNCHANGED <<booted, hidden, req, mem, asked>>, faults' \in 0..MaxFaults
    PROVE  /\ issued' = issued => AInv'
           /\ issued' \subseteq [token : Tokens, proved : Passwords] => ATypeOK' /\ RequestsOK' /\ MemOK'
<1> row # None BY AccountsAssumption
<1>1. /\ pc' \in [Slots -> Phases] /\ ans' \in [Slots -> Answers]
      /\ \A p \in Slots : pc'[p] = IF p = o THEN "answered" ELSE pc[p]
  <2>1. {} \in SUBSET Networks OBVIOUS
  <2> QED BY <2>1, AnswerType
<1>2. /\ users' \in [Users -> Rows \cup {None}] /\ clock' \in Nat
      /\ \A v \in Users : users'[v] = IF v = u THEN row ELSE users[v]
  BY StoreType DEF AInv
<1>3. issued' \subseteq [token : Tokens, proved : Passwords] => ATypeOK'
  BY <1>1, <1>2 DEF AInv, ATypeOK, Phases, Answers, Statuses
<1>4. RequestsOK'
  <2>1. \A v \in Users : Exists(v) => users'[v] # None BY <1>2 DEF Exists
  <2> QED BY <1>1, <2>1, AnsweredOK
<1>5. MemOK'
  <2>1. \A p \in Slots : pc'[p] = "verify" => pc[p] = "verify" BY <1>1
  <2> QED BY <2>1, StoreMem DEF AInv
<1>6. ASSUME issued' = issued PROVE AInv'
  <2>1. issued' \subseteq [token : Tokens, proved : Passwords] BY <1>6 DEF AInv, ATypeOK
  <2>2. StampsOK' BY <1>6, StoreStamps DEF AInv
  <2>3. TokenProvesPassword' BY <1>6, StoreTokens DEF AInv, TokenProvesPassword
  <2> QED BY <1>3, <1>4, <1>5, <2>1, <2>2, <2>3 DEF AInv
<1> QED BY <1>3, <1>4, <1>5, <1>6

-----------------------------------------------------------------------------
LEMMA BootInv == ASSUME AInv, Boot PROVE AInv'
<1> USE AccountsAssumption DEF Boot, tasks
<1>1. CASE UNCHANGED <<users, clock>>
  <2>1. ATypeOK' BY <1>1 DEF AInv, ATypeOK
  <2>2. RequestsOK' BY <1>1 DEF AInv, RequestsOK, Is, Exists, Subject, Sound, Requests
  <2>3. StampsOK' /\ MemOK' /\ TokenProvesPassword' BY <1>1, NoStore
  <2> QED BY <2>1, <2>2, <2>3 DEF AInv
<1>2. CASE ~ UNCHANGED <<users, clock>>
  <2> DEFINE row == [role |-> "ADMIN", stamp |-> clock + 1,
                     pw |-> IF Exists(Root) THEN users[Root].pw ELSE Default]
  <2>1. Store(Root, row) BY <1>2
  <2>2. row \in Rows /\ row.stamp = clock + 1
    <3>1. Exists(Root) => users[Root].pw \in Passwords BY DEF AInv, ATypeOK, Rows, Exists
    <3>2. clock + 1 \in Nat BY DEF AInv, ATypeOK
    <3> QED BY <3>1, <3>2 DEF Rows, Roles
  <2> HIDE DEF row
  <2>3. row # None BY <2>2
  <2>4. /\ users' \in [Users -> Rows \cup {None}] /\ clock' \in Nat
        /\ \A v \in Users : users'[v] = IF v = Root THEN row ELSE users[v]
    BY <2>1, <2>2, StoreType DEF AInv
  <2>5. UNCHANGED <<mem, req, pc, ans, issued, hidden, asked, faults>> /\ booted' = TRUE OBVIOUS
  <2>6. ATypeOK' BY <2>4, <2>5 DEF AInv, ATypeOK
  <2>7. RequestsOK'
    <3>1. \A v \in Users : Exists(v) => users'[v] # None BY <2>3, <2>4 DEF Exists
    <3>2. \A o \in Slots : Is(o, "write", {"change", "reset"}) =>
             Subject(o) \in Users /\ Exists(Subject(o))
      BY DEF AInv, RequestsOK, Is, Inside
    <3>3. \A o \in Slots : Is(o, "write", {"change", "reset"}) => users'[Subject(o)] # None
      BY <3>1, <3>2
    <3> QED BY <2>5, <3>3 DEF AInv, RequestsOK, Is, Exists, Subject, Sound, Requests
  <2>8. StampsOK' BY <2>1, <2>2, <2>3, <2>5, StoreStamps DEF AInv
  <2>9. MemOK' BY <2>1, <2>2, <2>5, StoreMem DEF AInv
  <2>10. TokenProvesPassword'
    BY <2>1, <2>2, <2>5, StoreTokens DEF AInv, TokenProvesPassword
  <2> QED BY <2>6, <2>7, <2>8, <2>9, <2>10 DEF AInv
<1> QED BY <1>1, <1>2

LEMMA AskInv == ASSUME AInv, NEW o \in Slots, NEW r, Sound(r), Ask(o, r) PROVE AInv'
<1> USE DEF Ask
<1>1. r \in Requests BY DEF Sound
<1>2. PICK l \in {"read", "auth"} : Goes(o, l) /\ (l = "read" <=> r.kind \in {"login", "logout"})
  OBVIOUS
<1>3. /\ pc' \in [Slots -> Phases]
      /\ \A p \in Slots : pc'[p] = IF p = o THEN l ELSE pc[p]
  <2>1. l \in Phases BY DEF Phases
  <2> QED BY <1>2, <2>1, GoesType
<1>4. /\ req' \in [Slots -> Requests \cup {Blank}]
      /\ \A p \in Slots : req'[p] = IF p = o THEN r ELSE req[p]
  BY <1>1 DEF AInv, ATypeOK
<1>5. asked' \in 0..MaxRequests BY AccountsAssumption DEF AInv, ATypeOK
<1>6. ATypeOK' BY <1>3, <1>4, <1>5 DEF AInv, ATypeOK, Phases
<1>7. RequestsOK'
  <2> SUFFICES ASSUME NEW p \in Slots
               PROVE  /\ pc'[p] # "idle" => Sound(req'[p])
                      /\ pc'[p] \in Inside /\ req'[p].kind \notin {"list", "logout"} => Subject(p)' \in Users
                      /\ pc'[p] = "rows" => req'[p].kind = "mine"
                      /\ pc'[p] = "write" /\ req'[p].kind \in {"change", "reset"} => users[Subject(p)'] # None
    BY DEF RequestsOK, Is, Exists, Subject, Sound, Requests
  <2>1. CASE p = o
    <3>1. pc'[p] = l /\ req'[p] = r BY <1>3, <1>4, <2>1
    <3>2. l = "read" /\ r.kind \notin {"list", "logout"} => r.kind = "login" /\ r.user \in Users
      BY <1>1, <1>2 DEF Sound, Requests
    <3> QED BY <3>1, <3>2 DEF Inside, Subject
  <2>2. CASE p # o
    <3>1. pc'[p] = pc[p] /\ req'[p] = req[p] BY <1>3, <1>4, <2>2
    <3> QED BY <3>1 DEF AInv, RequestsOK, Inside, Is, Exists, Subject
  <2> QED BY <2>1, <2>2
<1>8. StampsOK' BY DEF AInv, StampsOK, Exists
<1>9. MemOK'
  <2>1. \A p \in Slots : pc'[p] = "verify" => p # o /\ pc[p] = "verify" /\ req'[p] = req[p]
    BY <1>3, <1>4
  <2> QED BY <2>1 DEF AInv, MemOK, Exists, Subject
<1>10. TokenProvesPassword' BY DEF AInv, TokenProvesPassword, Accepted, Exists
<1> QED BY <1>6, <1>7, <1>8, <1>9, <1>10 DEF AInv

LEMMA LeaveInv == ASSUME AInv, NEW o \in Slots, Leave(o) PROVE AInv'
<1> USE DEF Leave
<1>1. /\ pc' \in [Slots -> Phases]
      /\ \A p \in Slots : pc'[p] = IF p = o THEN "idle" ELSE pc[p]
  BY GoesType DEF Phases
<1>2. /\ req' \in [Slots -> Requests \cup {Blank}]
      /\ \A p \in Slots : p # o => req'[p] = req[p]
  BY DEF AInv, ATypeOK
<1>3. /\ mem' \in [Slots -> Rows \cup {None}]
      /\ \A p \in Slots : mem'[p] = IF p = o THEN None ELSE mem[p]
  BY DEF AInv, ATypeOK
<1>4. ans' \in [Slots -> Answers]
  <2>1. Silent \in Answers BY DEF Silent, Answers, Statuses
  <2> QED BY <2>1 DEF AInv, ATypeOK, Answers, Statuses
<1>5. ATypeOK' BY <1>1, <1>2, <1>3, <1>4 DEF AInv, ATypeOK, Phases, Answers, Statuses
<1>6. RequestsOK'
  <2> SUFFICES ASSUME NEW p \in Slots
               PROVE  /\ pc'[p] # "idle" => Sound(req'[p])
                      /\ pc'[p] \in Inside /\ req'[p].kind \notin {"list", "logout"} => Subject(p)' \in Users
                      /\ pc'[p] = "rows" => req'[p].kind = "mine"
                      /\ pc'[p] = "write" /\ req'[p].kind \in {"change", "reset"} => users[Subject(p)'] # None
    BY DEF RequestsOK, Is, Exists, Subject, Sound, Requests
  <2>1. CASE p = o BY <1>1, <2>1 DEF Inside
  <2>2. CASE p # o
    <3>1. pc'[p] = pc[p] /\ req'[p] = req[p] BY <1>1, <1>2, <2>2
    <3> QED BY <3>1 DEF AInv, RequestsOK, Inside, Is, Exists, Subject
  <2> QED BY <2>1, <2>2
<1>7. StampsOK' BY <1>3 DEF AInv, StampsOK, Exists
<1>8. MemOK'
  <2>1. \A p \in Slots : pc'[p] = "verify" =>
           pc[p] = "verify" /\ req'[p] = req[p] /\ mem'[p] = mem[p]
    BY <1>1, <1>2, <1>3
  <2> QED BY <2>1 DEF AInv, MemOK, Exists, Subject
<1>9. TokenProvesPassword' BY DEF AInv, TokenProvesPassword, Accepted, Exists
<1> QED BY <1>5, <1>6, <1>7, <1>8, <1>9 DEF AInv

LEMMA AuthenticateInv == ASSUME AInv, NEW o \in Slots, Authenticate(o) PROVE AInv'
<1> USE DEF Authenticate
<1>1. StampsOK' /\ MemOK' /\ TokenProvesPassword'
  <2>1. pc \in [Slots -> Phases] BY DEF AInv, ATypeOK, Phases
  <2>2. \A p \in Slots : pc'[p] = "verify" => pc[p] = "verify"
    BY <2>1 DEF Refuse, Answer, Goes
  <2> QED BY <2>2, NoStore
<1>2. CASE \E s \in {"401", "403"} : Refuse(o, s)
  <2>1. PICK s \in Statuses : Refuse(o, s) BY <1>2 DEF Statuses
  <2>2. Answer(o, s, None, {}) BY <2>1 DEF Refuse
  <2>3. issued' \subseteq [token : Tokens, proved : Passwords] BY DEF AInv, ATypeOK
  <2>4. faults' \in 0..MaxFaults BY DEF AInv, ATypeOK
  <2>5. {} \in SUBSET Networks OBVIOUS
  <2>6. ATypeOK' /\ RequestsOK' BY <2>2, <2>3, <2>4, <2>5, AnswerInv
  <2> QED BY <1>1, <2>6 DEF AInv
<1>3. CASE Accepted(req[o].token) /\ Goes(o, "read") /\ UNCHANGED ans
  <2>1. Sound(req[o]) BY DEF AInv, RequestsOK
  <2>2. req[o].token \in Tokens BY <1>3, <2>1 DEF Accepted, Sound, Requests
  <2>3. req[o].kind \notin {"list", "logout"} => Subject(o) \in Users
    <3>1. req[o].kind \in {"change", "mine"} => Subject(o) \in Users
      BY <2>2 DEF Subject, Tokens
    <3>2. req[o].kind \in {"login", "reset", "create", "hide"} => Subject(o) \in Users
      BY <2>1 DEF Subject, Sound, Requests
    <3>3. req[o].kind \in Kinds BY <2>1 DEF Sound, Requests
    <3> QED BY <3>1, <3>2, <3>3 DEF Kinds
  <2>4. mem' \in [Slots -> Rows \cup {None}] BY DEF AInv, ATypeOK
  <2>5. ATypeOK' /\ RequestsOK'
    BY <1>3, <2>3, <2>4, GoesInv
  <2> QED BY <1>1, <2>5 DEF AInv
<1> QED BY <1>2, <1>3

LEMMA ReadRowInv == ASSUME AInv, NEW o \in Slots, ReadRow(o) PROVE AInv'
<1> USE DEF ReadRow, Is
<1>1. Subject(o) \in Users BY DEF AInv, RequestsOK, Inside
<1>2. /\ mem' \in [Slots -> Rows \cup {None}]
      /\ \A p \in Slots : mem'[p] = IF p = o THEN users[Subject(o)] ELSE mem[p]
  BY <1>1 DEF AInv, ATypeOK
<1>3. \A p \in Slots : pc'[p] = IF p = o THEN "verify" ELSE pc[p]
  BY GoesType DEF Phases
<1>4. ATypeOK' /\ RequestsOK' BY <1>1, <1>2, GoesInv
<1>5. StampsOK'
  <2>1. \A p \in Slots : mem'[p] # None => mem'[p].stamp <= clock
    BY <1>1, <1>2 DEF AInv, StampsOK, Exists
  <2> QED BY <2>1 DEF AInv, StampsOK, Exists
<1>6. MemOK'
  <2> SUFFICES ASSUME NEW p \in Slots, pc'[p] = "verify", mem'[p] # None
               PROVE  /\ users[Subject(p)] # None
                      /\ mem'[p].stamp = users[Subject(p)].stamp => mem'[p] = users[Subject(p)]
    BY DEF MemOK, Exists, Subject
  <2>1. CASE p = o BY <1>2, <2>1
  <2>2. CASE p # o
    <3>1. pc[p] = "verify" /\ mem'[p] = mem[p] BY <1>2, <1>3, <2>2
    <3> QED BY <3>1 DEF AInv, MemOK, Exists
  <2> QED BY <2>1, <2>2
<1>7. TokenProvesPassword' BY DEF AInv, TokenProvesPassword, Accepted, Exists
<1> QED BY <1>4, <1>5, <1>6, <1>7 DEF AInv

LEMMA VerifyInv == ASSUME AInv, NEW o \in Slots, Verify(o) PROVE AInv'
<1> USE DEF Verify, Is
<1>1. Subject(o) \in Users BY DEF AInv, RequestsOK, Inside
<1>2. \A p \in Slots : pc'[p] = "verify" => pc[p] = "verify"
  <2>1. pc \in [Slots -> Phases] BY DEF AInv, ATypeOK, Phases
  <2> QED BY <2>1 DEF Refuse, Answer, Goes
<1>3. faults' \in 0..MaxFaults /\ {} \in SUBSET Networks BY DEF AInv, ATypeOK
<1>4. CASE Refuse(o, "401") /\ UNCHANGED issued
  <2>1. Answer(o, "401", None, {}) BY <1>4 DEF Refuse
  <2>2. issued' \subseteq [token : Tokens, proved : Passwords] BY <1>4 DEF AInv, ATypeOK
  <2>3. "401" \in Statuses BY DEF Statuses
  <2>4. ATypeOK' /\ RequestsOK' BY <1>3, <2>1, <2>2, <2>3, AnswerInv
  <2>5. StampsOK' /\ MemOK' /\ TokenProvesPassword' BY <1>2, <1>4, NoStore
  <2> QED BY <2>4, <2>5 DEF AInv
<1>5. CASE mem[o] # None /\ Goes(o, "write") /\ UNCHANGED <<ans, issued>>
  <2>1. Exists(Subject(o)) BY <1>5 DEF AInv, MemOK
  <2>2. mem' \in [Slots -> Rows \cup {None}] BY DEF AInv, ATypeOK
  <2>3. ATypeOK' /\ RequestsOK' BY <1>1, <1>5, <2>1, <2>2, GoesInv
  <2>4. StampsOK' /\ MemOK' /\ TokenProvesPassword' BY <1>2, <1>5, NoStore
  <2> QED BY <2>3, <2>4 DEF AInv
<1>6. CASE /\ mem[o] # None /\ mem[o].pw = req[o].pw
           /\ Answer(o, "200", TokenFor(o), {})
           /\ issued' = issued \cup {[token |-> TokenFor(o), proved |-> req[o].pw]}
  <2>1. mem[o] \in Rows BY <1>6 DEF AInv, ATypeOK
  <2>2. TokenFor(o) \in Tokens /\ req[o].pw \in Passwords
    BY <1>1, <1>6, <2>1 DEF TokenFor, Tokens, Rows
  <2>3. issued' \subseteq [token : Tokens, proved : Passwords]
    BY <1>6, <2>2 DEF AInv, ATypeOK
  <2>4. "200" \in Statuses BY DEF Statuses
  <2>5. ATypeOK' /\ RequestsOK' BY <1>3, <1>6, <2>2, <2>3, <2>4, AnswerInv
  <2>6. MemOK' BY <1>2 DEF AInv, MemOK, Exists, Subject
  <2>7. StampsOK'
    <3>1. TokenFor(o).stamp <= clock BY <1>6 DEF AInv, StampsOK, TokenFor
    <3> QED BY <1>6, <3>1 DEF AInv, StampsOK, Exists
  <2>8. TokenProvesPassword'
    <3> SUFFICES ASSUME NEW i \in issued', Accepted(i.token)
                 PROVE  i.proved = users[i.token.sub].pw
      BY DEF TokenProvesPassword, Accepted, Exists
    <3>1. CASE i \in issued BY <3>1 DEF AInv, TokenProvesPassword
    <3>2. CASE i = [token |-> TokenFor(o), proved |-> req[o].pw]
      <4>1. users[Subject(o)].stamp = mem[o].stamp
        BY <3>2 DEF Accepted, TokenFor
      <4>2. mem[o] = users[Subject(o)] BY <1>6, <4>1 DEF AInv, MemOK
      <4> QED BY <1>6, <3>2, <4>2 DEF TokenFor
    <3> QED BY <1>6, <3>1, <3>2
  <2> QED BY <2>5, <2>6, <2>7, <2>8 DEF AInv
<1> QED BY <1>4, <1>5, <1>6

\* A request that is answered by a step that writes nothing.
LEMMA OnlyAnswer ==
    ASSUME AInv, NEW o \in Slots, pc[o] # "idle",
           NEW s \in Statuses, NEW t \in Tokens \cup {None}, NEW n \in SUBSET Networks,
           Answer(o, s, t, n), faults' \in 0..MaxFaults,
           UNCHANGED <<booted, users, hidden, clock, req, mem, issued, asked>>
    PROVE  AInv'
<1>1. issued' \subseteq [token : Tokens, proved : Passwords] BY DEF AInv, ATypeOK
<1>2. ATypeOK' /\ RequestsOK' BY <1>1, AnswerInv
<1>3. \A p \in Slots : pc'[p] = "verify" => pc[p] = "verify" BY AnswerType
<1>4. StampsOK' /\ MemOK' /\ TokenProvesPassword' BY <1>3, NoStore
<1> QED BY <1>2, <1>4 DEF AInv

LEMMA CheckInv == ASSUME AInv, NEW o \in Slots, Check(o) PROVE AInv'
<1> USE DEF Check, Is
<1>1. /\ Sound(req[o])
      /\ req[o].kind \notin {"list", "logout"} => Subject(o) \in Users
  BY DEF AInv, RequestsOK, Inside
<1>2. \/ \E s \in {"409", "200"} : Answer(o, s, None, {})
      \/ Goes(o, "rows") /\ req[o].kind = "mine" /\ UNCHANGED ans
      \/ Goes(o, "write") /\ UNCHANGED ans /\ req[o].kind = "create"
      \/ Goes(o, "write") /\ UNCHANGED ans /\ req[o].kind \in {"reset", "hide"} /\ Exists(Subject(o))
  BY DEF Refuse
<1>3. faults' \in 0..MaxFaults /\ None \in Tokens \cup {None} /\ {} \in SUBSET Networks
  BY DEF AInv, ATypeOK
<1>4. CASE \E s \in {"409", "200"} : Answer(o, s, None, {})
  <2>1. PICK s \in Statuses : Answer(o, s, None, {}) BY <1>4 DEF Statuses
  <2> QED BY <1>3, <2>1, OnlyAnswer
<1>5. ASSUME NEW l \in {"rows", "write"}, Goes(o, l), UNCHANGED ans,
             l = "rows" => req[o].kind = "mine",
             l = "write" => req[o].kind # "change",
             l = "write" /\ req[o].kind = "reset" => Exists(Subject(o))
      PROVE  AInv'
  <2>1. mem' \in [Slots -> Rows \cup {None}] BY DEF AInv, ATypeOK
  <2>2. ATypeOK' /\ RequestsOK' BY <1>1, <1>5, <2>1, GoesInv
  <2>3. \A p \in Slots : pc'[p] = "verify" => pc[p] = "verify"
    BY <1>5 DEF Goes, AInv, ATypeOK
  <2>4. StampsOK' /\ MemOK' /\ TokenProvesPassword' BY <2>3, NoStore
  <2> QED BY <2>2, <2>4 DEF AInv
<1> QED BY <1>2, <1>4, <1>5

LEMMA ListRowsInv == ASSUME AInv, NEW o \in Slots, ListRows(o) PROVE AInv'
<1> USE DEF ListRows
<1>1. Subject(o) \in Users BY DEF AInv, RequestsOK, Inside
<1>2. hidden[Subject(o)] \in SUBSET Networks BY <1>1 DEF AInv, ATypeOK
<1>3. "200" \in Statuses /\ faults' \in 0..MaxFaults BY DEF Statuses, AInv, ATypeOK
<1> QED BY <1>2, <1>3, OnlyAnswer

\* The row a change or a reset writes.
LEMMA NewRowType ==
    ASSUME AInv, NEW o \in Slots, Is(o, "write", {"change", "reset"})
    PROVE  /\ Subject(o) \in Users /\ req[o].new \in Passwords
           /\ NewRow(o) \in Rows /\ NewRow(o).stamp = clock + 1 /\ NewRow(o).pw = req[o].new
<1>1. Sound(req[o]) /\ Subject(o) \in Users /\ Exists(Subject(o))
  BY DEF AInv, RequestsOK, Inside, Is
<1>2. req[o].new \in Passwords BY <1>1 DEF Sound, Requests, Is
<1>3. users[Subject(o)].role \in Roles BY <1>1 DEF AInv, ATypeOK, Rows, Exists
<1>4. clock + 1 \in Nat BY DEF AInv, ATypeOK
<1> QED BY <1>1, <1>2, <1>3, <1>4 DEF NewRow, Rows

LEMMA WriteChangeInv == ASSUME AInv, NEW o \in Slots, WriteChange(o) PROVE AInv'
<1> USE DEF WriteChange
<1> DEFINE t == [sub |-> Subject(o), role |-> NewRow(o).role, stamp |-> clock + 1]
<1>1. /\ Subject(o) \in Users /\ req[o].new \in Passwords
      /\ NewRow(o) \in Rows /\ NewRow(o).stamp = clock + 1 /\ NewRow(o).pw = req[o].new
  BY NewRowType DEF Is
<1>2. t \in Tokens BY <1>1 DEF Tokens, Rows
<1>3. /\ Store(Subject(o), NewRow(o)) /\ Answer(o, "200", t, {}) /\ pc[o] # "idle"
      /\ issued' = issued \cup {[token |-> t, proved |-> req[o].new]}
      /\ UNCHANGED <<booted, hidden, req, mem, asked, faults>>
  BY DEF Is
<1>4. t.sub = Subject(o) /\ t.stamp = clock + 1 OBVIOUS
<1> HIDE DEF t, WriteChange
<1>5. issued' \subseteq [token : Tokens, proved : Passwords]
  BY <1>1, <1>2, <1>3 DEF AInv, ATypeOK
<1>6. ATypeOK' /\ RequestsOK' /\ MemOK'
  <2>1. "200" \in Statuses /\ faults' \in 0..MaxFaults BY <1>3 DEF Statuses, AInv, ATypeOK
  <2> QED BY <1>1, <1>2, <1>3, <1>5, <2>1, WriteInv
<1>7. \A v \in Users : users'[v] = IF v = Subject(o) THEN NewRow(o) ELSE users[v]
  BY <1>1, <1>3, StoreType DEF AInv
<1>8. clock \in Nat /\ clock' = clock + 1 BY <1>3 DEF AInv, ATypeOK, Store
<1>9. StampsOK'
  <2>1. \A u \in Users : users'[u] # None => users'[u].stamp <= clock'
    <3> SUFFICES ASSUME NEW u \in Users, users'[u] # None PROVE users'[u].stamp <= clock'
      OBVIOUS
    <3>1. CASE u = Subject(o) BY <1>1, <1>7, <1>8, <3>1
    <3>2. CASE u # Subject(o)
      <4>1. users'[u] = users[u] BY <1>7, <3>2
      <4>2. users[u].stamp \in Nat BY <4>1 DEF AInv, ATypeOK, Rows
      <4>3. users[u].stamp <= clock BY <4>1 DEF AInv, StampsOK, Exists
      <4> QED BY <1>8, <4>1, <4>2, <4>3
    <3> QED BY <3>1, <3>2
  <2>2. \A p \in Slots : mem[p] # None => mem[p].stamp <= clock'
    <3> SUFFICES ASSUME NEW p \in Slots, mem[p] # None PROVE mem[p].stamp <= clock + 1
      BY <1>8
    <3>1. mem[p].stamp \in Nat BY DEF AInv, ATypeOK, Rows
    <3>2. mem[p].stamp <= clock BY DEF AInv, StampsOK
    <3> QED BY <1>8, <3>1, <3>2
  <2>3. \A i \in issued' : i.token.stamp <= clock'
    <3> SUFFICES ASSUME NEW i \in issued' PROVE i.token.stamp <= clock + 1
      BY <1>8
    <3>1. CASE i = [token |-> t, proved |-> req[o].new] BY <1>4, <1>8, <3>1
    <3>2. CASE i \in issued
      <4>1. i.token.stamp \in Nat BY <3>2 DEF AInv, ATypeOK, Tokens
      <4>2. i.token.stamp <= clock BY <3>2 DEF AInv, StampsOK
      <4> QED BY <1>8, <4>1, <4>2
    <3> QED BY <1>3, <3>1, <3>2
  <2> QED BY <1>3, <2>1, <2>2, <2>3 DEF StampsOK, Exists
<1>10. TokenProvesPassword'
  <2> SUFFICES ASSUME NEW i \in issued', Accepted(i.token)' PROVE i.proved = users'[i.token.sub].pw
    BY DEF TokenProvesPassword
  <2>1. CASE i = [token |-> t, proved |-> req[o].new] BY <1>1, <1>4, <1>7, <2>1
  <2>2. CASE i \in issued BY <1>1, <1>3, <2>2, StoreTokens DEF AInv
  <2> QED BY <1>3, <2>1, <2>2
<1> QED BY <1>6, <1>9, <1>10 DEF AInv

LEMMA WriteResetInv == ASSUME AInv, NEW o \in Slots, WriteReset(o) PROVE AInv'
<1> USE DEF WriteReset
<1>1. /\ Subject(o) \in Users /\ NewRow(o) \in Rows /\ NewRow(o).stamp = clock + 1
  BY NewRowType DEF Is
<1>2. "200" \in Statuses /\ faults' \in 0..MaxFaults /\ pc[o] # "idle"
  BY DEF Statuses, AInv, ATypeOK, Is
<1> QED BY <1>1, <1>2, WriteInv

LEMMA WriteCreateInv == ASSUME AInv, NEW o \in Slots, WriteCreate(o) PROVE AInv'
<1> USE DEF WriteCreate
<1> DEFINE row == [role |-> "USER", pw |-> req[o].new, stamp |-> clock + 1]
<1>1. pc[o] # "idle" /\ faults' \in 0..MaxFaults BY DEF AInv, ATypeOK, Is
<1>2. CASE Refuse(o, "500") /\ UNCHANGED <<users, clock>>
  <2>1. Answer(o, "500", None, {}) BY <1>2 DEF Refuse
  <2>2. "500" \in Statuses /\ {} \in SUBSET Networks BY DEF Statuses
  <2> QED BY <1>1, <1>2, <2>1, <2>2, OnlyAnswer
<1>3. CASE Store(Subject(o), row) /\ Answer(o, "200", None, {})
  <2>1. Subject(o) \in Users /\ req[o].new \in Passwords
    <3>1. Sound(req[o]) /\ Subject(o) \in Users BY DEF AInv, RequestsOK, Inside, Is
    <3> QED BY <3>1 DEF Sound, Requests, Is
  <2>2. row \in Rows /\ row.stamp = clock + 1
    <3>1. clock + 1 \in Nat BY DEF AInv, ATypeOK
    <3> QED BY <2>1, <3>1 DEF Rows, Roles
  <2>3. "200" \in Statuses BY DEF Statuses
  <2> HIDE DEF row
  <2> QED BY <1>1, <1>3, <2>1, <2>2, <2>3, WriteInv
<1> QED BY <1>2, <1>3

LEMMA WriteHiddenInv == ASSUME AInv, NEW o \in Slots, WriteHidden(o) PROVE AInv'
<1> USE DEF WriteHidden
<1>1. Subject(o) \in Users /\ req[o].nets \in SUBSET Networks
  <2>1. Sound(req[o]) /\ Subject(o) \in Users BY DEF AInv, RequestsOK, Inside, Is
  <2> QED BY <2>1 DEF Sound, Requests
<1>2. hidden' \in [Users -> SUBSET Networks] BY <1>1 DEF AInv, ATypeOK
<1>3. /\ pc' \in [Slots -> Phases] /\ ans' \in [Slots -> Answers]
      /\ \A p \in Slots : pc'[p] = IF p = o THEN "answered" ELSE pc[p]
  <2>1. "200" \in Statuses BY DEF Statuses
  <2> QED BY <1>1, <2>1, AnswerType
<1>4. ATypeOK' BY <1>2, <1>3 DEF AInv, ATypeOK, Phases, Answers, Statuses
<1>5. RequestsOK'
  <2>1. pc[o] \notin {"idle"} BY DEF Is
  <2> QED BY <1>3, <2>1, AnsweredOK DEF Exists
<1>6. StampsOK' /\ MemOK' /\ TokenProvesPassword' BY <1>3, NoStore
<1> QED BY <1>4, <1>5, <1>6 DEF AInv

LEMMA FailInv == ASSUME AInv, NEW o \in Slots, Fail(o) PROVE AInv'
<1> USE DEF Fail
<1>1. /\ pc[o] # "idle" /\ "500" \in Statuses /\ {} \in SUBSET Networks
      /\ Answer(o, "500", None, {})
  BY DEF Statuses, Refuse
<1>2. faults' \in 0..MaxFaults BY AccountsAssumption DEF AInv, ATypeOK
<1>3. CASE UNCHANGED <<users, clock>> BY <1>1, <1>2, <1>3, OnlyAnswer
<1>4. CASE Is(o, "write", {"change", "reset"}) /\ Store(Subject(o), NewRow(o))
  <2>1. /\ Subject(o) \in Users /\ NewRow(o) \in Rows /\ NewRow(o).stamp = clock + 1
    BY <1>4, NewRowType
  <2> QED BY <1>1, <1>2, <1>4, <2>1, WriteInv
<1> QED BY <1>3, <1>4
-----------------------------------------------------------------------------
LEMMA ServeInv == ASSUME AInv, NEW o \in Slots, Serve(o) PROVE AInv'
  BY AuthenticateInv, ReadRowInv, VerifyInv, CheckInv, ListRowsInv, WriteChangeInv,
     WriteResetInv, WriteCreateInv, WriteHiddenInv, FailInv DEF Serve

LEMMA StepInv == AInv /\ [ANext]_accounts => AInv'
<1> SUFFICES ASSUME AInv, [ANext]_accounts PROVE AInv' OBVIOUS
<1>1. CASE ANext BY <1>1, BootInv, ServeInv, LeaveInv, AskInv DEF ANext
<1>2. CASE UNCHANGED accounts
  <2>1. UNCHANGED <<booted, users, hidden, clock, pc, req, mem, ans, issued, asked, faults>>
    BY <1>2 DEF accounts, tasks
  <2>2. ATypeOK' BY <2>1 DEF AInv, ATypeOK
  <2>3. RequestsOK' BY <2>1 DEF AInv, RequestsOK, Is, Exists, Subject, Sound, Requests
  <2>4. StampsOK' /\ MemOK' /\ TokenProvesPassword' BY <2>1, NoStore
  <2> QED BY <2>2, <2>3, <2>4 DEF AInv
<1> QED BY <1>1, <1>2

\* Whatever is asked of the server, in any order and whichever answers its database fails,
\* the inductive invariant holds.
THEOREM Invariance == ASpec => []AInv
  BY InitInv, StepInv, PTL DEF ASpec

\* The tables, the requests and the signed tokens keep their types (ATypeOK).
THEOREM TypeCorrect == ASpec => []ATypeOK
<1>1. AInv => ATypeOK BY DEF AInv
<1> QED BY <1>1, Invariance, PTL

\* No session outlives the password it was opened with: changePassword, resetPassword and
\* the start of the server, interleaved with logins at every await, leave no token accepted
\* that was signed for another password than the one in the table (TokenProvesPassword).
THEOREM SessionEndsWithPassword == ASpec => []TokenProvesPassword
<1>1. AInv => TokenProvesPassword BY DEF AInv
<1> QED BY <1>1, Invariance, PTL
-----------------------------------------------------------------------------
\* The tab beside the server.
SessionOK == session \in Tokens \cup {None} /\ awaited \subseteq Slots

\* A login or a change that is answered 200 is answered with a token.
AnswersOK ==
    \A o \in Slots : pc[o] = "answered" /\ req[o].kind \in {"login", "change"} /\ Ok(o)
                     => ans[o].token \in Tokens

\* The login page has no view and loads nothing; every other page has a session.
PageOK ==
    /\ page = "login" => view = NoView /\ pending = None
    /\ page # "login" => session # None

\* What the tab waits for is under way, and a login is waited for on the login page only.
AwaitedOK ==
    \A o \in awaited :
        /\ pc[o] # "idle"
        /\ req[o].kind = "login" =>
             page = "login" /\ \A q \in awaited : req[q].kind = "login" => q = o

\* A load of the keys of whoever is logged in.
Loading(o) ==
    /\ o \in awaited /\ req[o].kind = "mine"
    /\ ~ revived => req[o].token.sub = Self

PendingOK == pending # None => Loading(pending)

ViewOK ==
    /\ view.at = "keys" => Loading(view.on)
    /\ view.at \in {"ready", "list", "shown"} /\ ~ revived => store.of = Self
    /\ view.at = "shown" /\ ~ revived => view.of = Self

BInv == SessionOK /\ PageOK /\ AwaitedOK /\ PendingOK /\ ViewOK

WInv == AInv /\ AnswersOK /\ BInv
-----------------------------------------------------------------------------
\* What the requests and the server's steps do to the requests that are under way.
LEMMA Asked ==
    ASSUME AInv, AnswersOK, NEW o \in Slots, NEW r, Ask(o, r)
    PROVE  /\ pc[o] = "idle" /\ pc'[o] # "idle" /\ req'[o] = r
           /\ \A p \in Slots : p # o => pc'[p] = pc[p] /\ req'[p] = req[p]
           /\ AnswersOK'
<1> USE DEF Ask
<1>1. pc \in [Slots -> Phases] BY DEF AInv, ATypeOK, Phases
<1>2. PICK l \in {"read", "auth"} : Goes(o, l) OBVIOUS
<1>3. \A p \in Slots : pc'[p] = IF p = o THEN l ELSE pc[p] BY <1>1, <1>2 DEF Goes
<1>4. \A p \in Slots : req'[p] = IF p = o THEN r ELSE req[p] BY DEF AInv, ATypeOK
<1>5. AnswersOK'
  <2>1. \A p \in Slots : pc'[p] = "answered" => pc[p] = "answered" /\ req'[p] = req[p]
    BY <1>3, <1>4
  <2> QED BY <2>1 DEF AnswersOK, Ok
<1> QED BY <1>3, <1>4, <1>5

LEMMA Left ==
    ASSUME AInv, AnswersOK, NEW o \in Slots, Leave(o)
    PROVE  /\ pc'[o] = "idle"
           /\ \A p \in Slots : p # o => pc'[p] = pc[p] /\ req'[p] = req[p]
           /\ AnswersOK'
<1> USE DEF Leave
<1>1. \A p \in Slots : pc'[p] = IF p = o THEN "idle" ELSE pc[p]
  BY GoesType DEF Phases
<1>2. \A p \in Slots : p # o => req'[p] = req[p] /\ ans'[p] = ans[p]
  BY DEF AInv, ATypeOK
<1>3. AnswersOK'
  <2>1. \A p \in Slots : pc'[p] = "answered" => p # o /\ pc[p] = "answered"
    BY <1>1
  <2> QED BY <1>2, <2>1 DEF AnswersOK, Ok
<1> QED BY <1>1, <1>2, <1>3

\* A step that answers a request, with a token or of a kind that gets none.
LEMMA AnswersKept ==
    ASSUME AInv, AnswersOK, NEW o \in Slots, pc[o] # "idle", req' = req,
           NEW s, NEW t, NEW n, Answer(o, s, t, n),
           s = "200" /\ req[o].kind \in {"login", "change"} => t \in Tokens
    PROVE  (\A p \in Slots : pc'[p] = "idle" <=> pc[p] = "idle") /\ AnswersOK'
<1>1. \A p \in Slots : /\ pc'[p] = IF p = o THEN "answered" ELSE pc[p]
                       /\ ans'[p] = IF p = o THEN [status |-> s, token |-> t, nets |-> n] ELSE ans[p]
  BY DEF Answer, Goes, AInv, ATypeOK
<1> QED BY <1>1 DEF AnswersOK, Ok

LEMMA GoesKept ==
    ASSUME AInv, AnswersOK, NEW o \in Slots, pc[o] # "idle", req' = req, ans' = ans,
           NEW l \in {"read", "verify", "rows", "write"}, Goes(o, l)
    PROVE  (\A p \in Slots : pc'[p] = "idle" <=> pc[p] = "idle") /\ AnswersOK'
<1>1. \A p \in Slots : pc'[p] = IF p = o THEN l ELSE pc[p]
  BY DEF Goes, AInv, ATypeOK
<1> QED BY <1>1 DEF AnswersOK, Ok

LEMMA Served ==
    ASSUME AInv, AnswersOK, NEW o \in Slots, Serve(o)
    PROVE  /\ req' = req /\ \A p \in Slots : pc'[p] = "idle" <=> pc[p] = "idle"
           /\ AnswersOK'
<1> USE DEF Is
<1>1. CASE Authenticate(o) BY <1>1, AnswersKept, GoesKept DEF Authenticate, Refuse
<1>2. CASE ReadRow(o) BY <1>2, GoesKept DEF ReadRow
<1>3. CASE Verify(o)
  <2>1. mem[o] # None => TokenFor(o) \in Tokens
    <3>1. Subject(o) \in Users BY <1>3 DEF Verify, AInv, RequestsOK, Inside
    <3> QED BY <3>1 DEF TokenFor, Tokens, AInv, ATypeOK, Rows
  <2> QED BY <1>3, <2>1, AnswersKept, GoesKept DEF Verify, Refuse
<1>4. CASE Check(o)
  <2>1. pc[o] = "read" /\ req[o].kind \notin {"login", "change"} /\ req' = req
    BY <1>4 DEF Check
  <2>2. \/ \E s \in {"409", "200"} : Answer(o, s, None, {})
        \/ \E l \in {"rows", "write"} : Goes(o, l) /\ UNCHANGED ans
    BY <1>4 DEF Check, Refuse
  <2> QED BY <2>1, <2>2, AnswersKept, GoesKept
<1>5. CASE ListRows(o)
  <2>1. req[o].kind = "mine" BY <1>5 DEF ListRows, AInv, RequestsOK
  <2> QED BY <1>5, <2>1, AnswersKept DEF ListRows
<1>6. CASE WriteChange(o)
  <2> DEFINE t == [sub |-> Subject(o), role |-> NewRow(o).role, stamp |-> clock + 1]
  <2>1. t \in Tokens
    <3>1. Subject(o) \in Users /\ NewRow(o) \in Rows BY <1>6, NewRowType DEF WriteChange
    <3>2. clock + 1 \in Nat BY DEF AInv, ATypeOK
    <3> QED BY <3>1, <3>2 DEF Tokens, Rows
  <2>2. Answer(o, "200", t, {}) /\ req' = req /\ pc[o] # "idle" BY <1>6 DEF WriteChange
  <2> HIDE DEF t
  <2> QED BY <2>1, <2>2, AnswersKept
<1>7. CASE WriteReset(o) BY <1>7, AnswersKept DEF WriteReset
<1>8. CASE WriteCreate(o) BY <1>8, AnswersKept DEF WriteCreate, Refuse
<1>9. CASE WriteHidden(o) BY <1>9, AnswersKept DEF WriteHidden
<1>10. CASE Fail(o) BY <1>10, AnswersKept DEF Fail, Refuse
<1> QED BY <1>1, <1>2, <1>3, <1>4, <1>5, <1>6, <1>7, <1>8, <1>9, <1>10 DEF Serve
-----------------------------------------------------------------------------
\* What the tab asks is a request the routes let through.
LEMMA SoundRequests ==
    ASSUME SessionOK, NEW u \in Users, NEW p \in Passwords, NEW n \in Passwords
    PROVE  /\ Sound([Blank EXCEPT !.kind = "login", !.token = session, !.user = u, !.pw = p])
           /\ Sound([Blank EXCEPT !.kind = "change", !.token = session, !.pw = p, !.new = n])
           /\ \A k \in {"logout", "mine", "list"} : Sound([Blank EXCEPT !.kind = k, !.token = session])
<1> USE AccountsAssumption DEF Sound, Requests, Blank, SessionOK, Kinds
<1>1. Sound([Blank EXCEPT !.kind = "login", !.token = session, !.user = u, !.pw = p]) OBVIOUS
<1>2. Sound([Blank EXCEPT !.kind = "change", !.token = session, !.pw = p, !.new = n]) OBVIOUS
<1>3. \A k \in {"logout", "mine", "list"} : Sound([Blank EXCEPT !.kind = k, !.token = session])
  OBVIOUS
<1> QED BY <1>1, <1>2, <1>3

LEMMA SoundElsewhere ==
    ASSUME AInv, users[Root] # None, NEW r \in Resets \cup Creations \cup Hidings
    PROVE  Sound([r EXCEPT !.token = [sub |-> Root, role |-> users[Root].role,
                                      stamp |-> users[Root].stamp]])
<1> DEFINE t == [sub |-> Root, role |-> users[Root].role, stamp |-> users[Root].stamp]
<1>1. t \in Tokens BY AccountsAssumption DEF AInv, ATypeOK, Rows, Tokens
<1>2. \/ \E u \in Users, n \in Passwords : r = Order("reset", u, n, {}) \/ r = Order("create", u, n, {})
      \/ \E u \in Users, h \in SUBSET Networks : r = Order("hide", u, None, h)
  BY DEF Resets, Creations, Hidings
<1> HIDE DEF t
<1>3. CASE \E u \in Users, n \in Passwords : r = Order("reset", u, n, {}) \/ r = Order("create", u, n, {})
  <2>1. PICK u \in Users, n \in Passwords, k \in {"reset", "create"} : r = Order(k, u, n, {})
    BY <1>3
  <2>2. [r EXCEPT !.token = t] =
          [kind |-> k, token |-> t, user |-> u, pw |-> None, new |-> n, nets |-> {}]
    <3>1. Order(k, u, n, {}) =
            [kind |-> k, token |-> None, user |-> u, pw |-> None, new |-> n, nets |-> {}]
      BY DEF Order
    <3> QED BY <2>1, <3>1
  <2>3. Sound([kind |-> k, token |-> t, user |-> u, pw |-> None, new |-> n, nets |-> {}])
    BY <1>1, AccountsAssumption DEF Sound, Requests, Kinds
  <2> QED BY <2>2, <2>3 DEF t
<1>4. CASE \E u \in Users, h \in SUBSET Networks : r = Order("hide", u, None, h)
  <2>1. PICK u \in Users, h \in SUBSET Networks : r = Order("hide", u, None, h) BY <1>4
  <2>2. [r EXCEPT !.token = t] =
          [kind |-> "hide", token |-> t, user |-> u, pw |-> None, new |-> None, nets |-> h]
    <3>1. Order("hide", u, None, h) =
            [kind |-> "hide", token |-> None, user |-> u, pw |-> None, new |-> None, nets |-> h]
      BY DEF Order
    <3> QED BY <2>1, <3>1
  <2>3. Sound([kind |-> "hide", token |-> t, user |-> u, pw |-> None, new |-> None, nets |-> h])
    BY <1>1, AccountsAssumption DEF Sound, Requests, Kinds
  <2> QED BY <2>2, <2>3 DEF t
<1> QED BY <1>2, <1>3, <1>4

-----------------------------------------------------------------------------
\* The tab's notes survive whatever leaves the tab and its requests under way alone.
LEMMA Quiet ==
    ASSUME BInv, UNCHANGED browser,
           \A p \in awaited : pc'[p] # "idle" /\ req'[p] = req[p]
    PROVE  BInv'
<1>1. UNCHANGED <<session, store, pending, view, page, awaited, revived>> BY DEF browser
<1>2. SessionOK' /\ PageOK' BY <1>1 DEF BInv, SessionOK, PageOK
<1>3. AwaitedOK' BY <1>1 DEF BInv, AwaitedOK
<1>4. \A o : Loading(o) => Loading(o)' BY <1>1 DEF Loading, Self
<1>5. PendingOK' BY <1>1, <1>4 DEF BInv, PendingOK
<1>6. ViewOK' BY <1>1, <1>4 DEF BInv, ViewOK, Self
<1> QED BY <1>2, <1>3, <1>5, <1>6 DEF BInv

\* A new document waits for nothing.
LEMMA FreshInv ==
    ASSUME NEW next \in {"login", "entering", "app"}, Fresh(next), session' \in Tokens \cup {None},
           next # "login" => session' # None
    PROVE  BInv'
  BY DEF Fresh, BInv, SessionOK, PageOK, AwaitedOK, PendingOK, ViewOK, NoView

\* A request is sent: nothing that is awaited is disturbed.
LEMMA Sent ==
    ASSUME AInv, AnswersOK, BInv, NEW o \in Slots, NEW r, Sends(o, r)
    PROVE  /\ AnswersOK' /\ o \notin awaited /\ awaited' = awaited \cup {o} /\ awaited' \subseteq Slots
           /\ req'[o] = r
           /\ \A p \in awaited : pc'[p] # "idle" /\ req'[p] = req[p]
           /\ pc'[o] # "idle"
<1>1. Ask(o, r) /\ awaited' = awaited \cup {o} BY DEF Sends
<1>2. /\ pc[o] = "idle" /\ pc'[o] # "idle" /\ req'[o] = r
      /\ \A p \in Slots : p # o => pc'[p] = pc[p] /\ req'[p] = req[p]
      /\ AnswersOK'
  BY <1>1, Asked
<1>3. o \notin awaited BY <1>2 DEF BInv, AwaitedOK
<1>4. \A p \in awaited : p \in Slots /\ p # o /\ pc[p] # "idle"
  BY <1>3 DEF BInv, AwaitedOK, SessionOK
<1> QED BY <1>1, <1>2, <1>3, <1>4 DEF BInv, SessionOK

\* An awaited answer is taken: what else is awaited is not disturbed.
LEMMA Took ==
    ASSUME AInv, AnswersOK, BInv, NEW o \in Slots, o \in awaited, Taken(o)
    PROVE  /\ AnswersOK' /\ awaited' = awaited \ {o} /\ awaited' \subseteq Slots
           /\ \A p \in awaited' : pc'[p] # "idle" /\ req'[p] = req[p]
<1>1. Leave(o) /\ awaited' = awaited \ {o} BY DEF Taken
<1>2. AnswersOK' /\ \A p \in Slots : p # o => pc'[p] = pc[p] /\ req'[p] = req[p]
  BY <1>1, Left
<1> QED BY <1>1, <1>2 DEF BInv, AwaitedOK, SessionOK

\* The handlers of answers that leave session, keys and view alone but for what is said.
LEMMA TakenBase ==
    ASSUME AInv, AnswersOK, BInv, NEW o \in Slots, o \in awaited, Taken(o),
           session' \in Tokens \cup {None},
           page' = page, page # "login" => session' # None
    PROVE  AnswersOK' /\ SessionOK' /\ AwaitedOK' /\ (page' # "login" => session' # None)
<1>1. /\ AnswersOK' /\ awaited' = awaited \ {o} /\ awaited' \subseteq Slots
      /\ \A p \in awaited' : pc'[p] # "idle" /\ req'[p] = req[p]
  BY Took
<1> QED BY <1>1 DEF BInv, SessionOK, AwaitedOK

LEMMA LoadingKept ==
    ASSUME AInv, AnswersOK, BInv, NEW o \in Slots, o \in awaited, Taken(o),
           NEW x, x # o, Loading(x), ~ revived' => ~ revived /\ Self' = Self
    PROVE  Loading(x)'
<1>1. /\ awaited' = awaited \ {o}
      /\ \A p \in awaited' : pc'[p] # "idle" /\ req'[p] = req[p]
  BY Took
<1> QED BY <1>1 DEF Loading

\* A request is sent that is no login, and what it is becomes is noted by the tab.
LEMMA SentBase ==
    ASSUME AInv, AnswersOK, BInv, NEW o \in Slots, NEW r, Sends(o, r), r.kind # "login",
           session' = session, page' = page \/ (page = "entering" /\ page' = "app"),
           revived' = revived
    PROVE  /\ AnswersOK' /\ SessionOK' /\ AwaitedOK' /\ (page' # "login" => session' # None)
           /\ \A x : Loading(x) => Loading(x)'
           /\ r.kind = "mine" /\ r.token = session => Loading(o)'
<1>1. /\ AnswersOK' /\ o \notin awaited /\ awaited' = awaited \cup {o} /\ awaited' \subseteq Slots
      /\ req'[o] = r /\ pc'[o] # "idle"
      /\ \A p \in awaited : pc'[p] # "idle" /\ req'[p] = req[p]
  BY Sent
<1>2. SessionOK' BY <1>1 DEF BInv, SessionOK
<1>3. AwaitedOK'
  <2>1. \A p \in awaited' : pc'[p] # "idle" BY <1>1
  <2>2. \A p \in awaited' : req'[p].kind = "login" => p \in awaited /\ req[p].kind = "login"
    BY <1>1
  <2> QED BY <2>1, <2>2 DEF BInv, AwaitedOK
<1>4. page' # "login" => session' # None BY DEF BInv, PageOK
<1>5. \A x : Loading(x) => Loading(x)' BY <1>1 DEF Loading, Self
<1>6. r.kind = "mine" /\ r.token = session => Loading(o)' BY <1>1 DEF Loading, Self
<1> QED BY <1>1, <1>2, <1>3, <1>4, <1>5, <1>6
-----------------------------------------------------------------------------
LEMMA InitW == WInit => AnswersOK /\ BInv
<1> SUFFICES ASSUME WInit PROVE AnswersOK /\ BInv OBVIOUS
<1> USE DEF WInit
<1>1. AnswersOK BY DEF AInit, AnswersOK
<1>2. session \in Tokens \cup {None}
  <2>1. AInv BY InitInv
  <2>2. \A i \in issued : i.token \in Tokens BY <2>1 DEF AInv, ATypeOK
  <2> QED BY <2>2
<1>3. BInv
  BY <1>2 DEF BInv, SessionOK, PageOK, AwaitedOK, PendingOK, ViewOK, NoView
<1> QED BY <1>1, <1>3

LEMMA UnauthorizedInv ==
    ASSUME WInv, NEW o \in Slots, Unauthorized(o) PROVE AnswersOK' /\ BInv'
<1>1. AnswersOK' BY Left DEF WInv, Unauthorized
<1>2. BInv' BY FreshInv DEF Unauthorized
<1> QED BY <1>1, <1>2

LEMMA ReloadInv == ASSUME WInv, Reload PROVE AnswersOK' /\ BInv'
<1>1. AnswersOK' BY DEF WInv, Reload, accounts, tasks, AnswersOK, Ok
<1>2. session' = session /\ session \in Tokens \cup {None}
  BY DEF Reload, WInv, BInv, SessionOK
<1>3. BInv'
  <2>1. CASE session = None BY <1>2, <2>1, FreshInv DEF Reload
  <2>2. CASE session # None BY <1>2, <2>2, FreshInv DEF Reload
  <2> QED BY <2>1, <2>2
<1> QED BY <1>1, <1>3

LEMMA SubmitLoginInv ==
    ASSUME WInv, NEW o \in Slots, NEW u \in Users, NEW p \in Passwords, SubmitLogin(o, u, p)
    PROVE  AnswersOK' /\ BInv'
<1> USE DEF SubmitLogin, WInv
<1> DEFINE r == [Blank EXCEPT !.kind = "login", !.token = session, !.user = u, !.pw = p]
<1>1. Sends(o, r) /\ r.kind = "login" BY DEF Blank
<1> HIDE DEF r
<1>2. /\ AnswersOK' /\ o \notin awaited /\ awaited' = awaited \cup {o} /\ awaited' \subseteq Slots
      /\ req'[o] = r /\ pc'[o] # "idle"
      /\ \A q \in awaited : pc'[q] # "idle" /\ req'[q] = req[q]
  BY <1>1, Sent
<1>3. SessionOK' /\ PageOK' BY <1>2 DEF BInv, SessionOK, PageOK
<1>4. AwaitedOK' BY <1>1, <1>2 DEF BInv, AwaitedOK
<1>5. PendingOK' /\ ViewOK' BY DEF BInv, PageOK, PendingOK, ViewOK, NoView
<1> QED BY <1>2, <1>3, <1>4, <1>5 DEF BInv

LEMMA HandleLoginInv ==
    ASSUME WInv, NEW o \in Slots, HandleLogin(o) PROVE AnswersOK' /\ BInv'
<1> USE DEF HandleLogin, WInv, Delivered
<1>1. page = "login" BY DEF BInv, AwaitedOK
<1>2. /\ AnswersOK' /\ awaited' = awaited \ {o} /\ awaited' \subseteq Slots
      /\ \A q \in awaited' : pc'[q] # "idle" /\ req'[q] = req[q]
  BY Took
<1>3. \A q \in awaited' : req'[q].kind # "login" BY <1>2 DEF BInv, AwaitedOK
<1>4. session' \in Tokens \cup {None} /\ (page' # "login" => session' # None)
  <2>1. CASE Ok(o)
    <3>1. ans[o].token \in Tokens BY <2>1 DEF AnswersOK
    <3> QED BY <2>1, <3>1, AccountsAssumption
  <2>2. CASE ~ Ok(o) BY <1>1, <2>2 DEF Kept, BInv, SessionOK
  <2> QED BY <2>1, <2>2
<1>5. view' = NoView /\ pending' = None BY <1>1 DEF BInv, PageOK
<1>6. BInv'
  BY <1>2, <1>3, <1>4, <1>5 DEF BInv, SessionOK, PageOK, AwaitedOK, PendingOK, ViewOK, NoView
<1> QED BY <1>2, <1>6

LEMMA HandleLogoutInv ==
    ASSUME WInv, NEW o \in Slots, HandleLogout(o) PROVE AnswersOK' /\ BInv'
<1> USE DEF HandleLogout, WInv, Delivered
<1>1. /\ AnswersOK' /\ awaited' = awaited \ {o} /\ awaited' \subseteq Slots
      /\ \A q \in awaited' : pc'[q] # "idle" /\ req'[q] = req[q]
  BY Took
<1>2. AwaitedOK' BY <1>1 DEF BInv, AwaitedOK
<1>3. BInv' BY <1>1, <1>2 DEF BInv, SessionOK, PageOK, PendingOK, ViewOK, NoView
<1> QED BY <1>1, <1>3

LEMMA HandleChangeInv ==
    ASSUME WInv, NEW o \in Slots, HandleChange(o) PROVE AnswersOK' /\ BInv'
<1> USE DEF HandleChange, WInv, Delivered
<1>1. session' \in Tokens \cup {None} /\ (page # "login" => session' # None)
  <2>1. CASE Ok(o)
    <3>1. ans[o].token \in Tokens BY <2>1 DEF AnswersOK
    <3> QED BY <2>1, <3>1, AccountsAssumption
  <2>2. CASE ~ Ok(o) BY <2>2 DEF Kept, Stays, BInv, SessionOK, PageOK
  <2> QED BY <2>1, <2>2
<1>2. AnswersOK' /\ SessionOK' /\ AwaitedOK' /\ (page' # "login" => session' # None)
  BY <1>1, TakenBase
<1>3. ~ revived' => ~ revived /\ (page = "login" \/ Self' = Self)
  <2>1. CASE Ok(o) BY <2>1 DEF Parted, Self
  <2>2. CASE ~ Ok(o) BY <2>2 DEF Kept, Stays, Self
  <2> QED BY <2>1, <2>2
<1>4. CASE page = "login"
  BY <1>2, <1>4 DEF BInv, PageOK, PendingOK, ViewOK, NoView
<1>5. CASE page # "login"
  <2>1. \A x : Loading(x) => Loading(x)'
    <3> SUFFICES ASSUME NEW x, Loading(x) PROVE Loading(x)' OBVIOUS
    <3>1. x # o BY DEF Loading
    <3> QED BY <1>3, <1>5, <3>1, LoadingKept
  <2>2. PendingOK' BY <2>1 DEF BInv, PendingOK
  <2>3. ViewOK' BY <1>3, <1>5, <2>1 DEF BInv, ViewOK
  <2>4. PageOK' BY <1>2, <1>5 DEF PageOK
  <2> QED BY <1>2, <2>2, <2>3, <2>4 DEF BInv
<1> QED BY <1>4, <1>5

LEMMA HandleLoadInv ==
    ASSUME WInv, NEW o \in Slots, HandleLoad(o) PROVE AnswersOK' /\ BInv'
<1> USE DEF HandleLoad, WInv, Delivered
<1>1. session' \in Tokens \cup {None} /\ (page # "login" => session' # None /\ session' = session)
  BY DEF Kept, Stays, BInv, SessionOK, PageOK
<1>2. AnswersOK' /\ SessionOK' /\ AwaitedOK' /\ (page' # "login" => session' # None)
  BY <1>1, TakenBase
<1>3. CASE page = "login"
  BY <1>2, <1>3 DEF BInv, PageOK, PendingOK, ViewOK, NoView, Settled
<1>4. CASE page # "login"
  <2>1. session' = session /\ Self' = Self /\ session # None
    BY <1>1, <1>4 DEF Self
  <2>2. PageOK' /\ PendingOK' BY <1>2, <1>4 DEF PageOK, PendingOK, Settled
  <2>3. ~ revived /\ store.of = Self => store'.of = Self BY DEF SameUser
  <2>4. CASE view.at # "keys" \/ view.on # o
    <3>1. view' = view BY <2>4
    <3>2. view.at = "keys" => Loading(view.on)'
      <4> SUFFICES ASSUME view.at = "keys" PROVE Loading(view.on)' OBVIOUS
      <4>1. view.on # o /\ Loading(view.on) BY <2>4 DEF BInv, ViewOK
      <4> QED BY <2>1, <4>1, LoadingKept
    <3>3. ViewOK' BY <2>1, <2>3, <3>1, <3>2 DEF BInv, ViewOK, Loading
    <3> QED BY <1>2, <2>2, <3>3 DEF BInv
  <2>5. CASE view.at = "keys" /\ view.on = o
    <3>1. Loading(o) BY <2>5 DEF BInv, ViewOK
    <3>2. view'.at = "ready" \/ view'.at = "failed"
      BY <2>5 DEF ViewOK
    <3>3. view'.at = "ready" /\ ~ revived => store'.of = Self
      BY <2>1, <2>5, <3>1 DEF SameUser, Loading
    <3>4. ViewOK' BY <2>1, <3>2, <3>3 DEF ViewOK
    <3> QED BY <1>2, <2>2, <3>4 DEF BInv
  <2> QED BY <2>4, <2>5
<1> QED BY <1>3, <1>4

LEMMA HandleListInv ==
    ASSUME WInv, NEW o \in Slots, HandleList(o) PROVE AnswersOK' /\ BInv'
<1> USE DEF HandleList, WInv, Delivered
<1>1. session' \in Tokens \cup {None} /\ (page # "login" => session' # None /\ session' = session)
  BY DEF Kept, Stays, BInv, SessionOK, PageOK
<1>2. AnswersOK' /\ SessionOK' /\ AwaitedOK' /\ (page' # "login" => session' # None)
  BY <1>1, TakenBase
<1>3. CASE page = "login"
  BY <1>2, <1>3 DEF BInv, PageOK, PendingOK, ViewOK, NoView
<1>4. CASE page # "login"
  <2>1. session' = session /\ Self' = Self BY <1>1, <1>4 DEF Self
  <2>2. \A x : Loading(x) => Loading(x)'
    <3> SUFFICES ASSUME NEW x, Loading(x) PROVE Loading(x)' OBVIOUS
    <3>1. x # o BY DEF Loading
    <3> QED BY <2>1, <3>1, LoadingKept
  <2>3. PageOK' BY <1>2, <1>4 DEF PageOK
  <2>4. PendingOK' BY <2>2 DEF BInv, PendingOK
  <2>5. ViewOK' BY <2>1, <2>2 DEF BInv, ViewOK
  <2> QED BY <1>2, <2>3, <2>4, <2>5 DEF BInv
<1> QED BY <1>3, <1>4

LEMMA ChangePasswordInv ==
    ASSUME WInv, NEW o \in Slots, NEW p \in Passwords, NEW n \in Passwords, ChangePassword(o, p, n)
    PROVE  AnswersOK' /\ BInv'
<1> USE DEF ChangePassword, WInv
<1> DEFINE r == [Blank EXCEPT !.kind = "change", !.token = session, !.pw = p, !.new = n]
<1>1. Sends(o, r) /\ r.kind = "change" BY DEF Blank
<1> HIDE DEF r
<1>2. /\ AnswersOK' /\ SessionOK' /\ AwaitedOK' /\ (page' # "login" => session' # None)
      /\ \A x : Loading(x) => Loading(x)'
  BY <1>1, SentBase
<1>3. PageOK' BY <1>2 DEF PageOK
<1>4. PendingOK' /\ ViewOK' BY <1>2 DEF BInv, PendingOK, ViewOK, Self
<1> QED BY <1>2, <1>3, <1>4 DEF BInv

LEMMA LogoutInv ==
    ASSUME WInv, NEW o \in Slots, Logout(o) PROVE AnswersOK' /\ BInv'
<1> USE DEF Logout, WInv
<1> DEFINE r == [Blank EXCEPT !.kind = "logout", !.token = session]
<1>1. Sends(o, r) /\ r.kind = "logout" BY DEF Blank
<1> HIDE DEF r
<1>2. /\ AnswersOK' /\ SessionOK' /\ AwaitedOK' /\ (page' # "login" => session' # None)
      /\ \A x : Loading(x) => Loading(x)'
  BY <1>1, SentBase
<1>3. PageOK' BY <1>2 DEF PageOK
<1>4. PendingOK' /\ ViewOK' BY <1>2 DEF BInv, PendingOK, ViewOK, Self
<1> QED BY <1>2, <1>3, <1>4 DEF BInv

LEMMA FetchListInv ==
    ASSUME WInv, NEW o \in Slots, FetchList(o) PROVE AnswersOK' /\ BInv'
<1> USE DEF FetchList, WInv
<1> DEFINE r == [Blank EXCEPT !.kind = "list", !.token = session]
<1>1. Sends(o, r) /\ r.kind = "list" BY DEF Blank
<1> HIDE DEF r
<1>2. /\ AnswersOK' /\ SessionOK' /\ AwaitedOK' /\ (page' # "login" => session' # None)
      /\ \A x : Loading(x) => Loading(x)'
  BY <1>1, SentBase
<1>3. PageOK'
  <2>1. page # "login" BY DEF BInv, PageOK, NoView
  <2> QED BY <1>2, <2>1 DEF PageOK
<1>4. PendingOK' BY <1>2 DEF BInv, PendingOK
<1>5. ViewOK' BY <1>2 DEF BInv, ViewOK, Self
<1> QED BY <1>2, <1>3, <1>4, <1>5 DEF BInv

\* What asking for the keys comes to: nothing is awaited, or a load of this user.
LEMMA EnsureLoadedKept ==
    ASSUME WInv, NEW o \in Slots, NEW force \in BOOLEAN, EnsureLoaded(force, o),
           page # "login", session' = session, revived' = revived, page' = "app", page \in {"entering", "app"}
    PROVE  /\ AnswersOK' /\ SessionOK' /\ AwaitedOK' /\ session' # None
           /\ \A x : Loading(x) => Loading(x)'
           /\ PendingOK'
           /\ Immediate(force) => store'.of = Self
           /\ ~ Immediate(force) => Loading(pending)' /\ store' = store
           /\ store.of = Self => store'.of = Self
<1> USE DEF WInv
<1>1. session # None BY DEF BInv, PageOK
<1>2. CASE Ensured(force)
  <2>1. UNCHANGED <<accounts, awaited>> /\ pending' = pending /\ Immediate(force)
    BY <1>1, <1>2 DEF Ensured
  <2>2. UNCHANGED <<pc, req, ans>> BY <2>1 DEF accounts, tasks
  <2>3. AnswersOK' BY <2>2 DEF AnswersOK, Ok
  <2>4. SessionOK' /\ AwaitedOK'
    <3>1. page = "login" => page' = "login" OBVIOUS
    <3> QED BY <2>1, <2>2, <3>1 DEF BInv, SessionOK, AwaitedOK
  <2>5. \A x : Loading(x) => Loading(x)' BY <2>1, <2>2 DEF Loading, Self
  <2>6. PendingOK' BY <2>1, <2>5 DEF BInv, PendingOK
  <2>7. store'.of = Self BY <1>1, <1>2 DEF Ensured, Immediate
  <2> QED BY <1>1, <2>1, <2>3, <2>4, <2>5, <2>6, <2>7
<1>3. CASE Joined(force)
  <2>1. UNCHANGED <<accounts, awaited, store, pending>> /\ pending # None /\ ~ Immediate(force)
    BY <1>3 DEF Joined
  <2>2. UNCHANGED <<pc, req, ans>> BY <2>1 DEF accounts, tasks
  <2>3. AnswersOK' BY <2>2 DEF AnswersOK, Ok
  <2>4. SessionOK' /\ AwaitedOK' BY <2>1, <2>2 DEF BInv, SessionOK, AwaitedOK
  <2>5. \A x : Loading(x) => Loading(x)' BY <2>1, <2>2 DEF Loading, Self
  <2>6. PendingOK' /\ Loading(pending)' BY <2>1, <2>5 DEF BInv, PendingOK
  <2> QED BY <1>1, <2>1, <2>3, <2>4, <2>5, <2>6
<1>4. CASE Started(force, o)
  <2> DEFINE r == [Blank EXCEPT !.kind = "mine", !.token = session]
  <2>1. Sends(o, r) /\ r.kind = "mine" /\ r.token = session BY <1>4 DEF Started, Blank
  <2>2. pending' = o /\ ~ Immediate(force) /\ store' = store BY <1>4 DEF Started
  <2> HIDE DEF r
  <2>3. /\ AnswersOK' /\ SessionOK' /\ AwaitedOK' /\ (page' # "login" => session' # None)
        /\ \A x : Loading(x) => Loading(x)'
        /\ Loading(o)'
    <3>1. page' = page \/ (page = "entering" /\ page' = "app") OBVIOUS
    <3> QED BY <2>1, <3>1, SentBase
  <2> QED BY <1>1, <2>2, <2>3 DEF PendingOK
<1> QED BY <1>2, <1>3, <1>4 DEF EnsureLoaded

LEMMA LayoutMountInv ==
    ASSUME WInv, NEW o \in Slots, LayoutMount(o) PROVE AnswersOK' /\ BInv'
<1> USE DEF LayoutMount
<1>1. /\ AnswersOK' /\ SessionOK' /\ AwaitedOK' /\ session' # None
      /\ \A x : Loading(x) => Loading(x)'
      /\ PendingOK' /\ (store.of = Self => store'.of = Self)
  BY EnsureLoadedKept
<1>2. PageOK' BY <1>1 DEF PageOK
<1>3. ViewOK' BY <1>1 DEF WInv, BInv, ViewOK, Self
<1> QED BY <1>1, <1>2, <1>3 DEF BInv

LEMMA OpenInv ==
    ASSUME WInv, NEW o \in Slots, NEW force \in BOOLEAN, Open(o, force) PROVE AnswersOK' /\ BInv'
<1> USE DEF Open
<1>1. /\ AnswersOK' /\ SessionOK' /\ AwaitedOK' /\ session' # None
      /\ PendingOK'
      /\ Immediate(force) => store'.of = Self
      /\ ~ Immediate(force) => Loading(pending)'
  BY EnsureLoadedKept
<1>2. PageOK' BY <1>1 DEF PageOK
<1>3. /\ Immediate(force) => view'.at = "ready"
      /\ ~ Immediate(force) => view'.at = "keys" /\ view'.on = pending'
  BY DEF NoView
<1>4. ViewOK' BY <1>1, <1>3 DEF ViewOK, Self
<1> QED BY <1>1, <1>2, <1>4 DEF BInv

\* What the server and others do.
LEMMA ServerInv == ASSUME WInv, NEW o \in Slots, Server(o) PROVE AnswersOK' /\ BInv'
<1>1. /\ req' = req /\ \A p \in Slots : pc'[p] = "idle" <=> pc[p] = "idle"
      /\ AnswersOK'
  BY Served DEF WInv, Server
<1>2. \A p \in awaited : pc'[p] # "idle" /\ req'[p] = req[p]
  BY <1>1 DEF WInv, BInv, SessionOK, AwaitedOK
<1> QED BY <1>1, <1>2, Quiet DEF WInv, Server

LEMMA DroppedInv == ASSUME WInv, NEW o \in Slots, Dropped(o) PROVE AnswersOK' /\ BInv'
<1>1. /\ \A p \in Slots : p # o => pc'[p] = pc[p] /\ req'[p] = req[p]
      /\ AnswersOK'
  BY Left DEF WInv, Dropped
<1>2. \A p \in awaited : pc'[p] # "idle" /\ req'[p] = req[p]
  BY <1>1 DEF WInv, BInv, SessionOK, AwaitedOK, Dropped
<1> QED BY <1>1, <1>2, Quiet DEF WInv, Dropped

LEMMA ElsewhereInv ==
    ASSUME WInv, NEW o \in Slots, NEW r, Elsewhere(o, r) PROVE AnswersOK' /\ BInv'
<1>1. PICK q : Ask(o, q) BY DEF Elsewhere
<1>2. /\ pc[o] = "idle"
      /\ \A p \in Slots : p # o => pc'[p] = pc[p] /\ req'[p] = req[p]
      /\ AnswersOK'
  BY <1>1, Asked DEF WInv
<1>3. \A p \in awaited : pc'[p] # "idle" /\ req'[p] = req[p]
  BY <1>2 DEF WInv, BInv, SessionOK, AwaitedOK
<1> QED BY <1>2, <1>3, Quiet DEF WInv, Elsewhere

LEMMA StillInv == ASSUME WInv, UNCHANGED <<pc, req, ans>>, UNCHANGED browser PROVE AnswersOK' /\ BInv'
<1>1. AnswersOK' BY DEF WInv, AnswersOK, Ok
<1>2. \A p \in awaited : pc'[p] # "idle" /\ req'[p] = req[p] BY DEF WInv, BInv, AwaitedOK
<1> QED BY <1>1, <1>2, Quiet DEF WInv
-----------------------------------------------------------------------------
LEMMA BrowserStep == ASSUME WInv, [WNext]_web PROVE AnswersOK' /\ BInv'
<1>1. CASE Boot /\ UNCHANGED browser BY <1>1, StillInv DEF Boot, tasks
<1>2. CASE Reload BY <1>2, ReloadInv
<1>3. ASSUME NEW o \in Slots,
             \/ Server(o) \/ Dropped(o) \/ Unauthorized(o)
             \/ \E u \in Users, p \in Passwords : SubmitLogin(o, u, p)
             \/ \E p, n \in Passwords : ChangePassword(o, p, n)
             \/ HandleLogin(o) \/ HandleChange(o) \/ Logout(o) \/ HandleLogout(o)
             \/ LayoutMount(o) \/ HandleLoad(o) \/ FetchList(o) \/ HandleList(o)
             \/ \E force \in BOOLEAN : Open(o, force)
             \/ \E r \in Resets \cup Creations \cup Hidings : Elsewhere(o, r)
      PROVE  AnswersOK' /\ BInv'
  BY <1>3, ServerInv, DroppedInv, UnauthorizedInv, SubmitLoginInv, ChangePasswordInv,
     HandleLoginInv, HandleChangeInv, LogoutInv, HandleLogoutInv, LayoutMountInv, HandleLoadInv,
     FetchListInv, HandleListInv, OpenInv, ElsewhereInv
<1>4. CASE UNCHANGED web BY <1>4, StillInv DEF web, accounts, tasks
<1> QED BY <1>1, <1>2, <1>3, <1>4 DEF WNext

\* Every step of the tab and the server is a step of Accounts or leaves it alone.
LEMMA AccountsStep == ASSUME WInv, [WNext]_web PROVE [ANext]_accounts
<1>1. CASE Boot /\ UNCHANGED browser BY <1>1 DEF ANext
<1>2. CASE Reload BY <1>2 DEF Reload
<1>3. ASSUME NEW o \in Slots, Server(o) \/ Dropped(o) \/ Unauthorized(o) PROVE [ANext]_accounts
  BY <1>3 DEF Server, Dropped, Unauthorized, ANext
<1>4. ASSUME NEW o \in Slots,
             HandleLogin(o) \/ HandleChange(o) \/ HandleLogout(o) \/ HandleLoad(o) \/ HandleList(o)
      PROVE  [ANext]_accounts
  BY <1>4 DEF HandleLogin, HandleChange, HandleLogout, HandleLoad, HandleList, Taken, ANext
<1>5. ASSUME NEW o \in Slots, NEW r, Sound(r), Ask(o, r) PROVE [ANext]_accounts
  BY <1>5 DEF ANext, Sound
<1>6. SessionOK BY DEF WInv, BInv
<1>7. ASSUME NEW o \in Slots, NEW u \in Users, NEW p \in Passwords, SubmitLogin(o, u, p)
      PROVE  [ANext]_accounts
  BY <1>5, <1>6, <1>7, SoundRequests DEF SubmitLogin, Sends
<1>8. ASSUME NEW o \in Slots, NEW p \in Passwords, NEW n \in Passwords, ChangePassword(o, p, n)
      PROVE  [ANext]_accounts
  <2>1. Root \in Users BY AccountsAssumption
  <2> QED BY <1>5, <1>6, <1>8, <2>1, SoundRequests DEF ChangePassword, Sends
<1>9. \A k \in {"logout", "mine", "list"} : Sound([Blank EXCEPT !.kind = k, !.token = session])
  BY <1>6, SoundRequests, AccountsAssumption
<1>10. ASSUME NEW o \in Slots, Logout(o) \/ FetchList(o) PROVE [ANext]_accounts
  BY <1>5, <1>9, <1>10 DEF Logout, FetchList, Sends
<1>11. ASSUME NEW o \in Slots, NEW force \in BOOLEAN, EnsureLoaded(force, o) PROVE [ANext]_accounts
  BY <1>5, <1>9, <1>11 DEF EnsureLoaded, Ensured, Joined, Started, Sends
<1>12. ASSUME NEW o \in Slots, LayoutMount(o) \/ \E force \in BOOLEAN : Open(o, force)
       PROVE  [ANext]_accounts
  BY <1>11, <1>12 DEF LayoutMount, Open
<1>13. ASSUME NEW o \in Slots, NEW r \in Resets \cup Creations \cup Hidings, Elsewhere(o, r)
       PROVE  [ANext]_accounts
  BY <1>5, <1>13, SoundElsewhere DEF Elsewhere, WInv
<1>14. CASE UNCHANGED web BY <1>14 DEF web
<1> QED
  BY <1>1, <1>2, <1>3, <1>4, <1>7, <1>8, <1>10, <1>12, <1>13, <1>14 DEF WNext

LEMMA WStepInv == WInv /\ [WNext]_web => WInv'
<1> SUFFICES ASSUME WInv, [WNext]_web PROVE WInv' OBVIOUS
<1>1. AInv' BY AccountsStep, StepInv DEF WInv
<1> QED BY <1>1, BrowserStep DEF WInv

\* The inductive invariant of the tab and the server together.
THEOREM WebInvariance == WSpec => []WInv
<1>1. WInit => WInv BY InitW, InitInv DEF WInit, WInv
<1> QED BY <1>1, WStepInv, PTL DEF WSpec

\* The tab beside the server implements the server's specification: its requests are
\* requests the routes let through, and an answer it handles is one that is left.
THEOREM WebIsAClient == WSpec => ASpec
<1>1. WInit => AInit BY DEF WInit
<1>2. WInv /\ [WNext]_web => [ANext]_accounts BY AccountsStep
<1> QED BY <1>1, <1>2, WebInvariance, PTL DEF WSpec, ASpec

\* With the tab, too, no session outlives the password it was opened with.
THEOREM WebTokens == WSpec => []TokenProvesPassword
  BY WebIsAClient, SessionEndsWithPassword, PTL

\* ensureLoaded joins only loads that are under way (LoadIsPending): the clearing of
\* pendingLoad in a load's finally, by whichever load it is, never leaves a mark behind.
THEOREM PendingLoads == WSpec => []LoadIsPending
<1>1. WInv => LoadIsPending
  BY DEF WInv, BInv, AwaitedOK, PendingOK, Loading, LoadIsPending
<1> QED BY <1>1, WebInvariance, PTL

\* A list that is shown was filtered with the keys of whoever is logged in
\* (ShownWasFiltered), across logins, logouts, forced and joined loads.
THEOREM ListsAreFiltered == WSpec => []ShownWasFiltered
<1>1. WInv => ShownWasFiltered
  BY DEF WInv, BInv, PageOK, ViewOK, NoView, ShownWasFiltered
<1> QED BY <1>1, WebInvariance, PTL

-----------------------------------------------------------------------------
\* The types of what the tab keeps.
Stores == [nets : SUBSET Networks, init : BOOLEAN, of : Users \cup {None}]
Places == {"off", "keys", "ready", "list", "shown", "failed"}
ViewsOf == [at : Places, on : Slots \cup {None},
            since : SUBSET Networks, nets : SUBSET Networks, of : Users \cup {None}]
Tab ==
    /\ store \in Stores /\ pending \in Slots \cup {None} /\ view \in ViewsOf
    /\ page \in {"login", "entering", "app"} /\ revived \in BOOLEAN

LEMMA FreshTab ==
    ASSUME NEW next \in {"login", "entering", "app"}, Fresh(next) PROVE Tab'
  BY DEF Fresh, Tab, Stores, Places, ViewsOf, NoKeys, NoView

LEMMA EnsuredTab ==
    ASSUME WInv, Tab, NEW o \in Slots, NEW force \in BOOLEAN, EnsureLoaded(force, o)
    PROVE  /\ store' \in Stores /\ pending' \in Slots \cup {None}
           /\ ~ Immediate(force) => pending' \in Slots \cup {None}
<1>1. session # None => session.sub \in Users BY DEF WInv, BInv, SessionOK, Tokens
<1>2. CASE Ensured(force)
  BY <1>1, <1>2 DEF Ensured, Tab, Stores, NoKeys, Self
<1>3. CASE Joined(force) BY <1>3 DEF Joined, Tab
<1>4. CASE Started(force, o) BY <1>4 DEF Started, Tab
<1> QED BY <1>2, <1>3, <1>4 DEF EnsureLoaded

LEMMA TabStep == ASSUME WInv, Tab, [WNext]_web PROVE Tab'
<1>1. CASE UNCHANGED browser BY <1>1 DEF browser, Tab
<1>2. CASE Reload
  <2>1. PICK next \in {"login", "entering", "app"} : Fresh(next) BY <1>2 DEF Reload
  <2> QED BY <2>1, FreshTab
<1>3. ASSUME NEW o \in Slots, Unauthorized(o) PROVE Tab' BY <1>3, FreshTab DEF Unauthorized
<1>4. ASSUME NEW o \in Slots,
             \/ \E u \in Users, p \in Passwords : SubmitLogin(o, u, p)
             \/ \E p, n \in Passwords : ChangePassword(o, p, n)
             \/ Logout(o) \/ HandleLogin(o) \/ HandleChange(o)
      PROVE  Tab'
  BY <1>4 DEF SubmitLogin, ChangePassword, Logout, HandleLogin, HandleChange, Tab
<1>5. ASSUME NEW o \in Slots, HandleLogout(o) PROVE Tab'
  BY <1>5 DEF HandleLogout, Tab, Stores, Places, ViewsOf, NoKeys, NoView
<1>6. ASSUME NEW o \in Slots, LayoutMount(o) PROVE Tab'
  BY <1>6, EnsuredTab DEF LayoutMount, Tab
<1>7. ASSUME NEW o \in Slots, NEW force \in BOOLEAN, Open(o, force) PROVE Tab'
  <2>1. store' \in Stores /\ pending' \in Slots \cup {None} BY <1>7, EnsuredTab DEF Open
  <2>2. session # None BY <1>7 DEF Open, WInv, BInv, PageOK
  <2>3. hidden[Self] \in SUBSET Networks
    BY <2>2 DEF Self, WInv, AInv, ATypeOK, BInv, SessionOK, Tokens
  <2>4. view' \in ViewsOf BY <1>7, <2>1, <2>3 DEF Open, ViewsOf, Places, NoView
  <2> QED BY <1>7, <2>1, <2>4 DEF Open, Tab
<1>8. ASSUME NEW o \in Slots, HandleLoad(o) PROVE Tab'
  <2>1. ans[o].nets \in SUBSET Networks BY DEF WInv, AInv, ATypeOK
  <2>2. SameUser(o) => req[o].token.sub \in Users
    BY DEF SameUser, Self, WInv, BInv, SessionOK, Tokens
  <2>3. store' \in Stores BY <1>8, <2>1, <2>2 DEF HandleLoad, Tab, Stores
  <2>4. view' \in ViewsOf BY <1>8 DEF HandleLoad, Tab, ViewsOf, Places
  <2> QED BY <1>8, <2>3, <2>4 DEF HandleLoad, Tab, Settled
<1>9. ASSUME NEW o \in Slots, FetchList(o) PROVE Tab'
  BY <1>9 DEF FetchList, Tab, ViewsOf, Places
<1>10. ASSUME NEW o \in Slots, HandleList(o) PROVE Tab'
  <2>1. view' \in ViewsOf
    BY <1>10 DEF HandleList, Tab, Stores, ViewsOf, Places
  <2> QED BY <1>10, <2>1 DEF HandleList, Tab
<1>11. CASE UNCHANGED web BY <1>1, <1>11 DEF web
<1> QED
  BY <1>1, <1>2, <1>3, <1>4, <1>5, <1>6, <1>7, <1>8, <1>9, <1>10, <1>11
  DEF WNext, Server, Dropped, Elsewhere

\* The tab, too, keeps its types (WTypeOK).
THEOREM WebTypes == WSpec => []WTypeOK
<1>1. WInit => Tab
  <2> SUFFICES ASSUME WInit PROVE Tab OBVIOUS
  <2>1. NoKeys \in Stores BY DEF NoKeys, Stores
  <2>2. NoView \in ViewsOf BY DEF NoView, ViewsOf, Places
  <2>3. page \in {"login", "entering", "app"} BY DEF WInit
  <2> QED BY <2>1, <2>2, <2>3 DEF WInit, Tab
<1>2. WInv /\ Tab => WTypeOK
  BY DEF WInv, AInv, BInv, SessionOK, Tab, Stores, Places, ViewsOf, WTypeOK
<1>3. WInv /\ Tab /\ [WNext]_web => Tab' BY TabStep
<1> QED BY <1>1, <1>2, <1>3, WebInvariance, PTL DEF WSpec
=============================================================================
