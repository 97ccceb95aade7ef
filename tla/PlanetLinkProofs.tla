-------------------------- MODULE PlanetLinkProofs --------------------------
(***************************************************************************)
(* For any requests, number of tries and database failures: the types, a   *)
(* link has a file, and the service implements the abstract download link. *)
(***************************************************************************)
EXTENDS PlanetLink, TLAPS

Answers == [says : {"nothing", "done", "refused", "got"},
            link : Tokens \cup {None}, file : Ops \cup {None}]

RowType == [exists : BOOLEAN, file : Ops \cup {None}, token : Tokens \cup {None}]
TaskType == [pc : {"idle", "look", "check", "write", "reread", "done"},
             kind : AllKinds \cup {None}, tries : 0..MaxTries,
             token : Tokens \cup {None}]

\* A controller that is gone has neither file nor link.
RemovedIsBare == ~ row.exists => row.file = None /\ row.token = None

\* No link of a request is in use before the request has tried it: a new link was
\* never in use.
SpentWasTried ==
    /\ row.token # None => row.token \in spent
    /\ \A o \in Ops, n \in 1..MaxTries : <<o, n>> \in spent => n <= task[o].tries

\* A request has no answer before it is done, no kind before it arrives, at least
\* one try left whenever it is about to try, and brings a link if it downloads.
Phase(o) ==
    /\ task[o].pc # "done" => answer[o] = Says("nothing")
    /\ task[o].pc = "idle" => task[o] = Blank
    /\ task[o].pc \in {"look", "check"} => task[o].tries = 0
    /\ task[o].pc = "write" => task[o].tries < MaxTries
    /\ task[o].kind = "download" => task[o].token # None

Phases == \A o \in Ops : Phase(o)

Inv == TypeOK /\ LinkHasFile /\ RemovedIsBare /\ SpentWasTried /\ Phases

-----------------------------------------------------------------------------
LEMMA InitInv == Init => Inv
  BY LinkAssumption, SMT DEF Init, Inv, TypeOK, LinkHasFile, RemovedIsBare,
     SpentWasTried, Phases, Phase, Blank, Bare, Says, AllKinds

\* A request that ends without a change of the row.
LEMMA EndKeepsInv ==
    ASSUME Inv, NEW o \in Ops, NEW a \in Answers, task[o].pc \notin {"idle", "done"},
           End(o, a), UNCHANGED <<row, spent>>, faults' \in 0..MaxFaults
    PROVE  Inv'
<1>1. TypeOK'
  BY SMT DEF Inv, TypeOK, End, Answers
<1>2. (LinkHasFile /\ RemovedIsBare)'
  BY SMT DEF Inv, LinkHasFile, RemovedIsBare, HasFile
<1>3. SpentWasTried'
  BY SMT DEF Inv, TypeOK, SpentWasTried, End
<1>4. Phases'
  BY SMT DEF Inv, TypeOK, Phases, Phase, End, Says, Blank
<1> QED
  BY <1>1, <1>2, <1>3, <1>4 DEF Inv

\* A request that goes on without a change of the row.
LEMMA GoKeepsInv ==
    ASSUME Inv, NEW o \in Ops, NEW l \in {"check", "write"},
           task[o].pc \notin {"idle", "done"},
           l = "check" => task[o].tries = 0,
           task[o].tries < MaxTries,
           Go(o, l), UNCHANGED <<row, spent, faults>>
    PROVE  Inv'
<1>1. TypeOK'
  BY SMT DEF Inv, TypeOK, Go
<1>2. (LinkHasFile /\ RemovedIsBare)'
  BY SMT DEF Inv, LinkHasFile, RemovedIsBare, HasFile
<1>3. SpentWasTried'
  BY SMT DEF Inv, TypeOK, SpentWasTried, Go
<1>4. Phases'
  BY SMT DEF Inv, TypeOK, Phases, Phase, Go, Says, Blank
<1> QED
  BY <1>1, <1>2, <1>3, <1>4 DEF Inv

LEMMA AnswerTypes ==
    ASSUME TypeOK
    PROVE  /\ Says("done") \in Answers /\ Says("refused") \in Answers
           /\ Got(row.token, None) \in Answers
           /\ Got(row.token, row.file) \in Answers
  BY SMT DEF TypeOK, Says, Got, Answers

LEMMA CallKeepsInv == ASSUME Inv, NEW o \in Ops, Call(o) PROVE Inv'
<1> PICK k \in Kinds, t \in spent \cup {None} :
       /\ k = "download" <=> t # None
       /\ task' = [task EXCEPT ![o] =
                     [pc |-> "look", kind |-> k, tries |-> 0, token |-> t]]
  BY DEF Call
<1>1. task[o].pc = "idle" /\ UNCHANGED <<row, answer, spent, faults>>
  BY DEF Call
<1>2. task'[o] = [pc |-> "look", kind |-> k, tries |-> 0, token |-> t]
  BY SMT DEF Inv, TypeOK, Blank
<1>3. \A p \in Ops \ {o} : task'[p] = task[p]
  BY SMT DEF Inv, TypeOK
<1>4. TypeOK'
  BY <1>1, <1>2, <1>3, LinkAssumption, SMT DEF Inv, TypeOK, Blank
<1>5. (LinkHasFile /\ RemovedIsBare)'
  BY <1>1, SMT DEF Inv, LinkHasFile, RemovedIsBare, HasFile
<1>6. SpentWasTried'
  BY <1>1, <1>2, <1>3, SMT DEF Inv, TypeOK, SpentWasTried, Phases, Phase, Blank
<1>7. Phases'
  BY <1>1, <1>2, <1>3, LinkAssumption, SMT DEF Inv, TypeOK, Phases, Phase, Says, Blank
<1> QED
  BY <1>4, <1>5, <1>6, <1>7 DEF Inv

LEMMA LookKeepsInv == ASSUME Inv, NEW o \in Ops, Look(o) PROVE Inv'
<1>1. /\ task[o].pc = "look" /\ task[o].tries = 0 /\ 0 < MaxTries
      /\ faults \in 0..MaxFaults /\ UNCHANGED <<row, spent, faults>>
  BY LinkAssumption, SMT DEF Look, Inv, TypeOK, Phases, Phase
<1>2. \/ Go(o, "write") \/ Go(o, "check")
      \/ End(o, Says("refused")) \/ End(o, Got(row.token, None))
  BY Zenon DEF Look
<1> QED
  BY <1>1, <1>2, GoKeepsInv, EndKeepsInv, AnswerTypes DEF Inv

LEMMA RereadKeepsInv == ASSUME Inv, NEW o \in Ops, Reread(o) PROVE Inv'
<1>1. /\ task[o].pc = "reread"
      /\ faults \in 0..MaxFaults /\ UNCHANGED <<row, spent, faults>>
  BY SMT DEF Reread, Inv, TypeOK
<1>2. \/ task[o].tries < MaxTries /\ Go(o, "write")
      \/ End(o, Says("refused")) \/ End(o, Got(row.token, None))
  BY DEF Reread
<1> QED
  BY <1>1, <1>2, GoKeepsInv, EndKeepsInv, AnswerTypes DEF Inv

LEMMA ReaderKeepsInv ==
    ASSUME Inv, NEW o \in Ops, Unacceptable(o) \/ Check(o) \/ Download(o) \/ ReadFails(o)
    PROVE  Inv'
<1>1. CASE Unacceptable(o)
  <2>1. /\ task[o].pc = "look" /\ End(o, Says("refused"))
        /\ faults \in 0..MaxFaults /\ UNCHANGED <<row, spent, faults>>
    BY <1>1, SMT DEF Unacceptable, At, Inv, TypeOK
  <2> QED
    BY <2>1, EndKeepsInv, AnswerTypes DEF Inv
<1>2. CASE Check(o)
  <2>1. /\ task[o].pc = "check" /\ task[o].tries < MaxTries
        /\ End(o, Says("refused")) \/ Go(o, "write")
        /\ faults \in 0..MaxFaults /\ UNCHANGED <<row, spent, faults>>
    BY <1>2, LinkAssumption, SMT DEF Check, At, Inv, TypeOK, Phases, Phase
  <2> QED
    BY <2>1, EndKeepsInv, GoKeepsInv, AnswerTypes DEF Inv
<1>3. CASE Download(o)
  <2>1. /\ task[o].pc = "look"
        /\ End(o, Says("refused")) \/ End(o, Got(row.token, row.file))
        /\ faults \in 0..MaxFaults /\ UNCHANGED <<row, spent, faults>>
    BY <1>3, SMT DEF Download, At, Inv, TypeOK
  <2> QED
    BY <2>1, EndKeepsInv, AnswerTypes DEF Inv
<1>4. CASE ReadFails(o)
  <2>1. /\ task[o].pc \notin {"idle", "done"} /\ End(o, Says("refused"))
        /\ faults' \in 0..MaxFaults /\ UNCHANGED <<row, spent>>
    BY <1>4, LinkAssumption, SMT DEF ReadFails, Fault, Inv, TypeOK
  <2> QED
    BY <2>1, EndKeepsInv, AnswerTypes DEF Inv
<1> QED
  BY <1>1, <1>2, <1>3, <1>4

\* A request sets its next token, and tells it or is refused.
LEMMA TryKeepsInv == ASSUME Inv, NEW o \in Ops, Try(o) PROVE Inv'
<1> DEFINE t == <<o, task[o].tries + 1>>
<1>1. task[o].pc = "write" /\ task[o].tries + 1 \in 1..MaxTries /\ t \in Tokens
  BY SMT DEF Try, Inv, TypeOK, Phases, Phase, Tokens
<1>2. /\ task' \in [Ops -> TaskType]
      /\ task'[o].pc \in {"done", "reread"} /\ task'[o].tries = task[o].tries + 1
      /\ task'[o].kind = task[o].kind /\ task'[o].token = task[o].token
      /\ \A p \in Ops : p # o => task'[p] = task[p]
  BY <1>1, SMT DEF Try, Inv, TypeOK, TaskType
<1>3. /\ answer' \in [Ops -> Answers]
      /\ \A p \in Ops : p # o \/ task'[o].pc # "done" => answer'[p] = answer[p]
  BY <1>1, SMT DEF Try, Inv, TypeOK, Answers, Got, Says
<1>4. /\ row' \in RowType /\ row'.exists = row.exists /\ row'.file = row.file
      /\ \/ UNCHANGED <<row, spent>>
         \/ HasFile /\ row'.token = t /\ spent' = spent \cup {t}
  <2>1. UNCHANGED <<row, spent>> \/ (HasFile /\ SetToken(t))
    BY SMT DEF Try, Unlinked
  <2> QED
    BY <1>1, <2>1, SMT DEF Inv, TypeOK, RowType, SetToken
<1>5. faults' \in 0..MaxFaults
  BY SMT DEF Try, Fault, Inv, TypeOK
<1>6. TypeOK'
  <2>1. row' \in RowType /\ task' \in [Ops -> TaskType] /\ answer' \in [Ops -> Answers]
    BY <1>2, <1>3, <1>4
  <2>2. spent' \subseteq Tokens
    BY <1>1, <1>4, SMT DEF Inv, TypeOK
  <2> QED
    BY <1>5, <2>1, <2>2, Zenon DEF TypeOK, TaskType, RowType, Answers
<1>7. (LinkHasFile /\ RemovedIsBare)'
  BY <1>4, SMT DEF Inv, TypeOK, LinkHasFile, RemovedIsBare, HasFile
<1>8. SpentWasTried'
  <2>1. row'.token # None => row'.token \in spent'
    BY <1>1, <1>4, SMT DEF Inv, TypeOK, SpentWasTried
  <2>2. ASSUME NEW p \in Ops, NEW n \in 1..MaxTries, <<p, n>> \in spent'
        PROVE  n <= task'[p].tries
    <3>1. <<p, n>> \in spent \/ (p = o /\ n = task[o].tries + 1)
      BY <1>4, <2>2, SMT
    <3>2. task[p].tries \in Nat /\ task'[p].tries \in Nat
      BY <1>2, SMT DEF Inv, TypeOK, TaskType
    <3> QED
      BY <1>2, <3>1, <3>2, SMT DEF Inv, SpentWasTried
  <2> QED
    BY <2>1, <2>2 DEF SpentWasTried
<1>9. Phases'
  BY <1>1, <1>2, <1>3, SMT DEF Inv, TypeOK, Phases, Phase, Says, Blank
<1> QED
  BY <1>6, <1>7, <1>8, <1>9 DEF Inv

LEMMA UpdateKeepsInv ==
    ASSUME Inv, NEW o \in Ops, Upload(o) \/ Withdraw(o) \/ Remove(o) PROVE Inv'
<1>1. task[o].pc = "write" /\ UNCHANGED spent
  BY Zenon DEF Upload, Withdraw, Remove, Update, At
<1>2. faults' \in 0..MaxFaults
  <2>1. UNCHANGED faults \/ Fault
    BY Zenon DEF Upload, Withdraw, Remove, Update
  <2> QED
    BY <2>1, LinkAssumption, SMT DEF Fault, Inv, TypeOK
<1>3. PICK a \in Answers : End(o, a)
  BY AnswerTypes, Zenon DEF Upload, Withdraw, Remove, Update, Inv
<1>4. /\ row' \in RowType
      /\ \/ UNCHANGED row
         \/ row'.exists /\ row'.file = o /\ row'.token = row.token
         \/ row'.file = None /\ row'.token = None
  <2>1. \/ UNCHANGED row
        \/ row.exists /\ row' = [row EXCEPT !.file = o]
        \/ row' = Bare(TRUE) \/ row' = Bare(FALSE)
    BY Zenon DEF Upload, Withdraw, Remove, Update
  <2> USE DEF Inv, TypeOK, RowType
  <2>2. CASE UNCHANGED row
    BY <2>2
  <2>3. CASE row.exists /\ row' = [row EXCEPT !.file = o]
    BY <2>3, SMT
  <2>4. CASE row' = Bare(TRUE)
    BY <2>4, SMT DEF Bare
  <2>5. CASE row' = Bare(FALSE)
    BY <2>5, SMT DEF Bare
  <2> QED
    BY <2>1, <2>2, <2>3, <2>4, <2>5
<1>5. TypeOK'
  BY <1>1, <1>2, <1>3, <1>4, SMT DEF Inv, TypeOK, RowType, End, Answers
<1>6. (LinkHasFile /\ RemovedIsBare)'
  BY <1>4, LinkAssumption, SMT DEF Inv, TypeOK, LinkHasFile, RemovedIsBare, HasFile
<1>7. SpentWasTried'
  BY <1>1, <1>3, <1>4, SMT DEF Inv, TypeOK, SpentWasTried, End
<1>8. Phases'
  BY <1>1, <1>3, SMT DEF Inv, TypeOK, Phases, Phase, End, Says, Blank
<1> QED
  BY <1>5, <1>6, <1>7, <1>8 DEF Inv

-----------------------------------------------------------------------------
\* The inductive invariant.
THEOREM Invariance == Spec => []Inv
<1>1. Inv /\ [Next]_vars => Inv'
  <2> SUFFICES ASSUME Inv, [Next]_vars PROVE Inv'
    OBVIOUS
  <2>1. CASE UNCHANGED vars
    BY <2>1, SMT DEF vars, Inv, TypeOK, LinkHasFile, HasFile, RemovedIsBare,
       SpentWasTried, Phases, Phase
  <2>2. CASE Next
    BY <2>2, CallKeepsInv, LookKeepsInv, RereadKeepsInv, ReaderKeepsInv, TryKeepsInv,
       UpdateKeepsInv DEF Next, Step
  <2> QED
    BY <2>1, <2>2
<1> QED
  BY <1>1, InitInv, PTL DEF Spec

\* The types of the controller's row, its requests and their answers.
THEOREM TypeCorrect == Spec => []TypeOK
<1>1. Inv => TypeOK
  BY DEF Inv
<1> QED
  BY <1>1, Invariance, PTL

\* A download link is only ever there together with a planet file of an existing
\* controller: no withdrawal, removal or late update of ControllersService leaves one.
THEOREM LinksHaveFiles == Spec => []LinkHasFile
<1>1. Inv => LinkHasFile
  BY DEF Inv
<1> QED
  BY <1>1, Invariance, PTL

-----------------------------------------------------------------------------
asks == [o \in Ops |-> [kind |-> task[o].kind, link |-> task[o].token]]

\* An end without effect but for the answer a, which may be hidden, is one of the
\* abstract request.
LEMMA EndAnswers ==
    ASSUME Inv, NEW o \in Ops, NEW a, NEW b \in {a, Says("refused")},
           task[o].pc # "done", End(o, b)
    PROVE  Abstract!Answer(o, a)
<1>1. answer[o] = Abstract!Says("nothing") /\ b \in {a, Abstract!Says("refused")}
  BY SMT DEF Inv, Phases, Phase, Says, Abstract!Says
<1>2. answer' = [answer EXCEPT ![o] = b]
  BY DEF End
<1>3. asks' = asks
  BY SMT DEF Inv, TypeOK, End, asks
<1> QED
  BY <1>1, <1>2, <1>3, Zenon DEF Abstract!Answer, asks

LEMMA GoStutters ==
    ASSUME Inv, NEW o \in Ops, NEW l, Go(o, l), UNCHANGED <<row, spent>>
    PROVE  UNCHANGED Abstract!linkVars
<1>1. asks' = asks
  BY SMT DEF Inv, TypeOK, Go, asks
<1> QED
  BY <1>1 DEF Go, asks, Abstract!linkVars

LEMMA RefuseRefines ==
    ASSUME Inv, NEW o \in Ops, task[o].pc # "done", End(o, Says("refused")),
           UNCHANGED <<row, spent>>
    PROVE  Abstract!LinkNext
<1>1. Abstract!Says("refused") = Says("refused")
  BY DEF Says, Abstract!Says
<1>2. Abstract!Answer(o, Abstract!Says("refused"))
  BY <1>1, EndAnswers
<1> QED
  BY <1>2 DEF Abstract!Refuse, Abstract!LinkNext

\* A request for the link that finds one.
LEMMA FindRefines ==
    ASSUME Inv, NEW o \in Ops, task[o].pc # "done", task[o].kind = "link",
           HasFile, row.token # None, End(o, Got(row.token, None)),
           UNCHANGED <<row, spent>>
    PROVE  Abstract!LinkNext
<1>1. Abstract!Got(row.token, None) = Got(row.token, None)
  BY DEF Got, Abstract!Got
<1>2. Abstract!Answer(o, Abstract!Got(row.token, None))
  BY <1>1, EndAnswers
<1>3. Abstract!Give(o)
  BY <1>2, Zenon DEF Abstract!Give, HasFile
<1> QED
  BY <1>3 DEF Abstract!LinkNext

LEMMA CallRefines == ASSUME Inv, NEW o \in Ops, Call(o) PROVE Abstract!LinkNext
<1>1. PICK k \in Kinds, t \in spent \cup {None} :
         task' = [task EXCEPT ![o] =
                    [pc |-> "look", kind |-> k, tries |-> 0, token |-> t]]
  BY DEF Call
<1>2. asks[o].kind = None
  BY SMT DEF Call, Inv, Phases, Phase, Blank, asks
<1>3. asks' = [asks EXCEPT ![o] = [kind |-> k, link |-> t]]
  <2>1. /\ task'[o].kind = k /\ task'[o].token = t
        /\ \A p \in Ops : p # o => task'[p] = task[p]
    BY <1>1, SMT DEF Inv, TypeOK
  <2>2. asks' = [p \in Ops |-> IF p = o THEN [kind |-> k, link |-> t] ELSE asks[p]]
    BY <2>1, Zenon DEF asks
  <2> QED
    BY <2>2, Zenon DEF asks
<1>4. Abstract!Ask(o)
  BY <1>2, <1>3, Zenon DEF Abstract!Ask, Call, asks
<1> QED
  BY <1>4 DEF Abstract!LinkNext

LEMMA LookRefines ==
    ASSUME Inv, NEW o \in Ops, Look(o) \/ Reread(o)
    PROVE  Abstract!LinkNext \/ UNCHANGED Abstract!linkVars
<1>1. task[o].pc # "done" /\ UNCHANGED <<row, spent>>
  BY SMT DEF Look, Reread
<1>2. \/ \E l \in {"write", "check"} : Go(o, l)
      \/ End(o, Says("refused"))
      \/ /\ task[o].kind = "link" /\ HasFile /\ row.token # None
         /\ End(o, Got(row.token, None))
  BY Zenon DEF Look, Reread
<1> QED
  BY <1>1, <1>2, GoStutters, RefuseRefines, FindRefines

LEMMA ReaderRefines ==
    ASSUME Inv, NEW o \in Ops, Unacceptable(o) \/ Check(o) \/ Download(o) \/ ReadFails(o)
    PROVE  Abstract!LinkNext \/ UNCHANGED Abstract!linkVars
<1>1. task[o].pc # "done" /\ UNCHANGED <<row, spent>>
  BY SMT DEF Unacceptable, Check, Download, ReadFails, At
<1>2. \/ Go(o, "write") \/ End(o, Says("refused"))
      \/ /\ task[o].kind = "download" /\ row.token = task[o].token
         /\ End(o, Got(row.token, row.file))
  BY Zenon DEF Unacceptable, Check, Download, ReadFails, At
<1>3. CASE /\ task[o].kind = "download" /\ row.token = task[o].token
           /\ End(o, Got(row.token, row.file))
  <2>1. row.token # None
    BY <1>3 DEF Inv, Phases, Phase
  <2>2. Abstract!Got(row.token, row.file) = Got(row.token, row.file)
    BY DEF Got, Abstract!Got
  <2>3. Abstract!Answer(o, Abstract!Got(row.token, row.file))
    BY <1>1, <1>3, <2>2, EndAnswers
  <2>4. Abstract!Serve(o)
    BY <1>1, <1>3, <2>1, <2>3, Zenon DEF Abstract!Serve
  <2> QED
    BY <2>4 DEF Abstract!LinkNext
<1> QED
  BY <1>1, <1>2, <1>3, GoStutters, RefuseRefines

\* A token that is set was never in use, so it is the first link or another one.
LEMMA TryRefines ==
    ASSUME Inv, NEW o \in Ops, Try(o)
    PROVE  Abstract!LinkNext \/ UNCHANGED Abstract!linkVars
<1> DEFINE t == <<o, task[o].tries + 1>>
<1>1. /\ task[o].pc = "write" /\ task[o].kind \in {"link", "rotate"}
      /\ task[o].tries \in Nat /\ task[o].tries + 1 \in 1..MaxTries
  BY SMT DEF Try, Inv, TypeOK, Phases, Phase
<1>2. t \in Tokens /\ t \notin spent
  BY <1>1, SMT DEF Inv, SpentWasTried, Tokens
<1>3. asks' = asks
  BY SMT DEF Try, Inv, TypeOK, asks
<1>4. answer[o] = Says("nothing")
  BY <1>1 DEF Inv, Phases, Phase
<1>5. CASE UNCHANGED <<row, spent, answer>>
  BY <1>3, <1>5 DEF asks, Abstract!linkVars
<1>6. CASE UNCHANGED <<row, spent>> /\ answer' = [answer EXCEPT ![o] = Says("refused")]
  <2>1. Abstract!Refuse(o)
    BY <1>3, <1>4, <1>6, Zenon
    DEF Abstract!Refuse, Abstract!Answer, Abstract!Says, Says, asks
  <2> QED
    BY <2>1 DEF Abstract!LinkNext
<1>7. CASE /\ Unlinked(o) /\ SetToken(t)
           /\ \E b \in {Got(t, None), Says("refused")} :
                 answer' = [answer EXCEPT ![o] = b]
  <2>1. Abstract!Answer(o, Abstract!Got(t, None))
    BY <1>3, <1>4, <1>7, Zenon
    DEF Abstract!Answer, Abstract!Says, Abstract!Got, Says, Got, asks
  <2>2. row'.file = row.file /\ row'.token = t /\ spent' = spent \cup {t}
    BY <1>7, SMT DEF SetToken, Inv, TypeOK
  <2>3. Abstract!New(t)
    BY <1>2, <2>2, Zenon DEF Abstract!New
  <2>4. row.file # None /\ (task[o].kind = "link" => row.token = None)
    BY <1>7 DEF Unlinked, HasFile
  <2>5. Abstract!Give(o) \/ Abstract!Renew(o)
    BY <1>1, <1>2, <2>1, <2>3, <2>4, Zenon DEF Abstract!Give, Abstract!Renew
  <2> QED
    BY <2>5 DEF Abstract!LinkNext
<1> QED
  BY <1>5, <1>6, <1>7, Zenon DEF Try

LEMMA UpdateRefines ==
    ASSUME Inv, NEW o \in Ops, Upload(o) \/ Withdraw(o) \/ Remove(o)
    PROVE  Abstract!LinkNext
<1>1. /\ task[o].pc = "write" /\ UNCHANGED spent
      /\ \E b \in {Says("done"), Says("refused")} : End(o, b)
  BY Zenon DEF Upload, Withdraw, Remove, Update, At
<1>2. \/ UNCHANGED row /\ End(o, Says("refused"))
      \/ task[o].kind = "upload" /\ row' = [row EXCEPT !.file = o]
      \/ /\ task[o].kind \in {"withdraw", "remove"}
         /\ row' = Bare(TRUE) \/ row' = Bare(FALSE)
  BY Zenon DEF Upload, Withdraw, Remove, Update, At
<1>3. Abstract!Says("done") = Says("done")
  BY DEF Says, Abstract!Says
<1>4. Abstract!Answer(o, Abstract!Says("done"))
  BY <1>1, <1>3, EndAnswers
<1>5. CASE UNCHANGED row /\ End(o, Says("refused"))
  BY <1>1, <1>5, RefuseRefines
<1>6. CASE task[o].kind = "upload" /\ row' = [row EXCEPT !.file = o]
  <2>1. row'.file = o /\ row'.token = row.token
    BY <1>6, SMT DEF Inv, TypeOK
  <2>2. Abstract!Replace(o)
    BY <1>1, <1>4, <1>6, <2>1, Zenon DEF Abstract!Replace
  <2> QED
    BY <2>2 DEF Abstract!LinkNext
<1>7. CASE /\ task[o].kind \in {"withdraw", "remove"}
           /\ row' = Bare(TRUE) \/ row' = Bare(FALSE)
  <2>1. row'.file = None /\ row'.token = None
    BY <1>7, SMT DEF Bare
  <2>2. Abstract!Withdraw(o)
    BY <1>1, <1>4, <1>7, <2>1, Zenon DEF Abstract!Withdraw
  <2> QED
    BY <2>2 DEF Abstract!LinkNext
<1> QED
  BY <1>2, <1>5, <1>6, <1>7

\* The planet file and its token implement the abstract download link: however the
\* requests of ControllersService interleave and whatever updates fail, each of
\* them takes effect at one moment, or not at all.
THEOREM Refinement == Spec => ImplementsDownloadLink
<1>1. Init => Abstract!LinkInit
  BY SMT DEF Init, Bare, Blank, Says, Abstract!LinkInit, Abstract!Says
<1>2. Inv /\ [Next]_vars => [Abstract!LinkNext]_(Abstract!linkVars)
  <2> SUFFICES ASSUME Inv, [Next]_vars
               PROVE  Abstract!LinkNext \/ UNCHANGED Abstract!linkVars
    OBVIOUS
  <2>1. CASE UNCHANGED vars
    BY <2>1 DEF vars, Abstract!linkVars
  <2>2. CASE Next
    BY <2>2, CallRefines, LookRefines, ReaderRefines, TryRefines, UpdateRefines
    DEF Next, Step
  <2> QED
    BY <2>1, <2>2
<1> QED
  BY <1>1, <1>2, Invariance, PTL DEF Spec, ImplementsDownloadLink, Abstract!LinkSpec
=============================================================================
