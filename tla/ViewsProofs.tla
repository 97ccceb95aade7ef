----------------------------- MODULE ViewsProofs -----------------------------
(***************************************************************************)
(* That a page shows what its handlers have saved, and acts on the row it  *)
(* was opened for, for any rows, networks, handlers and failures.          *)
(***************************************************************************)
EXTENDS Views, TLAPS

\* The calls that are answered with the number of a write.
Writes == {"create", "reset", "hidden", "save", "import", "delete", "test", "deletePlanet",
           "upload", "auth", "switch", "ssh", "zerotier", "toggle"}
Targets == Items \cup Controllers \cup {None}
IsRequest(c) == c = [op |-> c.op, of |-> c.of, arg |-> c.arg, at |-> c.at, got |-> c.got, flag |-> c.flag]

\* A call for the table notes the write it follows, and what it shows is not older.
TableCallOK(c, v) ==
    /\ c.op = "load" => c.arg \in 0..v
    /\ c.op = "load" /\ c.at = "ok" => c.got \in 0..v /\ c.got >= c.arg
    /\ c.op = "poll" /\ c.at = "ok" => c.got.table \in 0..v
    /\ c.op \in Writes /\ c.at = "ok" => c.got \in 0..v

CallOK(c, v) ==
    /\ IsRequest(c)
    /\ c.at \in {"none", "asked", "ok", "failed"}
    /\ c.of \in Targets
    /\ c.flag \in Flags \cup {None}
    /\ TableCallOK(c, v)

CallsOK ==
    /\ call = [k \in Slots |-> call[k]]
    /\ \A k \in Slots : CallOK(call[k], version)

ModalsOK == modals \subseteq [kind : Kinds, of : Items \cup {None}] /\ busy \subseteq Flags
RowsOK == version \in Nat /\ table \in 0..version /\ seen \in 0..version /\ overlapped \in BOOLEAN
CountsOK == at \in Pages /\ left \in 0..MaxHandlers[at] /\ broken \in 0..MaxFaults

\* While no two calls for the table cross, the one under way will show at least what is
\* known to be saved.
Shows(c) == IF c.op = "load" THEN c.got ELSE c.got.table
TableInv ==
    ~ overlapped =>
        /\ table >= seen
        /\ \A j, k \in Reading : j = k
        /\ \A k \in Reading : call[k].at = "ok" => Shows(call[k]) >= seen

PageInv == CallsOK /\ ModalsOK /\ RowsOK /\ CountsOK /\ TableInv
-----------------------------------------------------------------------------
\* The users' page: the keys under way are of the user the modal is open for, if they were
\* when it was opened; and what was loaded is his, or nothing was.
UsersInv ==
    /\ stored \in [Items -> SUBSET Nets] /\ keys \subseteq Nets /\ keysOf \in Items \cup {None}
    /\ \A k \in UnderWay("hidden") : call[k].of \in Items /\ call[k].arg \subseteq Nets
    /\ \A k \in UnderWay("keys") :
        call[k].of \in Items /\ (call[k].at = "ok" => call[k].got \subseteq Nets)
    /\ \A u \in Items : IsOpen("hidden", u) /\ alone =>
        keysOf \in {None, u} /\ \A k \in UnderWay("keys") : call[k].of = u

\* The controllers' page: an upload sends the file to the row its picker was opened for.
FilesInv ==
    /\ picker \in Items \cup {None} /\ pendingPlanet \in Items \cup {None}
    /\ picker # None /\ pendingPlanet # None => pendingPlanet = picker
    /\ \A c \in Items : planet[c] \in {None, c}
    /\ planet \in [Items -> Items \cup {None}] /\ gone \subseteq Targets
    /\ \A k \in UnderWay("upload") : call[k].of \in Items /\ call[k].arg = call[k].of

\* While nothing has crossed the call for a link, there is one at most: what it was answered,
\* or else what the modal shows, is the link of the server.
LinksInv ==
    /\ link \in [Items -> 0..issued] /\ issued \in Nat
    /\ LinkShown => url[1] \in Items
    /\ \A k \in LinkCalls : call[k].of \in Items
    /\ \A k \in LinkCalls : call[k].at = "ok" =>
        call[k].got = <<call[k].of, call[k].got[2]>>
    /\ linkAlone =>
        /\ \A j, k \in LinkCalls : j = k
        /\ \A k \in LinkCalls : call[k].at = "ok" => call[k].got[2] = link[call[k].of]
        /\ LinkShown /\ (\A k \in LinkCalls : call[k].at # "ok") => url[2] = link[url[1]]

\* The machines' page: while no two lists crossed, the list under way, the one that is shown
\* and the network that is selected are of the controller that is selected.
SwitchInv ==
    /\ controllerId \in Controllers \cup {None} /\ networkId \in AllNets \cup {None}
    /\ listed \subseteq AllNets
    /\ \A k \in UnderWay("networks") :
        /\ call[k].of \in Controllers /\ call[k].arg \in AllNets \cup {None}
        /\ call[k].at = "ok" => call[k].got = NetsOf[call[k].of]
    /\ listAlone /\ controllerId # None =>
        /\ \A k \in UnderWay("networks") : call[k].of = controllerId
        /\ listed \subseteq NetsOf[controllerId]
        /\ networkId # None => networkId \in NetsOf[controllerId]
    /\ SwitchIsListed

\* The log in detail, the rows it is chosen from once they are there, and the logs under
\* way, are of the machine in the title.
LogsInv ==
    /\ logs \in Items \cup {None} /\ selected \in Items \cup {None} /\ logsLoading \in BOOLEAN
    /\ \A k \in UnderWay("logs") : call[k].of \in Items
    /\ \A m \in Items : IsOpen("logs", m) /\ logsAlone =>
        /\ selected \in {None, m} /\ (logsLoading \/ logs \in {None, m})
        /\ \A k \in UnderWay("logs") : call[k].of = m

\* The members' page: the server has the name of a member in its history, and a renaming
\* that was reported is in it too.
NamesInv ==
    /\ name \in [Items -> Names] /\ had \in [Items -> SUBSET Names] /\ late \subseteq Items \X Names
    /\ renameMember \in Items \cup {None}
    /\ \A m \in Items : name[m] \in had[m]
    /\ \A t \in told : t.asked \in Items
    /\ SuccessWasApplied

\* A poll asks for a row of the page, and has read names the members have had.
RenamesInv ==
    /\ (\E m \in Items : IsOpen("rename", m)) => renameMember \in Items
    /\ \A k \in UnderWay("rename") : renameMember \in Items
    /\ \A k \in UnderWay("rename") \cup UnderWay("poll") :
        /\ call[k].of \in Items
        /\ call[k].arg \in [of : Items, to : Names, attempt : Nat]
    /\ \A k \in UnderWay("poll") : call[k].at = "ok" =>
        /\ call[k].got = [names |-> call[k].got.names, table |-> call[k].got.table]
        /\ \A m \in Items : call[k].got.names[m] \in had[m]

VInv == PageInv /\ UsersInv /\ FilesInv /\ LinksInv /\ SwitchInv /\ LogsInv /\ NamesInv /\ RenamesInv
-----------------------------------------------------------------------------
\* Only this handler's call changes.
Only(k) == \A j \in Slots \ {k} : call'[j] = call[j]

\* What a step leaves of the calls and modals of other parts of the page: none is new, but
\* for failures, and no answer is lost.
Kept(ops, kinds) ==
    /\ \A k \in Slots : call'[k].op \in ops =>
        /\ call'[k].op = call[k].op /\ call'[k].of = call[k].of /\ call'[k].arg = call[k].arg
        /\ call'[k].at = "ok" => call'[k] = call[k]
    /\ \A k \in Slots : call[k].op \in ops /\ call[k].at = "ok" => call'[k] = call[k]
    /\ \A d \in modals' : d.kind \in kinds => d \in modals

\* One handler's call changes.
LEMMA Moves ==
    ASSUME CallsOK, version \in Nat, version' \in {version, version + 1},
           NEW k \in Slots, NEW c, CallOK(c, version'), call' = [call EXCEPT ![k] = c]
    PROVE  CallsOK' /\ call'[k] = c /\ Only(k)
<1>1. call'[k] = c /\ Only(k)
  BY DEF CallsOK, Only
<1>2. call' = [j \in Slots |-> call'[j]]
  BY DEF CallsOK
<1>3. ASSUME NEW j \in Slots PROVE CallOK(call'[j], version')
  <2>1. CASE j = k
    BY <2>1, <1>1
  <2>2. CASE j # k
    BY <2>2, <1>1 DEF CallsOK, CallOK, TableCallOK, Only
  <2>3. QED
    BY <2>1, <2>2
<1>4. QED
  BY <1>1, <1>2, <1>3 DEF CallsOK

\* A call whose answer is not the table is as good as no call for the table.
LEMMA TableKept ==
    ASSUME TableInv, NEW k \in Slots,
           Only(k),
           call'[k].op \notin {"load", "poll"}, UNCHANGED <<table, seen, overlapped>>
    PROVE  TableInv'
BY DEF TableInv, Reading, UnderWay, Shows, Only

LEMMA StillPage ==
    ASSUME PageInv, UNCHANGED <<at, call, left, broken, rows>>, ModalsOK'
    PROVE  PageInv'
<1>1. CallsOK' /\ RowsOK' /\ CountsOK'
  BY DEF PageInv, CallsOK, RowsOK, CountsOK, rows
<1>2. TableInv'
  BY DEF PageInv, TableInv, Reading, UnderWay, Shows, rows
<1>3. QED
  BY <1>1, <1>2 DEF PageInv

LEMMA AskPage ==
    ASSUME PageInv, UNCHANGED <<at, rows>>, ModalsOK', NEW k \in Slots,
           NEW op, op \notin {"load", "poll"}, NEW of \in Targets, NEW arg,
           NEW flag \in Flags \cup {None}, Asks(k, Request(op, of, arg, flag))
    PROVE  PageInv' /\ call[k] = Blank /\ call'[k] = Request(op, of, arg, flag)
           /\ Only(k)
<1>1. CallOK(Request(op, of, arg, flag), version')
  BY DEF CallOK, IsRequest, TableCallOK, Request, PageInv, RowsOK, rows
<1>2. /\ CallsOK'
      /\ call'[k] = Request(op, of, arg, flag)
      /\ Only(k)
  BY <1>1, Moves DEF Asks, PageInv, RowsOK, rows
<1>3. TableInv'
  BY <1>2, TableKept DEF Request, PageInv, rows
<1>4. RowsOK'
  BY DEF PageInv, RowsOK, rows
<1>5. CountsOK'
  BY HandlersAssumption DEF PageInv, CountsOK, Asks
<1>6. QED
  BY <1>2, <1>3, <1>4, <1>5 DEF PageInv, Asks

LEMMA BlankOK == \A v \in Nat : CallOK(Blank, v)
BY DEF CallOK, IsRequest, TableCallOK, Blank, Targets, Writes

\* An answer leaves what was asked.
LEMMA Answered ==
    ASSUME NEW c, IsRequest(c), NEW got
    PROVE  [c EXCEPT !.at = "ok", !.got = got]
             = [op |-> c.op, of |-> c.of, arg |-> c.arg, at |-> "ok", got |-> got, flag |-> c.flag]
<1> DEFINE d == [c EXCEPT !.at = "ok"]
<1>1. d = [op |-> c.op, of |-> c.of, arg |-> c.arg, at |-> "ok", got |-> c.got, flag |-> c.flag]
  BY DEF IsRequest
<1>2. [d EXCEPT !.got = got]
        = [op |-> c.op, of |-> c.of, arg |-> c.arg, at |-> "ok", got |-> got, flag |-> c.flag]
  <2> HIDE DEF d
  <2> QED
    BY <1>1
<1>3. [c EXCEPT !.at = "ok", !.got = got] = [d EXCEPT !.got = got]
  OBVIOUS
<1>4. QED
  BY <1>2, <1>3

LEMMA EndPage ==
    ASSUME PageInv, UNCHANGED <<at, rows>>, ModalsOK', NEW k \in Slots, Ends(k)
    PROVE  PageInv' /\ call'[k] = Blank /\ Only(k)
<1>1. CallOK(Blank, version')
  BY BlankOK DEF PageInv, RowsOK, rows
<1>2. CallsOK' /\ call'[k] = Blank /\ Only(k)
  BY <1>1, Moves DEF Ends, Proceeds, PageInv, RowsOK, rows
<1>3. call'[k].op \notin {"load", "poll"}
  BY <1>2 DEF Blank
<1>a. TableInv'
  BY <1>2, <1>3, TableKept DEF PageInv, rows
<1>4. RowsOK' /\ CountsOK'
  BY DEF PageInv, RowsOK, rows, CountsOK, Ends, Proceeds, ModalsOK
<1>5. QED
  BY <1>2, <1>a, <1>4 DEF PageInv
-----------------------------------------------------------------------------
LEMMA FaultPage ==
    ASSUME PageInv, UNCHANGED at, NEW k \in Slots, ServeFault(k)
    PROVE  PageInv' /\ Only(k) /\ UNCHANGED modals /\ call[k].at = "asked"
           /\ call'[k] = [op |-> call[k].op, of |-> call[k].of, arg |-> call[k].arg,
                          at |-> "failed", got |-> call[k].got, flag |-> call[k].flag]
<1> DEFINE c == [op |-> call[k].op, of |-> call[k].of, arg |-> call[k].arg,
                 at |-> "failed", got |-> call[k].got, flag |-> call[k].flag]
<1>1. CallOK(call[k], version) /\ version \in Nat /\ version' = version
  BY DEF PageInv, CallsOK, RowsOK, rows, ServeFault
<1>2. [call[k] EXCEPT !.at = "failed"] = c
  BY <1>1 DEF CallOK, IsRequest
<1>3. call' = [call EXCEPT ![k] = c]
  <2>1. call' = [call EXCEPT ![k] = [call[k] EXCEPT !.at = "failed"]]
    BY DEF ServeFault
  <2> HIDE DEF c
  <2>2. QED
    BY <1>2, <2>1
<1>4. /\ c.op = call[k].op /\ c.of = call[k].of /\ c.arg = call[k].arg
      /\ c.at = "failed" /\ c.flag = call[k].flag /\ IsRequest(c)
  BY DEF IsRequest
<1>5. call[k].at = "asked" /\ UNCHANGED <<rows, modals, busy>>
  BY DEF ServeFault, Served
<1>6. RowsOK' /\ CountsOK' /\ ModalsOK'
  BY FaultsAssumption DEF PageInv, RowsOK, rows, CountsOK, ServeFault, ModalsOK
<1> HIDE DEF c
<1>7. CallOK(c, version')
  BY <1>1, <1>4 DEF CallOK, TableCallOK
<1>8. CallsOK' /\ call'[k] = c /\ Only(k)
  BY <1>1, <1>3, <1>7, Moves DEF PageInv
<1>9. TableInv'
  BY <1>4, <1>5, <1>8 DEF PageInv, TableInv, Reading, UnderWay, Shows, rows, Only
<1>10. QED
  BY <1>5, <1>6, <1>8, <1>9 DEF PageInv, c

\* A refusal is a failure that is none of the faults.
LEMMA RefusePage ==
    ASSUME PageInv, UNCHANGED at, NEW k \in Slots, Refuses(k)
    PROVE  PageInv' /\ Only(k) /\ UNCHANGED modals /\ call[k].at = "asked"
           /\ call'[k] = [op |-> call[k].op, of |-> call[k].of, arg |-> call[k].arg,
                          at |-> "failed", got |-> call[k].got, flag |-> call[k].flag]
<1> DEFINE c == [op |-> call[k].op, of |-> call[k].of, arg |-> call[k].arg,
                 at |-> "failed", got |-> call[k].got, flag |-> call[k].flag]
<1>1. CallOK(call[k], version) /\ version \in Nat /\ version' = version
  BY DEF PageInv, CallsOK, RowsOK, rows, Refuses
<1>2. [call[k] EXCEPT !.at = "failed"] = c
  BY <1>1 DEF CallOK, IsRequest
<1>3. call' = [call EXCEPT ![k] = c]
  <2>1. call' = [call EXCEPT ![k] = [call[k] EXCEPT !.at = "failed"]]
    BY DEF Refuses, Proceeds
  <2> HIDE DEF c
  <2>2. QED
    BY <1>2, <2>1
<1>4. /\ c.op = call[k].op /\ c.of = call[k].of /\ c.arg = call[k].arg
      /\ c.at = "failed" /\ c.flag = call[k].flag /\ IsRequest(c)
  BY DEF IsRequest
<1>5. call[k].at = "asked" /\ UNCHANGED <<rows, modals, busy, left, broken>>
  BY DEF Refuses, Proceeds, Served
<1>6. RowsOK' /\ CountsOK' /\ ModalsOK'
  BY <1>5 DEF PageInv, RowsOK, rows, CountsOK, ModalsOK
<1> HIDE DEF c
<1>7. CallOK(c, version')
  BY <1>1, <1>4 DEF CallOK, TableCallOK
<1>8. CallsOK' /\ call'[k] = c /\ Only(k)
  BY <1>1, <1>3, <1>7, Moves DEF PageInv
<1>9. TableInv'
  BY <1>4, <1>5, <1>8 DEF PageInv, TableInv, Reading, UnderWay, Shows, rows, Only
<1>10. QED
  BY <1>5, <1>6, <1>8, <1>9 DEF PageInv, c

LEMMA WritePage ==
    ASSUME PageInv, UNCHANGED at, NEW k \in Slots, NEW ops, ops \subseteq Writes, ServeWrite(k, ops)
    PROVE  PageInv' /\ Only(k) /\ UNCHANGED modals /\ call[k].op \in ops /\ call[k].at = "asked"
           /\ call'[k] = [op |-> call[k].op, of |-> call[k].of, arg |-> call[k].arg,
                          at |-> "ok", got |-> version + 1, flag |-> call[k].flag]
<1> DEFINE c == [op |-> call[k].op, of |-> call[k].of, arg |-> call[k].arg,
                 at |-> "ok", got |-> version + 1, flag |-> call[k].flag]
<1>1. CallOK(call[k], version) /\ RowsOK /\ version' = version + 1
  BY DEF PageInv, CallsOK, ServeWrite
<1>2. [call[k] EXCEPT !.at = "ok", !.got = version + 1] = c
  BY <1>1, Answered DEF CallOK
<1>3. /\ call[k].op \in ops /\ call[k].op \notin {"load", "poll"} /\ call[k].at = "asked"
      /\ UNCHANGED <<table, seen, overlapped, modals, busy, left, broken>>
  BY DEF ServeWrite, Served, Answers, Proceeds, Writes
<1>4. call' = [call EXCEPT ![k] = c]
  <2>1. call' = [call EXCEPT ![k] = [call[k] EXCEPT !.at = "ok", !.got = version + 1]]
    BY DEF ServeWrite, Answers, Proceeds
  <2> HIDE DEF c
  <2>2. QED
    BY <1>2, <2>1
<1>5. /\ c.op = call[k].op /\ c.of = call[k].of /\ c.arg = call[k].arg
      /\ c.at = "ok" /\ c.got = version + 1 /\ c.flag = call[k].flag /\ IsRequest(c)
  BY DEF IsRequest
<1>6. RowsOK' /\ CountsOK' /\ ModalsOK'
  BY <1>1, <1>3 DEF PageInv, RowsOK, CountsOK, ModalsOK
<1> HIDE DEF c
<1>7. CallOK(c, version')
  BY <1>1, <1>3, <1>5 DEF CallOK, TableCallOK, RowsOK
<1>8. CallsOK' /\ call'[k] = c /\ Only(k)
  BY <1>1, <1>4, <1>7, Moves DEF PageInv, RowsOK
<1>9. TableInv'
  BY <1>3, <1>5, <1>8, TableKept DEF PageInv
<1>10. QED
  BY <1>3, <1>6, <1>8, <1>9 DEF PageInv, c

\* The server answers with the table as it is.
LEMMA LoadPage ==
    ASSUME PageInv, UNCHANGED at, NEW k \in Slots, NEW op \in {"load", "poll"}, NEW got,
           ServeRead(k, {op}, got),
           op = "load" => got = version, op = "poll" => got.table = version
    PROVE  PageInv' /\ Only(k) /\ UNCHANGED modals /\ call[k].op = op
           /\ call'[k] = [op |-> call[k].op, of |-> call[k].of, arg |-> call[k].arg,
                          at |-> "ok", got |-> got, flag |-> call[k].flag]
<1> DEFINE c == [op |-> call[k].op, of |-> call[k].of, arg |-> call[k].arg,
                 at |-> "ok", got |-> got, flag |-> call[k].flag]
<1>1. CallOK(call[k], version) /\ RowsOK /\ call[k].op = op
      /\ UNCHANGED <<version, table, seen, overlapped, modals, busy, left, broken>>
  BY DEF PageInv, CallsOK, ServeRead, rows, Answers, Proceeds
<1>2. [call[k] EXCEPT !.at = "ok", !.got = got] = c
  BY <1>1, Answered DEF CallOK
<1>4. call' = [call EXCEPT ![k] = c]
  <2>1. call' = [call EXCEPT ![k] = [call[k] EXCEPT !.at = "ok", !.got = got]]
    BY DEF ServeRead, Answers, Proceeds
  <2> HIDE DEF c
  <2>2. QED
    BY <1>2, <2>1
<1>5. /\ c.op = op /\ c.of = call[k].of /\ c.arg = call[k].arg
      /\ c.at = "ok" /\ c.got = got /\ c.flag = call[k].flag /\ IsRequest(c)
  BY <1>1 DEF IsRequest
<1>6. RowsOK' /\ CountsOK' /\ ModalsOK'
  BY <1>1 DEF PageInv, RowsOK, CountsOK, ModalsOK
<1> HIDE DEF c
<1>7. CallOK(c, version')
  BY <1>1, <1>5 DEF CallOK, TableCallOK, RowsOK, Writes
<1>8. CallsOK' /\ call'[k] = c /\ Only(k)
  BY <1>1, <1>4, <1>7, Moves DEF PageInv, RowsOK
<1>9. TableInv'
  BY <1>1, <1>5, <1>8 DEF PageInv, RowsOK, TableInv, Reading, UnderWay, Shows, Only
<1>10. QED
  BY <1>1, <1>6, <1>8, <1>9 DEF PageInv, c

LEMMA ReadPage ==
    ASSUME PageInv, UNCHANGED at, NEW k \in Slots, NEW ops, NEW got, ServeRead(k, ops, got),
           \A op \in ops : op \notin Writes \cup {"load", "poll"}
    PROVE  PageInv' /\ Only(k) /\ UNCHANGED modals /\ call[k].op \in ops /\ call[k].at = "asked"
           /\ call'[k] = [op |-> call[k].op, of |-> call[k].of, arg |-> call[k].arg,
                          at |-> "ok", got |-> got, flag |-> call[k].flag]
<1> DEFINE c == [op |-> call[k].op, of |-> call[k].of, arg |-> call[k].arg,
                 at |-> "ok", got |-> got, flag |-> call[k].flag]
<1>1. CallOK(call[k], version) /\ RowsOK /\ call[k].op \in ops /\ call[k].at = "asked"
      /\ UNCHANGED <<version, table, seen, overlapped, modals, busy, left, broken>>
  BY DEF PageInv, CallsOK, ServeRead, rows, Answers, Proceeds, Served
<1>2. [call[k] EXCEPT !.at = "ok", !.got = got] = c
  BY <1>1, Answered DEF CallOK
<1>4. call' = [call EXCEPT ![k] = c]
  <2>1. call' = [call EXCEPT ![k] = [call[k] EXCEPT !.at = "ok", !.got = got]]
    BY DEF ServeRead, Answers, Proceeds
  <2> HIDE DEF c
  <2>2. QED
    BY <1>2, <2>1
<1>5. /\ c.op = call[k].op /\ c.of = call[k].of /\ c.arg = call[k].arg
      /\ c.at = "ok" /\ c.got = got /\ c.flag = call[k].flag /\ IsRequest(c)
  BY <1>1 DEF IsRequest
<1>6. RowsOK' /\ CountsOK' /\ ModalsOK'
  BY <1>1 DEF PageInv, RowsOK, CountsOK, ModalsOK
<1>0. call[k].op \notin Writes /\ call[k].op \notin {"load", "poll"}
  BY <1>1
<1> HIDE DEF c
<1>7. CallOK(c, version')
  BY <1>0, <1>1, <1>5 DEF CallOK, TableCallOK
<1>8. CallsOK' /\ call'[k] = c /\ Only(k)
  BY <1>1, <1>4, <1>7, Moves DEF PageInv, RowsOK
<1>9. TableInv'
  BY <1>0, <1>1, <1>5, <1>8, TableKept DEF PageInv
<1>10. QED
  BY <1>1, <1>6, <1>8, <1>9 DEF PageInv, c
-----------------------------------------------------------------------------
\* A handler calls for the table, having shown what a poll has read or not.
LEMMA ReadAgainPage ==
    ASSUME PageInv, UNCHANGED <<at, version, seen>>, ModalsOK',
           NEW k \in Slots, NEW c, CallOK(c, version), c.op \in {"load", "poll"}, c.at = "asked",
           Proceeds(k, c), overlapped' = (overlapped \/ Reading \ {k} # {}),
           \/ table' = table
           \/ call[k].op = "poll" /\ call[k].at = "ok" /\ table' = call[k].got.table
    PROVE  PageInv' /\ call'[k] = c /\ Only(k)
<1>1. CallsOK' /\ call'[k] = c /\ Only(k)
  BY Moves DEF PageInv, RowsOK, Proceeds
<1>2. CallOK(call[k], version)
  BY DEF PageInv, CallsOK
<1>3. RowsOK' /\ CountsOK'
  BY <1>2 DEF PageInv, RowsOK, CountsOK, Proceeds, CallOK, TableCallOK
<1>4. TableInv'
  <2>1. SUFFICES ASSUME ~ overlapped' PROVE TableInv'
    BY DEF TableInv
  <2>2. ~ overlapped /\ Reading \ {k} = {}
    BY <2>1 DEF PageInv, RowsOK
  <2>3. Reading' \subseteq {k}
    BY <1>1, <2>2 DEF Reading, UnderWay, Only
  <2>4. table' >= seen
    BY <2>2 DEF PageInv, TableInv, Reading, UnderWay, Shows
  <2>5. QED
    BY <1>1, <2>3, <2>4 DEF TableInv
<1>5. QED
  BY <1>1, <1>3, <1>4 DEF PageInv

\* The table that was called for is shown.
LEMMA ShowPage ==
    ASSUME PageInv, UNCHANGED <<at, version, overlapped>>, ModalsOK',
           NEW k \in Slots, Ends(k), call[k].op \in {"load", "poll"}, call[k].at = "ok",
           table' = Shows(call[k]),
           seen' = IF call[k].op = "load" /\ call[k].arg > seen THEN call[k].arg ELSE seen
    PROVE  PageInv' /\ call'[k] = Blank /\ Only(k)
<1>1. CallsOK' /\ call'[k] = Blank /\ Only(k)
  BY Moves, BlankOK DEF PageInv, RowsOK, Ends, Proceeds
<1>2. CallOK(call[k], version)
  BY DEF PageInv, CallsOK
<1>3. RowsOK' /\ CountsOK'
  BY <1>2 DEF PageInv, RowsOK, CountsOK, Ends, Proceeds, CallOK, TableCallOK, Shows
<1>4. TableInv'
  <2>1. SUFFICES ASSUME ~ overlapped' PROVE TableInv'
    BY DEF TableInv
  <2>2. ~ overlapped /\ k \in Reading /\ Shows(call[k]) >= seen
    BY <2>1 DEF PageInv, TableInv, Reading, UnderWay
  <2>3. Reading' = {}
    BY <1>1, <2>2 DEF Reading, UnderWay, Only, Blank, PageInv, TableInv
  <2>4. table' >= seen'
    BY <1>2, <2>2 DEF Shows, CallOK, TableCallOK, PageInv, RowsOK
  <2>5. QED
    BY <2>3, <2>4 DEF TableInv
<1>5. QED
  BY <1>1, <1>3, <1>4 DEF PageInv
-----------------------------------------------------------------------------
\* The buttons and the answers that all pages have.
LEMMA RefreshKeeps ==
    ASSUME PageInv, UNCHANGED at, NEW k \in Slots, Refresh(k)
    PROVE  PageInv' /\ Only(k) /\ UNCHANGED modals /\ call[k] = Blank
           /\ call'[k] = Request("load", None, 0, "loading")
<1> DEFINE c == Request("load", None, 0, "loading")
<1>1. /\ c.op = "load" /\ c.of = None /\ c.arg = 0 /\ c.at = "asked" /\ c.flag = "loading"
      /\ IsRequest(c)
  BY DEF Request, IsRequest
<1>2. /\ call[k] = Blank /\ call' = [call EXCEPT ![k] = c]
      /\ UNCHANGED <<version, table, seen, modals, broken>> /\ busy' = busy \cup {"loading"}
      /\ left > 0 /\ left' = left - 1 /\ overlapped' = (overlapped \/ Reading # {})
  BY DEF Refresh, Asks
<1> HIDE DEF c
<1>3. CallOK(c, version)
  BY <1>1 DEF CallOK, TableCallOK, PageInv, RowsOK, Flags, Targets, Writes
<1>4. CallsOK' /\ call'[k] = c /\ Only(k)
  BY <1>2, <1>3, Moves DEF PageInv, RowsOK
<1>5. RowsOK' /\ ModalsOK'
  BY <1>2 DEF PageInv, RowsOK, ModalsOK, Flags
<1>6. CountsOK'
  BY <1>2, HandlersAssumption DEF PageInv, CountsOK
<1>7. TableInv'
  <2>1. SUFFICES ASSUME ~ overlapped' PROVE TableInv'
    BY DEF TableInv
  <2>2. ~ overlapped /\ Reading = {} /\ table' >= seen'
    BY <1>2, <2>1 DEF PageInv, RowsOK, TableInv
  <2>3. Reading' \subseteq {k}
    BY <1>4, <2>2 DEF Reading, UnderWay, Only
  <2>4. QED
    BY <1>1, <1>4, <2>2, <2>3 DEF TableInv
<1>8. QED
  BY <1>2, <1>4, <1>5, <1>6, <1>7 DEF PageInv, c

LEMMA ReloadKeeps ==
    ASSUME PageInv, UNCHANGED <<at, version>>, modals' \subseteq modals,
           NEW k \in Slots, NEW write \in 0..version, NEW flag \in Flags \cup {None},
           Reloads(k, write, flag),
           \/ table' = table
           \/ call[k].op = "poll" /\ call[k].at = "ok" /\ table' = call[k].got.table
    PROVE  PageInv' /\ Only(k) /\ call'[k].op = "load"
<1> DEFINE c == Request("load", call[k].of, write, flag)
<1>1. /\ c.op = "load" /\ c.of = call[k].of /\ c.arg = write /\ c.at = "asked" /\ c.flag = flag
      /\ IsRequest(c)
  BY DEF Request, IsRequest
<1>2. /\ Proceeds(k, c) /\ overlapped' = (overlapped \/ Reading \ {k} # {})
      /\ busy' = busy \cup {"loading"} /\ seen' = seen
  BY DEF Reloads
<1>3. CallOK(call[k], version)
  BY DEF PageInv, CallsOK
<1> HIDE DEF c
<1>4. CallOK(c, version)
  BY <1>1, <1>3 DEF CallOK, TableCallOK, Writes
<1>5. ModalsOK'
  BY <1>2 DEF PageInv, ModalsOK, Flags
<1>6. QED
  BY <1>1, <1>2, <1>4, <1>5, ReadAgainPage

\* The modal of an answer is closed at most, and its handler ends or loads the table.
LEMMA ReturnsKeeps ==
    ASSUME PageInv, UNCHANGED at, NEW k \in Slots, NEW kind, NEW again, Returns(k, kind, again),
           kind \in Writes \/ again = "never"
    PROVE  PageInv' /\ Only(k) /\ modals' \subseteq modals /\ call[k].op = kind
           /\ call'[k].op \in {"none", "load"}
<1>1. call[k].op = kind /\ UNCHANGED <<version, table>> /\ CallOK(call[k], version)
  BY DEF Returns, Came, PageInv, CallsOK
<1>2. modals' \subseteq modals
  BY DEF Returns, Shut
<1>3. CASE Ends(k) /\ busy' = busy \ {call[k].flag} /\ UNCHANGED <<seen, overlapped>>
  <2>1. ModalsOK'
    BY <1>2, <1>3 DEF PageInv, ModalsOK
  <2>2. PageInv' /\ call'[k] = Blank /\ Only(k)
    BY <1>1, <1>3, <2>1, EndPage DEF rows
  <2>3. QED
    BY <1>1, <1>2, <2>2 DEF Blank
<1>4. CASE /\ Reloads(k, IF Good(k) THEN call[k].got ELSE 0, call[k].flag)
           /\ again # "never"
  <2>1. (IF Good(k) THEN call[k].got ELSE 0) \in 0..version /\ call[k].flag \in Flags \cup {None}
    BY <1>1, <1>4 DEF Good, CallOK, TableCallOK, PageInv, RowsOK
  <2>2. PageInv' /\ Only(k) /\ call'[k].op = "load"
    BY <1>1, <1>2, <1>4, <2>1, ReloadKeeps
  <2>3. QED
    BY <1>1, <1>2, <2>2
<1>5. QED
  BY <1>3, <1>4 DEF Returns

LEMMA AgreedKeeps ==
    ASSUME PageInv, UNCHANGED at, NEW k \in Slots, NEW kind \in Writes, AgreedReturns(k, kind)
    PROVE  PageInv' /\ Only(k) /\ modals' \subseteq modals /\ call[k].op = kind
           /\ call'[k].op \in {"none", "load"}
<1>1. call[k].op = kind /\ UNCHANGED <<version, table>> /\ CallOK(call[k], version)
  BY DEF AgreedReturns, Came, PageInv, CallsOK
<1>2. modals' \subseteq modals
  BY DEF AgreedReturns
<1>3. CASE ~ Good(k)
  <2>1. Ends(k) /\ UNCHANGED <<busy, seen, overlapped>>
    BY <1>3 DEF AgreedReturns
  <2>2. ModalsOK'
    BY <1>2, <2>1 DEF PageInv, ModalsOK
  <2>3. PageInv' /\ call'[k] = Blank /\ Only(k)
    BY <1>1, <2>1, <2>2, EndPage DEF rows
  <2>4. QED
    BY <1>1, <1>2, <2>3 DEF Blank
<1>4. CASE Good(k)
  <2>1. call[k].got \in 0..version /\ call[k].flag \in Flags \cup {None}
    BY <1>1, <1>4 DEF Good, CallOK, TableCallOK
  <2>2. Reloads(k, call[k].got, call[k].flag)
    BY <1>4 DEF AgreedReturns
  <2>3. PageInv' /\ Only(k) /\ call'[k].op = "load"
    BY <1>1, <1>2, <2>1, <2>2, ReloadKeeps
  <2>4. QED
    BY <1>1, <1>2, <2>3
<1>5. QED
  BY <1>3, <1>4

LEMMA LoadReturnsKeeps ==
    ASSUME PageInv, UNCHANGED at, NEW k \in Slots, LoadReturns(k)
    PROVE  PageInv' /\ Only(k) /\ modals' \subseteq modals /\ call[k].op = "load"
           /\ call'[k].op = "none"
<1>1. call[k].op = "load" /\ UNCHANGED <<version, overlapped>> /\ Ends(k)
  BY DEF LoadReturns, Came
<1>2. modals' \subseteq modals /\ busy' \subseteq busy
  BY DEF LoadReturns
<1>3. ModalsOK'
  BY <1>2 DEF PageInv, ModalsOK
<1>4. PageInv' /\ call'[k] = Blank /\ Only(k)
  <2>1. CASE Good(k)
    <3>1. table' = call[k].got /\ seen' = IF call[k].arg > seen THEN call[k].arg ELSE seen
      BY <2>1 DEF LoadReturns
    <3>2. QED
      BY <1>1, <1>3, <2>1, <3>1, ShowPage DEF Good, Shows
  <2>2. CASE ~ Good(k)
    <3>1. UNCHANGED rows
      BY <1>1, <2>2 DEF LoadReturns, rows
    <3>2. QED
      BY <1>1, <1>3, <3>1, EndPage
  <2>3. QED
    BY <2>1, <2>2
<1>5. QED
  BY <1>1, <1>2, <1>4 DEF Blank

LEMMA SubmitsKeeps ==
    ASSUME PageInv, UNCHANGED at, NEW k \in Slots, NEW kind, NEW of \in Targets, NEW arg,
           NEW flag \in Flags, kind \notin {"load", "poll"}, Submits(k, kind, of, arg, flag)
    PROVE  PageInv' /\ Only(k) /\ UNCHANGED modals /\ call[k] = Blank
           /\ call'[k] = Request(kind, of, arg, flag)
<1>1. UNCHANGED rows /\ ModalsOK' /\ Asks(k, Request(kind, of, arg, flag)) /\ UNCHANGED modals
  BY DEF Submits, PageInv, ModalsOK
<1>2. QED
  BY <1>1, AskPage

LEMMA AgreesKeeps ==
    ASSUME PageInv, UNCHANGED at, NEW k \in Slots, NEW kind \in Flags, NEW of \in Targets,
           kind \notin {"load", "poll"}, Agrees(k, kind, of)
    PROVE  PageInv' /\ Only(k) /\ UNCHANGED modals /\ call[k] = Blank
           /\ call'[k] = Request(kind, of, None, kind)
<1>1. UNCHANGED rows /\ ModalsOK' /\ Asks(k, Request(kind, of, None, kind)) /\ UNCHANGED modals
  BY DEF Agrees, PageInv, ModalsOK
<1>2. QED
  BY <1>1, AskPage

LEMMA PressesKeeps ==
    ASSUME PageInv, UNCHANGED at, NEW k \in Slots, NEW op, NEW of \in Targets,
           NEW flag \in Flags, op \notin {"load", "poll"}, Presses(k, op, of, flag)
    PROVE  PageInv' /\ Only(k) /\ UNCHANGED modals /\ call[k] = Blank
           /\ call'[k] = Request(op, of, None, flag)
<1>1. UNCHANGED rows /\ ModalsOK' /\ UNCHANGED modals
  BY DEF Presses, PageInv, ModalsOK
<1>2. Asks(k, Request(op, of, None, flag))
  BY DEF Presses
<1>3. QED
  BY <1>1, <1>2, AskPage

\* Modals that open and close.
LEMMA OpensKeeps ==
    ASSUME PageInv, UNCHANGED <<at, call, left, broken, rows, busy>>,
           NEW kind \in Kinds, NEW of \in Items \cup {None}, Opens(kind, of)
    PROVE  PageInv' /\ modals' = {[kind |-> kind, of |-> of]}
<1>1. ModalsOK' /\ modals' = {[kind |-> kind, of |-> of]}
  BY DEF Opens, PageInv, ModalsOK
<1>2. QED
  BY <1>1, StillPage

LEMMA CloseKeeps ==
    ASSUME PageInv, UNCHANGED at, NEW d, Close(d)
    PROVE  PageInv' /\ modals' \subseteq modals /\ UNCHANGED call
<1>1. ModalsOK' /\ UNCHANGED <<call, left, broken, rows>> /\ modals' \subseteq modals
  BY DEF Close, PageInv, ModalsOK
<1>2. QED
  BY <1>1, StillPage
-----------------------------------------------------------------------------
\* The parts of the pages, and the calls and modals each is about.
LEMMA MoveKeepsOthers ==
    ASSUME NEW ops, NEW kinds, NEW k \in Slots, Only(k), call[k].op \notin ops, call'[k].op \notin ops,
           \A d \in modals' : d.kind \in kinds => d \in modals
    PROVE  Kept(ops, kinds)
BY DEF Only, Kept

LEMMA FaultKeepsOthers ==
    ASSUME NEW ops, NEW kinds, PageInv, UNCHANGED at, NEW k \in Slots, ServeFault(k)
    PROVE  Kept(ops, kinds)
<1>1. Only(k) /\ UNCHANGED modals /\ call[k].at = "asked"
  BY FaultPage
<1>2. /\ call'[k].op = call[k].op /\ call'[k].of = call[k].of /\ call'[k].arg = call[k].arg
      /\ call'[k].at = "failed"
  <2>1. call'[k] = [op |-> call[k].op, of |-> call[k].of, arg |-> call[k].arg,
                    at |-> "failed", got |-> call[k].got, flag |-> call[k].flag]
    BY FaultPage
  <2>2. QED
    BY <2>1
<1>3. QED
  BY <1>1, <1>2 DEF Only, Kept

LEMMA RefuseKeepsOthers ==
    ASSUME NEW ops, NEW kinds, PageInv, UNCHANGED at, NEW k \in Slots, Refuses(k)
    PROVE  Kept(ops, kinds)
<1>1. Only(k) /\ UNCHANGED modals /\ call[k].at = "asked"
  BY RefusePage
<1>2. /\ call'[k].op = call[k].op /\ call'[k].of = call[k].of /\ call'[k].arg = call[k].arg
      /\ call'[k].at = "failed"
  <2>1. call'[k] = [op |-> call[k].op, of |-> call[k].of, arg |-> call[k].arg,
                    at |-> "failed", got |-> call[k].got, flag |-> call[k].flag]
    BY RefusePage
  <2>2. QED
    BY <2>1
<1>3. QED
  BY <1>1, <1>2 DEF Only, Kept

LEMMA StillKeepsOthers ==
    ASSUME NEW ops, NEW kinds, UNCHANGED call, \A d \in modals' : d.kind \in kinds => d \in modals
    PROVE  Kept(ops, kinds)
BY DEF Kept

LEMMA UsersFrame ==
    ASSUME UsersInv, UNCHANGED hiding, Kept({"keys", "hidden"}, {"hidden"})
    PROVE  UsersInv'
<1>1. /\ (UnderWay("hidden"))' \subseteq UnderWay("hidden")
      /\ (UnderWay("keys"))' \subseteq UnderWay("keys")
  BY DEF Kept, UnderWay
<1>2. \A k \in (UnderWay("hidden"))' \cup (UnderWay("keys"))' :
        /\ call'[k].of = call[k].of /\ call'[k].arg = call[k].arg
        /\ call'[k].at = "ok" => call'[k] = call[k]
  BY DEF Kept, UnderWay
<1>3. \A u \in Items : IsOpen("hidden", u)' => IsOpen("hidden", u)
  BY DEF Kept, IsOpen
<1>4. QED
  BY <1>1, <1>2, <1>3 DEF UsersInv, hiding

LEMMA FilesFrame ==
    ASSUME FilesInv, UNCHANGED filing, Kept({"upload"}, {})
    PROVE  FilesInv'
BY DEF FilesInv, filing, Kept, UnderWay

LEMMA LinksFrame ==
    ASSUME LinksInv, UNCHANGED linking, Kept({"link", "rotate"}, {"url"})
    PROVE  LinksInv'
<1>1. LinkCalls' \subseteq LinkCalls
  BY DEF Kept, UnderWay, LinkCalls
<1>2. \A k \in LinkCalls' : call'[k].of = call[k].of /\ (call'[k].at = "ok" => call'[k] = call[k])
  BY DEF Kept, UnderWay, LinkCalls
<1>3. \A k \in LinkCalls : call[k].at = "ok" => k \in LinkCalls' /\ call'[k].at = "ok"
  BY DEF Kept, UnderWay, LinkCalls
<1>4. LinkShown' => LinkShown
  BY DEF Kept, LinkShown, IsOpen
<1>5. QED
  BY <1>1, <1>2, <1>3, <1>4 DEF LinksInv, linking

LEMMA SwitchFrame ==
    ASSUME SwitchInv, UNCHANGED switching, Kept({"networks", "switch"}, {})
    PROVE  SwitchInv'
<1>1. /\ (UnderWay("networks"))' \subseteq UnderWay("networks")
      /\ (UnderWay("switch"))' \subseteq UnderWay("switch")
  BY DEF Kept, UnderWay
<1>2. \A k \in (UnderWay("networks"))' \cup (UnderWay("switch"))' :
        /\ call'[k].of = call[k].of /\ call'[k].arg = call[k].arg
        /\ call'[k].at = "ok" => call'[k] = call[k]
  BY DEF Kept, UnderWay
<1>3. SwitchIsListed'
  BY <1>1, <1>2 DEF SwitchInv, SwitchIsListed
<1>4. QED
  BY <1>1, <1>2, <1>3 DEF SwitchInv, switching

LEMMA LogsFrame ==
    ASSUME LogsInv, UNCHANGED logging, Kept({"logs"}, {"logs"})
    PROVE  LogsInv'
<1>1. (UnderWay("logs"))' \subseteq UnderWay("logs")
  BY DEF Kept, UnderWay
<1>2. \A k \in (UnderWay("logs"))' : call'[k].of = call[k].of
  BY DEF Kept, UnderWay
<1>3. \A m \in Items : IsOpen("logs", m)' => IsOpen("logs", m)
  BY DEF Kept, IsOpen
<1>4. QED
  BY <1>1, <1>2, <1>3 DEF LogsInv, logging

LEMMA NamesFrame ==
    ASSUME NamesInv, UNCHANGED members
    PROVE  NamesInv'
BY DEF NamesInv, members, SuccessWasApplied

LEMMA RenamesFrame ==
    ASSUME RenamesInv, UNCHANGED members, Kept({"rename", "poll"}, {"rename"})
    PROVE  RenamesInv'
<1>1. /\ (UnderWay("rename"))' \subseteq UnderWay("rename")
      /\ (UnderWay("poll"))' \subseteq UnderWay("poll")
  BY DEF Kept, UnderWay
<1>2. \A k \in (UnderWay("rename"))' \cup (UnderWay("poll"))' :
        /\ call'[k].of = call[k].of /\ call'[k].arg = call[k].arg
        /\ call'[k].at = "ok" => call'[k] = call[k]
  BY DEF Kept, UnderWay
<1>3. \A m \in Items : IsOpen("rename", m)' => IsOpen("rename", m)
  BY DEF Kept, IsOpen
<1>4. QED
  BY <1>1, <1>2, <1>3 DEF RenamesInv, members
-----------------------------------------------------------------------------
HidingOps == {"keys", "hidden"}
PlanetOps == {"upload", "link", "rotate"}
MachineOps == {"networks", "switch", "logs"}
MemberOps == {"rename", "poll"}
SpecialOps == HidingOps \cup PlanetOps \cup MachineOps \cup MemberOps
SpecialKinds == {"hidden", "url", "logs", "rename"}

LEMMA NotUsers ==
    ASSUME VInv, UNCHANGED <<planets, machines, members>>,
           Kept(PlanetOps \cup MachineOps \cup MemberOps, {"url", "logs", "rename"})
    PROVE  FilesInv' /\ LinksInv' /\ SwitchInv' /\ LogsInv' /\ NamesInv' /\ RenamesInv'
<1>1. /\ Kept({"upload"}, {}) /\ Kept({"link", "rotate"}, {"url"}) /\ Kept({"networks", "switch"}, {})
      /\ Kept({"logs"}, {"logs"}) /\ Kept({"rename", "poll"}, {"rename"})
  BY DEF Kept, PlanetOps, MachineOps, MemberOps
<1>2. UNCHANGED filing /\ UNCHANGED linking /\ UNCHANGED switching /\ UNCHANGED logging
  BY DEF planets, machines, filing, linking
<1>3. QED
  BY <1>1, <1>2, FilesFrame, LinksFrame, SwitchFrame, LogsFrame, NamesFrame, RenamesFrame DEF VInv

LEMMA NotControllers ==
    ASSUME VInv, UNCHANGED <<hiding, machines, members>>,
           Kept(HidingOps \cup MachineOps \cup MemberOps, {"hidden", "logs", "rename"})
    PROVE  UsersInv' /\ SwitchInv' /\ LogsInv' /\ NamesInv' /\ RenamesInv'
<1>1. /\ Kept({"keys", "hidden"}, {"hidden"}) /\ Kept({"networks", "switch"}, {})
      /\ Kept({"logs"}, {"logs"}) /\ Kept({"rename", "poll"}, {"rename"})
  BY DEF Kept, HidingOps, MachineOps, MemberOps
<1>2. UNCHANGED switching /\ UNCHANGED logging
  BY DEF machines
<1>3. QED
  BY <1>1, <1>2, UsersFrame, SwitchFrame, LogsFrame, NamesFrame, RenamesFrame DEF VInv

LEMMA NotMachines ==
    ASSUME VInv, UNCHANGED <<hiding, planets, members>>,
           Kept(HidingOps \cup PlanetOps \cup MemberOps, {"hidden", "url", "rename"})
    PROVE  UsersInv' /\ FilesInv' /\ LinksInv' /\ NamesInv' /\ RenamesInv'
<1>1. /\ Kept({"keys", "hidden"}, {"hidden"}) /\ Kept({"upload"}, {})
      /\ Kept({"link", "rotate"}, {"url"}) /\ Kept({"rename", "poll"}, {"rename"})
  BY DEF Kept, HidingOps, PlanetOps, MemberOps
<1>2. UNCHANGED filing /\ UNCHANGED linking
  BY DEF planets, filing, linking
<1>3. QED
  BY <1>1, <1>2, UsersFrame, FilesFrame, LinksFrame, NamesFrame, RenamesFrame DEF VInv

LEMMA NotMembers ==
    ASSUME VInv, UNCHANGED <<hiding, planets, machines>>,
           Kept(HidingOps \cup PlanetOps \cup MachineOps, {"hidden", "url", "logs"})
    PROVE  UsersInv' /\ FilesInv' /\ LinksInv' /\ SwitchInv' /\ LogsInv'
<1>1. /\ Kept({"keys", "hidden"}, {"hidden"}) /\ Kept({"upload"}, {})
      /\ Kept({"link", "rotate"}, {"url"}) /\ Kept({"networks", "switch"}, {}) /\ Kept({"logs"}, {"logs"})
  BY DEF Kept, HidingOps, PlanetOps, MachineOps
<1>2. UNCHANGED filing /\ UNCHANGED linking /\ UNCHANGED switching /\ UNCHANGED logging
  BY DEF planets, machines, filing, linking
<1>3. QED
  BY <1>1, <1>2, UsersFrame, FilesFrame, LinksFrame, SwitchFrame, LogsFrame DEF VInv

\* A step about none of them.
Plain == UNCHANGED <<at, hiding, planets, machines, members>>

LEMMA PlainStep ==
    ASSUME VInv, Plain, PageInv', Kept(SpecialOps, SpecialKinds)
    PROVE  VInv'
<1>1. /\ Kept(PlanetOps \cup MachineOps \cup MemberOps, {"url", "logs", "rename"})
      /\ Kept({"keys", "hidden"}, {"hidden"})
  BY DEF Kept, SpecialOps, HidingOps, SpecialKinds
<1>2. UsersInv'
  BY <1>1, UsersFrame DEF VInv, Plain
<1>3. QED
  BY <1>1, <1>2, NotUsers DEF VInv, Plain

LEMMA PlainMove ==
    ASSUME VInv, Plain, PageInv', NEW k \in Slots, Only(k),
           call[k].op \notin SpecialOps, call'[k].op \notin SpecialOps,
           \A d \in modals' : d.kind \in SpecialKinds => d \in modals
    PROVE  VInv'
BY PlainStep, MoveKeepsOthers

\* A switch that is under way may be answered, but asks for what it asked for.
LEMMA SwitchMove ==
    ASSUME VInv, Plain, PageInv', NEW k \in Slots, Only(k), modals' \subseteq modals,
           call[k].op = "switch",
           \/ call'[k].op \in {"none", "load"}
           \/ call'[k].op = "switch" /\ call'[k].arg = call[k].arg
    PROVE  VInv'
<1>1. Kept(SpecialOps \ {"switch"}, SpecialKinds)
  BY MoveKeepsOthers DEF SpecialOps, HidingOps, PlanetOps, MachineOps, MemberOps
<1>2. /\ Kept(HidingOps \cup PlanetOps \cup MemberOps, {"hidden", "url", "rename"})
      /\ Kept({"logs"}, {"logs"}) /\ Kept({"networks"}, {})
  BY <1>1 DEF Kept, SpecialOps, SpecialKinds, HidingOps, PlanetOps, MachineOps, MemberOps
<1>3. UNCHANGED switching /\ UNCHANGED logging
  BY DEF Plain, machines
<1>4. SwitchIsListed'
  BY <1>3 DEF VInv, SwitchInv, SwitchIsListed, UnderWay, Only
<1>5. \A j \in (UnderWay("networks"))' : j \in UnderWay("networks") /\ call'[j].of = call[j].of
          /\ call'[j].arg = call[j].arg /\ (call'[j].at = "ok" => call'[j] = call[j])
  BY <1>2 DEF Kept, UnderWay
<1>6. SwitchInv'
  BY <1>3, <1>4, <1>5 DEF VInv, SwitchInv, switching
<1>7. LogsInv'
  BY <1>2, <1>3, LogsFrame DEF VInv
<1>8. QED
  BY <1>2, <1>6, <1>7, NotMachines DEF VInv, Plain

LEMMA PlainSubmits ==
    ASSUME VInv, Plain, NEW k \in Slots, NEW kind, NEW of \in Targets, NEW arg, NEW flag \in Flags,
           kind \notin SpecialOps \cup {"load"}, Submits(k, kind, of, arg, flag)
    PROVE  VInv'
<1>1. PageInv' /\ Only(k) /\ UNCHANGED modals /\ call[k] = Blank
      /\ call'[k] = Request(kind, of, arg, flag)
  BY SubmitsKeeps DEF VInv, Plain, SpecialOps, MemberOps
<1>2. call[k].op = "none" /\ call'[k].op = kind
  BY <1>1 DEF Blank, Request
<1>3. QED
  BY <1>1, <1>2, PlainMove DEF SpecialOps, HidingOps, PlanetOps, MachineOps, MemberOps

LEMMA PlainAgrees ==
    ASSUME VInv, Plain, NEW k \in Slots, NEW kind \in Flags, NEW of \in Targets,
           kind \notin SpecialOps \cup {"load"}, Agrees(k, kind, of)
    PROVE  VInv'
<1>1. PageInv' /\ Only(k) /\ UNCHANGED modals /\ call[k] = Blank
      /\ call'[k] = Request(kind, of, None, kind)
  BY AgreesKeeps DEF VInv, Plain, SpecialOps, MemberOps
<1>2. call[k].op = "none" /\ call'[k].op = kind
  BY <1>1 DEF Blank, Request
<1>3. QED
  BY <1>1, <1>2, PlainMove DEF SpecialOps, HidingOps, PlanetOps, MachineOps, MemberOps

LEMMA PlainPresses ==
    ASSUME VInv, Plain, NEW k \in Slots, NEW op, NEW of \in Targets, NEW flag \in Flags,
           op \notin SpecialOps \cup {"load"}, Presses(k, op, of, flag)
    PROVE  VInv'
<1>1. PageInv' /\ Only(k) /\ UNCHANGED modals /\ call[k] = Blank
      /\ call'[k] = Request(op, of, None, flag)
  BY PressesKeeps DEF VInv, Plain, SpecialOps, MemberOps
<1>2. call[k].op = "none" /\ call'[k].op = op
  BY <1>1 DEF Blank, Request
<1>3. QED
  BY <1>1, <1>2, PlainMove DEF SpecialOps, HidingOps, PlanetOps, MachineOps, MemberOps

LEMMA PlainWrite ==
    ASSUME VInv, Plain, NEW k \in Slots, NEW ops, ops \subseteq Writes \ (SpecialOps \ {"switch"}),
           ServeWrite(k, ops)
    PROVE  VInv'
<1>1. PageInv' /\ Only(k) /\ UNCHANGED modals /\ call[k].op \in ops /\ call[k].at = "asked"
  BY WritePage DEF VInv, Plain
<1>2. call'[k].op = call[k].op /\ call'[k].arg = call[k].arg
  <2>1. call'[k] = [op |-> call[k].op, of |-> call[k].of, arg |-> call[k].arg,
                    at |-> "ok", got |-> version + 1, flag |-> call[k].flag]
    BY WritePage DEF VInv, Plain
  <2>2. QED
    BY <2>1
<1>3. CASE call[k].op # "switch"
  BY <1>1, <1>2, <1>3, PlainMove
<1>4. CASE call[k].op = "switch"
  BY <1>1, <1>2, <1>4, SwitchMove
<1>5. QED
  BY <1>3, <1>4

LEMMA PlainRead ==
    ASSUME VInv, Plain, NEW k \in Slots, NEW ops, NEW got, ServeRead(k, ops, got),
           \A op \in ops : op \notin Writes \cup {"load"} \cup SpecialOps
    PROVE  VInv'
<1>1. PageInv' /\ Only(k) /\ UNCHANGED modals /\ call[k].op \in ops
  BY ReadPage DEF VInv, Plain, SpecialOps, MemberOps
<1>2. call'[k].op = call[k].op
  <2>1. call'[k] = [op |-> call[k].op, of |-> call[k].of, arg |-> call[k].arg,
                    at |-> "ok", got |-> got, flag |-> call[k].flag]
    BY ReadPage DEF VInv, Plain, SpecialOps, MemberOps
  <2>2. QED
    BY <2>1
<1>3. QED
  BY <1>1, <1>2, PlainMove

LEMMA PlainLoad ==
    ASSUME VInv, Plain, NEW k \in Slots, ServeLoad(k)
    PROVE  VInv'
<1>0. ServeRead(k, {"load"}, version)
  BY DEF ServeLoad
<1>1. PageInv' /\ Only(k) /\ UNCHANGED modals /\ call[k].op = "load" /\ call'[k].op = "load"
  <2>1. /\ PageInv' /\ Only(k) /\ UNCHANGED modals /\ call[k].op = "load"
        /\ call'[k] = [op |-> call[k].op, of |-> call[k].of, arg |-> call[k].arg,
                       at |-> "ok", got |-> version, flag |-> call[k].flag]
    BY <1>0, LoadPage DEF VInv, Plain
  <2>2. QED
    BY <2>1
<1>2. QED
  BY <1>1, PlainMove DEF SpecialOps, HidingOps, PlanetOps, MachineOps, MemberOps

LEMMA PlainFault ==
    ASSUME VInv, Plain, NEW k \in Slots, ServeFault(k)
    PROVE  VInv'
BY FaultPage, FaultKeepsOthers, PlainStep DEF VInv, Plain

LEMMA PlainRefuses ==
    ASSUME VInv, Plain, NEW k \in Slots, Refuses(k)
    PROVE  VInv'
BY RefusePage, RefuseKeepsOthers, PlainStep DEF VInv, Plain

LEMMA PlainRefresh ==
    ASSUME VInv, Plain, NEW k \in Slots, Refresh(k)
    PROVE  VInv'
<1>1. PageInv' /\ Only(k) /\ UNCHANGED modals /\ call[k].op = "none" /\ call'[k].op = "load"
  BY RefreshKeeps DEF VInv, Plain, Blank, Request
<1>2. QED
  BY <1>1, PlainMove DEF SpecialOps, HidingOps, PlanetOps, MachineOps, MemberOps

LEMMA PlainReturns ==
    ASSUME VInv, Plain, NEW k \in Slots, NEW kind, NEW again, Returns(k, kind, again),
           kind \in Writes \/ again = "never", kind \notin SpecialOps \ {"switch"}
    PROVE  VInv'
<1>1. PageInv' /\ Only(k) /\ modals' \subseteq modals /\ call[k].op = kind
      /\ call'[k].op \in {"none", "load"}
  BY ReturnsKeeps DEF VInv, Plain
<1>2. call'[k].op \notin SpecialOps
  BY <1>1 DEF SpecialOps, HidingOps, PlanetOps, MachineOps, MemberOps
<1>3. CASE kind # "switch"
  BY <1>1, <1>2, <1>3, PlainMove
<1>4. CASE kind = "switch"
  BY <1>1, <1>4, SwitchMove
<1>5. QED
  BY <1>3, <1>4

LEMMA PlainAgreed ==
    ASSUME VInv, Plain, NEW k \in Slots, NEW kind \in Writes, AgreedReturns(k, kind),
           kind \notin SpecialOps
    PROVE  VInv'
<1>1. PageInv' /\ Only(k) /\ modals' \subseteq modals /\ call[k].op = kind
      /\ call'[k].op \in {"none", "load"}
  BY AgreedKeeps DEF VInv, Plain
<1>2. QED
  BY <1>1, PlainMove DEF SpecialOps, HidingOps, PlanetOps, MachineOps, MemberOps

LEMMA PlainLoadReturns ==
    ASSUME VInv, Plain, NEW k \in Slots, LoadReturns(k)
    PROVE  VInv'
<1>1. PageInv' /\ Only(k) /\ modals' \subseteq modals /\ call[k].op = "load"
      /\ call'[k].op = "none"
  BY LoadReturnsKeeps DEF VInv, Plain
<1>2. QED
  BY <1>1, PlainMove DEF SpecialOps, HidingOps, PlanetOps, MachineOps, MemberOps

LEMMA PlainOpens ==
    ASSUME VInv, Plain, UNCHANGED <<call, left, broken, rows, busy>>,
           NEW kind \in Kinds \ SpecialKinds, NEW of \in Items \cup {None}, Opens(kind, of)
    PROVE  VInv'
<1>1. PageInv' /\ modals' = {[kind |-> kind, of |-> of]}
  BY OpensKeeps DEF VInv, Plain
<1>2. QED
  BY <1>1, PlainStep, StillKeepsOthers

LEMMA PlainClose ==
    ASSUME VInv, Plain, NEW d, Close(d)
    PROVE  VInv'
<1>1. PageInv' /\ modals' \subseteq modals /\ UNCHANGED call
  BY CloseKeeps DEF VInv, Plain
<1>2. QED
  BY <1>1, PlainStep, StillKeepsOthers
-----------------------------------------------------------------------------
\* The page of users.
OnUsers == UNCHANGED <<at, planets, machines, members>>

LEMMA UsersMove ==
    ASSUME VInv, OnUsers, PageInv', UsersInv', NEW k \in Slots, Only(k),
           call[k].op \in HidingOps \cup {"none"}, call'[k].op \in HidingOps \cup {"none", "load"},
           \A d \in modals' : d.kind \in {"url", "logs", "rename"} => d \in modals
    PROVE  VInv'
<1>1. Kept(PlanetOps \cup MachineOps \cup MemberOps, {"url", "logs", "rename"})
  BY MoveKeepsOthers DEF HidingOps, PlanetOps, MachineOps, MemberOps
<1>2. QED
  BY <1>1, NotUsers DEF VInv, OnUsers

LEMMA OpenHiddenStep ==
    ASSUME VInv, OnUsers, NEW k \in Slots, NEW u \in Items, OpenHidden(k, u)
    PROVE  VInv'
<1>1. ModalsOK' /\ modals' = {[kind |-> "hidden", of |-> u]} /\ UNCHANGED rows
  BY DEF OpenHidden, Opens, VInv, PageInv, ModalsOK, Kinds, Flags
<1>2. /\ PageInv' /\ Only(k) /\ call[k] = Blank
      /\ call'[k] = Request("keys", u, None, "hiddenLoading")
  <2>1. Asks(k, Request("keys", u, None, "hiddenLoading"))
    BY DEF OpenHidden
  <2>2. "hiddenLoading" \in Flags \cup {None} /\ u \in Targets
    BY DEF Flags, Targets
  <2>3. QED
    BY <1>1, <2>1, <2>2, AskPage DEF VInv, OnUsers
<1>3. call[k].op = "none" /\ call'[k].op = "keys" /\ call'[k].of = u /\ call'[k].at = "asked"
  BY <1>2 DEF Blank, Request
<1>4. /\ keys' = {} /\ keysOf' = None /\ stored' = stored
      /\ alone' = \A j \in UnderWay("keys") : call[j].of = u
  BY DEF OpenHidden, FirstKeys
<1>5. /\ (UnderWay("keys"))' \subseteq UnderWay("keys") \cup {k}
      /\ (UnderWay("hidden"))' \subseteq UnderWay("hidden") \ {k}
  BY <1>2, <1>3 DEF UnderWay, Only
<1>6. \A j \in UnderWay("keys") \cup UnderWay("hidden") : call'[j] = call[j]
  BY <1>2, <1>3 DEF UnderWay, Only
<1>7. \A v \in Items : IsOpen("hidden", v)' => v = u
  BY <1>1 DEF IsOpen
<1>8. UsersInv'
  BY <1>3, <1>4, <1>5, <1>6, <1>7 DEF VInv, UsersInv
<1>9. QED
  BY <1>1, <1>2, <1>3, <1>8, UsersMove DEF HidingOps

LEMMA ServeKeysStep ==
    ASSUME VInv, OnUsers, NEW k \in Slots, ServeKeys(k)
    PROVE  VInv'
<1>1. ServeRead(k, {"keys"}, stored[call[k].of]) /\ UNCHANGED hiding
  BY DEF ServeKeys
<1>2. /\ PageInv' /\ Only(k) /\ UNCHANGED modals /\ call[k].op = "keys"
      /\ call'[k] = [op |-> call[k].op, of |-> call[k].of, arg |-> call[k].arg, at |-> "ok",
                     got |-> stored[call[k].of], flag |-> call[k].flag]
  BY <1>1, ReadPage DEF VInv, OnUsers, Writes
<1>3. /\ call'[k].op = "keys" /\ call'[k].of = call[k].of /\ call'[k].got = stored[call[k].of]
  BY <1>2
<1>4. /\ (UnderWay("keys"))' = UnderWay("keys") /\ (UnderWay("hidden"))' = UnderWay("hidden")
      /\ k \in UnderWay("keys") /\ k \notin UnderWay("hidden")
  BY <1>2, <1>3 DEF UnderWay, Only
<1>5. \A j \in UnderWay("keys") \cup UnderWay("hidden") : j # k => call'[j] = call[j]
  BY <1>2 DEF UnderWay, Only
<1>6. call'[k].got \subseteq Nets
  BY <1>3, <1>4 DEF VInv, UsersInv
<1>7. UsersInv'
  BY <1>1, <1>2, <1>3, <1>4, <1>5, <1>6 DEF VInv, UsersInv, hiding, IsOpen
<1>8. QED
  BY <1>2, <1>3, <1>7, UsersMove DEF HidingOps

LEMMA KeysReturnStep ==
    ASSUME VInv, OnUsers, NEW k \in Slots, KeysReturn(k)
    PROVE  VInv'
<1>1. /\ call[k].op = "keys" /\ Ends(k) /\ UNCHANGED <<rows, modals, stored, alone>>
      /\ busy' \subseteq busy
      /\ \/ call[k].at = "ok" /\ keys' = call[k].got /\ keysOf' = call[k].of
         \/ UNCHANGED <<keys, keysOf>>
  BY DEF KeysReturn, Came, Good
<1>2. ModalsOK'
  BY <1>1 DEF VInv, PageInv, ModalsOK
<1>3. PageInv' /\ call'[k] = Blank /\ Only(k)
  BY <1>1, <1>2, EndPage DEF VInv, OnUsers
<1>4. call'[k].op = "none"
  BY <1>3 DEF Blank
<1>5. /\ (UnderWay("keys"))' \subseteq UnderWay("keys") \ {k} /\ k \in UnderWay("keys")
      /\ (UnderWay("hidden"))' \subseteq UnderWay("hidden") \ {k}
  BY <1>1, <1>3, <1>4 DEF UnderWay, Only
<1>6. \A j \in UnderWay("keys") \cup UnderWay("hidden") : j # k => call'[j] = call[j]
  BY <1>3 DEF UnderWay, Only
<1>7. UsersInv'
  BY <1>1, <1>5, <1>6 DEF VInv, UsersInv, IsOpen
<1>8. QED
  BY <1>1, <1>3, <1>4, <1>7, UsersMove DEF HidingOps

LEMMA ChooseStep ==
    ASSUME VInv, OnUsers, NEW n \in Nets, Choose(n)
    PROVE  VInv'
<1>1. UNCHANGED <<page, stored, keysOf, alone>> /\ keys' = (keys \cup {n}) \ (keys \cap {n})
  BY DEF Choose
<1>2. PageInv'
  BY <1>1, StillPage DEF VInv, OnUsers, page, PageInv, ModalsOK
<1>3. UsersInv'
  BY <1>1 DEF VInv, UsersInv, IsOpen, UnderWay, page
<1>4. Kept(PlanetOps \cup MachineOps \cup MemberOps, {"url", "logs", "rename"})
  BY <1>1, StillKeepsOthers DEF page
<1>5. QED
  BY <1>2, <1>3, <1>4, NotUsers DEF VInv, OnUsers

LEMMA SaveHiddenStep ==
    ASSUME VInv, OnUsers, NEW k \in Slots, NEW u \in Items, SaveHidden(k, u)
    PROVE  VInv'
<1>1. /\ Submits(k, "hidden", u, keys, "hiddenSaving") /\ UNCHANGED hiding
      /\ "hiddenSaving" \in Flags /\ u \in Targets
  BY DEF SaveHidden, Flags, Targets
<1>2. /\ PageInv' /\ Only(k) /\ UNCHANGED modals /\ call[k] = Blank
      /\ call'[k] = Request("hidden", u, keys, "hiddenSaving")
  BY <1>1, SubmitsKeeps DEF VInv, OnUsers
<1>3. call[k].op = "none" /\ call'[k].op = "hidden" /\ call'[k].of = u /\ call'[k].arg = keys
  BY <1>2 DEF Blank, Request
<1>4. /\ (UnderWay("keys"))' \subseteq UnderWay("keys") \ {k}
      /\ (UnderWay("hidden"))' \subseteq UnderWay("hidden") \cup {k}
  BY <1>2, <1>3 DEF UnderWay, Only
<1>5. \A j \in UnderWay("keys") \cup UnderWay("hidden") : call'[j] = call[j]
  BY <1>2, <1>3 DEF UnderWay, Only
<1>6. UsersInv'
  BY <1>1, <1>2, <1>3, <1>4, <1>5 DEF VInv, UsersInv, hiding, IsOpen
<1>7. QED
  BY <1>2, <1>3, <1>6, UsersMove DEF HidingOps

LEMMA ServeHiddenStep ==
    ASSUME VInv, OnUsers, NEW k \in Slots, ServeHidden(k)
    PROVE  VInv'
<1>1. /\ ServeWrite(k, {"hidden"}) /\ UNCHANGED <<keys, keysOf, alone>>
      /\ stored' = [stored EXCEPT ![call[k].of] = call[k].arg]
  BY DEF ServeHidden
<1>2. /\ PageInv' /\ Only(k) /\ UNCHANGED modals /\ call[k].op = "hidden"
      /\ call'[k] = [op |-> call[k].op, of |-> call[k].of, arg |-> call[k].arg, at |-> "ok",
                     got |-> version + 1, flag |-> call[k].flag]
  BY <1>1, WritePage DEF VInv, OnUsers, Writes
<1>3. /\ call'[k].op = "hidden" /\ call'[k].of = call[k].of /\ call'[k].arg = call[k].arg
  BY <1>2
<1>4. /\ (UnderWay("keys"))' = UnderWay("keys") /\ (UnderWay("hidden"))' = UnderWay("hidden")
      /\ k \in UnderWay("hidden") /\ k \notin UnderWay("keys")
  BY <1>2, <1>3 DEF UnderWay, Only
<1>5. \A j \in UnderWay("keys") \cup UnderWay("hidden") : j # k => call'[j] = call[j]
  BY <1>2 DEF UnderWay, Only
<1>6. stored' \in [Items -> SUBSET Nets]
  BY <1>1, <1>4 DEF VInv, UsersInv
<1>7. UsersInv'
  BY <1>1, <1>2, <1>3, <1>4, <1>5, <1>6 DEF VInv, UsersInv, IsOpen
<1>8. QED
  BY <1>2, <1>3, <1>7, UsersMove DEF HidingOps

LEMMA SaveHiddenReturnsStep ==
    ASSUME VInv, OnUsers, NEW k \in Slots, SaveHiddenReturns(k)
    PROVE  VInv'
<1>1. Returns(k, "hidden", "ok") /\ UNCHANGED hiding
  BY DEF SaveHiddenReturns
<1>2. /\ PageInv' /\ Only(k) /\ modals' \subseteq modals /\ call[k].op = "hidden"
      /\ call'[k].op \in {"none", "load"}
  BY <1>1, ReturnsKeeps DEF VInv, OnUsers, Writes
<1>3. /\ (UnderWay("keys"))' \subseteq UnderWay("keys") \ {k}
      /\ (UnderWay("hidden"))' \subseteq UnderWay("hidden") \ {k}
  BY <1>2 DEF UnderWay, Only
<1>4. \A j \in UnderWay("keys") \cup UnderWay("hidden") : j # k => call'[j] = call[j]
  BY <1>2 DEF UnderWay, Only
<1>5. UsersInv'
  BY <1>1, <1>2, <1>3, <1>4 DEF VInv, UsersInv, hiding, IsOpen
<1>6. QED
  BY <1>2, <1>5, UsersMove DEF HidingOps

LEMMA UsersStep ==
    ASSUME VInv, OnUsers, UsersNext
    PROVE  VInv'
<1> USE DEF OnUsers, Plain
<1>1. "saving" \in Flags /\ None \in Targets /\ Items \subseteq Targets
  BY DEF Flags, Targets
<1>2. /\ {"create", "reset"} \subseteq Kinds \ SpecialKinds
      /\ {"create", "reset"} \subseteq Writes \ SpecialOps /\ "load" \notin {"create", "reset"}
  BY DEF Kinds, SpecialKinds, Writes, SpecialOps, HidingOps, PlanetOps, MachineOps, MemberOps
<1>3. CASE OpenCreateUser
  BY <1>2, <1>3, PlainOpens DEF OpenCreateUser
<1>4. CASE \E d \in modals : Close(d) /\ UNCHANGED hiding
  BY <1>4, PlainClose
<1>5. CASE \E u \in Items : OpenReset(u)
  BY <1>2, <1>5, PlainOpens DEF OpenReset
<1>6. CASE \E n \in Nets : Choose(n)
  BY <1>6, ChooseStep
<1>7. ASSUME NEW k \in Slots, NEW u \in Items, ResetPassword(k, u) PROVE VInv'
  BY <1>1, <1>2, <1>7, PlainSubmits DEF ResetPassword
<1>8. ASSUME NEW k \in Slots, NEW u \in Items, OpenHidden(k, u) \/ SaveHidden(k, u) PROVE VInv'
  BY <1>8, OpenHiddenStep, SaveHiddenStep
<1>9. ASSUME NEW k \in Slots, CreateUser(k) PROVE VInv'
  BY <1>1, <1>2, <1>9, PlainSubmits DEF CreateUser
<1>10. ASSUME NEW k \in Slots, CreateUserReturns(k) \/ ResetReturns(k) PROVE VInv'
  BY <1>2, <1>10, PlainReturns DEF CreateUserReturns, ResetReturns
<1>11. ASSUME NEW k \in Slots,
              ServeKeys(k) \/ KeysReturn(k) \/ ServeHidden(k) \/ SaveHiddenReturns(k)
       PROVE  VInv'
  BY <1>11, ServeKeysStep, KeysReturnStep, ServeHiddenStep, SaveHiddenReturnsStep
<1>12. ASSUME NEW k \in Slots, UNCHANGED hiding,
              Refresh(k) \/ ServeLoad(k) \/ ServeWrite(k, {"create", "reset"})
              \/ ServeFault(k) \/ LoadReturns(k)
       PROVE  VInv'
  BY <1>2, <1>12, PlainRefresh, PlainLoad, PlainWrite, PlainFault, PlainLoadReturns
<1>13. QED
  BY <1>3, <1>4, <1>5, <1>6, <1>7, <1>8, <1>9, <1>10, <1>11, <1>12 DEF UsersNext
-----------------------------------------------------------------------------
\* The page of controllers.
OnControllers == UNCHANGED <<at, hiding, machines, members>>

LEMMA ControllersMove ==
    ASSUME VInv, OnControllers, PageInv', FilesInv', LinksInv', NEW k \in Slots, Only(k),
           call[k].op \notin HidingOps \cup MachineOps \cup MemberOps,
           call'[k].op \notin HidingOps \cup MachineOps \cup MemberOps,
           \A d \in modals' : d.kind \in {"hidden", "logs", "rename"} => d \in modals
    PROVE  VInv'
<1>1. Kept(HidingOps \cup MachineOps \cup MemberOps, {"hidden", "logs", "rename"})
  BY MoveKeepsOthers
<1>2. QED
  BY <1>1, NotControllers DEF VInv, OnControllers

LEMMA ControllersStill ==
    ASSUME VInv, OnControllers, UNCHANGED <<page, linking>>, FilesInv'
    PROVE  VInv'
<1>1. PageInv'
  BY StillPage DEF VInv, OnControllers, page, PageInv, ModalsOK
<1>2. /\ Kept(HidingOps \cup MachineOps \cup MemberOps, {"hidden", "logs", "rename"})
      /\ Kept({"link", "rotate"}, {"url"})
  BY StillKeepsOthers DEF page
<1>3. LinksInv'
  BY <1>2, LinksFrame DEF VInv
<1>4. QED
  BY <1>1, <1>2, <1>3, NotControllers DEF VInv, OnControllers

LEMMA OpenPlanetPickerStep ==
    ASSUME VInv, OnControllers, NEW c \in Items, OpenPlanetPicker(c)
    PROVE  VInv'
<1>1. FilesInv'
  BY DEF OpenPlanetPicker, VInv, FilesInv, UnderWay, page
<1>2. QED
  BY <1>1, ControllersStill DEF OpenPlanetPicker

LEMMA LeavePickerStep ==
    ASSUME VInv, OnControllers, LeavePicker \/ PlanetRejected
    PROVE  VInv'
<1>1. FilesInv'
  BY DEF LeavePicker, PlanetRejected, VInv, FilesInv, UnderWay, page
<1>2. QED
  BY <1>1, ControllersStill DEF LeavePicker, PlanetRejected

LEMMA PlanetSelectedStep ==
    ASSUME VInv, OnControllers, NEW k \in Slots, PlanetSelected(k)
    PROVE  VInv'
<1>1. /\ picker # None /\ pendingPlanet # None /\ picker' = None
      /\ Asks(k, Request("upload", pendingPlanet, picker, "uploading"))
      /\ busy' = busy \cup {"uploading"}
      /\ UNCHANGED <<rows, modals, pendingPlanet, planet, gone, linking>>
  BY DEF PlanetSelected, UploadTarget
<1>2. ModalsOK' /\ "uploading" \in Flags \cup {None}
  BY <1>1 DEF VInv, PageInv, ModalsOK, Flags
<1>3. pendingPlanet = picker /\ picker \in Items /\ picker \in Targets
  BY <1>1 DEF VInv, FilesInv, Targets
<1>4. /\ PageInv' /\ Only(k) /\ call[k] = Blank
      /\ call'[k] = Request("upload", pendingPlanet, picker, "uploading")
  BY <1>1, <1>2, <1>3, AskPage DEF VInv, OnControllers
<1>5. call[k].op = "none" /\ call'[k].op = "upload" /\ call'[k].of = picker /\ call'[k].arg = picker
  BY <1>3, <1>4 DEF Blank, Request
<1>6. /\ (UnderWay("upload"))' \subseteq UnderWay("upload") \cup {k}
      /\ \A j \in UnderWay("upload") : call'[j] = call[j]
  BY <1>4, <1>5 DEF UnderWay, Only
<1>7. FilesInv'
  BY <1>1, <1>3, <1>5, <1>6 DEF VInv, FilesInv
<1>8. LinksInv'
  BY <1>1, <1>4, <1>5, MoveKeepsOthers, LinksFrame DEF VInv
<1>9. QED
  BY <1>1, <1>4, <1>5, <1>7, <1>8, ControllersMove DEF HidingOps, MachineOps, MemberOps

LEMMA ServeUploadStep ==
    ASSUME VInv, OnControllers, NEW k \in Slots, ServeUpload(k)
    PROVE  VInv'
<1>1. /\ ServeWrite(k, {"upload"}) /\ UNCHANGED <<picker, pendingPlanet, gone, linking>>
      /\ planet' = [planet EXCEPT ![call[k].of] = call[k].arg]
  BY DEF ServeUpload
<1>2. /\ PageInv' /\ Only(k) /\ UNCHANGED modals /\ call[k].op = "upload"
      /\ call'[k] = [op |-> call[k].op, of |-> call[k].of, arg |-> call[k].arg, at |-> "ok",
                     got |-> version + 1, flag |-> call[k].flag]
  BY <1>1, WritePage DEF VInv, OnControllers, Writes
<1>3. call'[k].op = "upload" /\ call'[k].of = call[k].of /\ call'[k].arg = call[k].arg
  BY <1>2
<1>4. /\ (UnderWay("upload"))' = UnderWay("upload") /\ k \in UnderWay("upload")
      /\ \A j \in UnderWay("upload") : call'[j].of = call[j].of /\ call'[j].arg = call[j].arg
  BY <1>2, <1>3 DEF UnderWay, Only
<1>5. call[k].of \in Items /\ call[k].arg = call[k].of
  BY <1>4 DEF VInv, FilesInv
<1>6. planet' \in [Items -> Items \cup {None}] /\ \A c \in Items : planet'[c] \in {None, c}
  BY <1>1, <1>5 DEF VInv, FilesInv
<1>7. FilesInv'
  BY <1>1, <1>4, <1>6 DEF VInv, FilesInv
<1>8. LinksInv'
  BY <1>1, <1>2, <1>3, MoveKeepsOthers, LinksFrame DEF VInv
<1>9. QED
  BY <1>2, <1>3, <1>7, <1>8, ControllersMove DEF HidingOps, MachineOps, MemberOps

\* A planet goes, and its link with it: the link that is shown or under way is of another
\* controller, or has crossed.
LEMMA ServeRemovalStep ==
    ASSUME VInv, OnControllers, NEW k \in Slots, ServeRemoval(k)
    PROVE  VInv'
<1> DEFINE c == call[k].of
<1>1. /\ ServeWrite(k, {"delete", "deletePlanet"}) /\ UNCHANGED <<picker, pendingPlanet, issued, url>>
      /\ planet' = [planet EXCEPT ![c] = None] /\ gone' \subseteq gone \cup {c}
      /\ link' = [link EXCEPT ![c] = 0]
      /\ linkAlone' => /\ linkAlone /\ \A j \in LinkCalls : call[j].of # c
                       /\ LinkShown => url[1] # c
  BY DEF ServeRemoval
<1>2. /\ PageInv' /\ Only(k) /\ UNCHANGED modals /\ call[k].op \in {"delete", "deletePlanet"}
      /\ call'[k] = [op |-> call[k].op, of |-> call[k].of, arg |-> call[k].arg, at |-> "ok",
                     got |-> version + 1, flag |-> call[k].flag]
  BY <1>1, WritePage DEF VInv, OnControllers, Writes
<1>3. call'[k].op \in {"delete", "deletePlanet"}
  BY <1>2
<1>4. /\ (UnderWay("upload"))' \subseteq UnderWay("upload")
      /\ \A j \in (UnderWay("upload"))' : call'[j] = call[j]
  BY <1>2, <1>3 DEF UnderWay, Only
<1>5. planet' \in [Items -> Items \cup {None}] /\ \A d \in Items : planet'[d] \in {None, d}
  BY <1>1 DEF VInv, FilesInv
<1>6. gone' \subseteq Targets
  BY <1>1 DEF VInv, FilesInv, PageInv, CallsOK, CallOK
<1>7. FilesInv'
  BY <1>1, <1>4, <1>5, <1>6 DEF VInv, FilesInv
<1>8. /\ LinkCalls' = LinkCalls /\ LinkShown' = LinkShown
      /\ \A j \in LinkCalls : call'[j] = call[j]
  BY <1>2, <1>3 DEF LinkCalls, UnderWay, Only, LinkShown, IsOpen
<1> HIDE DEF c
<1>9. link' \in [Items -> 0..issued'] /\ issued' \in Nat /\ \A d \in Items \ {c} : link'[d] = link[d]
  <2>1. link \in [Items -> 0..issued] /\ issued \in Nat /\ 0 \in 0..issued
    BY DEF VInv, LinksInv
  <2>2. link' = [link EXCEPT ![c] = 0] /\ issued' = issued
    BY <1>1
  <2>3. QED
    BY <2>1, <2>2
<1>10. LinksInv'
  BY <1>1, <1>8, <1>9 DEF VInv, LinksInv
<1>11. QED
  BY <1>2, <1>3, <1>7, <1>10, ControllersMove DEF HidingOps, MachineOps, MemberOps

\* An upload or a load that is over may forget the controller that is noted.
LEMMA ForgetsPicked ==
    ASSUME VInv, OnControllers, PageInv', NEW k \in Slots, Only(k), modals' \subseteq modals,
           call[k].op \in {"upload", "load"}, call'[k].op \in {"none", "load"},
           pendingPlanet' \in {pendingPlanet, None}, UNCHANGED <<picker, planet, gone, linking>>
    PROVE  VInv'
<1>1. /\ (UnderWay("upload"))' \subseteq UnderWay("upload")
      /\ \A j \in (UnderWay("upload"))' : call'[j] = call[j]
  BY DEF UnderWay, Only
<1>2. FilesInv'
  BY <1>1 DEF VInv, FilesInv
<1>3. LinksInv'
  BY MoveKeepsOthers, LinksFrame DEF VInv
<1>4. QED
  BY <1>2, <1>3, ControllersMove DEF HidingOps, MachineOps, MemberOps

LEMMA UploadReturnsStep ==
    ASSUME VInv, OnControllers, NEW k \in Slots, UploadReturns(k)
    PROVE  VInv'
<1>1. /\ Returns(k, "upload", "ok") /\ pendingPlanet' \in {pendingPlanet, None}
      /\ UNCHANGED <<picker, planet, gone, linking>>
  BY DEF UploadReturns
<1>2. /\ PageInv' /\ Only(k) /\ modals' \subseteq modals /\ call[k].op = "upload"
      /\ call'[k].op \in {"none", "load"}
  BY <1>1, ReturnsKeeps DEF VInv, OnControllers, Writes
<1>3. QED
  BY <1>1, <1>2, ForgetsPicked

LEMMA ControllersReturnStep ==
    ASSUME VInv, OnControllers, NEW k \in Slots, ControllersReturn(k)
    PROVE  VInv'
<1>1. /\ LoadReturns(k) /\ pendingPlanet' \in {pendingPlanet, None}
      /\ UNCHANGED <<picker, planet, gone, linking>>
  BY DEF ControllersReturn
<1>2. /\ PageInv' /\ Only(k) /\ modals' \subseteq modals /\ call[k].op = "load"
      /\ call'[k].op = "none"
  BY <1>1, LoadReturnsKeeps DEF VInv, OnControllers
<1>3. QED
  BY <1>1, <1>2, ForgetsPicked
-----------------------------------------------------------------------------
LEMMA LinkMove ==
    ASSUME VInv, OnControllers, PageInv', LinksInv', NEW k \in Slots, Only(k), UNCHANGED filing,
           call[k].op \in {"link", "rotate", "none"}, call'[k].op \in {"link", "rotate", "none"},
           \A d \in modals' : d.kind \in {"hidden", "logs", "rename"} => d \in modals
    PROVE  VInv'
<1>1. FilesInv'
  <2>1. Kept({"upload"}, {})
    BY DEF Kept, Only
  <2>2. QED
    BY <2>1, FilesFrame DEF VInv
<1>2. QED
  BY <1>1, ControllersMove DEF HidingOps, MachineOps, MemberOps

\* A link is asked for: it is alone only if no other was under way.
LEMMA AskLinkStep ==
    ASSUME VInv, OnControllers, NEW k \in Slots, NEW c \in Items,
           GetLink(k, c) \/ RotateLink(k, c)
    PROVE  VInv'
<1>1. /\ linkAlone' => LinkCalls = {} /\ (LinkShown => linkAlone)
      /\ UNCHANGED <<filing, link, issued, url>>
  BY DEF GetLink, RotateLink, Presses, Unmasked, LinkShown, IsOpen
<1>2. PICK op \in {"link", "rotate"}, flag \in Flags :
        /\ PageInv' /\ Only(k) /\ UNCHANGED modals /\ call[k] = Blank
        /\ call'[k] = Request(op, c, None, flag)
  <2>1. {"linkLoading", "rotate"} \subseteq Flags /\ c \in Targets
    BY DEF Flags, Targets
  <2>2. CASE GetLink(k, c)
    <3>1. Presses(k, "link", c, "linkLoading")
      BY <2>2 DEF GetLink
    <3>2. QED
      BY <2>1, <3>1, PressesKeeps DEF VInv, OnControllers
  <2>3. CASE RotateLink(k, c)
    <3>1. Agrees(k, "rotate", c)
      BY <2>3 DEF RotateLink
    <3>2. QED
      BY <2>1, <3>1, AgreesKeeps DEF VInv, OnControllers
  <2>4. QED
    BY <2>2, <2>3
<1>3. /\ call[k].op = "none" /\ call'[k].op \in {"link", "rotate"} /\ call'[k].of = c
      /\ call'[k].at = "asked"
  BY <1>2 DEF Blank, Request
<1>4. /\ LinkCalls' \subseteq LinkCalls \cup {k} /\ \A j \in LinkCalls : call'[j] = call[j]
      /\ LinkShown' = LinkShown
  BY <1>2, <1>3 DEF LinkCalls, UnderWay, Only, LinkShown, IsOpen
<1>5. LinksInv'
  BY <1>1, <1>3, <1>4 DEF VInv, LinksInv
<1>6. QED
  BY <1>1, <1>2, <1>3, <1>5, LinkMove

LEMMA ServeLinkStep ==
    ASSUME VInv, OnControllers, NEW k \in Slots, ServeLink(k)
    PROVE  VInv'
<1> DEFINE c == call[k].of
           n == IF link[c] = 0 \/ call[k].op = "rotate" THEN issued + 1 ELSE link[c]
<1>1. /\ ServeRead(k, {"link", "rotate"}, <<c, n>>) /\ link' = [link EXCEPT ![c] = n]
      /\ issued' = IF n > issued THEN n ELSE issued
      /\ UNCHANGED <<filing, url, linkAlone>>
  BY DEF ServeLink
<1>2. /\ PageInv' /\ Only(k) /\ UNCHANGED modals /\ call[k].op \in {"link", "rotate"}
      /\ call[k].at = "asked"
      /\ call'[k] = [op |-> call[k].op, of |-> call[k].of, arg |-> call[k].arg, at |-> "ok",
                     got |-> <<c, n>>, flag |-> call[k].flag]
  <2> HIDE DEF c, n
  <2>1. \A op \in {"link", "rotate"} : op \notin Writes \cup {"load", "poll"}
    BY DEF Writes
  <2>2. QED
    BY <1>1, <2>1, ReadPage DEF VInv, OnControllers
<1>3. /\ call'[k].op = call[k].op /\ call'[k].of = c /\ call'[k].got = <<c, n>> /\ call'[k].at = "ok"
  BY <1>2
<1>4. /\ LinkCalls' = LinkCalls /\ k \in LinkCalls /\ \A j \in LinkCalls \ {k} : call'[j] = call[j]
      /\ LinkShown' = LinkShown
  BY <1>2, <1>3 DEF LinkCalls, UnderWay, Only, LinkShown, IsOpen
<1>5. c \in Items /\ link \in [Items -> 0..issued] /\ issued \in Nat
  BY <1>4 DEF VInv, LinksInv
<1>6. n \in 0..(issued + 1)
  BY <1>5
<1> HIDE DEF n, c
<1>7. link' \in [Items -> 0..issued'] /\ issued' \in Nat /\ link'[c] = n
  <2>1. issued' \in Nat /\ issued' >= issued /\ n \in 0..issued'
    BY <1>1, <1>5, <1>6
  <2>2. QED
    BY <1>1, <1>5, <2>1
<1>8. call'[k].got = <<call'[k].of, call'[k].got[2]>> /\ call'[k].got[2] = link'[call'[k].of]
  BY <1>3, <1>7
<1>9. LinksInv'
  BY <1>1, <1>3, <1>4, <1>5, <1>7, <1>8 DEF VInv, LinksInv, c
<1>10. QED
  BY <1>1, <1>2, <1>3, <1>9, LinkMove

LEMMA LinkReturnsStep ==
    ASSUME VInv, OnControllers, NEW k \in Slots, LinkReturns(k)
    PROVE  VInv'
<1>1. /\ call[k].op \in {"link", "rotate"} /\ Ends(k) /\ busy' \subseteq busy
      /\ UNCHANGED <<rows, filing, link, issued, linkAlone>>
      /\ \/ call[k].at = "ok" /\ url' = call[k].got
         \/ call[k].at # "ok" /\ url' = url /\ (LinkShown' => LinkShown)
  BY DEF LinkReturns, Came, Good, LinkShown, IsOpen
<1>2. modals' \subseteq modals \cup {[kind |-> "url", of |-> None]}
  BY DEF LinkReturns
<1>3. ModalsOK'
  BY <1>1, <1>2 DEF VInv, PageInv, ModalsOK, Kinds
<1>4. PageInv' /\ call'[k] = Blank /\ Only(k)
  BY <1>1, <1>3, EndPage DEF VInv, OnControllers
<1>5. call'[k].op = "none"
  BY <1>4 DEF Blank
<1>6. LinkCalls' = LinkCalls \ {k} /\ k \in LinkCalls /\ \A j \in LinkCalls \ {k} : call'[j] = call[j]
  BY <1>1, <1>4, <1>5 DEF LinkCalls, UnderWay, Only
<1>7. LinkShown' => url'[1] \in Items
  <2>1. CASE call[k].at = "ok"
    <3>1. /\ url' = <<call[k].of, call[k].got[2]>>
          /\ call[k].of \in Items
      BY <1>1, <1>6, <2>1 DEF VInv, LinksInv
    <3>2. QED
      BY <3>1
  <2>2. CASE call[k].at # "ok"
    BY <1>1, <2>2 DEF VInv, LinksInv
  <2>3. QED
    BY <2>1, <2>2
<1>8. linkAlone => LinkCalls' = {}
  BY <1>6 DEF VInv, LinksInv
<1>9. linkAlone /\ LinkShown' => url'[2] = link[url'[1]]
  BY <1>1, <1>6 DEF VInv, LinksInv
<1>10. LinksInv'
  BY <1>1, <1>6, <1>7, <1>8, <1>9 DEF VInv, LinksInv
<1>11. QED
  BY <1>1, <1>2, <1>4, <1>5, <1>10, LinkMove DEF SpecialKinds

LEMMA ControllersStep ==
    ASSUME VInv, OnControllers, ControllersNext
    PROVE  VInv'
<1> USE DEF OnControllers, Plain
<1>1. /\ None \in Targets /\ Items \subseteq Targets
      /\ {"saving", "exporting", "importing", "delete", "deletePlanet", "testing", "downloading"} \subseteq Flags
  BY DEF Flags, Targets
<1>2. /\ {"save", "export", "import", "delete", "deletePlanet", "rotate"} \subseteq Kinds \ SpecialKinds
      /\ {"save", "import", "delete", "deletePlanet", "test"} \subseteq Writes
  BY DEF Kinds, SpecialKinds, Writes
<1>3. \A op \in {"save", "export", "import", "delete", "deletePlanet", "test", "download"} :
        op \notin SpecialOps \cup {"load"}
  BY DEF SpecialOps, HidingOps, PlanetOps, MachineOps, MemberOps
<1>4. CASE OpenExport \/ OpenImport \/ OpenForm(None)
  BY <1>2, <1>4, PlainOpens DEF OpenExport, OpenImport, OpenForm, OpenModal
<1>5. ASSUME NEW c \in Items,
             OpenForm(c) \/ ConfirmDelete(c) \/ ConfirmDeletePlanet(c) \/ ConfirmRotate(c)
      PROVE  VInv'
  BY <1>2, <1>5, PlainOpens
     DEF OpenForm, ConfirmDelete, ConfirmDeletePlanet, ConfirmRotate, OpenModal
<1>6. CASE \E d \in modals : Close(d) /\ UNCHANGED planets
  BY <1>6, PlainClose
<1>7. CASE LeavePicker \/ PlanetRejected \/ \E c \in Items : OpenPlanetPicker(c)
  BY <1>7, LeavePickerStep, OpenPlanetPickerStep
<1>8. ASSUME NEW k \in Slots, NEW c \in Items \cup {None}, SaveController(k, c)
      PROVE  VInv'
  BY <1>1, <1>3, <1>8, PlainSubmits DEF SaveController
<1>9. ASSUME NEW k \in Slots, Export(k) \/ Import(k)
      PROVE  VInv'
  BY <1>1, <1>3, <1>9, PlainSubmits DEF Export, Import
<1>10. ASSUME NEW k \in Slots, NEW c \in Items, Delete(k, c) \/ DeletePlanet(k, c)
       PROVE  VInv'
  BY <1>1, <1>3, <1>10, PlainAgrees DEF Delete, DeletePlanet
<1>11. ASSUME NEW k \in Slots, NEW c \in Items, TestController(k, c) \/ DownloadPlanet(k, c)
       PROVE  VInv'
  BY <1>1, <1>3, <1>11, PlainPresses DEF TestController, DownloadPlanet
<1>12. ASSUME NEW k \in Slots, NEW c \in Items, GetLink(k, c) \/ RotateLink(k, c)
       PROVE  VInv'
  BY <1>12, AskLinkStep
<1>13. ASSUME NEW k \in Slots, ControllerReturns(k)
       PROVE  VInv'
  <2>1. UNCHANGED planets
    BY <1>13 DEF ControllerReturns
  <2>2. CASE \E kind \in {"save", "import"} : Returns(k, kind, "ok")
    BY <1>2, <1>3, <2>1, <2>2, PlainReturns
  <2>3. CASE \E kind \in {"delete", "deletePlanet"} : AgreedReturns(k, kind)
    BY <1>2, <1>3, <2>1, <2>3, PlainAgreed
  <2>4. CASE Returns(k, "test", "always")
    BY <1>2, <1>3, <2>1, <2>4, PlainReturns
  <2>5. CASE \E kind \in {"export", "download"} : Returns(k, kind, "never")
    BY <1>3, <2>1, <2>5, PlainReturns
  <2>6. QED
    BY <1>13, <2>2, <2>3, <2>4, <2>5 DEF ControllerReturns
<1>14. ASSUME NEW k \in Slots, ServeController(k)
       PROVE  VInv'
  <2>1. UNCHANGED planets
    BY <1>14 DEF ServeController
  <2>2. CASE ServeWrite(k, {"save", "import", "test"})
    BY <1>2, <1>3, <2>1, <2>2, PlainWrite
  <2>3. CASE ServeRead(k, {"export", "download"}, None)
    BY <1>3, <2>1, <2>3, PlainRead DEF Writes
  <2>4. QED
    BY <1>14, <2>1, <2>2, <2>3, PlainLoad, PlainFault DEF ServeController
<1>15. ASSUME NEW k \in Slots,
              ServeRemoval(k) \/ PlanetSelected(k) \/ ServeUpload(k) \/ UploadReturns(k)
              \/ ControllersReturn(k) \/ ServeLink(k) \/ LinkReturns(k)
       PROVE  VInv'
  BY <1>15, ServeRemovalStep, PlanetSelectedStep, ServeUploadStep, UploadReturnsStep,
     ControllersReturnStep, ServeLinkStep, LinkReturnsStep
<1>16. ASSUME NEW k \in Slots, ServeRefused(k)
       PROVE  VInv'
  BY <1>16, PlainRefuses DEF ServeRefused
<1>17. QED
  BY <1>4, <1>5, <1>6, <1>7, <1>8, <1>9, <1>10, <1>11, <1>12, <1>13, <1>14, <1>15, <1>16
     DEF ControllersNext
-----------------------------------------------------------------------------
\* The page of test machines.
OnMachines == UNCHANGED <<at, hiding, planets, members>>

LEMMA MachinesMove ==
    ASSUME VInv, OnMachines, PageInv', SwitchInv', LogsInv', NEW k \in Slots, Only(k),
           call[k].op \in MachineOps \cup {"none"}, call'[k].op \in MachineOps \cup {"none"},
           \A d \in modals' : d.kind \in {"hidden", "url", "rename"} => d \in modals
    PROVE  VInv'
<1>1. Kept(HidingOps \cup PlanetOps \cup MemberOps, {"hidden", "url", "rename"})
  BY MoveKeepsOthers DEF HidingOps, PlanetOps, MachineOps, MemberOps
<1>2. QED
  BY <1>1, NotMachines DEF VInv, OnMachines

\* A list is asked for, in a modal that was opened for it or is open already.
LEMMA ListStep ==
    ASSUME VInv, OnMachines, NEW k \in Slots, NEW c \in Controllers, NEW current \in AllNets \cup {None},
           LoadNetworks(k, c, current), ModalsOK',
           listAlone' => UnderWay("networks") = {},
           \A d \in modals' : d.kind \in SpecialKinds => d \in modals
    PROVE  VInv'
<1>1. /\ controllerId' = c /\ networkId' = None /\ listed' = {} /\ UNCHANGED <<rows, busy, logging>>
      /\ Asks(k, Request("networks", c, current, "none"))
  BY DEF LoadNetworks, NoNetwork
<1>2. /\ PageInv' /\ Only(k) /\ call[k] = Blank
      /\ call'[k] = Request("networks", c, current, "none")
  <2>1. "none" \in Flags \cup {None} /\ c \in Targets
    BY DEF Flags, Targets
  <2>2. QED
    BY <1>1, <2>1, AskPage DEF VInv, OnMachines
<1>3. /\ call[k].op = "none" /\ call'[k].op = "networks" /\ call'[k].of = c
      /\ call'[k].arg = current /\ call'[k].at = "asked"
  BY <1>2 DEF Blank, Request
<1>4. /\ (UnderWay("networks"))' \subseteq UnderWay("networks") \cup {k}
      /\ (UnderWay("switch"))' \subseteq UnderWay("switch")
      /\ \A j \in UnderWay("networks") \cup (UnderWay("switch"))' : call'[j] = call[j]
  BY <1>2, <1>3 DEF UnderWay, Only
<1>5. SwitchIsListed'
  BY <1>4 DEF VInv, SwitchInv, SwitchIsListed
<1>6. SwitchInv'
  BY <1>1, <1>3, <1>4, <1>5 DEF VInv, SwitchInv
<1>7. LogsInv'
  BY <1>1, <1>2, <1>3, MoveKeepsOthers, LogsFrame DEF VInv, SpecialKinds
<1>8. QED
  BY <1>2, <1>3, <1>6, <1>7, MachinesMove DEF MachineOps, SpecialKinds

LEMMA OpenSwitchStep ==
    ASSUME VInv, OnMachines, NEW k \in Slots, NEW m \in Items, NEW c \in Controllers,
           NEW current \in AllNets \cup {None}, OpenSwitch(k, m, c, current)
    PROVE  VInv'
<1>1. /\ modals' = {[kind |-> "switch", of |-> m]} /\ UNCHANGED busy
      /\ LoadNetworks(k, c, current) /\ listAlone' = (UnderWay("networks") = {})
  BY DEF OpenSwitch, Opens, LoadNetworks
<1>2. ModalsOK'
  BY <1>1 DEF VInv, PageInv, ModalsOK, Kinds
<1>3. \A d \in modals' : d.kind \in SpecialKinds => d \in modals
  BY <1>1 DEF SpecialKinds
<1>4. QED
  BY <1>1, <1>2, <1>3, ListStep

LEMMA ChangeControllerStep ==
    ASSUME VInv, OnMachines, NEW k \in Slots, NEW c \in Controllers, ChangeController(k, c)
    PROVE  VInv'
<1>1. /\ UNCHANGED <<modals, busy>> /\ LoadNetworks(k, c, None)
      /\ listAlone' = (listAlone /\ UnderWay("networks") = {})
  BY DEF ChangeController, LoadNetworks
<1>2. ModalsOK'
  BY <1>1 DEF VInv, PageInv, ModalsOK
<1>3. QED
  BY <1>1, <1>2, ListStep

LEMMA MachinesStill ==
    ASSUME VInv, OnMachines, UNCHANGED <<call, left, broken, rows, logging>>, ModalsOK', SwitchInv',
           \A d \in modals' : d.kind \in SpecialKinds => d \in modals
    PROVE  VInv'
<1>1. PageInv'
  BY StillPage DEF VInv, OnMachines
<1>2. Kept(HidingOps \cup PlanetOps \cup MemberOps, {"hidden", "url", "rename"}) /\ Kept({"logs"}, {"logs"})
  BY StillKeepsOthers DEF SpecialKinds
<1>3. LogsInv'
  BY <1>2, LogsFrame DEF VInv
<1>4. QED
  BY <1>1, <1>2, <1>3, NotMachines DEF VInv, OnMachines

LEMMA OpenSwitchBareStep ==
    ASSUME VInv, OnMachines, NEW m \in Items, OpenSwitchBare(m)
    PROVE  VInv'
<1>1. /\ modals' = {[kind |-> "switch", of |-> m]}
      /\ controllerId' = None /\ networkId' = None /\ listed' = {} /\ UNCHANGED listAlone
      /\ UNCHANGED <<call, left, broken, rows, busy, logging>>
  BY DEF OpenSwitchBare, Opens
<1>2. ModalsOK'
  BY <1>1 DEF VInv, PageInv, ModalsOK, Kinds
<1>3. SwitchInv'
  BY <1>1 DEF VInv, SwitchInv, SwitchIsListed, UnderWay
<1>4. QED
  BY <1>1, <1>2, <1>3, MachinesStill DEF SpecialKinds

LEMMA ChooseNetworkStep ==
    ASSUME VInv, OnMachines, NEW n \in AllNets, ChooseNetwork(n)
    PROVE  VInv'
<1>1. /\ n \in listed /\ networkId' = n
      /\ UNCHANGED <<page, controllerId, listed, listAlone, logging>>
  BY DEF ChooseNetwork
<1>2. ModalsOK' /\ UNCHANGED <<call, left, broken, rows, logging, modals>>
  BY <1>1 DEF VInv, PageInv, ModalsOK, page
<1>3. SwitchInv'
  BY <1>1, <1>2 DEF VInv, SwitchInv, SwitchIsListed, UnderWay
<1>4. QED
  BY <1>2, <1>3, MachinesStill

LEMMA ServeNetworksStep ==
    ASSUME VInv, OnMachines, NEW k \in Slots, ServeNetworks(k)
    PROVE  VInv'
<1>1. ServeRead(k, {"networks"}, NetsOf[call[k].of]) /\ UNCHANGED machines
  BY DEF ServeNetworks
<1>2. /\ PageInv' /\ Only(k) /\ UNCHANGED modals /\ call[k].op = "networks"
      /\ call'[k] = [op |-> call[k].op, of |-> call[k].of, arg |-> call[k].arg, at |-> "ok",
                     got |-> NetsOf[call[k].of], flag |-> call[k].flag]
  BY <1>1, ReadPage DEF VInv, OnMachines, Writes
<1>3. /\ call'[k].op = "networks" /\ call'[k].of = call[k].of /\ call'[k].arg = call[k].arg
      /\ call'[k].got = NetsOf[call[k].of]
  BY <1>2
<1>4. /\ (UnderWay("networks"))' = UnderWay("networks") /\ k \in UnderWay("networks")
      /\ (UnderWay("switch"))' = UnderWay("switch")
      /\ \A j \in UnderWay("networks") \cup UnderWay("switch") : j # k => call'[j] = call[j]
      /\ k \notin UnderWay("switch")
  BY <1>2, <1>3 DEF UnderWay, Only
<1>5. SwitchIsListed'
  BY <1>4 DEF VInv, SwitchInv, SwitchIsListed
<1>6. SwitchInv'
  BY <1>1, <1>3, <1>4, <1>5 DEF VInv, SwitchInv, machines, switching
<1>7. LogsInv'
  BY <1>1, <1>2, <1>3, MoveKeepsOthers, LogsFrame DEF VInv, machines
<1>8. QED
  BY <1>2, <1>3, <1>6, <1>7, MachinesMove DEF MachineOps

LEMMA NetworksReturnStep ==
    ASSUME VInv, OnMachines, NEW k \in Slots, NetworksReturn(k)
    PROVE  VInv'
<1>1. /\ call[k].op = "networks" /\ Ends(k)
      /\ UNCHANGED <<rows, modals, busy, controllerId, listAlone, logging>>
      /\ \/ call[k].at = "ok" /\ listed' = call[k].got
         \/ listed' = listed
      /\ \/ networkId' = networkId
         \/ call[k].arg # None /\ call[k].of = controllerId /\ call[k].arg \in listed'
            /\ networkId' = call[k].arg
  BY DEF NetworksReturn, Came, Good
<1>2. ModalsOK'
  BY <1>1 DEF VInv, PageInv, ModalsOK
<1>3. PageInv' /\ call'[k] = Blank /\ Only(k)
  BY <1>1, <1>2, EndPage DEF VInv, OnMachines
<1>4. call'[k].op = "none"
  BY <1>3 DEF Blank
<1>5. /\ (UnderWay("networks"))' \subseteq UnderWay("networks") /\ k \in UnderWay("networks")
      /\ (UnderWay("switch"))' \subseteq UnderWay("switch")
      /\ \A j \in (UnderWay("networks"))' \cup (UnderWay("switch"))' : call'[j] = call[j]
  BY <1>1, <1>3, <1>4 DEF UnderWay, Only
<1>6. SwitchIsListed'
  BY <1>5 DEF VInv, SwitchInv, SwitchIsListed
<1>7. NetsOf[call[k].of] \subseteq AllNets
  BY <1>5 DEF VInv, SwitchInv, AllNets
<1>8. listed' \subseteq AllNets /\ networkId' \in AllNets \cup {None}
  BY <1>1, <1>5, <1>7 DEF VInv, SwitchInv
<1>9. listAlone /\ controllerId # None =>
        listed' \subseteq NetsOf[controllerId] /\ (networkId' # None => networkId' \in NetsOf[controllerId])
  BY <1>1, <1>5 DEF VInv, SwitchInv
<1>10. SwitchInv'
  BY <1>1, <1>5, <1>6, <1>8, <1>9 DEF VInv, SwitchInv
<1>11. LogsInv'
  BY <1>1, <1>3, <1>4, MoveKeepsOthers, LogsFrame DEF VInv
<1>12. QED
  BY <1>1, <1>3, <1>4, <1>10, <1>11, MachinesMove DEF MachineOps

LEMMA SwitchStep ==
    ASSUME VInv, OnMachines, NEW k \in Slots, NEW m \in Items, Switch(k, m)
    PROVE  VInv'
<1> DEFINE form == [to |-> controllerId, net |-> networkId, alone |-> listAlone]
<1>1. /\ controllerId # None /\ networkId # None /\ UNCHANGED machines
      /\ Submits(k, "switch", m, form, "switching")
      /\ "switching" \in Flags /\ m \in Targets
  BY DEF Switch, Flags, Targets
<1>2. /\ PageInv' /\ Only(k) /\ UNCHANGED modals /\ call[k] = Blank
      /\ call'[k] = Request("switch", m, form, "switching")
  BY <1>1, SubmitsKeeps DEF VInv, OnMachines
<1>3. call[k].op = "none" /\ call'[k].op = "switch" /\ call'[k].arg = form
  BY <1>2 DEF Blank, Request
<1>4. /\ (UnderWay("networks"))' \subseteq UnderWay("networks")
      /\ (UnderWay("switch"))' \subseteq UnderWay("switch") \cup {k}
      /\ \A j \in (UnderWay("networks"))' \cup UnderWay("switch") : call'[j] = call[j]
  BY <1>2, <1>3 DEF UnderWay, Only
<1>5. call'[k].arg.alone => call'[k].arg.net \in NetsOf[call'[k].arg.to]
  BY <1>1, <1>3 DEF VInv, SwitchInv
<1>6. SwitchIsListed'
  BY <1>4, <1>5 DEF VInv, SwitchInv, SwitchIsListed
<1>7. SwitchInv'
  BY <1>1, <1>4, <1>6 DEF VInv, SwitchInv, machines, switching
<1>8. LogsInv'
  BY <1>1, <1>2, <1>3, MoveKeepsOthers, LogsFrame DEF VInv, machines
<1>9. QED
  BY <1>2, <1>3, <1>7, <1>8, MachinesMove DEF MachineOps
-----------------------------------------------------------------------------
LEMMA LogMove ==
    ASSUME VInv, OnMachines, UNCHANGED switching, PageInv', LogsInv', NEW k \in Slots, Only(k),
           call[k].op \in {"none", "logs"}, call'[k].op \in {"none", "logs"},
           \A d \in modals' : d.kind \in {"hidden", "url", "rename"} => d \in modals
    PROVE  VInv'
<1>1. SwitchInv'
  <2>1. Kept({"networks", "switch"}, {})
    BY DEF Kept, Only
  <2>2. QED
    BY <2>1, SwitchFrame DEF VInv
<1>2. QED
  BY <1>1, MachinesMove DEF MachineOps

LEMMA OpenLogsStep ==
    ASSUME VInv, OnMachines, NEW k \in Slots, NEW m \in Items, OpenLogs(k, m)
    PROVE  VInv'
<1>1. ModalsOK' /\ modals' = {[kind |-> "logs", of |-> m]} /\ UNCHANGED <<rows, switching, logs>>
  BY DEF OpenLogs, Opens, VInv, PageInv, ModalsOK, Kinds
<1>2. /\ Asks(k, Request("logs", m, None, "none")) /\ selected' = None /\ logsLoading' = TRUE
      /\ logsAlone' = \A j \in UnderWay("logs") : call[j].of = m
  BY DEF OpenLogs, NoLog
<1>3. /\ PageInv' /\ Only(k) /\ call[k] = Blank /\ call'[k] = Request("logs", m, None, "none")
  <2>1. "none" \in Flags \cup {None} /\ m \in Targets
    BY DEF Flags, Targets
  <2>2. QED
    BY <1>1, <1>2, <2>1, AskPage DEF VInv, OnMachines
<1>4. call[k].op = "none" /\ call'[k].op = "logs" /\ call'[k].of = m
  BY <1>3 DEF Blank, Request
<1>5. /\ (UnderWay("logs"))' \subseteq UnderWay("logs") \cup {k}
      /\ \A j \in UnderWay("logs") : call'[j] = call[j]
  BY <1>3, <1>4 DEF UnderWay, Only
<1>6. \A v \in Items : IsOpen("logs", v)' => v = m
  BY <1>1 DEF IsOpen
<1>7. LogsInv'
  <2>1. logsLoading' \in BOOLEAN /\ logsLoading'
    BY <1>2
  <2>2. logs' \in Items \cup {None} /\ selected' = None
    BY <1>1, <1>2 DEF VInv, LogsInv
  <2>3. \A j \in (UnderWay("logs"))' : call'[j].of \in Items /\ (logsAlone' => call'[j].of = m)
    BY <1>2, <1>4, <1>5 DEF VInv, LogsInv
  <2>4. QED
    BY <1>6, <2>1, <2>2, <2>3 DEF LogsInv
<1>8. QED
  BY <1>1, <1>3, <1>4, <1>7, LogMove

\* The answer may fill the detail; an answer of the server changes nothing of it.
LEMMA LogsReturnStep ==
    ASSUME VInv, OnMachines, NEW k \in Slots, LogsReturn(k)
    PROVE  VInv'
<1>1. /\ call[k].op = "logs" /\ Ends(k) /\ UNCHANGED <<rows, modals, busy, switching>>
      /\ logsLoading' = FALSE
      /\ \/ logs' \in {call[k].of, None} /\ selected' = logs' /\ UNCHANGED logsAlone
         \/ /\ UNCHANGED <<logs, selected>>
            /\ logsAlone' => logsAlone /\ logs \in {call[k].of, None}
  BY DEF LogsReturn, Came
<1>2. ModalsOK'
  BY <1>1 DEF VInv, PageInv, ModalsOK
<1>3. PageInv' /\ call'[k] = Blank /\ Only(k)
  BY <1>1, <1>2, EndPage DEF VInv, OnMachines
<1>4. call'[k].op = "none"
  BY <1>3 DEF Blank
<1>5. /\ (UnderWay("logs"))' \subseteq UnderWay("logs") /\ k \in UnderWay("logs")
      /\ \A j \in (UnderWay("logs"))' : call'[j] = call[j]
  BY <1>1, <1>3, <1>4 DEF UnderWay, Only
<1>6. LogsInv'
  <2>1. logsLoading' \in BOOLEAN
    BY <1>1
  <2>2. call[k].of \in Items /\ \A j \in (UnderWay("logs"))' : call'[j].of \in Items
    BY <1>5 DEF VInv, LogsInv
  <2>3. logs' \in Items \cup {None} /\ selected' \in Items \cup {None}
    BY <1>1, <2>2 DEF VInv, LogsInv
  <2>4. ASSUME NEW m \in Items, IsOpen("logs", m)', logsAlone'
        PROVE  /\ selected' \in {None, m} /\ logs' \in {None, m}
               /\ \A j \in (UnderWay("logs"))' : call'[j].of = m
    <3>1. IsOpen("logs", m) /\ logsAlone
      BY <1>1, <2>4 DEF IsOpen
    <3>2. selected \in {None, m} /\ \A j \in UnderWay("logs") : call[j].of = m
      BY <3>1 DEF VInv, LogsInv
    <3>3. QED
      BY <1>1, <1>5, <2>4, <3>2
  <2>5. QED
    BY <2>1, <2>2, <2>3, <2>4 DEF LogsInv
<1>7. QED
  BY <1>1, <1>3, <1>4, <1>6, LogMove

\* A log that is shown in detail is one of the rows.
LEMMA SelectLogStep ==
    ASSUME VInv, OnMachines, SelectLog
    PROVE  VInv'
<1>1. /\ ~ logsLoading /\ selected' = logs /\ UNCHANGED <<page, switching, logs, logsLoading, logsAlone>>
  BY DEF SelectLog
<1>2. PageInv'
  BY <1>1, StillPage DEF VInv, OnMachines, page, PageInv, ModalsOK
<1>3. /\ Kept(HidingOps \cup PlanetOps \cup MemberOps, {"hidden", "url", "rename"})
      /\ Kept({"networks", "switch"}, {})
  BY <1>1, StillKeepsOthers DEF page
<1>4. SwitchInv'
  BY <1>1, <1>3, SwitchFrame DEF VInv
<1>5. LogsInv'
  BY <1>1 DEF VInv, LogsInv, IsOpen, UnderWay, page
<1>6. QED
  BY <1>2, <1>3, <1>4, <1>5, NotMachines DEF VInv, OnMachines

LEMMA ServeLogsStep ==
    ASSUME VInv, OnMachines, NEW k \in Slots, ServeRead(k, {"logs"}, None), UNCHANGED machines
    PROVE  VInv'
<1>1. /\ PageInv' /\ Only(k) /\ UNCHANGED modals /\ call[k].op = "logs"
      /\ call'[k] = [op |-> call[k].op, of |-> call[k].of, arg |-> call[k].arg, at |-> "ok",
                     got |-> None, flag |-> call[k].flag]
  BY ReadPage DEF VInv, OnMachines, Writes
<1>2. call'[k].op = "logs" /\ call'[k].of = call[k].of
  BY <1>1
<1>3. /\ (UnderWay("logs"))' \subseteq UnderWay("logs")
      /\ \A j \in UnderWay("logs") : call'[j].of = call[j].of
  BY <1>1, <1>2 DEF UnderWay, Only
<1>4. LogsInv'
  BY <1>1, <1>3 DEF VInv, LogsInv, IsOpen, machines, logging
<1>5. QED
  BY <1>1, <1>2, <1>4, LogMove DEF machines

LEMMA MachinesStep ==
    ASSUME VInv, OnMachines, MachinesNext
    PROVE  VInv'
<1> USE DEF OnMachines, Plain
<1>1. /\ None \in Targets /\ Items \subseteq Targets
      /\ {"saving", "delete", "sshTesting", "zerotierChecking", "zerotierAction"} \subseteq Flags
  BY DEF Flags, Targets
<1>2. /\ {"save", "delete"} \subseteq Kinds \ SpecialKinds
      /\ {"save", "delete", "switch", "ssh", "zerotier", "toggle"} \subseteq Writes
  BY DEF Kinds, SpecialKinds, Writes
<1>3. \A op \in {"save", "delete", "ssh", "zerotier", "toggle"} : op \notin SpecialOps \cup {"load"}
  BY DEF SpecialOps, HidingOps, PlanetOps, MachineOps, MemberOps
<1>4. CASE \E d \in modals : Close(d) /\ UNCHANGED machines
  BY <1>4, PlainClose
<1>5. CASE OpenMachine("save", None) \/ SelectLog
  BY <1>2, <1>5, PlainOpens, SelectLogStep DEF OpenMachine
<1>6. ASSUME NEW m \in Items, OpenMachine("save", m) \/ OpenMachine("delete", m)
      PROVE  VInv'
  BY <1>2, <1>6, PlainOpens DEF OpenMachine
<1>7. ASSUME NEW m \in Items, OpenSwitchBare(m) PROVE VInv'
  BY <1>7, OpenSwitchBareStep
<1>8. ASSUME NEW n \in AllNets, ChooseNetwork(n) PROVE VInv'
  BY <1>8, ChooseNetworkStep
<1>9. ASSUME NEW k \in Slots, NEW m \in Items \cup {None}, SaveMachine(k, m)
      PROVE  VInv'
  BY <1>1, <1>3, <1>9, PlainSubmits DEF SaveMachine
<1>10. ASSUME NEW k \in Slots, NEW m \in Items, DeleteMachine(k, m)
       PROVE  VInv'
  BY <1>1, <1>3, <1>10, PlainAgrees DEF DeleteMachine
<1>11. ASSUME NEW k \in Slots, NEW m \in Items,
              TestSsh(k, m) \/ CheckZeroTier(k, m) \/ ToggleZeroTier(k, m)
       PROVE  VInv'
  BY <1>1, <1>3, <1>11, PlainPresses DEF TestSsh, CheckZeroTier, ToggleZeroTier
<1>12. ASSUME NEW k \in Slots, NEW m \in Items, Switch(k, m) \/ OpenLogs(k, m)
       PROVE  VInv'
  BY <1>12, SwitchStep, OpenLogsStep
<1>13. ASSUME NEW k \in Slots, NEW m \in Items, NEW c \in Controllers, NEW n \in AllNets \cup {None},
              OpenSwitch(k, m, c, n)
       PROVE  VInv'
  BY <1>13, OpenSwitchStep
<1>14. ASSUME NEW k \in Slots, NEW c \in Controllers, ChangeController(k, c)
       PROVE  VInv'
  BY <1>14, ChangeControllerStep
<1>15. ASSUME NEW k \in Slots, MachineReturns(k)
       PROVE  VInv'
  <2>1. UNCHANGED machines
    BY <1>15 DEF MachineReturns
  <2>2. CASE AgreedReturns(k, "delete")
    BY <1>2, <1>3, <2>1, <2>2, PlainAgreed
  <2>3. CASE \E kind \in {"save", "switch", "ssh", "zerotier", "toggle"} : Returns(k, kind, "ok")
    <3>1. PICK kind \in {"save", "switch", "ssh", "zerotier", "toggle"} : Returns(k, kind, "ok")
      BY <2>3
    <3>2. kind \in Writes /\ kind \notin SpecialOps \ {"switch"}
      BY <1>2, <1>3
    <3>3. QED
      BY <2>1, <3>1, <3>2, PlainReturns
  <2>4. QED
    BY <1>15, <2>2, <2>3 DEF MachineReturns
<1>16. ASSUME NEW k \in Slots, ServeMachine(k)
       PROVE  VInv'
  <2>1. UNCHANGED machines
    BY <1>16 DEF ServeMachine
  <2>2. CASE ServeWrite(k, {"save", "delete", "switch", "ssh", "zerotier", "toggle"})
    <3>1. {"save", "delete", "switch", "ssh", "zerotier", "toggle"} \subseteq Writes \ (SpecialOps \ {"switch"})
      BY <1>2, <1>3
    <3>2. QED
      BY <2>1, <2>2, <3>1, PlainWrite
  <2>3. CASE ServeRead(k, {"logs"}, None)
    BY <2>1, <2>3, ServeLogsStep
  <2>4. QED
    BY <1>16, <2>1, <2>2, <2>3, PlainLoad, PlainFault DEF ServeMachine
<1>17. ASSUME NEW k \in Slots, MachinesReturn(k)
       PROVE  VInv'
  BY <1>17, PlainRefresh, PlainLoadReturns DEF MachinesReturn
<1>18. ASSUME NEW k \in Slots, ServeNetworks(k) \/ NetworksReturn(k) \/ LogsReturn(k)
       PROVE  VInv'
  BY <1>18, ServeNetworksStep, NetworksReturnStep, LogsReturnStep
<1>19. QED
  BY <1>4, <1>5, <1>6, <1>7, <1>8, <1>9, <1>10, <1>11, <1>12, <1>13, <1>14, <1>15, <1>16, <1>17,
     <1>18 DEF MachinesNext
-----------------------------------------------------------------------------
\* The page of members.
OnMembers == UNCHANGED <<at, hiding, planets, machines>>

LEMMA MembersMove ==
    ASSUME VInv, OnMembers, PageInv', NamesInv', RenamesInv', NEW k \in Slots, Only(k),
           call[k].op \in {"rename", "poll", "none"},
           call'[k].op \in {"rename", "poll", "none", "load"},
           \A d \in modals' : d.kind \in {"hidden", "url", "logs"} => d \in modals
    PROVE  VInv'
<1>1. Kept(HidingOps \cup PlanetOps \cup MachineOps, {"hidden", "url", "logs"})
  BY MoveKeepsOthers DEF HidingOps, PlanetOps, MachineOps
<1>2. QED
  BY <1>1, NotMembers DEF VInv, OnMembers

LEMMA MembersStill ==
    ASSUME VInv, OnMembers, PageInv', UNCHANGED call, NamesInv', RenamesInv',
           \A d \in modals' : d.kind \in {"hidden", "url", "logs"} => d \in modals
    PROVE  VInv'
<1>1. Kept(HidingOps \cup PlanetOps \cup MachineOps, {"hidden", "url", "logs"})
  BY StillKeepsOthers
<1>2. QED
  BY <1>1, NotMembers DEF VInv, OnMembers

LEMMA OpenRenameStep ==
    ASSUME VInv, OnMembers, NEW m \in Items, OpenMember("rename", m)
    PROVE  VInv'
<1>1. /\ Opens("rename", m) /\ renameMember' = m
      /\ UNCHANGED <<call, left, broken, rows, busy, name, had, late, told>>
  BY DEF OpenMember
<1>2. PageInv' /\ modals' = {[kind |-> "rename", of |-> m]}
  BY <1>1, OpensKeeps DEF VInv, OnMembers, Kinds
<1>3. NamesInv'
  BY <1>1 DEF VInv, NamesInv, SuccessWasApplied
<1>4. RenamesInv'
  BY <1>1 DEF VInv, RenamesInv, UnderWay
<1>5. QED
  BY <1>1, <1>2, <1>3, <1>4, MembersStill

\* A name that is applied is one the member has had from then on.
LEMMA SettlesStep ==
    ASSUME VInv, OnMembers, NEW l \in late, Settles(l)
    PROVE  VInv'
<1>1. /\ UNCHANGED <<page, renameMember, told>> /\ late' \subseteq late
      /\ \/ UNCHANGED <<name, had>>
         \/ /\ name' = [name EXCEPT ![l[1]] = l[2]]
            /\ had' = [had EXCEPT ![l[1]] = @ \cup {l[2]}]
  BY DEF Settles
<1>2. PageInv'
  BY <1>1, StillPage DEF VInv, OnMembers, page, PageInv, ModalsOK
<1>3. l[1] \in Items /\ l[2] \in Names
  BY DEF VInv, NamesInv
<1>4. /\ name' \in [Items -> Names] /\ had' \in [Items -> SUBSET Names]
      /\ \A m \in Items : name'[m] \in had'[m] /\ had[m] \subseteq had'[m]
  BY <1>1, <1>3 DEF VInv, NamesInv
<1>5. told' = told /\ \A t \in told : t.asked \in Items /\ (t.asked = t.polled => t.to \in had[t.asked])
  BY <1>1 DEF VInv, NamesInv, SuccessWasApplied
<1>6. SuccessWasApplied'
  BY <1>4, <1>5 DEF SuccessWasApplied
<1>7. NamesInv'
  BY <1>1, <1>4, <1>5, <1>6 DEF VInv, NamesInv
<1>8. RenamesInv'
  BY <1>1, <1>4 DEF VInv, RenamesInv, UnderWay, IsOpen, page
<1>9. QED
  BY <1>1, <1>2, <1>7, <1>8, MembersStill DEF page

LEMMA RenameStep ==
    ASSUME VInv, OnMembers, NEW k \in Slots, NEW n \in Names, Rename(k, n)
    PROVE  VInv'
<1>1. PICK m \in Items : /\ IsOpen("rename", m)
                         /\ Submits(k, "rename", m, [of |-> m, to |-> n, attempt |-> 0], "saving")
  BY DEF Rename
<1>2. UNCHANGED members /\ "saving" \in Flags /\ m \in Targets
  BY DEF Rename, Flags, Targets
<1>3. /\ PageInv' /\ Only(k) /\ UNCHANGED modals /\ call[k] = Blank
      /\ call'[k] = Request("rename", m, [of |-> m, to |-> n, attempt |-> 0], "saving")
  BY <1>1, <1>2, SubmitsKeeps DEF VInv, OnMembers
<1>4. /\ call[k].op = "none" /\ call'[k].op = "rename" /\ call'[k].of = m
      /\ call'[k].arg \in [of : Items, to : Names, attempt : Nat]
  BY <1>3 DEF Blank, Request
<1>5. /\ (UnderWay("rename"))' \subseteq UnderWay("rename") \cup {k}
      /\ (UnderWay("poll"))' \subseteq UnderWay("poll")
      /\ \A j \in UnderWay("rename") \cup (UnderWay("poll"))' : call'[j] = call[j]
  BY <1>3, <1>4 DEF UnderWay, Only
<1>6. renameMember \in Items
  BY <1>1 DEF VInv, RenamesInv
<1>7. RenamesInv'
  BY <1>2, <1>4, <1>5, <1>6 DEF VInv, RenamesInv, members
<1>8. NamesInv'
  BY <1>2, NamesFrame DEF VInv
<1>9. QED
  BY <1>3, <1>4, <1>7, <1>8, MembersMove

LEMMA ServeRenameStep ==
    ASSUME VInv, OnMembers, NEW k \in Slots, ServeRename(k)
    PROVE  VInv'
<1>1. late' = late \cup {<<call[k].of, call[k].arg.to>>} /\ UNCHANGED <<name, had, renameMember, told>>
  BY DEF ServeRename
<1>2. /\ PageInv' /\ Only(k) /\ UNCHANGED modals /\ call[k].op = "rename"
      /\ call'[k].op = "rename" /\ call'[k].of = call[k].of /\ call'[k].arg = call[k].arg
  <2>1. CASE ServeRead(k, {"rename"}, None)
    <3>1. /\ PageInv' /\ Only(k) /\ UNCHANGED modals /\ call[k].op = "rename"
          /\ call'[k] = [op |-> call[k].op, of |-> call[k].of, arg |-> call[k].arg, at |-> "ok",
                         got |-> None, flag |-> call[k].flag]
      BY <2>1, ReadPage DEF VInv, OnMembers, Writes
    <3>2. QED
      BY <3>1
  <2>2. CASE call[k].op = "rename" /\ ServeFault(k)
    <3>1. /\ PageInv' /\ Only(k) /\ UNCHANGED modals
          /\ call'[k] = [op |-> call[k].op, of |-> call[k].of, arg |-> call[k].arg,
                         at |-> "failed", got |-> call[k].got, flag |-> call[k].flag]
      BY <2>2, FaultPage DEF VInv, OnMembers
    <3>2. QED
      BY <2>2, <3>1
  <2>3. QED
    BY <2>1, <2>2 DEF ServeRename
<1>3. /\ (UnderWay("rename"))' = UnderWay("rename") /\ k \in UnderWay("rename")
      /\ (UnderWay("poll"))' = UnderWay("poll") /\ k \notin UnderWay("poll")
      /\ \A j \in UnderWay("rename") \cup UnderWay("poll") : j # k => call'[j] = call[j]
  BY <1>2 DEF UnderWay, Only
<1>4. call[k].of \in Items /\ call[k].arg.to \in Names
  BY <1>3 DEF VInv, RenamesInv
<1>5. NamesInv'
  BY <1>1, <1>4 DEF VInv, NamesInv, SuccessWasApplied
<1>6. RenamesInv'
  BY <1>1, <1>2, <1>3 DEF VInv, RenamesInv, IsOpen
<1>7. QED
  BY <1>2, <1>5, <1>6, MembersMove

\* A handler polls for a member, having shown what it has read or not.
LEMMA PollStep ==
    ASSUME VInv, OnMembers, NEW k \in Slots, NEW m \in Items, Poll(k, m), UNCHANGED <<version, seen, modals, members>>,
           call[k].op \in {"rename", "poll"},
           \/ table' = table
           \/ call[k].op = "poll" /\ call[k].at = "ok" /\ table' = call[k].got.table
    PROVE  VInv'
<1> DEFINE arg == [call[k].arg EXCEPT !.attempt = @ + 1]
           c == Request("poll", m, arg, call[k].flag)
<1>1. /\ Proceeds(k, c) /\ overlapped' = (overlapped \/ Reading \ {k} # {}) /\ UNCHANGED busy
  BY DEF Poll
<1>2. call[k].arg \in [of : Items, to : Names, attempt : Nat]
  BY DEF VInv, RenamesInv, UnderWay
<1>3. arg \in [of : Items, to : Names, attempt : Nat]
  BY <1>2
<1> HIDE DEF arg
<1>4. /\ c.op = "poll" /\ c.of = m /\ c.arg = arg /\ c.at = "asked" /\ c.flag = call[k].flag
      /\ IsRequest(c)
  BY DEF Request, IsRequest
<1>5. CallOK(call[k], version)
  BY DEF VInv, PageInv, CallsOK
<1> HIDE DEF c
<1>6. CallOK(c, version)
  BY <1>4, <1>5 DEF CallOK, TableCallOK, Targets, Writes
<1>7. ModalsOK'
  BY <1>1 DEF VInv, PageInv, ModalsOK
<1>8. PageInv' /\ call'[k] = c /\ Only(k)
  BY <1>1, <1>4, <1>6, <1>7, ReadAgainPage DEF VInv, OnMembers
<1>9. /\ (UnderWay("rename"))' \subseteq UnderWay("rename")
      /\ (UnderWay("poll"))' \subseteq UnderWay("poll") \cup {k} /\ k \notin (UnderWay("rename"))'
      /\ \A j \in UnderWay("rename") \cup UnderWay("poll") : j # k => call'[j] = call[j]
  BY <1>4, <1>8 DEF UnderWay, Only
<1>10. RenamesInv'
  BY <1>3, <1>4, <1>8, <1>9 DEF VInv, RenamesInv, members, IsOpen
<1>11. NamesInv'
  BY NamesFrame DEF VInv
<1>12. QED
  BY <1>4, <1>8, <1>10, <1>11, MembersMove

\* A handler is through with its renaming.
LEMMA RenameEnds ==
    ASSUME VInv, OnMembers, PageInv', NEW k \in Slots, Only(k), call[k].op \in {"rename", "poll"},
           call'[k].op \in {"none", "load"}, modals' \subseteq modals, NamesInv',
           UNCHANGED <<name, had, renameMember>>
    PROVE  VInv'
<1>1. /\ (UnderWay("rename"))' \subseteq UnderWay("rename")
      /\ (UnderWay("poll"))' \subseteq UnderWay("poll")
      /\ \A j \in (UnderWay("rename"))' \cup (UnderWay("poll"))' : call'[j] = call[j]
  BY DEF UnderWay, Only
<1>2. RenamesInv'
  BY <1>1 DEF VInv, RenamesInv, IsOpen
<1>3. QED
  BY <1>2, MembersMove

LEMMA RenameReturnsStep ==
    ASSUME VInv, OnMembers, NEW k \in Slots, RenameReturns(k)
    PROVE  VInv'
<1>1. call[k].op = "rename" /\ UNCHANGED <<version, table, seen, modals, members>>
  BY DEF RenameReturns, Came
<1>2. CASE Good(k)
  <2>1. renameMember \in Items
    BY <1>1 DEF VInv, RenamesInv, UnderWay
  <2>2. Poll(k, renameMember)
    BY <1>2 DEF RenameReturns
  <2>3. QED
    BY <1>1, <2>1, <2>2, PollStep
<1>3. CASE ~ Good(k)
  <2>1. Ends(k) /\ busy' \subseteq busy /\ UNCHANGED overlapped
    BY <1>3 DEF RenameReturns, GivesUp
  <2>2. ModalsOK'
    BY <1>1, <2>1 DEF VInv, PageInv, ModalsOK
  <2>3. PageInv' /\ call'[k] = Blank /\ Only(k)
    BY <1>1, <2>1, <2>2, EndPage DEF VInv, OnMembers, rows
  <2>4. call'[k].op = "none" /\ NamesInv'
    BY <1>1, <2>3, NamesFrame DEF VInv, Blank
  <2>5. QED
    BY <1>1, <2>3, <2>4, RenameEnds DEF members
<1>4. QED
  BY <1>2, <1>3

LEMMA ServePollStep ==
    ASSUME VInv, OnMembers, NEW k \in Slots, ServePoll(k)
    PROVE  VInv'
<1> DEFINE got == [names |-> name, table |-> version]
<1>1. ServeRead(k, {"poll"}, got) /\ UNCHANGED members
  BY DEF ServePoll
<1>2. got = [names |-> got.names, table |-> got.table] /\ got.names = name /\ got.table = version
  OBVIOUS
<1> HIDE DEF got
<1>3. /\ PageInv' /\ Only(k) /\ UNCHANGED modals /\ call[k].op = "poll"
      /\ call'[k] = [op |-> call[k].op, of |-> call[k].of, arg |-> call[k].arg, at |-> "ok",
                     got |-> got, flag |-> call[k].flag]
  BY <1>1, <1>2, LoadPage DEF VInv, OnMembers
<1>4. /\ call'[k].op = "poll" /\ call'[k].of = call[k].of /\ call'[k].arg = call[k].arg
      /\ call'[k].got = got
  BY <1>3
<1>5. /\ (UnderWay("rename"))' = UnderWay("rename") /\ (UnderWay("poll"))' = UnderWay("poll")
      /\ k \in UnderWay("poll") /\ k \notin UnderWay("rename")
      /\ \A j \in UnderWay("rename") \cup UnderWay("poll") : j # k => call'[j] = call[j]
  BY <1>3, <1>4 DEF UnderWay, Only
<1>6. \A m \in Items : got.names[m] \in had[m]
  BY <1>2 DEF VInv, NamesInv
<1>7. RenamesInv'
  BY <1>1, <1>2, <1>3, <1>4, <1>5, <1>6 DEF VInv, RenamesInv, members, IsOpen
<1>8. NamesInv'
  BY <1>1, NamesFrame DEF VInv
<1>9. QED
  BY <1>3, <1>4, <1>7, <1>8, MembersMove

LEMMA PollReturnsStep ==
    ASSUME VInv, OnMembers, NEW k \in Slots, PollReturns(k)
    PROVE  VInv'
<1>1. /\ call[k].op = "poll" /\ UNCHANGED <<version, seen, modals, members>>
      /\ \/ call[k].at = "ok" /\ table' = call[k].got.table
         \/ call[k].at # "ok" /\ table' = table
  BY DEF PollReturns, Came, Polled, Good
<1>2. call[k].of \in Items
  BY <1>1 DEF VInv, RenamesInv, UnderWay
<1>3. CASE Poll(k, call[k].of)
  BY <1>1, <1>2, <1>3, PollStep
<1>4. CASE GivesUp(k)
  <2>1. Ends(k) /\ busy' \subseteq busy /\ UNCHANGED overlapped
    BY <1>4 DEF GivesUp
  <2>2. ModalsOK'
    BY <1>1, <2>1 DEF VInv, PageInv, ModalsOK
  <2>3. PageInv' /\ call'[k] = Blank /\ Only(k)
    <3>1. CASE call[k].at = "ok" /\ table' = call[k].got.table
      BY <1>1, <2>1, <2>2, <3>1, ShowPage DEF VInv, OnMembers, Shows
    <3>2. CASE table' = table
      BY <1>1, <2>1, <2>2, <3>2, EndPage DEF VInv, OnMembers, rows
    <3>3. QED
      BY <1>1, <3>1, <3>2
  <2>4. call'[k].op = "none" /\ NamesInv'
    BY <1>1, <2>3, NamesFrame DEF VInv, Blank
  <2>5. QED
    BY <1>1, <2>3, <2>4, RenameEnds DEF members
<1>5. QED
  BY <1>3, <1>4 DEF PollReturns

LEMMA RenameConfirmedStep ==
    ASSUME VInv, OnMembers, NEW k \in Slots, RenameConfirmed(k)
    PROVE  VInv'
<1> DEFINE t == [asked |-> call[k].arg.of, polled |-> call[k].of, to |-> call[k].arg.to]
<1>1. /\ call[k].op = "poll" /\ call[k].at = "ok" /\ table' = call[k].got.table
      /\ call[k].got.names[call[k].of] = call[k].arg.to
      /\ told' = told \cup {t} /\ modals' \subseteq modals
      /\ Reloads(k, 0, call[k].flag) /\ UNCHANGED <<version, name, had, late, renameMember>>
  BY DEF RenameConfirmed, Came, Good, Confirmed, Polled, Shut
<1>2. 0 \in 0..version /\ call[k].flag \in Flags \cup {None}
  BY DEF VInv, PageInv, RowsOK, CallsOK, CallOK
<1>3. PageInv' /\ Only(k) /\ call'[k].op = "load"
  BY <1>1, <1>2, ReloadKeeps DEF VInv, OnMembers
<1>4. call[k].of \in Items /\ call[k].got.names[call[k].of] \in had[call[k].of]
  BY <1>1 DEF VInv, RenamesInv, UnderWay
<1>5. t.asked \in Items /\ (t.asked = t.polled => t.to \in had[t.asked])
  BY <1>1, <1>4 DEF VInv, RenamesInv, UnderWay
<1> HIDE DEF t
<1>6. NamesInv'
  BY <1>1, <1>5 DEF VInv, NamesInv, SuccessWasApplied
<1>7. QED
  BY <1>1, <1>3, <1>6, RenameEnds

LEMMA MembersStep ==
    ASSUME VInv, OnMembers, MembersNext
    PROVE  VInv'
<1> USE DEF OnMembers, Plain
<1>1. /\ None \in Targets /\ Items \subseteq Targets /\ {"delete", "authUpdating"} \subseteq Flags
      /\ "delete" \in Kinds \ SpecialKinds /\ {"delete", "auth"} \subseteq Writes
  BY DEF Flags, Targets, Kinds, SpecialKinds, Writes
<1>2. \A op \in {"delete", "auth"} : op \notin SpecialOps \cup {"load"}
  BY DEF SpecialOps, HidingOps, PlanetOps, MachineOps, MemberOps
<1>3. CASE \E d \in modals : Close(d) /\ UNCHANGED members
  BY <1>3, PlainClose
<1>4. ASSUME NEW m \in Items, OpenMember("rename", m) PROVE VInv'
  BY <1>4, OpenRenameStep
<1>5. ASSUME NEW m \in Items, OpenMember("delete", m) PROVE VInv'
  <2>1. Opens("delete", m) /\ UNCHANGED members /\ UNCHANGED <<call, left, broken, rows, busy>>
    BY <1>5 DEF OpenMember, members
  <2>2. QED
    BY <1>1, <2>1, PlainOpens
<1>6. ASSUME NEW l \in late, Settles(l) PROVE VInv'
  BY <1>6, SettlesStep
<1>7. ASSUME NEW k \in Slots, NEW m \in Items, DeleteMember(k, m) \/ ToggleAuth(k, m)
      PROVE  VInv'
  BY <1>1, <1>2, <1>7, PlainAgrees, PlainPresses DEF DeleteMember, ToggleAuth
<1>8. ASSUME NEW k \in Slots, NEW n \in Names, Rename(k, n) PROVE VInv'
  BY <1>8, RenameStep
<1>9. ASSUME NEW k \in Slots, MemberReturns(k) PROVE VInv'
  BY <1>1, <1>2, <1>9, PlainAgreed, PlainReturns DEF MemberReturns
<1>10. ASSUME NEW k \in Slots, ServeMember(k) PROVE VInv'
  BY <1>1, <1>2, <1>10, PlainWrite, PlainLoad, PlainFault DEF ServeMember
<1>11. ASSUME NEW k \in Slots, MembersReturn(k) PROVE VInv'
  BY <1>11, PlainRefresh, PlainLoadReturns DEF MembersReturn
<1>12. ASSUME NEW k \in Slots,
              ServeRename(k) \/ RenameReturns(k) \/ ServePoll(k) \/ PollReturns(k) \/ RenameConfirmed(k)
       PROVE  VInv'
  BY <1>12, ServeRenameStep, RenameReturnsStep, ServePollStep, PollReturnsStep, RenameConfirmedStep
<1>13. QED
  BY <1>3, <1>4, <1>5, <1>6, <1>7, <1>8, <1>9, <1>10, <1>11, <1>12 DEF MembersNext
-----------------------------------------------------------------------------
LEMMA InitVInv ==
    ASSUME VInit
    PROVE  VInv
<1>1. PICK k \in Slots :
        call = [j \in Slots |-> IF j = k THEN Request("load", None, 0, "loading") ELSE Blank]
  BY DEF VInit, PageInit
<1>2. /\ version = 0 /\ table = 0 /\ seen = 0 /\ overlapped = FALSE /\ broken = 0
      /\ modals = {} /\ busy = {"loading"} /\ at \in Pages /\ left = MaxHandlers[at]
  BY DEF VInit, PageInit
<1>3. CallOK(Request("load", None, 0, "loading"), 0) /\ CallOK(Blank, 0)
  BY BlankOK DEF CallOK, IsRequest, TableCallOK, Request, Targets, Flags, Writes
<1>4. CallsOK
  BY <1>1, <1>2, <1>3 DEF CallsOK
<1>5. Reading \subseteq {k} /\ call[k].at = "asked"
  BY <1>1 DEF Reading, UnderWay, Request, Blank
<1>6. TableInv
  BY <1>2, <1>5 DEF TableInv, Reading, UnderWay
<1>7. ModalsOK
  BY <1>2 DEF ModalsOK, Flags
<1>8. RowsOK
  <2>1. overlapped \in BOOLEAN
    BY <1>2, Zenon
  <2>2. version \in Nat /\ table \in 0..version /\ seen \in 0..version
    BY <1>2
  <2>3. QED
    BY <2>1, <2>2 DEF RowsOK
<1>9. CountsOK
  BY <1>2, HandlersAssumption, FaultsAssumption DEF CountsOK
<1>10. PageInv
  BY <1>4, <1>6, <1>7, <1>9, <1>8 DEF PageInv
<1>11. \A j \in Slots : call[j].op \in {"none", "load"}
  BY <1>1 DEF Request, Blank
<1>12. UsersInv
  BY <1>2, <1>11 DEF UsersInv, VInit, UsersInit, UnderWay, IsOpen
<1>13. FilesInv
  <2>1. UnderWay("upload") = {}
    BY <1>11 DEF UnderWay
  <2>2. QED
    BY <2>1 DEF FilesInv, VInit, ControllersInit
<1>14. LinksInv
  <2>1. LinkCalls = {} /\ ~ LinkShown
    BY <1>2, <1>11 DEF LinkCalls, UnderWay, LinkShown, IsOpen
  <2>2. QED
    BY <2>1 DEF LinksInv, VInit, ControllersInit
<1>15. SwitchInv
  BY <1>11 DEF SwitchInv, SwitchIsListed, VInit, MachinesInit, UnderWay
<1>16. LogsInv
  BY <1>2, <1>11 DEF LogsInv, VInit, MachinesInit, UnderWay, IsOpen
<1>17. NamesInv
  BY DEF NamesInv, SuccessWasApplied, VInit, MembersInit
<1>18. RenamesInv
  BY <1>2, <1>11 DEF RenamesInv, VInit, MembersInit, UnderWay, IsOpen
<1>19. QED
  BY <1>10, <1>12, <1>13, <1>14, <1>15, <1>16, <1>17, <1>18 DEF VInv

LEMMA NextVInv ==
    ASSUME VInv, [VNext]_views
    PROVE  VInv'
<1>1. CASE at = "users" /\ UsersNext /\ UNCHANGED <<at, planets, machines, members>>
  BY <1>1, UsersStep DEF OnUsers
<1>2. CASE at = "controllers" /\ ControllersNext /\ UNCHANGED <<at, hiding, machines, members>>
  BY <1>2, ControllersStep DEF OnControllers
<1>3. CASE at = "machines" /\ MachinesNext /\ UNCHANGED <<at, hiding, planets, members>>
  BY <1>3, MachinesStep DEF OnMachines
<1>4. CASE at = "members" /\ MembersNext /\ UNCHANGED <<at, hiding, planets, machines>>
  BY <1>4, MembersStep DEF OnMembers
<1>5. CASE UNCHANGED views
  <2>1. PageInv'
    BY <1>5, StillPage DEF VInv, views, page, PageInv, ModalsOK
  <2>2. Kept(SpecialOps, SpecialKinds)
    BY <1>5, StillKeepsOthers DEF views, page
  <2>3. QED
    BY <1>5, <2>1, <2>2, PlainStep DEF Plain, views
<1>6. QED
  BY <1>1, <1>2, <1>3, <1>4, <1>5 DEF VNext

\* The inductive invariant of the pages: the table and its calls, and for each page what
\* its modals, its calls and the server have to do with each other.
THEOREM Invariance == VSpec => []VInv
<1>1. VInit => VInv
  BY InitVInv
<1>2. VInv /\ [VNext]_views => VInv'
  BY NextVInv
<1>3. QED
  BY <1>1, <1>2, PTL DEF VSpec

\* The types of what the pages show, note and call for.
THEOREM TypeCorrect == VSpec => []VTypeOK
<1>1. VInv => VTypeOK
  <2>1. SUFFICES ASSUME VInv PROVE VTypeOK
    OBVIOUS
  <2>2. \A k \in Slots : /\ call[k].at \in {"none", "asked", "ok", "failed"}
                         /\ call[k].of \in Items \cup Controllers \cup {None}
                         /\ call[k].flag \in Flags \cup {None}
    BY <2>1 DEF VInv, PageInv, CallsOK, CallOK, Targets
  <2>3. /\ left \in 0..MaxHandlers[at] /\ broken \in 0..MaxFaults
        /\ version \in Nat /\ table \in 0..version /\ seen \in 0..version /\ overlapped \in BOOLEAN
        /\ modals \subseteq [kind : Kinds, of : Items \cup {None}] /\ busy \subseteq Flags
    BY <2>1 DEF VInv, PageInv, CountsOK, RowsOK, ModalsOK
  <2>4. /\ stored \in [Items -> SUBSET Nets] /\ keys \subseteq Nets /\ keysOf \in Items \cup {None}
        /\ picker \in Items \cup {None} /\ pendingPlanet \in Items \cup {None}
        /\ planet \in [Items -> Items \cup {None}] /\ gone \subseteq Items \cup Controllers \cup {None}
        /\ link \in [Items -> 0..issued] /\ issued \in Nat
    BY <2>1 DEF VInv, UsersInv, FilesInv, LinksInv, Targets
  <2>5. /\ controllerId \in Controllers \cup {None} /\ networkId \in AllNets \cup {None}
        /\ listed \subseteq AllNets
        /\ logs \in Items \cup {None} /\ selected \in Items \cup {None} /\ logsLoading \in BOOLEAN
    BY <2>1 DEF VInv, SwitchInv, LogsInv
  <2>6. /\ name \in [Items -> Names] /\ had \in [Items -> SUBSET Names] /\ late \subseteq Items \X Names
        /\ renameMember \in Items \cup {None}
    BY <2>1 DEF VInv, NamesInv
  <2>7. QED
    BY <2>2, <2>3, <2>4, <2>5, <2>6 DEF VTypeOK
<1>2. QED
  BY <1>1, Invariance, PTL

\* What a handler has saved is on the table when it is done, on every page, whatever fails
\* and whichever modals are closed meanwhile, as long as no two calls for the table crossed.
THEOREM OwnWritesShown == VSpec => []TableShowsOwnWrites
<1>1. VInv => TableShowsOwnWrites
  BY DEF VInv, PageInv, TableInv, TableShowsOwnWrites
<1>2. QED
  BY <1>1, Invariance, PTL

\* What a page shows and sends is of the row it was opened for: hidden networks, planet
\* files, download links, the networks to switch to and the logs.  Except where answers for
\* two rows crossed, a removal crossed the link of what it removed, or logs failed to load
\* over rows of another machine.
THEOREM RightTarget == VSpec => []ActsOnItsTarget
<1>1. VInv => ActsOnItsTarget
  <2>1. SUFFICES ASSUME VInv PROVE ActsOnItsTarget
    OBVIOUS
  <2>2. KeysAreTargets
    BY <2>1 DEF VInv, UsersInv, KeysAreTargets
  <2>3. PlanetIsTheChosen
    BY <2>1 DEF VInv, FilesInv, PlanetIsTheChosen
  <2>4. ShownLinkIsLive
    BY <2>1 DEF VInv, LinksInv, ShownLinkIsLive
  <2>5. SwitchIsListed /\ LogIsTargets
    BY <2>1 DEF VInv, SwitchInv, LogsInv, LogIsTargets
  <2>6. QED
    BY <2>2, <2>3, <2>4, <2>5 DEF ActsOnItsTarget
<1>2. QED
  BY <1>1, Invariance, PTL

\* A renaming is reported as successful only if the member has had that name, unless the
\* modal was opened for another member before the answer came, whose name is polled then.
THEOREM ReportsAreTrue == VSpec => []SuccessWasApplied
<1>1. VInv => SuccessWasApplied
  BY DEF VInv, NamesInv
<1>2. QED
  BY <1>1, Invariance, PTL
=============================================================================
