# Verification of zt-mgmt

TLA+ specifications of zt-mgmt: a server that manages ZeroTier controllers (through
the web pages of their ztncui servers) and moves test machines between the networks of
those controllers (over SSH), and the web application in front of it. The modules are
translated from the TypeScript and Vue sources under `src/apps/server` and
`src/apps/web`; TLC checks them on small instances, TLAPS proves part of what they state
for every instance.

## 1. The system

### Components, their state and their operations

| component | state | operations | calls |
| --- | --- | --- | --- |
| test machines (`test-machines.service.ts`) | rows `TestMachine`, `TestMachineSwitchLog`; in memory a Map of promise locks and a Map of rename timers, both keyed by machine id | list, create, update, remove, testSsh, check / start / stop of the ZeroTier service, switchNetwork, background rename | SSH session, ztncui client, controllers, users |
| SSH session (`test-machine-ssh.service.ts`) | one connection per request | connect, exec (with a timeout), uploadFile (without), close | the remote host |
| networks (`networks.service.ts`) | a Map of promise locks keyed by controller id | list, detail, create, rename, remove | ztncui client, subnets, controllers |
| subnets (`subnet.service.ts`) | none | allocateNext | |
| controllers (`controllers.service.ts`) | rows `Controller`: address, login, subnet settings, planet file, download token | CRUD, planet upload / removal, download token (create, rotate, use), connection test, export, import | ztncui session |
| ztncui client (`ztncui.service.ts`, `ztncui-session.service.ts`, parsers) | a Map of session cookies keyed by controller id | login, request with one re-login, pages of networks and members, setMemberName with retries | ztncui over HTTP |
| members (`members.service.ts`) | none | authorise, rename, remove | ztncui client |
| users and auth (`users.service.ts`, `auth/`) | rows `User`, `UserHiddenNetwork`; JWT | login, password change and reset, hidden networks, default admin | |
| web session (`api/http.ts`, `stores/`, `router/`, `layouts/`) | token and user in the local storage; keys of hidden networks, with a pending load | login, logout, password change, clearing on 401, ensureLoaded, filterNetworks | the server |
| web pages (`views/`) | per page a table, its modals, flags that disable buttons, what a modal was opened for | open, submit, confirm, reload; the answers | the server |
| common, health, deployment | | crypto, filters, guards, Prisma start-up | |

The server is one Node process. Handlers interleave at every `await`; there are no
threads and, except for the import of controllers and the hidden networks of a user, no
transactions. What two handlers share is the database, the in-memory Maps, the
controllers and the remote hosts. A tab of the web application is the same once more:
handlers of clicks that await answers of the server and then go on with the page, the
stores and the session as they are by then.

### What is hard

* *Interleaving at awaits.* Switches and service actions of a machine are
  serialised by a promise lock, and so are the creations of networks on a
  controller; edits, removals, timers and downloads are not.
* *Partial failure.* A switch has some thirty awaits over three systems: database,
  SSH, ztncui. Each may fail, the rollback and the fallback too.
* *Timeouts.* `exec` and `fetchText` stop waiting; what they asked for may still
  happen. The file upload has no timeout at all.
* *Crashes.* Locks and timers live in memory; rows that say RUNNING or "will be
  synchronised in the background" outlive them.
* *Timers.* A rename attempt that has fired runs beside everything else and cannot
  be stopped by clearing its timer.
* *Shared sessions.* All requests to a controller share a cookie, which any of them may
  drop or replace; an edit of the controller drops it under requests in flight.
* *Stale reads.* A login and a password change read a row, await scrypt, and sign or
  write afterwards; hidden networks are cached in the browser.
* *Answers out of order.* A modal can be closed and opened for another row while a call
  is under way; a late answer may meet another user's session.
* *Numbers.* Subnet arithmetic uses signed 32-bit operators.

### What makes each component correct

* locks: exclusion, order of arrival, no leaked and no lost Map entry, progress.
* switch: SUCCESS and the service status are true of the host; RUNNING means that a
  switch runs; every log gets closed; a rollback puts back what was there and the
  daemon runs again; the machine is not removed under a switch; the row's current
  network is the host's; every request ends.
* background rename: timers and renamings correspond; a row that promises a renaming
  has one; a newer switch supersedes an older renaming; the row speaks of the
  network the machine is in; every renaming ends.
* network creation: no two networks of a controller get overlapping subnets; no
  address pool before the network is private; a reported creation is complete;
  every creation ends.
* subnets: the block allocated is a block of the pool, free, and the next one.
* planet download links: at most one, only with a file; it works until it is rotated
  or the file removed, and then never again.
* ztncui sessions: no cookie of an old configuration; an answer is an answer and not a
  login page; a confirmed name is the name; all calls end.
* users: a session ends with the password it was made with, whatever changes and resets
  cross; an administrator exists once the server listens.
* web session: a user's list is filtered with his own keys; no load is pending for good.
* web pages: what a page shows and sends is of the row it was opened for; a table shows
  what its user has saved; a renaming is reported as done only when it is.

The hazards are listed line by line in `PROJECT.json`, with the properties that
would catch each of them going wrong.

## 2. Modules

```
FifoLock  <---- implemented by ---- KeyedLock <- KeyedLockMC, KeyedLockProofs
   ^  ^
   |  +--- composed into --- NetworkCreate (EXTENDS Subnet) <- NetworkCreateMC,
   |                                                            NetworkCreateProofs (and SubnetMC)
   +------ composed into --- SwitchNetwork <- SwitchNetworkMC, SwitchNetworkProofs
MachineSwitch <- implemented by ---+
DownloadLink <-- implemented by -- PlanetLink <- PlanetLinkMC, PlanetLinkProofs
MemberRename <- MemberRenameMC, MemberRenameProofs        Subnet <- SubnetMC
ZtncuiSession <- ZtncuiSessionMC, ZtncuiSessionProofs

Accounts <- EXTENDS - WebSession <- WebSessionMC, WebSessionProofs

Page <- UsersView, ControllersView, MachinesView, MembersView <- Views <- ViewsMC, ViewsProofs
```

**KeyedLock** (`withMachineLock`, `withControllerLock`; the two are the same code).
`tail` is the Map, `previous` the promise a call awaits. `Call` is the synchronous
part up to `await previous`, `Enter` the resumption, `Finish` the finally block,
`Settle` the settling of the call's own promise, a microtask later. `Restart` is a
process restart. `earlier` is a history variable used by properties only.

**FifoLock** is what the lock promises: per key one call inside, in the order of
asking. KeyedLock is shown to implement it (checked and proved); SwitchNetwork and
NetworkCreate instantiate it (`Lock!Ask`, `Lock!Admit`, `Lock!Leave`,
`Lock!Forget`) with one key each, and so need not repeat the promises.

**SwitchNetwork** is the service seen by one machine. Each request is a small
program with a counter `task[o].pc`; a label is the code between two awaits.
`row` and `logs` are the database rows, `host` is the remote machine (planet file,
its backup, the planet the running daemon uses, joined networks, whether the SSH
user is root), `authd` the controllers' lists of authorised members, `late` the
commands that timed out, `faults` how many failures have struck, and of which kinds.
The switch runs from `Prepare` to `LogSuccess`; `Throw` goes to the catch block
(`Recover`), and out of it once the catch block is running, as in the code.
`leaveRemoteExtraNetworks` is used three times in the code and once here
(`ListExtra`, `LeaveExtra`, `RecheckExtra`), with `ExtraLeft` saying where it
returns to. `Svc...` are check, start and stop; `Guard`, `Edit` and `Remove` are
`update` and `remove`, which take no lock. `Crash` ends the process.

Abstracted: polling loops are one step that succeeds only if the condition can
hold and may always give up; commands that only look, their parsing and the log
texts are left out except that an error text may be too long for its column
(`verbose`). Duplicate members stand for other authorised networks of the same
controller. A host on the planet of controller c reaches exactly the networks of c.
An edit may give the row another login (host, port, user): `addr` numbers them, and the next
request that reads the row reaches (`Reaches`) a machine no switch has touched, or the
same one as another user. `host` is the machine reached last, `on` the login of the
last success. A login is never edited back to that of an earlier machine.

**MachineSwitch** is what a reader of the database may rely on: at most one switch
owns the record, RUNNING, SUCCESS and FAILED are written for the owner only, the
current network changes only with a success, a log is closed with the status of
the row. SwitchNetwork implements it: `owner` is mapped to the switch between
opening its log and its end.

**MemberRename** is the background rename: `armed` are the timers that run, `timers`
the Map, which may hold a timer that has fired. One action per await of
`runBackgroundMemberRename`; what its catch block throws ends the process (`Die`),
since the timer callback discards the promise. Switches are reduced to the writes
the rename sees, and to the order they come in: in the try block the row and then the log of
a success, in the catch block the same for the fallback or the row and then the log of a failure.
`SwitchThrows`, and `LogSuccessFails` in the fallback, leave the catch block with an error:
the row stays as it is and nothing is scheduled (`stranded`).

**Subnet** is `subnet.service.ts` for addresses of `W` bits: `ToSigned` is what `&`
yields, `ToUnsigned` is `>>> 0`. `Block`, `Overlap`, `BlocksIn` and `Free` are the
reference definitions on plain addresses. `Pow2` is `2 **`, written as a function the
prover can reason about.

**NetworkCreate** composes FifoLock and Subnet with the ztncui server: a creation
posts, lists, inspects the other networks one by one, allocates, makes the network
private and sets its pool. Requests may be refused, or aborted and applied later.
Removals and edits of the subnet prefix take no lock.

**PlanetLink** is the planet file of one controller with its download token. `row`
is the controller's row, `task` a request between two awaits, `answer` what it was
told. `Look` is what each request reads first, `Try` the conditional `updateMany` of a
new token (`Unlinked` is its `where`), `Reread` the second look before the next of
three tries. Nothing is locked. A file is named after the request that uploaded it, a
token after the request and the try that made it, since 32 random bytes do not
repeat; the unique index may refuse one all the same (P2002). Downloads come with a
token that once was given out. A database failure may hide an update that was made.
An imported controller may start with a file; that is left to an upload.

**DownloadLink** is what README and user interface promise: one current link, given
to everyone who asks, the same under a new file, replaced by a rotation, gone with the
file; each request is one step or refused.

**ZtncuiSession** is everything the server asks of the ztncui of one controller. `cookie`
is the entry of the Map in `ZtncuiSessionService`; it remembers the version of the row it
was logged in with and how often the server had forgotten its sessions, which is all a
cookie can be wrong about. A call goes `session`, `login`, `send`, `answered`, one label
per await of `request`; `again` is the second try after a login page (`LogInAgain`), whose
answer is not examined (`Passes`). A renaming drops the cookie before each of its
requests, as `forceFreshSession` does. `phase`, `stage`, `tries` and `reads` are the loops of
`setMemberName`: each of three stages (the name, an ASCII bridge, the name again) is up
to `MaxTries` posts, each followed by up to `MaxReads` verifications. Timed-out requests
stay in `late`. Edits and the removal of the row go in two steps (`Write`, `Clear`). Calls
that are one request of the client are all of the kind `act`: what they ask for makes no
difference to the session. `Known`, `Effect` and `Forget` are the ztncui server and external.

**Accounts** is the users' part of the server: `users` are the rows, `stamp` is `updatedAt`
and `clock` the number of writes that have stamped one, `hidden` the hidden networks. A
request is `Ask`, the guards (`Authenticate`), then one action per await of its handler.
A token is a record (user, role, stamp) and is accepted while the row has both, as
`JwtStrategy.validate` compares them. `issued` is a history of tokens and the passwords
they were signed for. `Boot` is `ensureDefaultAdmin`. Passwords are compared as values:
hashing is the identity up to equality. Two writes never carry one stamp; in the code two
in the same millisecond could, and a token of the first would survive the second.

**WebSession** is one tab beside Accounts: `session` and `store` are the Pinia stores,
`pending` is `pendingLoad`, `awaited` the requests the document waits for, `view` the list of
networks. `HandleLogin`, `HandleChange`, `HandleLogout`, `HandleLoad` and `HandleList` are the
continuations after the answers, `Unauthorized` and `Kept` are `handleUnauthorized`, `Reload`
is a new document. `Elsewhere` is an administrator at another browser.

**Page** is what the pages have in common: `call` are the handlers that wait for an answer,
`busy` the flags, `modals` the open modals, `version`, `table` and `seen` the state of the
server's table, the one shown, and the newest the page has reported as saved. `Submits`,
`Agrees` and `Presses` are the three ways to start a handler (the OK of a modal, the OK of
a Modal.confirm, a button of a row), `Returns`, `AgreedReturns` and `LoadReturns` their
continuations. **UsersView**, **ControllersView**, **MachinesView** and **MembersView** add
what is special to each page: the keys of hidden networks, the file picker and the
download link, the lists in the switch modal and the logs, the renaming that is confirmed
by polling. In ControllersView the server keeps `planet`, `link` and `gone`: `ServeRemoval` ends a
link with its planet or its controller, `issued` numbers the links so that a dead one is never
taken for a new one, and `ServeRefused` turns away what is asked of a planet or controller that
is not there any more. In MachinesView `logs` are the rows of the modal, which opening it
does not clear, and `SelectLog` shows one of them in detail. **Views** mounts one of them. Form fields, filters, messages and the columns are
abstracted; a table is its version; the switch of an authorisation corrects the row in
the browser, which leaves `table` alone.

## 3. Checks

Each run is a `.cfg`; `CHECK_DEADLOCK FALSE` is used where a behaviour makes a
bounded number of requests and then really stops.

| run | shows | bounds |
| --- | --- | --- |
| KeyedLock | exclusion, order, Map; everyone gets a turn; implements FifoLock | 4 calls, 2 keys: a queue of three behind a holder while the other key drains |
| SwitchSafety | what is recorded as success or service status is what the host shows; outcomes are recorded; a completed rollback undoes the replacement; the rows implement MachineSwitch | 3 requests of all six kinds, 2 networks on 2 controllers, root or `sudo` login, 2 failures (SSH, database, long text), edits of the login; symmetry in the requests; 2.3 million states |
| SwitchLive | every request ends | 2 requests, 1 failure (late command, SSH, database, crash) |
| Rename | timers, promises and supersession; promises are resolved | 2 switches of a machine, 3 attempts, removals, 1 database failure |
| SubnetAllocation | the allocation is a free block of its prefix, the next one, with a proper range | every pool, prefix and pair of routes of 4-bit addresses |
| Create | no overlapping subnets, private before pooled; creations end | 3 creations, prefixes 2 and 3, 1 failure (refused, late, crash), 1 edit of the prefix |
| PlanetLink | no link without a file; implements DownloadLink | 5 requests of six kinds, 3 tries as in the code, 2 database failures; symmetry in the requests |
| Session | the cookie is that of the row; a success was carried out; a confirmed name stays; all calls end | 2 renamings, or one with the ASCII bridge beside an edit, or 3 other calls; 3 tries and 3 verifications as in the code; 2 servers, a new login and a new address; 1 failed or late request, 1 forgotten session |
| Web | a token proves the current password; lists are filtered with their user's keys; a pending load is under way | 2 users, 2 passwords, 1 network, 4 requests, 2 at a time, 1 failure of the database, any number of reloads; an empty table of administrators or one whose `admin` is an ordinary user |
| Views | pages act on the row they were opened for; tables show what was saved; a reported renaming is applied | 2 rows, 2 handlers at a time and 3 in all (2 on the controllers' page) beside the first load, 1 failed call, 2 polls; 5.7 million states |

Three requests are enough for the interleavings of a machine: one inside the lock,
one queued, one without the lock. Two failures are what it takes to fail in the
path that handles a failure. Two networks on different controllers make a switch
change the planet; behaviours with several switches go there and back. Late commands
and crashes multiply the states and are therefore left to SwitchLive, whose two
requests are enough for a command of the first to strike the second. Three creations
are two whose subnets could collide and one to be removed or to fail between them.
Five requests on a planet file are an upload, two that set a token, a removal or second
upload, and a download, in any order.

Two calls share a cookie and a third edits the row under them; a second failure adds only
more retries to one that already goes through all of them. With four requests a tab logs
in, loads its keys, logs out and logs in as somebody else, or a change of the password
crosses a reset. Three handlers on a page are two that cross and a third that uses what they
left. The controllers' page has more modals than the others, but each crossing on it needs
only two calls.

Four-bit addresses have a sign bit, pools that start above it, and blocks of three
sizes. Pools of prefix 0 are left out: `parseCidr` gives them the start 0, and the loop
counts on past the sign bit, where the used blocks, which are signed, are not recognised. It
takes two thousand million addresses in use to get there.

### What holds only with a condition

Some properties carry a premise because the code gives no more. What is behind each:

* `OutcomeIsRecorded` (neither row nor log stays RUNNING once a switch is given up)
  excepts database failures, an error text of more than 255 characters, which the
  FAILED update cannot store, and a throw in the fallback of the catch block.
* `RollbackUndoesReplacement` speaks of switches that had saved the planet file; an
  earlier failure restores an older backup.
* `DaemonComesBack` is for SSH users that are root, and no failures: with another user
  the commands are prefixed with `sudo -n`, and `sudo -n if ...; then` is a syntax
  error, so that the rollback stops the daemon and does not start it again.
* `SuccessDescribesHost` is for rows that say SUCCESS: a failed switch has left the
  old network, which the row still names as the current one. And it is for rows whose login
  is the one the success was obtained with: `update` keeps SUCCESS and the current network
  when it replaces host, port or user, so that the row calls a machine switched that may
  never have been. Without that premise the property fails, also for an edit that crosses a
  switch between its reading of the row and the RUNNING update.
* A removal checks the switch status and deletes in two awaits without the lock, so
  that a switch may lose its machine under it: `MachineSwitch!Delete` is possible at any
  time, and the refinement says only that nothing else goes wrong with the record.
* `LockedSubnetsAreDisjoint` is for controllers whose prefix was not edited and whose
  requests are never late: routes of another prefix are not counted as used, so that
  blocks of two prefixes may overlap.
* `ScheduleSupersedes` is for switches that find no attempt under way and a Map that
  knows every running timer (`RunningTimersAreKnown`): an attempt that ends deletes
  the Map entry whosever it is.
* `PendingUnlessForgotten` and `PendingIsResolved` except promises nobody keeps: the process
  died, or the switch wrote the row, could not write its log, and then threw out of its
  catch block. `PendingIsScheduled`, without the exceptions, is what the message says.
* `SessionIsCurrent` excepts a cookie stored by a call that was under way when the row was
  edited: `clearSession` does not reach it, and it is used until the server refuses it.
* `AnsweredWasDone` excepts a call whose second request, after a new login, met a server
  that had forgotten the new session too: that answer is taken as it is.
* `ConfirmedSticks` is for names confirmed directly, or without failures: after the detour over
  the bridge name a bridge request that timed out may arrive late and replace the
  confirmed name.
* `ShownWasFiltered` excepts a tab whose session a late answer has put in another's place
  (`revived`): `handleChangePassword` sets the session of the user who asked, although he has
  logged out since or somebody else has logged in, and the keys in the store are not his.
* `HiddenIsNotListed` below is about networks that stay hidden; the server does not filter.
* `ActsOnItsTarget` and `TableShowsOwnWrites` except crossings that the pages do not
  guard against, each recorded by a history variable: keys, logs or lists of two rows under
  way at once (`alone`, `logsAlone`, `listAlone`), two calls for a link (`linkAlone`), two loads of
  a table (`overlapped`). Without its premise each part fails, and the page shows the
  answer that came last.
* Two parts of `ActsOnItsTarget` except one thing more. `linkAlone` is also lost when the planet or
  the controller of the link that is shown or asked for is removed: the modal is not told and shows
  a dead link. `logsAlone` is also lost when logs fail to load while rows of another
  machine are listed, which needs no crossing: they stay, and `LogsMatchTitle` below
  is what comes of it.
* `SuccessWasApplied` is for renamings polled for the member they were asked for: the
  confirmation polls the member the modal holds when the answer comes.

### Where code and documentation part

Two runs are expected to end in a violation; each states what a message or a page of the
program says and shows a behaviour of the code that does otherwise.

| run | property | what happens |
| --- | --- | --- |
| StuckRunning | RunningMeansInProgress | the fallback in the catch block throws: the row stays RUNNING and later requests are told that a switch is in progress |
| HiddenListed | HiddenIsNotListed | the keys of hidden networks are cached, so that a network hidden meanwhile stays on the list of the user |

Six more violations can be had from the modules by putting the property into a run, with
the specification of the run that is named and the constants below; they are the reason for
the premises above:

| property | of | constants | what happens |
| --- | --- | --- | --- |
| RollbackRestores | SwitchNetwork | as StuckRunning, with Ops = {op1, op2} | a switch that failed early restores the backup an older switch left |
| MessageNamesCurrent | MemberRename | as Rename | an old attempt overwrites the message of a newer switch |
| PendingIsScheduled | MemberRename | as Rename, with Removals = FALSE | the log of a success cannot be written and the catch block throws: the row says that the name is being synchronised in the background (`:47`), and nothing is scheduled |
| LogsMatchTitle | MachinesView | as Views, with Slots = {k1} | the logs of a machine fail to load: those of the machine opened before are still listed under the new title (`views/test-machines/index.vue:224`), and one is shown in detail; with one handler at a time nothing crosses |
| NoDuplicateSubnets | NetworkCreate | as Create, with Faults = {"late"} | an aborted easy-setup is applied after the lock has passed on |
| RunningMeansInProgress | SwitchNetwork | as StuckRunning, with Faults = {"crash"} | a restart forgets the switch, and nothing resets its row |

### Fairness

`KeyedLock!Fairness`: the event loop runs every ready microtask and every task ends.
That tasks end is what SwitchLive and Create show: there, weak fairness of each
request's next step stands for the timeouts of `exec` and `fetchText` and the answers of
the database. The SFTP upload has no timeout and gets no fairness; `EveryRequestEnds`
says so. In ZtncuiSession weak fairness of each call's next step stands for the timeout of
`fetchText`. In MemberRename timers fire, requests end, and so do the log of a success and the
catch block; the try block, which has the upload, is not fair. Lateness, failures, removals and
crashes are never fair. Accounts, WebSession and Views state safety only: a browser gives
no promise that its user goes on or its requests are answered.

### Mutants

For each property `PROJECT.json` names a mutated operator, in the module under
"Mutant of ...", that stands for a plausible slip in the code and makes TLC report
that property.

## 4. Proofs

`KeyedLockProofs` proves, for any sets of requests and keys, with the one assumption
that `None` is not a request: type correctness, `MutualExclusion`, `InOrder`,
`MapHoldsLastCaller`, and that KeyedLock implements FifoLock.

None of the safety properties is inductive alone. The invariant `Inv` adds `ChainOK`:
a live call awaits either nobody that is still live, and then nobody came before it,
or a live call on its own key, and then exactly that call and everyone before it came
before; any two live calls on a key are ordered. Exclusion follows: of two running
calls on one key one would be in the other's `earlier`, which is empty for a running
call. The Map invariant says who must be the last of the chain, so that a new call
appends to it. There is one lemma per action; the refinement maps `earlier` to
`ahead` and `Settle` to a stutter.

`MemberRenameProofs` proves, for any machines, switches, attempts, removals and
failures (`RenameAssumption`): type correctness, `TimersMatchRenamings`,
`PendingUnlessForgotten` and `ScheduleSupersedes`. The timers need the types only; the
proof uses their pointwise form `Matched`. `PendingUnlessForgotten` is not inductive:
`Schedule` ends the renaming whose timer it finds in the Map, which is harmless only
if that renaming is of the same machine and the machine's message no longer promises
it. `MessagesOK` says so: Map and messages speak of the machine's own switches, the one
switch in progress is the only one its machine's message can promise a renaming for,
and a switch or a renaming past its last write to the row has no promise left there. One
lemma covers each way a switch or a renaming moves (on, to its end, back to a timer, out of a
catch block, into the death of the process), and one step per action cites them.

`SwitchNetworkProofs` proves of a machine's switches, for any requests, networks,
controllers and failures (`SwitchAssumption`: `None` is none of them): type correctness,
`DaemonComesBack`, `OutcomeIsRecorded` and that the record implements MachineSwitch. With
the premise `"late" \notin Faults` it proves `SuccessIsReal`, `SuccessDescribesHost`,
`StatusIsReal` and `RollbackUndoesReplacement`: a command that was given up on may still
change the host when another request has the lock, and what the code saw before that is
then no longer so. `OutcomeIsRecorded` needs no such premise; its own exceptions are those of
section 3. SwitchSafety checks them under the same premise; crashes, which it
leaves out, are covered by the proofs. `Inv` has six parts, all of which TLC has confirmed
on the constants of SwitchSafety and SwitchLive:

* `Typed`: the types, and what a request's own variables say about each other (`Fits`): its
  kind fits its place, a switch has a target, it catches only in the catch block.
* `QueueOK`: of two requests that hold or await the lock one is ahead of the other, and
  nobody is ahead of one that holds it. So there is one inside at most (`OneInside`); this
  rests on FifoLock alone.
* `RecordOK`: at each place of a switch what the row and its own log say. Only the switch
  inside writes them, apart from the edit and the removal, which take no lock; what those
  may do has a lemma of its own.
* `HostOK`: while no command is late, what a switch may rely on of the host (`View`): its
  target is up and alone when it says so, the planet file is the one it found until the
  backup is made and the backup is it from then on, what a service action has seen is so,
  and the daemon of a rollback without failures runs. `RowDescribesHost` is part of it:
  between switches nobody touches the networks of the host.
* `LoginsOK`: the last success was obtained with the login of the host or an earlier one, and
  the row's login is the host's or a later one. So a request that reaches another machine
  finds a row whose success is of an older login.
* `FaultsOK`: what has struck was counted.

None of the properties is inductive: each needs the place of the request, the host at that
place, and that nobody else moved in between. Most steps only look or talk to the host;
`Quiet` says what they leave alone, is proved once for all of them (`QuietSteps`) and serves
the record and the refinement alike. The refinement maps `owner` to the one request that
is switching (`OwnerIs`); a quiet step is a stutter or `Abandon`, a restart is `Abandon`, and
each write to the row or the log is the action of MachineSwitch of its name.

`NetworkCreateProofs` starts with the arithmetic of Subnet, for every width of addresses.
`AllocationCorrect` says `AllocationIsCorrect` of every pool, target and set of used blocks,
the inputs of SubnetMC, which it therefore extends. Its lemmas are few: a block is as large as a power of two, larger powers are multiples of
smaller ones (`Pow2Sum`, `SizeOrder`), multiples are equal or at least that far apart
(`MultiplesApart`), so no block crosses the sign bit (`SignedBlock`, `SameSide`) and two blocks
of one size are the same or disjoint (`BlocksApart`). Powers of two are a recursive
function; induction over it, which the library's theorems do not give, takes the least
number that has no such power (`LeastNat`, from well-foundedness) and shows that there is none.

It then proves, for any creations, pool, prefixes and failures, type correctness and
`LockedSubnetsAreDisjoint`; the latter for pools that are not all of the address space. The
invariant `SubnetInv`, confirmed by TLC on the constants of Create, says that of two
creations that hold or await the lock one is ahead of the other (`QueueOK`, so one is inside);
that a creation from its allocation on has a block to give out (`RoomFound`), which types need;
and, while nothing was given up on and the prefix stays (`Locked`), that all blocks have one
prefix, that a creation has, or has still to look at, the route of every other network
(`Collected`: nobody else adds one while it is inside, removals only take away), and that the
routes are apart. `SubnetKept` is one lemma for all steps that write no route;
`WrittenApart` the one for the step that does, by AllocatedShape and BlocksApart.

The proof of `PooledIsPrivate` has no premise. The invariant `PoolInv` follows the requests that were given up on: one that
may still create a network has found none and is alone, and one that may still write a
pool finds a private network or none; a creation about to write the pool of a network
that exists has made it private.

`PlanetLinkProofs` proves, for any requests, number of tries and failures, type
correctness, `LinkHasFile`, and that PlanetLink implements DownloadLink. The
invariant adds that a deleted controller has nothing left (`RemovedIsBare`), that a
token in use was tried before (`SpentWasTried`), so that a new one is new to the abstract
specification as well, and what a request has done where (`Phases`). The lemmas follow
the two ways a request moves without touching the row (`GoKeepsInv`, `EndKeepsInv`)
and the two that touch it (`TryKeepsInv`, `UpdateKeepsInv`); the refinement has one
lemma per abstract action's source.

`WebSessionProofs` proves of Accounts, for any users, passwords, networks, requests and
failures (`AccountsAssumption`): the types, and `TokenProvesPassword`. The property is not inductive:
a login signs a token for the row it read before scrypt. The invariant follows the stamps:
a row's stamp is never later than the clock, a row that was read and a token that was
signed with the stamp the row still has agree with the row in password and role, and an
accepted token in an answer is one that was issued. Every write takes a stamp of its own,
so whatever is read or signed before it is never accepted afterwards.

It then proves that WebSession is a client of Accounts (`WebIsAClient`: every step
of the tab is a step of ASpec or leaves the server alone), and so inherits
`TokenProvesPassword` (`WebTokens`); and the types, `LoadIsPending` and `ShownWasFiltered`. The
last needs to know what each answer under way may do to session and store: a load that the
view waits for is of the user who is logged in, or the page has left the view; the
invariant `BInv` has one part each for the answers, the session, the awaited requests, the
page, the pending load and the view, and there is one lemma per handler.

`ZtncuiSessionProofs` proves the types, `SessionIsCurrent`, `ConfirmedSticks` and
`AnsweredWasDone`, for any calls, plans, servers, retries and failures. For the session the
invariant says that a call that is under way with another version
of the row than the current one has met an edit, or that an edit is about to clear: both
what a call holds and what it stores in the Map then have an excuse. For the names `NInv`
says that of a renaming without a rival every late request asks, before the detour, for the
name itself, so that a verification that has once read it stays right; and that without
failures nothing is late. For the answers `DInv` says that a second request carries a cookie
of its own login, so that only a server that has forgotten it since can ask for another.
One lemma (`ApartKeeps`, `ApartCarries`) says what the others may do to a call.

`ViewsProofs` proves of the pages, for any rows, controllers, networks, names, handlers and
failures (`FaultsAssumption`, `HandlersAssumption`: the bounds are numbers): the types,
`TableShowsOwnWrites`, `ActsOnItsTarget` and `SuccessWasApplied`. The invariant `VInv` has one part for
what all pages share and one per topic of a page, and TLC has confirmed each on the
constants of Views:

* `PageInv`: a load notes a write that was made and shows nothing older; and while no two
  calls for the table have crossed there is one at most, and what it was answered is not
  older than what is known to be saved (`TableInv`). A poll of the members' page is such a call.
* `UsersInv` and `LogsInv`: if nobody else's keys or logs were under way when the modal was
  opened, all that are under way are of the row in its title; and so are the rows of the log
  modal once they are no longer masked, if none of these calls failed over others.
* `FilesInv`: the picker and the row that is noted agree if both are there, so an upload that
  ends and forgets the row costs the new picker its file but sends it nowhere else.
* `LinksInv`: while nothing has crossed the call for a link there is one at most; its answer, and
  without one the link in the modal, is the link of the server. A link that is made has a higher
  number than every one before.
* `SwitchInv`: while no two lists crossed, the list under way, the list that is shown and the
  selected network are of the selected controller.
* `NamesInv` and `RenamesInv`: a poll reads names that members have had, of a row of the page.

What a step does to the table is one lemma per operator of Page (`FaultPage` to `CloseKeeps`);
`Kept` says what it leaves of the other topics' calls and modals, with one frame lemma per topic
and a lemma `Plain...` for the steps that are about none of them.

Only model-checked: liveness, which is out of the prover's reach.

## 5. Not modelled

Creation of machines, `testSsh`, the online status and timestamps of a row; creation,
export and import of controllers (import is validation and then one database
transaction); creation, renaming and deletion on the list of networks, filters, sorting and
forms of the pages; several tabs, which share the local storage but no
event; HTML parsing, cryptography, logging and deployment.

## 6. Plan

1. Done: locks, switch, rename, subnets, creation, planet links; the ztncui session; users
   and their sessions; the tab and the pages. Proofs of the lock, of the rename's safety, of
   "private before pooled", of the planet links, of the ztncui session, of accounts, of
   the tab, of the switch, of the allocation, of disjoint subnets and of the pages.
2. Controllers: creation and import beside PlanetLink, with the unique name.
3. `ZtncuiSession` composed with MemberRename's `Rename`, which has its outcome only.
4. Hidden networks against switches: Accounts and SwitchNetwork in one module.
5. Machine creation and `testSsh` into SwitchNetwork.
6. Proofs of what these add.
