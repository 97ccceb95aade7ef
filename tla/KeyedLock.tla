----------------------------- MODULE KeyedLock ------------------------------
(***************************************************************************)
(* The keyed lock both services build out of promises.  A Map holds, per   *)
(* key, the promise of the last caller; a caller replaces it by its own    *)
(* and awaits the one it found.  Its own promise settles after the one it  *)
(* found and after its gate, which it opens when its task ends.            *)
(*                                                                         *)
(* The event loop runs one step at a time; a settled promise resumes its   *)
(* awaiter in a later step, so that other calls may come in between.       *)
(***************************************************************************)
EXTENDS FiniteSets

CONSTANTS
    Requests,   \* the calls that can be in progress at the same time
    Keys,       \* machine ids (controller ids)
    None        \* "undefined" of the Map; as `previous': Promise.resolve()

ASSUME NoneAssumption == None \notin Requests

VARIABLES
    pc,         \* what each call is doing
    key,        \* the key it was called with
    tail,       \* the Map: the call whose promise `current' is stored, or None
    previous,   \* the call whose promise it awaits, None once that has settled
    earlier     \* history: the calls on its key that came before and still
                \* hold or await the lock; no action reads it

vars == <<pc, key, tail, previous, earlier>>

Live(r) == pc[r] \in {"waiting", "running"}
Callers(k) == {r \in Requests : Live(r) /\ key[r] = k}

Init ==
    /\ pc = [r \in Requests |-> "idle"]
    /\ key \in [Requests -> Keys]
    /\ tail = [k \in Keys |-> None]
    /\ previous = [r \in Requests |-> None]
    /\ earlier = [r \in Requests |-> {}]

\* Mutant of Call: the Map gets the key instead of the promise.
CallStoresKey(r, k) ==
    /\ pc[r] = "idle"
    /\ pc' = [pc EXCEPT ![r] = "waiting"]
    /\ key' = [key EXCEPT ![r] = k]
    /\ previous' = [previous EXCEPT ![r] = tail[k]]
    /\ tail' = [tail EXCEPT ![k] = k]
    /\ earlier' = [earlier EXCEPT ![r] = Callers(k)]

\* The synchronous part of the call, up to `await previous'.
Call(r, k) ==
    /\ pc[r] = "idle"
    /\ pc' = [pc EXCEPT ![r] = "waiting"]
    /\ key' = [key EXCEPT ![r] = k]
    /\ previous' = [previous EXCEPT ![r] = tail[k]]
    /\ tail' = [tail EXCEPT ![k] = r]
    /\ earlier' = [earlier EXCEPT ![r] = Callers(k)]

\* Mutant of Enter: the task starts without awaiting the promise it found.
EnterAtOnce(r) ==
    /\ pc[r] = "waiting"
    /\ pc' = [pc EXCEPT ![r] = "running"]
    /\ UNCHANGED <<key, tail, previous, earlier>>

\* The await returns: the task starts.
Enter(r) ==
    /\ pc[r] = "waiting"
    /\ previous[r] = None
    /\ pc' = [pc EXCEPT ![r] = "running"]
    /\ UNCHANGED <<key, tail, previous, earlier>>

\* Mutant of Finish: the Map entry is dropped whoever's it is.
FinishDropsEntry(r) ==
    /\ pc[r] = "running"
    /\ pc' = [pc EXCEPT ![r] = "released"]
    /\ tail' = [tail EXCEPT ![key[r]] = None]
    /\ earlier' = [s \in Requests |-> earlier[s] \ {r}]
    /\ UNCHANGED <<key, previous>>

\* Mutant of Finish: the Map entry is never dropped.
FinishKeepsEntry(r) ==
    /\ pc[r] = "running"
    /\ pc' = [pc EXCEPT ![r] = "released"]
    /\ earlier' = [s \in Requests |-> earlier[s] \ {r}]
    /\ UNCHANGED <<key, tail, previous>>

\* The finally block, for a task that returned as for one that threw: open
\* the gate; drop the Map entry when it is still this call's.
Finish(r) ==
    /\ pc[r] = "running"
    /\ pc' = [pc EXCEPT ![r] = "released"]
    /\ tail' = IF tail[key[r]] = r THEN [tail EXCEPT ![key[r]] = None] ELSE tail
    /\ earlier' = [s \in Requests |-> earlier[s] \ {r}]
    /\ UNCHANGED <<key, previous>>

\* Mutant of Settle: the gate of a call with a successor is not opened.
SettleUnawaited(r) ==
    /\ pc[r] = "released"
    /\ \A s \in Requests : previous[s] # r
    /\ pc' = [pc EXCEPT ![r] = "idle"]
    /\ UNCHANGED <<key, tail, previous, earlier>>

\* The promise of a call that opened its gate settles: its awaiter may go on.
\* Nothing refers to the call any more.
Settle(r) ==
    /\ pc[r] = "released"
    /\ pc' = [pc EXCEPT ![r] = "idle"]
    /\ previous' = [s \in Requests |-> IF previous[s] = r THEN None ELSE previous[s]]
    /\ UNCHANGED <<key, tail, earlier>>

\* The process dies and comes back with an empty Map.
Restart ==
    /\ pc' = [r \in Requests |-> "idle"]
    /\ tail' = [k \in Keys |-> None]
    /\ previous' = [r \in Requests |-> None]
    /\ earlier' = [r \in Requests |-> {}]
    /\ UNCHANGED key

Next ==
    \/ \E r \in Requests :
        \/ \E k \in Keys : Call(r, k)
        \/ Enter(r)
        \/ Finish(r)
        \/ Settle(r)
    \/ Restart

\* The event loop runs every microtask that is ready (Enter, Settle), and
\* every task ends (Finish).
Fairness == \A r \in Requests : WF_vars(Enter(r) \/ Finish(r) \/ Settle(r))

Spec == Init /\ [][Next]_vars
FairSpec == Spec /\ Fairness
-----------------------------------------------------------------------------
TypeOK ==
    /\ pc \in [Requests -> {"idle", "waiting", "running", "released"}]
    /\ key \in [Requests -> Keys]
    /\ tail \in [Keys -> Requests \cup {None}]
    /\ previous \in [Requests -> Requests \cup {None}]
    /\ earlier \in [Requests -> SUBSET Requests]

\* Two tasks under the same machine (controller) id never overlap.
MutualExclusion ==
    \A r, s \in Requests :
        pc[r] = "running" /\ pc[s] = "running" /\ key[r] = key[s] => r = s

\* A task starts only when every call that came before it on its key is over; part of
\* the invariant the proofs use, and implied by ImplementsFifoLock.
InOrder == \A r \in Requests : pc[r] = "running" => earlier[r] = {}

\* The Map has an entry for a key exactly while somebody holds or awaits its
\* lock: the lock neither leaks entries nor drops one that is still needed.
MapHoldsLastCaller ==
    \A k \in Keys :
        /\ tail[k] = None <=> Callers(k) = {}
        /\ tail[k] # None => Callers(k) = earlier[tail[k]] \cup {tail[k]}

\* What the chain of promises means: a call awaits a call on its own key, and
\* everyone that call stands behind; and of two callers one stands behind the
\* other.  What makes the invariants inductive.
ChainOK ==
    /\ \A r \in Requests :
        /\ ~ Live(r) => earlier[r] = {}
        /\ earlier[r] \subseteq Callers(key[r]) \ {r}
        /\ pc[r] = "running" => previous[r] = None
        /\ Live(r) =>
            IF previous[r] # None /\ Live(previous[r])
              THEN /\ key[previous[r]] = key[r]
                   /\ earlier[r] = earlier[previous[r]] \cup {previous[r]}
              ELSE earlier[r] = {}
        /\ previous[r] # None => pc[previous[r]] # "idle"
    /\ \A r, s \in Requests :
        Live(r) /\ Live(s) /\ key[r] = key[s] /\ r # s =>
            r \in earlier[s] \/ s \in earlier[r]

\* The inductive invariant.
Inv == TypeOK /\ MutualExclusion /\ InOrder /\ MapHoldsLastCaller /\ ChainOK

\* A call that waits gets its turn (or the process restarts under it).
EventuallyRuns ==
    \A r \in Requests : pc[r] = "waiting" ~> pc[r] \in {"running", "idle"}

-----------------------------------------------------------------------------
\* The lock implements FifoLock: its released calls have already left.
PhaseOf(p) == CASE p = "waiting" -> "queued"
                [] p = "running" -> "inside"
                [] OTHER -> "outside"

Fifo == INSTANCE FifoLock WITH
    phase <- [r \in Requests |-> PhaseOf(pc[r])],
    keyOf <- key,
    ahead <- earlier

ImplementsFifoLock == Fifo!LockSpec
=============================================================================
