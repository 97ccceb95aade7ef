------------------------------ MODULE FifoLock ------------------------------
(***************************************************************************)
(* What a keyed promise lock promises (withMachineLock of the test-machine *)
(* service, withControllerLock of the network service): for every key, the *)
(* callers run one at a time, in the order in which they asked.            *)
(***************************************************************************)
EXTENDS FiniteSets

CONSTANTS
    Requests,   \* the concurrent calls of withMachineLock / withControllerLock
    Keys        \* the machine ids (controller ids) they lock

VARIABLES
    phase,      \* where each call is
    keyOf,      \* the key a queued or admitted call locks
    ahead       \* the calls on the same key that asked before and have not left

lockVars == <<phase, keyOf, ahead>>

LockTypeOK ==
    /\ phase \in [Requests -> {"outside", "queued", "inside"}]
    /\ keyOf \in [Requests -> Keys]
    /\ ahead \in [Requests -> SUBSET Requests]

LockInit ==
    /\ phase = [r \in Requests |-> "outside"]
    /\ keyOf \in [Requests -> Keys]
    /\ ahead = [r \in Requests |-> {}]

\* The calls that hold the lock of k or wait for it.
Present(k) == {r \in Requests : phase[r] # "outside" /\ keyOf[r] = k}

\* A call asks for the lock of k, behind everyone present.
Ask(r, k) ==
    /\ phase[r] = "outside"
    /\ phase' = [phase EXCEPT ![r] = "queued"]
    /\ keyOf' = [keyOf EXCEPT ![r] = k]
    /\ ahead' = [ahead EXCEPT ![r] = Present(k)]

\* Its turn comes once everyone ahead of it has left.
Admit(r) ==
    /\ phase[r] = "queued"
    /\ ahead[r] = {}
    /\ phase' = [phase EXCEPT ![r] = "inside"]
    /\ UNCHANGED <<keyOf, ahead>>

\* The task of an admitted call is over, whether it returned or threw.
Leave(r) ==
    /\ phase[r] = "inside"
    /\ phase' = [phase EXCEPT ![r] = "outside"]
    /\ ahead' = [s \in Requests |-> ahead[s] \ {r}]
    /\ UNCHANGED keyOf

\* The server process restarts: its memory, locks included, is gone.
Forget ==
    /\ phase' = [r \in Requests |-> "outside"]
    /\ ahead' = [r \in Requests |-> {}]
    /\ UNCHANGED keyOf

LockNext ==
    \/ \E r \in Requests :
        \/ \E k \in Keys : Ask(r, k)
        \/ Admit(r)
        \/ Leave(r)
    \/ Forget

LockSpec == LockInit /\ [][LockNext]_lockVars
=============================================================================
