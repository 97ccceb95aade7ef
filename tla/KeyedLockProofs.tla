--------------------------- MODULE KeyedLockProofs --------------------------
(***************************************************************************)
(* For any number of calls and keys: the keyed promise lock is mutually    *)
(* exclusive, first come first served and keeps exactly the Map entries it *)
(* needs; it implements FifoLock.                                          *)
(***************************************************************************)
EXTENDS KeyedLock, TLAPS

\* Every variable of the lock keeps its type: calls are idle, waiting, running
\* or released, and the Map and the awaited promises name calls.
THEOREM TypeCorrect == Spec => []TypeOK
<1>1. Init => TypeOK
  BY DEF Init, TypeOK
<1>2. TypeOK /\ [Next]_vars => TypeOK'
  <2> SUFFICES ASSUME TypeOK, [Next]_vars PROVE TypeOK'
    OBVIOUS
  <2> USE DEF TypeOK
  <2>1. ASSUME NEW r \in Requests, NEW k \in Keys, Call(r, k) PROVE TypeOK'
    BY <2>1 DEF Call, Callers
  <2>2. ASSUME NEW r \in Requests, Enter(r) PROVE TypeOK'
    BY <2>2 DEF Enter
  <2>3. ASSUME NEW r \in Requests, Finish(r) PROVE TypeOK'
    BY <2>3 DEF Finish
  <2>4. ASSUME NEW r \in Requests, Settle(r) PROVE TypeOK'
    BY <2>4 DEF Settle
  <2>5. CASE Restart
    BY <2>5 DEF Restart
  <2>6. CASE UNCHANGED vars
    BY <2>6 DEF vars
  <2>7. QED
    BY <2>1, <2>2, <2>3, <2>4, <2>5, <2>6 DEF Next
<1>3. QED
  BY <1>1, <1>2, PTL DEF Spec

\* The initial state satisfies the inductive invariant: nobody calls yet.
LEMMA InitInv == Init => Inv
  BY NoneAssumption DEF Init, Inv, TypeOK, MutualExclusion, InOrder,
                        MapHoldsLastCaller, ChainOK, Live, Callers

\* A call queues up behind everyone present, so it preserves the invariant:
\* the promise it found in the Map is that of the last caller, whose
\* predecessors are all the others.
LEMMA CallInv ==
  ASSUME NEW r \in Requests, NEW k \in Keys, Inv, Call(r, k)
  PROVE  Inv'
<1> USE NoneAssumption DEF Inv, TypeOK
<1>1. TypeOK'
  BY DEF Call, Callers
<1>2. /\ pc' = [pc EXCEPT ![r] = "waiting"]
      /\ ~ Live(r) /\ Live(r)'
      /\ \A s \in Requests \ {r} : /\ Live(s)' <=> Live(s)
                                   /\ key'[s] = key[s]
                                   /\ earlier'[s] = earlier[s]
                                   /\ previous'[s] = previous[s]
                                   /\ pc'[s] = pc[s]
      /\ key'[r] = k /\ previous'[r] = tail[k] /\ earlier'[r] = Callers(k)
      /\ r \notin Callers(k)
  BY DEF Call, Live, Callers
<1>3. \A j \in Keys : Callers(j)' = IF j = k THEN Callers(k) \cup {r} ELSE Callers(j)
  BY <1>1, <1>2 DEF Callers
<1>4. \A s \in Requests : r \notin earlier[s]
  BY <1>2 DEF ChainOK, Callers
<1>5. MutualExclusion' /\ InOrder'
  BY <1>1, <1>2 DEF MutualExclusion, InOrder
<1>6. MapHoldsLastCaller'
  BY <1>1, <1>2, <1>3, <1>4 DEF MapHoldsLastCaller, Call, Callers
<1>7. ChainOK'
  <2>1. ASSUME NEW s \in Requests PROVE
          /\ ~ Live(s)' => earlier'[s] = {}
          /\ earlier'[s] \subseteq Callers(key[s])' \ {s}
          /\ pc'[s] = "running" => previous'[s] = None
    <3>1. CASE s = r
      BY <3>1, <1>1, <1>2, <1>3
    <3>2. CASE s # r
      BY <3>2, <1>1, <1>2, <1>3 DEF ChainOK
    <3>3. QED
      BY <3>1, <3>2
  <2>2. ASSUME NEW s \in Requests, Live(s)' PROVE
          IF previous'[s] # None /\ Live(previous[s])'
            THEN /\ key'[previous'[s]] = key'[s]
                 /\ earlier'[s] = earlier'[previous'[s]] \cup {previous'[s]}
            ELSE earlier'[s] = {}
    <3>1. CASE s = r
      BY <3>1, <2>2, <1>1, <1>2, <1>3 DEF MapHoldsLastCaller, Callers
    <3>2. CASE s # r
      <4>1. Live(s) /\ previous'[s] = previous[s] /\ key'[s] = key[s]
            /\ earlier'[s] = earlier[s]
        BY <3>2, <2>2, <1>2
      <4>2. IF previous[s] # None /\ Live(previous[s])
              THEN /\ key[previous[s]] = key[s]
                   /\ earlier[s] = earlier[previous[s]] \cup {previous[s]}
              ELSE earlier[s] = {}
        BY <4>1 DEF ChainOK
      <4>3. previous[s] # None => previous[s] \in Requests \ {r}
        BY DEF ChainOK, Call
      <4>4. previous[s] # None =>
              /\ Live(previous[s])' <=> Live(previous[s])
              /\ key'[previous[s]] = key[previous[s]]
              /\ earlier'[previous[s]] = earlier[previous[s]]
        BY <1>2, <4>1, <4>3 DEF Live
      <4>5. QED
        BY <4>1, <4>2, <4>4
    <3>3. QED
      BY <3>1, <3>2
  <2>3. \A s \in Requests : previous'[s] # None => pc'[previous'[s]] # "idle"
    BY <1>1, <1>2 DEF ChainOK, MapHoldsLastCaller, Callers, Live
  <2>4. \A s, t \in Requests : Live(s)' /\ Live(t)' /\ key'[s] = key'[t] /\ s # t =>
            s \in earlier'[t] \/ t \in earlier'[s]
    BY <1>1, <1>2 DEF ChainOK, Callers
  <2>5. QED
    BY <2>1, <2>2, <2>3, <2>4 DEF ChainOK
<1>8. QED
  BY <1>1, <1>5, <1>6, <1>7

\* A call enters only when nobody is ahead of it, hence alone.
LEMMA EnterInv ==
  ASSUME NEW r \in Requests, Inv, Enter(r)
  PROVE  Inv'
<1> USE NoneAssumption DEF Inv, TypeOK
<1>1. TypeOK'
  BY DEF Enter
<1>2. /\ pc' = [pc EXCEPT ![r] = "running"]
      /\ key' = key /\ tail' = tail /\ previous' = previous /\ earlier' = earlier
      /\ previous[r] = None
      /\ \A s \in Requests : Live(s)' <=> Live(s)
  BY DEF Enter, Live
<1>3. \A k \in Keys : Callers(k)' = Callers(k)
  BY <1>2 DEF Callers
<1>4. earlier[r] = {}
  BY <1>2 DEF ChainOK, Enter, Live
<1>5. MutualExclusion'
  BY <1>1, <1>2, <1>4 DEF MutualExclusion, InOrder, ChainOK, Live, Enter
<1>6. InOrder' /\ MapHoldsLastCaller'
  BY <1>1, <1>2, <1>3, <1>4 DEF InOrder, MapHoldsLastCaller
<1>7. ChainOK'
  <2>1. ASSUME NEW s \in Requests PROVE
          /\ ~ Live(s)' => earlier'[s] = {}
          /\ earlier'[s] \subseteq Callers(key[s])' \ {s}
          /\ pc'[s] = "running" => previous'[s] = None
          /\ previous'[s] # None => pc'[previous'[s]] # "idle"
    BY <1>1, <1>2, <1>3 DEF ChainOK
  <2>2. ASSUME NEW s \in Requests, Live(s)' PROVE
          IF previous'[s] # None /\ Live(previous[s])'
            THEN /\ key'[previous'[s]] = key'[s]
                 /\ earlier'[s] = earlier'[previous'[s]] \cup {previous'[s]}
            ELSE earlier'[s] = {}
    <3>1. previous[s] # None => (Live(previous[s])' <=> Live(previous[s]))
      BY <1>2 DEF Live
    <3>2. QED
      BY <2>2, <3>1, <1>2 DEF ChainOK
  <2>3. QED
    BY <2>1, <2>2, <1>2 DEF ChainOK
<1>8. QED
  BY <1>1, <1>5, <1>6, <1>7

\* A call that ends takes itself off everyone's list and, when it is the last
\* one, its entry off the Map: the next in line is then first.
LEMMA FinishInv ==
  ASSUME NEW r \in Requests, Inv, Finish(r)
  PROVE  Inv'
<1> USE NoneAssumption DEF Inv, TypeOK
<1>1. TypeOK'
  BY DEF Finish
<1>2. /\ pc' = [pc EXCEPT ![r] = "released"]
      /\ key' = key /\ previous' = previous
      /\ earlier' = [s \in Requests |-> earlier[s] \ {r}]
      /\ Live(r) /\ ~ Live(r)' /\ pc[r] = "running" /\ earlier[r] = {}
      /\ \A s \in Requests \ {r} : /\ Live(s)' <=> Live(s)
                                   /\ pc'[s] = pc[s]
  BY DEF Finish, Live, InOrder
<1>3. \A k \in Keys : Callers(k)' = Callers(k) \ {r}
  BY <1>1, <1>2 DEF Callers
<1>4. MutualExclusion' /\ InOrder'
  BY <1>1, <1>2 DEF MutualExclusion, InOrder
<1>5. ASSUME NEW k \in Keys
      PROVE  /\ tail'[k] = None <=> Callers(k)' = {}
             /\ tail'[k] # None => Callers(k)' = earlier'[tail'[k]] \cup {tail'[k]}
  <2>1. /\ tail[k] = None <=> Callers(k) = {}
        /\ tail[k] # None => Callers(k) = earlier[tail[k]] \cup {tail[k]}
    BY DEF MapHoldsLastCaller
  <2>2. r \in Callers(k) <=> k = key[r]
    BY <1>2 DEF Callers
  <2>3. CASE tail[k] = r
    <3>1. k = key[r] /\ Callers(k) = {r}
      BY <2>1, <2>2, <2>3, <1>2
    <3>2. tail'[k] = None /\ Callers(k)' = {}
      BY <3>1, <2>3, <1>3 DEF Finish
    <3>3. QED
      BY <3>2
  <2>4. CASE tail[k] # r
    <3>1. tail'[k] = tail[k]
      BY <2>4 DEF Finish
    <3>2. tail[k] # None => tail[k] \in Requests /\ tail[k] \in Callers(k)
      BY <2>1
    <3>3. QED
      BY <3>1, <3>2, <2>1, <2>4, <1>2, <1>3
  <2>5. QED
    BY <2>3, <2>4
<1>6. MapHoldsLastCaller'
  BY <1>5 DEF MapHoldsLastCaller
<1>7. ChainOK'
  <2>1. ASSUME NEW s \in Requests PROVE
          /\ ~ Live(s)' => earlier'[s] = {}
          /\ earlier'[s] \subseteq Callers(key[s])' \ {s}
          /\ pc'[s] = "running" => previous'[s] = None
          /\ previous'[s] # None => pc'[previous'[s]] # "idle"
    BY <1>1, <1>2, <1>3 DEF ChainOK
  <2>2. ASSUME NEW s \in Requests, Live(s)' PROVE
          IF previous'[s] # None /\ Live(previous[s])'
            THEN /\ key'[previous'[s]] = key'[s]
                 /\ earlier'[s] = earlier'[previous'[s]] \cup {previous'[s]}
            ELSE earlier'[s] = {}
    <3>1. /\ Live(s) /\ s # r
          /\ IF previous[s] # None /\ Live(previous[s])
               THEN /\ key[previous[s]] = key[s]
                    /\ earlier[s] = earlier[previous[s]] \cup {previous[s]}
               ELSE earlier[s] = {}
      BY <2>2, <1>2 DEF ChainOK
    <3>2. CASE previous[s] = r
      BY <3>1, <3>2, <1>2
    <3>3. CASE previous[s] # r
      BY <3>1, <3>3, <1>2
    <3>4. QED
      BY <3>2, <3>3
  <2>3. \A s, t \in Requests : Live(s)' /\ Live(t)' /\ key'[s] = key'[t] /\ s # t =>
            s \in earlier'[t] \/ t \in earlier'[s]
    BY <1>1, <1>2 DEF ChainOK
  <2>4. QED
    BY <2>1, <2>2, <2>3, <1>2 DEF ChainOK
<1>8. QED
  BY <1>1, <1>4, <1>6, <1>7

\* A released call's promise settles: whoever awaited it was first in line
\* already.
LEMMA SettleInv ==
  ASSUME NEW r \in Requests, Inv, Settle(r)
  PROVE  Inv'
<1> USE NoneAssumption DEF Inv, TypeOK
<1>1. TypeOK'
  BY DEF Settle
<1>2. /\ pc' = [pc EXCEPT ![r] = "idle"]
      /\ previous' = [s \in Requests |-> IF previous[s] = r THEN None ELSE previous[s]]
      /\ key' = key /\ tail' = tail /\ earlier' = earlier
      /\ pc[r] = "released" /\ ~ Live(r)
      /\ \A s \in Requests : Live(s)' <=> Live(s)
  BY DEF Settle, Live
<1>3. \A k \in Keys : Callers(k)' = Callers(k)
  BY <1>2 DEF Callers
<1>4. MutualExclusion' /\ InOrder' /\ MapHoldsLastCaller'
  BY <1>1, <1>2, <1>3 DEF MutualExclusion, InOrder, MapHoldsLastCaller
<1>5. ChainOK'
  <2>1. ASSUME NEW s \in Requests PROVE
          /\ ~ Live(s)' => earlier'[s] = {}
          /\ earlier'[s] \subseteq Callers(key[s])' \ {s}
          /\ pc'[s] = "running" => previous'[s] = None
          /\ previous'[s] # None => pc'[previous'[s]] # "idle"
    BY <1>1, <1>2, <1>3 DEF ChainOK
  <2>2. ASSUME NEW s \in Requests, Live(s)' PROVE
          IF previous'[s] # None /\ Live(previous[s])'
            THEN /\ key'[previous'[s]] = key'[s]
                 /\ earlier'[s] = earlier'[previous'[s]] \cup {previous'[s]}
            ELSE earlier'[s] = {}
    <3>1. IF previous[s] # None /\ Live(previous[s])
            THEN /\ key[previous[s]] = key[s]
                 /\ earlier[s] = earlier[previous[s]] \cup {previous[s]}
            ELSE earlier[s] = {}
      BY <2>2, <1>2 DEF ChainOK
    <3>2. CASE previous[s] = r
      BY <3>1, <3>2, <1>2
    <3>3. CASE previous[s] # r
      <4>1. previous'[s] = previous[s]
        BY <3>3, <1>2
      <4>2. previous[s] # None => (Live(previous[s])' <=> Live(previous[s]))
        BY <4>1, <1>2 DEF Live
      <4>3. QED
        BY <3>1, <4>1, <4>2, <1>2
    <3>4. QED
      BY <3>2, <3>3
  <2>3. QED
    BY <2>1, <2>2, <1>2 DEF ChainOK
<1>6. QED
  BY <1>1, <1>4, <1>5

\* A restart forgets every call and every Map entry.
LEMMA RestartInv == Inv /\ Restart => Inv'
  BY NoneAssumption DEF Inv, Restart, TypeOK, MutualExclusion, InOrder,
                        MapHoldsLastCaller, ChainOK, Live, Callers

\* The inductive invariant holds in every reachable state.
THEOREM Invariance == Spec => []Inv
<1>1. Inv /\ UNCHANGED vars => Inv'
  BY DEF vars, Inv, TypeOK, MutualExclusion, InOrder, MapHoldsLastCaller,
         ChainOK, Live, Callers
<1>2. Inv /\ [Next]_vars => Inv'
  BY <1>1, CallInv, EnterInv, FinishInv, SettleInv, RestartInv DEF Next
<1>3. QED
  BY InitInv, <1>2, PTL DEF Spec

\* Two tasks under one machine (controller) id never overlap.
THEOREM Exclusive == Spec => []MutualExclusion
<1>1. Inv => MutualExclusion
  BY DEF Inv
<1>2. QED
  BY <1>1, Invariance, PTL

\* A task starts only when all the calls before it on its key are over.
THEOREM FirstComeFirstServed == Spec => []InOrder
<1>1. Inv => InOrder
  BY DEF Inv
<1>2. QED
  BY <1>1, Invariance, PTL

\* The Map has an entry for a key exactly while its lock is held or awaited,
\* and it names the last caller.
THEOREM NoLeakNoLoss == Spec => []MapHoldsLastCaller
<1>1. Inv => MapHoldsLastCaller
  BY DEF Inv
<1>2. QED
  BY <1>1, Invariance, PTL

\* Every step of the promise lock is a step of FifoLock or changes nothing
\* FifoLock sees.
LEMMA StepSimulation ==
  ASSUME Inv, Inv', [Next]_vars
  PROVE  [Fifo!LockNext]_(Fifo!lockVars)
<1> USE DEF Inv, TypeOK
<1>1. \A k \in Keys : Fifo!Present(k) = Callers(k)
  BY DEF Fifo!Present, Callers, Live, PhaseOf
<1>2. ASSUME NEW r \in Requests, NEW k \in Keys, Call(r, k) PROVE Fifo!Ask(r, k)
  BY <1>1, <1>2 DEF Call, Fifo!Ask, PhaseOf
<1>3. ASSUME NEW r \in Requests, Enter(r) PROVE Fifo!Admit(r)
  <2>1. earlier[r] = {}
    BY <1>3 DEF Enter, InOrder
  <2>2. QED
    BY <1>3, <2>1 DEF Enter, Fifo!Admit, PhaseOf
<1>4. ASSUME NEW r \in Requests, Finish(r) PROVE Fifo!Leave(r)
  BY <1>4 DEF Finish, Fifo!Leave, PhaseOf
<1>5. ASSUME NEW r \in Requests, Settle(r) PROVE UNCHANGED Fifo!lockVars
  BY <1>5 DEF Settle, Fifo!lockVars, PhaseOf
<1>6. CASE Restart
  BY <1>6 DEF Restart, Fifo!Forget, Fifo!LockNext, PhaseOf
<1>7. CASE UNCHANGED vars
  BY <1>7 DEF vars, Fifo!lockVars
<1>8. QED
  BY <1>2, <1>3, <1>4, <1>5, <1>6, <1>7 DEF Next, Fifo!LockNext

\* The promise lock implements FifoLock.
THEOREM Refinement == Spec => ImplementsFifoLock
<1>1. Init => Fifo!LockInit
  BY DEF Init, Fifo!LockInit, PhaseOf
<1>2. QED
  BY <1>1, Invariance, StepSimulation, PTL DEF Spec, ImplementsFifoLock, Fifo!LockSpec
=============================================================================
