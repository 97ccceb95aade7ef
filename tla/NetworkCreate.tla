--------------------------- MODULE NetworkCreate ----------------------------
(***************************************************************************)
(* NetworksService on one controller: the creation of a network, step by   *)
(* step against the ztncui server under the controller's lock, next to     *)
(* removals and to edits of the controller's subnet settings, which take   *)
(* no lock.  A request to ztncui may be refused, and one that is aborted   *)
(* after its timeout may still be carried out later.                       *)
(***************************************************************************)
EXTENDS Subnet

CONSTANTS
    Creates,        \* the creations of a behaviour, each also naming its network
    Pool,           \* the controller's subnetPoolCidr
    Prefixes,       \* the values its subnetPrefix takes
    None,
    Faults,         \* the kinds of failure, of {"refused", "late", "crash"}
    MaxFaults,
    MaxEdits        \* how often the subnet prefix is edited

ASSUME CreateAssumption ==
    /\ Pool \in Cidrs /\ Prefixes \subseteq 1 .. W - 2 /\ Prefixes # {}
    /\ Faults \subseteq {"refused", "late", "crash"}
    /\ MaxFaults \in Nat /\ MaxEdits \in Nat

VARIABLES
    pc,         \* where each creation is
    prefix,     \* the controller's subnetPrefix
    config,     \* the prefix a creation has read
    todo,       \* the listed networks a creation has still to look at
    found,      \* the routes it has collected
    nets,       \* ztncui: the networks that exist, with their route (None at
                \* first) and whether they are private
    late,       \* requests that were aborted and may still be carried out
    ahead,      \* the queue of the controller's lock
    faults,     \* how many failures have happened, and of which kinds
    edits       \* edits of the prefix so far

vars == <<pc, prefix, config, todo, found, nets, late, ahead, faults, edits>>
locals == <<config, todo, found>>

At(o, l) == pc[o] = l
Go(o, l) == pc' = [pc EXCEPT ![o] = l]

Lock == INSTANCE FifoLock WITH
    Requests <- Creates, Keys <- {"controller"},
    phase <- [o \in Creates |-> CASE At(o, "queued") -> "queued"
                                  [] pc[o] \in {"idle", "created", "failed"} -> "outside"
                                  [] OTHER -> "inside"],
    keyOf <- [o \in Creates |-> "controller"]

Absent == [there |-> FALSE, route |-> None, private |-> FALSE]

Init ==
    /\ pc = [o \in Creates |-> "idle"]
    /\ prefix \in Prefixes
    /\ config = [o \in Creates |-> None]
    /\ todo = [o \in Creates |-> {}]
    /\ found = [o \in Creates |-> {}]
    /\ nets = [n \in Creates |-> Absent]
    /\ late = {}
    /\ ahead = [o \in Creates |-> {}]
    /\ faults = [count |-> 0, kinds |-> {}]
    /\ edits = 0

Fault(f) ==
    /\ f \in Faults /\ faults.count < MaxFaults
    /\ faults' = [count |-> faults.count + 1, kinds |-> faults.kinds \cup {f}]
NoFault == UNCHANGED faults
-----------------------------------------------------------------------------
(* ztncui. *)

There == {n \in Creates : nets[n].there}
Request(do, net, route) == [do |-> do, net |-> net, route |-> route]

\* What a request does to the networks; one about a network that is gone does
\* nothing.
Effect(q) ==
    CASE q.do = "create" -> [nets EXCEPT ![q.net] = [Absent EXCEPT !.there = TRUE]]
      [] q.do = "private" /\ nets[q.net].there -> [nets EXCEPT ![q.net].private = TRUE]
      [] q.do = "easy" /\ nets[q.net].there -> [nets EXCEPT ![q.net].route = q.route]
      [] q.do = "delete" -> [nets EXCEPT ![q.net] = Absent]
      [] OTHER -> nets

\* A request is answered, or it is refused or aborted and the creation fails.
Post(o, q, next) ==
    /\ \/ nets' = Effect(q) /\ Go(o, next) /\ UNCHANGED late /\ NoFault
       \/ Fault("refused") /\ Go(o, "failing") /\ UNCHANGED <<nets, late>>
       \/ Fault("late") /\ late' = late \cup {q} /\ Go(o, "failing") /\ UNCHANGED nets
    /\ UNCHANGED <<prefix, ahead, edits>>

LateRequest ==
    /\ \E q \in late : nets' = Effect(q) /\ late' = late \ {q}
    /\ UNCHANGED <<pc, prefix, locals, ahead, faults, edits>>
-----------------------------------------------------------------------------
(* create. *)

Call(o) ==
    /\ At(o, "idle")
    /\ Go(o, "queued")
    /\ Lock!Ask(o, "controller")
    /\ UNCHANGED <<prefix, locals, nets, late, faults, edits>>

\* The lock is free, and the controller's settings are read, which may fail.
Enter(o) ==
    /\ At(o, "queued")
    /\ \/ Go(o, "create") /\ config' = [config EXCEPT ![o] = prefix] /\ NoFault
       \/ Fault("refused") /\ Go(o, "failing") /\ UNCHANGED config
    /\ Lock!Admit(o)
    /\ UNCHANGED <<prefix, todo, found, nets, late, ahead, edits>>

CreateNetwork(o) ==
    /\ At(o, "create")
    /\ Post(o, Request("create", o, None), "list")
    /\ UNCHANGED locals

\* Mutant of ListNetworks: the networks seen when the service last looked.
ListNothing(o) ==
    /\ At(o, "list")
    /\ Go(o, "inspect")
    /\ UNCHANGED <<prefix, locals, nets, late, ahead, faults, edits>>

ListNetworks(o) ==
    /\ At(o, "list")
    /\ \/ todo' = [todo EXCEPT ![o] = There \ {o}] /\ Go(o, "inspect") /\ NoFault
       \/ Fault("refused") /\ Go(o, "failing") /\ UNCHANGED todo
    /\ UNCHANGED <<prefix, config, found, nets, late, ahead, edits>>

\* Mutant of Inspect: a network without a route counts as one with the route None.
InspectRaw(o) ==
    /\ At(o, "inspect")
    /\ \E n \in todo[o] :
        \/ /\ nets[n].there /\ NoFault
           /\ todo' = [todo EXCEPT ![o] = @ \ {n}]
           /\ found' = [found EXCEPT ![o] = @ \cup {nets[n].route}]
           /\ UNCHANGED pc
        \/ /\ (~ nets[n].there /\ NoFault) \/ Fault("refused")
           /\ Go(o, "failing")
           /\ UNCHANGED <<todo, found>>
    /\ UNCHANGED <<prefix, config, nets, late, ahead, edits>>

\* The details of one network after the other; one that is gone by now is an
\* error.
Inspect(o) ==
    /\ At(o, "inspect")
    /\ \E n \in todo[o] :
        \/ /\ nets[n].there /\ NoFault
           /\ todo' = [todo EXCEPT ![o] = @ \ {n}]
           /\ found' = [found EXCEPT ![o] = @ \cup ({nets[n].route} \ {None})]
           /\ UNCHANGED pc
        \/ /\ (~ nets[n].there /\ NoFault) \/ Fault("refused")
           /\ Go(o, "failing")
           /\ UNCHANGED <<todo, found>>
    /\ UNCHANGED <<prefix, config, nets, late, ahead, edits>>

\* allocateNext throws when the pool is used up.
Allocate(o) ==
    /\ At(o, "inspect") /\ todo[o] = {}
    /\ Go(o, IF CanAllocate(Pool, config[o], found[o]) THEN "private" ELSE "failing")
    /\ UNCHANGED <<prefix, locals, nets, late, ahead, faults, edits>>

\* Mutant of SetPrivate: its failure does not stop the creation.
SetPrivateOrNot(o) ==
    /\ At(o, "private")
    /\ \/ nets' = Effect(Request("private", o, None)) /\ NoFault
       \/ Fault("refused") /\ UNCHANGED nets
    /\ Go(o, "easy")
    /\ UNCHANGED <<prefix, locals, late, ahead, edits>>

SetPrivate(o) ==
    /\ At(o, "private")
    /\ Post(o, Request("private", o, None), "easy")
    /\ UNCHANGED locals

EasySetup(o) ==
    /\ At(o, "easy")
    /\ Post(o, Request("easy", o, AllocatedCidr(Pool, config[o], found[o])), "returning")
    /\ UNCHANGED locals

\* Mutant of Finish: an error leaves the lock locked.
FinishOnSuccess(o) ==
    /\ \/ At(o, "returning") /\ Go(o, "created") /\ Lock!Leave(o)
       \/ At(o, "failing") /\ Go(o, "failed") /\ UNCHANGED ahead
    /\ config' = [config EXCEPT ![o] = None]
    /\ todo' = [todo EXCEPT ![o] = {}]
    /\ found' = [found EXCEPT ![o] = {}]
    /\ UNCHANGED <<prefix, nets, late, faults, edits>>

\* The result is returned, or the error thrown, and the lock released.
Finish(o) ==
    /\ \/ At(o, "returning") /\ Go(o, "created")
       \/ At(o, "failing") /\ Go(o, "failed")
    /\ config' = [config EXCEPT ![o] = None]
    /\ todo' = [todo EXCEPT ![o] = {}]
    /\ found' = [found EXCEPT ![o] = {}]
    /\ Lock!Leave(o)
    /\ UNCHANGED <<prefix, nets, late, faults, edits>>
-----------------------------------------------------------------------------
\* remove: one request, without the lock.
RemoveNetwork(n) ==
    /\ n \in There
    /\ \/ nets' = Effect(Request("delete", n, None)) /\ UNCHANGED late /\ NoFault
       \/ Fault("late") /\ late' = late \cup {Request("delete", n, None)} /\ UNCHANGED nets
    /\ UNCHANGED <<pc, prefix, locals, ahead, edits>>

\* The controller's subnet prefix is edited (ControllersService.update).
EditPrefix ==
    /\ edits < MaxEdits /\ edits' = edits + 1
    /\ prefix' \in Prefixes \ {prefix}
    /\ UNCHANGED <<pc, locals, nets, late, ahead, faults>>

\* The process dies and is restarted.
Crash ==
    /\ Fault("crash")
    /\ pc' = [o \in Creates |-> IF pc[o] \in {"idle", "created"} THEN pc[o] ELSE "failed"]
    /\ config' = [o \in Creates |-> None]
    /\ todo' = [o \in Creates |-> {}]
    /\ found' = [o \in Creates |-> {}]
    /\ Lock!Forget
    /\ UNCHANGED <<prefix, nets, late, edits>>

Step(o) ==
    \/ Enter(o) \/ CreateNetwork(o) \/ ListNetworks(o) \/ Inspect(o) \/ Allocate(o)
    \/ SetPrivate(o) \/ EasySetup(o) \/ Finish(o)

Next ==
    \/ \E o \in Creates : Call(o) \/ Step(o) \/ RemoveNetwork(o)
    \/ LateRequest \/ EditPrefix \/ Crash

Spec == Init /\ [][Next]_vars

\* Every request is answered or aborted after its timeout.
FairSpec == Spec /\ \A o \in Creates : WF_vars(Step(o))
-----------------------------------------------------------------------------
Nets == [there : BOOLEAN, route : Cidrs \cup {None}, private : BOOLEAN]
Posted ==
    [do : {"create", "private", "easy", "delete"}, net : Creates, route : Cidrs \cup {None}]

TypeOK ==
    /\ pc \in [Creates -> {"idle", "queued", "create", "list", "inspect", "private",
                           "easy", "returning", "failing", "created", "failed"}]
    /\ prefix \in Prefixes
    /\ config \in [Creates -> Prefixes \cup {None}]
    /\ todo \in [Creates -> SUBSET Creates]
    /\ found \in [Creates -> SUBSET Cidrs]
    /\ nets \in [Creates -> Nets]
    /\ late \subseteq Posted
    /\ ahead \in [Creates -> SUBSET Creates]
    /\ faults \in [count : 0..MaxFaults, kinds : SUBSET Faults]
    /\ edits \in 0..MaxEdits

\* No two networks of the controller have the same subnet, nor overlapping
\* ones: what the serial lock is for, and what the code does not give when a request it
\* gave up on is carried out late (section 3 of the README) ...
NoDuplicateSubnets ==
    \A n, m \in There :
        n # m /\ nets[n].route # None /\ nets[m].route # None =>
            ~ Overlap(nets[n].route, nets[m].route)

\* ... and what it ensures while no request was given up on that may still be
\* carried out, and the prefix was not edited: the subnets of other prefixes are
\* not looked at.
LockedSubnetsAreDisjoint ==
    edits = 0 /\ "late" \notin faults.kinds => NoDuplicateSubnets

\* A network with an address pool admits nobody unasked: it was made private
\* before its pool was written.
PooledIsPrivate == \A n \in There : nets[n].route # None => nets[n].private

\* Every creation that was asked for ends, whatever fails on the way.
EveryCreateEnds == \A o \in Creates : At(o, "queued") ~> pc[o] \in {"created", "failed"}
=============================================================================
