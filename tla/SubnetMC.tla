------------------------------ MODULE SubnetMC ------------------------------
\* Every pool, target prefix and set of used blocks.  The inputs are the state: a step
\* asks for another allocation.
EXTENDS Subnet

CONSTANT MaxUsed        \* how many networks of the controller have a route

VARIABLES pool, target, used

\* CreateControllerDto: the target prefix leaves at least two bits.  Pools have
\* a prefix of at least 1.
Targets == 1 .. W - 2
Pools == {c \in Cidrs : c.prefix > 0}

AllocationInit ==
    /\ pool \in Pools
    /\ target \in Targets
    /\ used = {}

\* Another network of the controller has a route, whatever its target.
AddRoute ==
    /\ Cardinality(used) < MaxUsed
    /\ \E c \in Pools : c \notin used /\ used' = used \cup {c}
    /\ UNCHANGED <<pool, target>>

AllocationSpec == AllocationInit /\ [][AddRoute]_<<pool, target, used>>

Allocated == AllocatedCidr(pool, target, used)

\* The block given out is one of the pool, begins where a block of its prefix
\* begins, and does not overlap a used block of that prefix: the signed numbers
\* the code computes with do not show.
AllocationIsFree ==
    CanAllocate(pool, target, used) => Allocated \in Free(pool, target, used)

\* "Next available": no free block below it is passed over, and the allocation
\* is refused only when no block of the prefix is free.
AllocationIsNext ==
    IF CanAllocate(pool, target, used)
      THEN \A c \in Free(pool, target, used) : Allocated.ip <= c.ip
      ELSE Free(pool, target, used) = {}

\* The assignable range lies inside the block and leaves its first and last
\* address out; it is not empty.
RangeInsideBlock ==
    CanAllocate(pool, target, used) =>
        LET r == AllocatedRange(pool, target, used)
            first == Allocated.ip
            last == Allocated.ip + Size(target) - 1
        IN  first < r.poolStart /\ r.poolStart <= r.poolEnd /\ r.poolEnd < last

\* The allocation is right in all three respects.
AllocationIsCorrect == AllocationIsFree /\ AllocationIsNext /\ RangeInsideBlock
=============================================================================
