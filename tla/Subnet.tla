------------------------------- MODULE Subnet -------------------------------
(***************************************************************************)
(* SubnetService: IPv4 arithmetic on JavaScript numbers and the allocation *)
(* of the next block of a pool, for addresses of W bits (32 in the code).  *)
(***************************************************************************)
EXTENDS Integers, FiniteSetsExt

CONSTANT W      \* the width of an address

ASSUME WidthAssumption == W \in Nat /\ W >= 3

\* 2 ** n.
Pow2[n \in Nat] == IF n = 0 THEN 1 ELSE 2 * Pow2[n - 1]

Addresses == 0 .. Pow2[W] - 1
Cidrs == [ip : Addresses, prefix : 0..W]

\* x & mask is a signed W-bit number, x >>> 0 an unsigned one.
ToSigned(n) == IF n >= Pow2[W - 1] THEN n - Pow2[W] ELSE n
ToUnsigned(n) == n % Pow2[W]

\* parseCidr.  `ip & mask' is signed; the mask of prefix 0 is 0.
Size(prefix) == Pow2[W - prefix]
Start(cidr) ==
    IF cidr.prefix = 0 THEN 0
    ELSE ToSigned(cidr.ip - (cidr.ip % Size(cidr.prefix)))

\* The starts of the used blocks that have the target prefix.
UsedStarts(target, used) == {Start(c) : c \in {d \in used : d.prefix = target}}

\* Mutant of FreeStarts: the whole pool is taken to be free.
FreeStartsUnused(pool, target, used) ==
    {Start(pool) + i * Size(target) : i \in 0 .. Size(pool.prefix) \div Size(target) - 1}

\* Mutant of FreeStarts: the first block of the pool is skipped.
FreeStartsSkip(pool, target, used) ==
    {s \in {Start(pool) + i * Size(target) : i \in 1 .. Size(pool.prefix) \div Size(target) - 1} :
        s \notin UsedStarts(target, used)}

\* The blocks the loop of allocateNext may return: those that fit in the pool,
\* from its start on, and do not begin where a used one does.
FreeStarts(pool, target, used) ==
    {s \in {Start(pool) + i * Size(target) : i \in 0 .. Size(pool.prefix) \div Size(target) - 1} :
        s \notin UsedStarts(target, used)}

CanAllocate(pool, target, used) == FreeStarts(pool, target, used) # {}

\* Mutant of HostRange: the range ends at the last address of the block.
HostRangeWide(start, target) ==
    [poolStart |-> ToUnsigned(start + 1), poolEnd |-> ToUnsigned(start + Size(target) - 1)]

\* The range of addresses ZeroTier may assign: neither the network address nor
\* the broadcast address.
HostRange(start, target) ==
    [poolStart |-> ToUnsigned(start + 1), poolEnd |-> ToUnsigned(start + Size(target) - 2)]

\* allocateNext, where a block is free; otherwise it throws.
AllocatedCidr(pool, target, used) ==
    [ip |-> ToUnsigned(Min(FreeStarts(pool, target, used))), prefix |-> target]
AllocatedRange(pool, target, used) ==
    HostRange(Min(FreeStarts(pool, target, used)), target)
-----------------------------------------------------------------------------
(* What the words mean, on addresses rather than on JavaScript numbers. *)

Block(cidr) ==
    LET first == cidr.ip - (cidr.ip % Size(cidr.prefix))
    IN  first .. first + Size(cidr.prefix) - 1

Overlap(c, d) == Block(c) \cap Block(d) # {}

\* The blocks of a prefix in a pool, and those no used block of that prefix
\* occupies.
BlocksIn(pool, target) ==
    {c \in [ip : Block(pool), prefix : {target}] :
        c.ip % Size(target) = 0 /\ Block(c) \subseteq Block(pool)}
Free(pool, target, used) ==
    {c \in BlocksIn(pool, target) :
        \A d \in used : d.prefix = target => ~ Overlap(c, d)}
=============================================================================
