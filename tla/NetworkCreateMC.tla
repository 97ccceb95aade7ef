-------------------------- MODULE NetworkCreateMC ---------------------------
\* A pool of 16 addresses in the upper half of the address space, where
\* JavaScript's & is negative: four blocks of prefix 3, two of prefix 2.
EXTENDS NetworkCreate, TLC

MCPool == [ip |-> 16, prefix |-> 1]
=============================================================================
