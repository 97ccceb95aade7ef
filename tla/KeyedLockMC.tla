---------------------------- MODULE KeyedLockMC -----------------------------
\* Four calls over two machine ids, enough for a queue of three behind a
\* holder and for one key's queue to form while the other's drains.
EXTENDS KeyedLock

CONSTANTS a, b, c, d, m, n
=============================================================================
