------------------------------- MODULE ViewsMC -------------------------------
\* Two rows, two controllers of one network each.
EXTENDS Views, TLC

CONSTANTS k1, k2, r1, r2, c1, c2, n1, n2, x, y

MCNetsOf == c1 :> {n1} @@ c2 :> {n2}
MCHandlers == [p \in Pages |-> IF p \in {"users", "machines", "members"} THEN 3 ELSE 2]
MCSymmetry == Permutations(Slots) \cup Permutations(Items) \cup Permutations(Names)
=============================================================================
