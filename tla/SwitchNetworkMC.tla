-------------------------- MODULE SwitchNetworkMC ---------------------------
\* Two networks, each on a controller of its own.
EXTENDS SwitchNetwork, TLC

CONSTANTS op1, op2, op3, n1, n2, c1, c2, stock

MCControllerOf == n1 :> c1 @@ n2 :> c2
MCSymmetry == Permutations(Ops)
=============================================================================
