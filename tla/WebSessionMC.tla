---------------------------- MODULE WebSessionMC ----------------------------
\* The server is started on an empty table but for one user, or on one whose
\* administrator is there.
EXTENDS WebSession, TLC

CONSTANTS o1, o2, admin, user, secret, net

SlotSymmetry == Permutations(Slots)

MCFirst ==
    {admin :> None @@ user :> [role |-> "USER", pw |-> secret, stamp |-> 0],
     admin :> [role |-> "USER", pw |-> secret, stamp |-> 0] @@ user :> None}
=============================================================================
