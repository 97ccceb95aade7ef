--------------------------- MODULE MemberRenameMC ---------------------------
\* Switches of one machine, or one of them (s3) of another.
EXTENDS MemberRename

CONSTANTS m1, m2, s1, s2, s3

MCOneMachine == [s \in Switches |-> m1]
MCTwoMachines == [s \in Switches |-> IF s = s3 THEN m2 ELSE m1]
=============================================================================
