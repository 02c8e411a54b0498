------------------------------ MODULE MCAccess ------------------------------
EXTENDS Access, TLC

CONSTANTS s1, s2, r1, r2, boot, ci, env, t1, t2

\* A lifetime that is refused, one that means for ever and an ordinary one.
Counts == {-1, 0, 1}

\* The servers are alike.
AnyServer == Permutations(Server)
=============================================================================
