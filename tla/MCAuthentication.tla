-------------------------- MODULE MCAuthentication --------------------------
EXTENDS Authentication, TLC

CONSTANTS i1, i2, t1, t2

MCOwner == [t \in Token |-> IF t = t1 THEN i1 ELSE i2]
=============================================================================
