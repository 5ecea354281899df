--------------------------- MODULE MCSimpleRenewal ---------------------------
(* Instances of SimpleRenewal: two processes on hosts of their own that    *)
(* renew the same two certificates into one store.                         *)
EXTENDS SimpleRenewal

CONSTANTS p1, p2, d1, d2, a1, a2

TwoProcesses == {p1, p2}
TwoAddrs == {a1, a2}
OwnAddr == [p \in TwoProcesses |-> IF p = p1 THEN a1 ELSE a2]
TwoSets == <<d1, d2>>
=============================================================================
