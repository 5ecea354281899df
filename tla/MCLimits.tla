------------------------------ MODULE MCLimits ------------------------------
(* Two callers of the bucket with demands of their own, and a credit that  *)
(* does not divide the capacity; four tasks on two threads that may have   *)
(* two requests.                                                           *)
EXTENDS Limits

CONSTANTS c1, c2, k1, k2, k3, k4

TwoCallers == {c1, c2}
OneAndThree == [c \in TwoCallers |-> IF c = c1 THEN 1 ELSE 3]
FourTasks == {k1, k2, k3, k4}
=============================================================================
