----------------------------- MODULE MCIssuance -----------------------------
(* Instances of Issuance.                                                  *)
EXTENDS Issuance

CONSTANTS r1, r2, home

(* r1 orders a certificate for one domain and r2 for two.  Their solvers   *)
(* listen at one address, or create records under one name.                *)
TwoRuns == {r1, r2}
TwoAuthzs == [r \in TwoRuns |-> IF r = r2 THEN 2 ELSE 1]
TwoAddr == [r \in TwoRuns |-> home]

Home == {home}
=============================================================================
