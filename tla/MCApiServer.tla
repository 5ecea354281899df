----------------------------- MODULE MCApiServer -----------------------------
(* Instances of ApiServer: two orders with one retry each that share an    *)
(* address, or an order and a renewal.                                     *)
EXTENDS ApiServer, TLC

CONSTANTS t1, t2, n1, r1, r2, r3, r4, a80

TwoOrders == {t1, t2}
FourRuns == {r1, r2, r3, r4}
TwoTries == [x \in TwoOrders \X (0..1) |->
                CASE x = <<t1, 0>> -> r1 [] x = <<t1, 1>> -> r2
                  [] x = <<t2, 0>> -> r3 [] x = <<t2, 1>> -> r4]
OneAuthz == [r \in FourRuns |-> 1]
OneAddr == [r \in FourRuns |-> a80]

OneRenewal == {n1}
Address == {a80}
MockOnly == {MockDns}

(* Two orders that nobody watches; an order and a renewal that are watched. *)
Pairs == {(t1 :> "hasty" @@ t2 :> "hasty" @@ n1 :> "never"),
          (t1 :> "unsent" @@ t2 :> "never" @@ n1 :> "unsent")}
=============================================================================
