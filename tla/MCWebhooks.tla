----------------------------- MODULE MCWebhooks -----------------------------
(* An instance of Webhooks: two tasks, the one with two events, and three  *)
(* webhooks: with a retry, without one, and with a max_retries of 0.       *)
EXTENDS Webhooks, TLC

CONSTANTS s1, s2, e1, e2, e3, w1, w2, w3

TwoSenders == {s1, s2}
Scripts == s1 :> <<e1, e2>> @@ s2 :> <<e3>>
ThreeHooks == <<w1, w2, w3>>
Configured == w1 :> {e1, e2} @@ w2 :> {e2} @@ w3 :> {e1, e3}
MaxRetries == w1 :> 2 @@ w2 :> 1 @@ w3 :> 0
=============================================================================
