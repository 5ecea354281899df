----------------------------- MODULE MCProtocol -----------------------------
(* An instance of Protocol: callers of a nonce pool beside requests that   *)
(* share the pool's manager, or two callers of a cache.                    *)
EXTENDS Protocol

CONSTANTS p1, p2, p3, p4, a1, a2

Two == {p1, p2}
TwoMore == {p3, p4}
TwoAskers == {a1, a2}
=============================================================================
