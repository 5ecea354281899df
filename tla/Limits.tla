------------------------------- MODULE Limits -------------------------------
(***************************************************************************)
(* The two limiters of src/transport/rate_limit.rs side by side, as a      *)
(* client that uses both has them: neither knows of the other.             *)
(***************************************************************************)
EXTENDS TokenBucket, RequestLimiter

LimitsInit == Init /\ LimiterInit

LimitsNext ==
    \/ Next /\ UNCHANGED limiterVars
    \/ LimiterNext /\ UNCHANGED vars

LimitsSpec == LimitsInit /\ [][LimitsNext]_<<vars, limiterVars>>
=============================================================================
