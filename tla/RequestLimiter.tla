--------------------------- MODULE RequestLimiter ---------------------------
(***************************************************************************)
(* RequestLimiter and its RequestGuard (src/transport/rate_limit.rs):      *)
(* tasks that start and finish requests on clones of a limiter, which      *)
(* share one counter.  start_request loads the counter and then adds to    *)
(* it; it has no await in it, so that no more tasks are between the two    *)
(* than there are threads to run them.                                     *)
(***************************************************************************)
EXTENDS Integers, FiniteSets

CONSTANTS
    Tasks,          \* tasks that start requests
    MaxConcurrent,  \* max_concurrent
    Threads         \* threads that run the tasks

ASSUME LimiterAssumption ==
    /\ IsFiniteSet(Tasks)
    /\ MaxConcurrent \in Nat /\ Threads \in Nat \ {0}

VARIABLES
    current,  \* the counter
    phase     \* phase[t]: "out", "admitted" (it has seen room) or "in"
              \* (it holds a guard)

limiterVars == <<current, phase>>

In(where) == {t \in Tasks : phase[t] = where}

LimiterInit ==
    /\ current = 0
    /\ phase = [t \in Tasks |-> "out"]

(* Faulty variant: `<=` in can_request. *)
CheckAtMost(t) ==
    /\ phase[t] = "out" /\ Cardinality(In("admitted")) < Threads
    /\ current <= MaxConcurrent
    /\ phase' = [phase EXCEPT ![t] = "admitted"]
    /\ UNCHANGED current

(* can_request says yes; if it says no, start_request returns an error. *)
Check(t) ==
    /\ phase[t] = "out" /\ Cardinality(In("admitted")) < Threads
    /\ current < MaxConcurrent
    /\ phase' = [phase EXCEPT ![t] = "admitted"]
    /\ UNCHANGED current

(* fetch_add *)
StartRequest(t) ==
    /\ phase[t] = "admitted"
    /\ current' = current + 1
    /\ phase' = [phase EXCEPT ![t] = "in"]

(* The guard is dropped: fetch_sub. *)
FinishRequest(t) ==
    /\ phase[t] = "in"
    /\ current' = current - 1
    /\ phase' = [phase EXCEPT ![t] = "out"]

LimiterNext == \E t \in Tasks : Check(t) \/ StartRequest(t) \/ FinishRequest(t)

LimiterSpec == LimiterInit /\ [][LimiterNext]_limiterVars

-----------------------------------------------------------------------------
(* Properties *)

(* Type invariant; the counter is a u64 that must not wrap below zero. *)
LimiterTypeOK ==
    /\ current \in Nat
    /\ phase \in [Tasks -> {"out", "admitted", "in"}]

(* The counter counts the guards that exist, whatever the order of loads,  *)
(* additions and drops: none is lost for ever and none is given back twice. *)
CountsGuards == current = Cardinality(In("in"))

(* The limit may be exceeded, because tasks that have seen room together   *)
(* all start, but only by the tasks that were in start_request at once:    *)
(* there are never more requests than max_concurrent and one for each      *)
(* thread but one, however many tasks there are.                           *)
OvershootBounded ==
    Cardinality(In("in")) <= IF MaxConcurrent = 0 THEN 0 ELSE MaxConcurrent + Threads - 1

(* The strengthening: a task that was admitted counts as started. *)
AdmittedBounded ==
    /\ MaxConcurrent = 0 => In("in") = {} /\ In("admitted") = {}
    /\ MaxConcurrent > 0 => /\ current + Cardinality(In("admitted")) <= MaxConcurrent + Threads - 1
                            /\ Cardinality(In("admitted")) <= Threads
=============================================================================
