---------------------------- MODULE RenewalPool ----------------------------
(***************************************************************************)
(* What the advanced renewal scheduler promises, without its channel,      *)
(* bridge, heap, notifier and semaphore: a pool of submitted jobs of which *)
(* at most Concurrency are being renewed at a time, each tried once and    *)
(* then at most MaxRetries more times, and then renewed or abandoned.      *)
(* Nothing in the pool may be lost, repeated after it ended, or started    *)
(* beyond the limit.  RenewalScheduler is shown to implement this module.  *)
(***************************************************************************)
EXTENDS Naturals, FiniteSets

CONSTANTS
    Jobs,         \* the renewal requests handed to the scheduler
    Concurrency,  \* how many renewals may run at the same time
    MaxRetries    \* how many times a failed renewal is tried again

VARIABLES
    status,       \* status[j]: where job j stands
    tries         \* tries[j]: how many times a renewal of j was started

poolVars == <<status, tries>>

Status == {"unknown", "pending", "active", "renewed", "abandoned"}

Active == {j \in Jobs : status[j] = "active"}

PoolInit ==
    /\ status = [j \in Jobs |-> "unknown"]
    /\ tries = [j \in Jobs |-> 0]

(* A caller hands job j to the scheduler, once. *)
Submit(j) ==
    /\ status[j] = "unknown"
    /\ status' = [status EXCEPT ![j] = "pending"]
    /\ UNCHANGED tries

(* A renewal of j begins, if one of the Concurrency places is free. *)
Start(j) ==
    /\ status[j] = "pending"
    /\ Cardinality(Active) < Concurrency
    /\ status' = [status EXCEPT ![j] = "active"]
    /\ tries' = [tries EXCEPT ![j] = @ + 1]

Renew(j) ==
    /\ status[j] = "active"
    /\ status' = [status EXCEPT ![j] = "renewed"]
    /\ UNCHANGED tries

(* The renewal of j fails: j is pending again while it has retries left. *)
Fail(j) ==
    /\ status[j] = "active"
    /\ status' = [status EXCEPT
                    ![j] = IF tries[j] <= MaxRetries THEN "pending" ELSE "abandoned"]
    /\ UNCHANGED tries

PoolNext == \E j \in Jobs : Submit(j) \/ Start(j) \/ Renew(j) \/ Fail(j)

PoolSpec == PoolInit /\ [][PoolNext]_poolVars
=============================================================================
