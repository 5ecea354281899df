------------------------ MODULE MCRenewalScheduler ------------------------
(* Instances of RenewalScheduler: a scan that finds up to two certificates *)
(* (Normal priority) beside a TaskSender user with one Urgent task.        *)
EXTENDS RenewalScheduler

CONSTANTS scan, sender, j1, j2, u1

MCJobs == {j1, j2, u1}
MCCallers == {scan, sender}
MCCallerOf == [j \in MCJobs |-> IF j = u1 THEN sender ELSE scan]
MCPriorityOf == [j \in MCJobs |-> IF j = u1 THEN 3 ELSE 1]

(* One scan of three certificates: a worker that retries, a task in the     *)
(* heap and a task in the channel may then wait for one another.            *)
OneScan == {scan}
OneScanOf == [j \in MCJobs |-> scan]
=============================================================================
