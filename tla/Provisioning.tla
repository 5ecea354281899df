---------------------------- MODULE Provisioning ----------------------------
(***************************************************************************)
(* POST /orders of the API server (src/server/order.rs) and the            *)
(* CertificateProvisioner it runs in the background                        *)
(* (src/orchestrator/provisioner.rs), composed with Issuance: attempt n of *)
(* API task t is the issue_certificate call Try[t, n], made with a client  *)
(* and an HTTP-01 or TLS-ALPN-01 solver of its own.  The attempts share    *)
(* the listening addresses of the process with each other and with the     *)
(* other tasks.  cleanup() is never called.  The tasks are in memory only: *)
(* when the process ends they are gone, and what they were doing stops;    *)
(* the operating system closes the listeners, and the CA keeps the orders. *)
(***************************************************************************)
EXTENDS Issuance

CONSTANTS
    Orders,      \* tasks of the API server
    Try,         \* Try[t, n]: the call that attempt n of task t makes
    MaxRetries,  \* 3 in the code
    MaxDeaths    \* bound: ends of the process

ASSUME ProvisioningAssumption ==
    /\ MaxRetries \in Nat /\ MaxDeaths \in Nat
    /\ Try \in [Orders \X (0..MaxRetries) -> Runs]
    /\ \A x, y \in DOMAIN Try : Try[x] = Try[y] => x = y
    /\ Runs = {Try[x] : x \in DOMAIN Try}

VARIABLES
    task,      \* task[t]: the status in AppState.tasks, "none", or "gone"
    loop,      \* loop[t]: where execute() is
    retry,     \* retry[t]: retry_count
    config,    \* the process's challenge configuration: one for which provision()
               \* makes a "server" solver, "dns-01", or one that it rejects
    up,        \* is the process running?
    deaths

processVars == <<config, up, deaths>>
provVars == <<task, loop, retry, config, up, deaths>>
allVars == <<solver, keyAuth, port, provider, records, recordId, cleaned, faults,
             pc, account, idx, polls, order, authz, task, loop, retry, config, up, deaths>>

Attempt(t) == Try[<<t, retry[t]>>]

Init ==
    /\ InitIssuance
    /\ \A r \in Runs : ~account[r]
    /\ \E s \in Servers : solver = [r \in Runs |-> s]
    /\ task = [t \in Orders |-> "none"]
    /\ loop = [t \in Orders |-> "idle"]
    /\ retry = [t \in Orders |-> 0]
    /\ config \in {"server", "dns-01", "rejected"}
    /\ up = TRUE /\ deaths = 0

-----------------------------------------------------------------------------
(* The handler records the task before it spawns execute() and answers. *)
CreateOrder(t) ==
    /\ up /\ task[t] = "none"
    /\ task' = [task EXCEPT ![t] = "InProgress"]
    /\ loop' = [loop EXCEPT ![t] = "start"]
    /\ UNCHANGED <<retry, processVars, issuanceVars>>

(* provision(): a new client (without an account) and a new solver. *)
Start(t) ==
    /\ loop[t] = "start"
    /\ Begin(Attempt(t))
    /\ loop' = [loop EXCEPT ![t] = "await"]
    /\ UNCHANGED <<task, retry, processVars>>

(* The configuration is looked at after the registration.  For DNS-01 no   *)
(* solver is registered, which issue_certificate finds out when it has     *)
(* created the order and fetched an authorization.                         *)
Misconfigured(t) ==
    /\ loop[t] = "await"
    /\ \/ config = "rejected" /\ pc[Attempt(t)] = "order"
       \/ config = "dns-01" /\ pc[Attempt(t)] = "authz"
    /\ Goto(Attempt(t), "failed")
    /\ UNCHANGED <<account, idx, polls, solverVars, serverVars, faults, provVars>>

Provision(t) ==
    /\ loop[t] \notin {"idle", "dead"}
    /\ \E n \in 0..MaxRetries :
          /\ pc[Try[<<t, n>>]] = "order" => config # "rejected"
          /\ pc[Try[<<t, n>>]] = "authz" => config = "server"
          /\ Client(Try[<<t, n>>])
    /\ UNCHANGED provVars

(* Faulty variant: the loop goes on after a success. *)
AttemptOkGoesOn(t) ==
    /\ loop[t] = "await"
    /\ pc[Attempt(t)] = "ok"
    /\ IF retry[t] < MaxRetries
         THEN /\ retry' = [retry EXCEPT ![t] = @ + 1]
              /\ loop' = [loop EXCEPT ![t] = "sleep"]
              /\ UNCHANGED task
         ELSE /\ loop' = [loop EXCEPT ![t] = "returned"]
              /\ task' = [task EXCEPT ![t] = "Completed"]
              /\ UNCHANGED retry
    /\ UNCHANGED <<processVars, issuanceVars>>

(* The bundle is dropped; execute() returns and the task is completed. *)
AttemptOk(t) ==
    /\ loop[t] = "await"
    /\ pc[Attempt(t)] = "ok"
    /\ loop' = [loop EXCEPT ![t] = "returned"]
    /\ task' = [task EXCEPT ![t] = "Completed"]
    /\ UNCHANGED <<retry, processVars, issuanceVars>>

(* Faulty variant: `while retry_count < max_retries`. *)
AttemptFailedEarly(t) ==
    /\ loop[t] = "await"
    /\ pc[Attempt(t)] = "failed"
    /\ IF retry[t] + 1 < MaxRetries
         THEN /\ retry' = [retry EXCEPT ![t] = @ + 1]
              /\ loop' = [loop EXCEPT ![t] = "sleep"]
              /\ UNCHANGED task
         ELSE /\ loop' = [loop EXCEPT ![t] = "returned"]
              /\ task' = [task EXCEPT ![t] = "Failed"]
              /\ UNCHANGED retry
    /\ UNCHANGED <<processVars, issuanceVars>>

(* Another round after a pause while retry_count <= max_retries holds, or  *)
(* the last error is returned and the task has failed.                     *)
AttemptFailed(t) ==
    /\ loop[t] = "await"
    /\ pc[Attempt(t)] = "failed"
    /\ IF retry[t] < MaxRetries
         THEN /\ retry' = [retry EXCEPT ![t] = @ + 1]
              /\ loop' = [loop EXCEPT ![t] = "sleep"]
              /\ UNCHANGED task
         ELSE /\ loop' = [loop EXCEPT ![t] = "returned"]
              /\ task' = [task EXCEPT ![t] = "Failed"]
              /\ UNCHANGED retry
    /\ UNCHANGED <<processVars, issuanceVars>>

Wake(t) ==
    /\ loop[t] = "sleep"
    /\ loop' = [loop EXCEPT ![t] = "start"]
    /\ UNCHANGED <<task, retry, processVars, issuanceVars>>

-----------------------------------------------------------------------------
Execute(t) ==
    \/ Start(t) \/ Misconfigured(t) \/ Provision(t)
    \/ AttemptOk(t) \/ AttemptFailed(t) \/ Wake(t)

(* The process ends, in the middle of whatever it is doing. *)
ServerDies ==
    /\ up /\ deaths < MaxDeaths
    /\ up' = FALSE /\ deaths' = deaths + 1
    /\ task' = [t \in Orders |-> IF task[t] = "none" THEN "none" ELSE "gone"]
    /\ loop' = [t \in Orders |-> IF loop[t] = "idle" THEN "idle" ELSE "dead"]
    /\ pc' = [r \in Runs |-> IF pc[r] \in Over \cup {"idle"} THEN pc[r] ELSE "failed"]
    /\ port' = [a \in Addrs |-> IF port[a] = "other" THEN "other" ELSE "free"]
    /\ UNCHANGED <<retry, config, solver, keyAuth, provider, records, recordId, cleaned,
                   faults, account, idx, polls, serverVars>>

(* start_server begins with an empty map of tasks. *)
ServerStarts ==
    /\ ~up
    /\ up' = TRUE
    /\ UNCHANGED <<task, loop, retry, config, deaths, issuanceVars>>

-----------------------------------------------------------------------------
(* Properties *)

Finished == {"Completed", "Failed"}

(* Type invariant of the provisioner's own state. *)
ProvisioningTypeOK ==
    /\ task \in [Orders -> {"none", "gone", "InProgress"} \cup Finished]
    /\ loop \in [Orders -> {"idle", "start", "await", "sleep", "returned", "dead"}]
    /\ retry \in [Orders -> 0..MaxRetries]
    /\ config \in {"server", "dns-01", "rejected"}
    /\ up \in BOOLEAN /\ deaths \in 0..MaxDeaths
    /\ \A t \in Orders : task[t] = "gone" <=> loop[t] = "dead"

(* The status the API reports is the truth: Completed only when the CA     *)
(* has issued the certificate of the last attempt, Failed only when every  *)
(* one of the MaxRetries + 1 attempts was made and failed.                 *)
StatusIsTrue ==
    \A t \in Orders :
        /\ task[t] = "Completed" => order[Attempt(t)] = "valid"
        /\ task[t] = "Failed" => \A n \in 0..MaxRetries : pc[Try[<<t, n>>]] = "failed"

(* A certificate is ordered once: when an attempt has succeeded, or the    *)
(* task was reported, or its process has ended, no further order is        *)
(* created for it; and its reported status stays for as long as the        *)
(* process lives.                                                          *)
EndsOnce ==
    [][\A t \in Orders :
          /\ task[t] \in Finished => task'[t] \in {task[t], "gone"}
          /\ task[t] \in Finished \cup {"gone"} \/ (\E n \in 0..MaxRetries : pc[Try[<<t, n>>]] = "ok") =>
                \A n \in 0..MaxRetries :
                   order[Try[<<t, n>>]] = "none" => order'[Try[<<t, n>>]] = "none"]_allVars
=============================================================================
