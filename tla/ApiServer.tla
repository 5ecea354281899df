------------------------------ MODULE ApiServer ------------------------------
(***************************************************************************)
(* The REST API (src/server) as its clients see it, in front of the        *)
(* provisioner (module Provisioning) and of the renewal jobs that          *)
(* POST /certificates/{id}/renew spawns (src/server/certificate.rs), with  *)
(* answers that get lost and a process that ends and is started again.     *)
(* What a client knows of its request is part of the state.                *)
(*                                                                         *)
(* Requests that neither change the state of the server nor read it, the   *)
(* placeholders among them, and the check of the API key are left out.     *)
(***************************************************************************)
EXTENDS Provisioning

CONSTANTS
    Renewals,   \* requests to renew a certificate
    Workloads   \* what the clients of a behaviour do with each request: send it
                \* ("unsent" at first), send it and leave ("hasty"), or neither

Unsent == {"unsent", "hasty", "never"}

ASSUME ApiAssumption ==
    /\ Renewals \cap Orders = {}
    /\ Workloads \subseteq [Orders \cup Renewals -> Unsent]

VARIABLES
    configured,  \* were a client and a storage given to start_server?
    job,         \* job[n]: the spawned renewal: "none", "spawned", "sleeping",
                 \* "ended" or "dead"
    renewal,     \* renewal[n]: its status in AppState.tasks, "none", or "gone"
    seen         \* seen[x]: what its client knows of request x: "unanswered" (no
                 \* answer has come), "left", "refused", "accepted" (it has the
                 \* id), or what it was told last: a status or "NotFound"

apiVars == <<configured, job, renewal, seen>>
serverState == <<allVars, apiVars>>

Requests == Orders \cup Renewals
Statuses == {"InProgress"} \cup Finished
StatusOf(x) == IF x \in Orders THEN task[x] ELSE renewal[x]
Told(x) == IF StatusOf(x) \in Statuses THEN StatusOf(x) ELSE "NotFound"
Sees(x, what) == seen' = [seen EXCEPT ![x] = what]

ApiInit ==
    /\ Init
    /\ seen \in Workloads
    /\ configured \in BOOLEAN
    /\ configured \/ \E n \in Renewals : seen[n] # "never"   \* nobody else asks
    /\ job = [n \in Renewals |-> "none"]
    /\ renewal = [n \in Renewals |-> "none"]

-----------------------------------------------------------------------------
(* 202 with the id of the task arrives, or the connection breaks, or the  *)
(* client has left.                                                        *)
Answered202(x) ==
    IF seen[x] = "hasty" THEN Sees(x, "left")
    ELSE \E known \in {"accepted", "unanswered"} : Sees(x, known)

(* POST /orders *)
PostOrder(t) ==
    /\ seen[t] \in {"unsent", "hasty"}
    /\ CreateOrder(t)
    /\ Answered202(t)
    /\ UNCHANGED <<configured, job, renewal>>

(* POST /certificates/{id}/renew: 503, or a job is spawned. *)
PostRenew(n) ==
    /\ up /\ seen[n] \in {"unsent", "hasty"}
    /\ \/ ~configured /\ Sees(n, "refused") /\ UNCHANGED job
       \/ configured /\ Answered202(n) /\ job' = [job EXCEPT ![n] = "spawned"]
    /\ UNCHANGED <<configured, renewal, allVars>>

(* The job records its task; it was announced when it was spawned. *)
JobStarts(n) ==
    /\ job[n] = "spawned"
    /\ job' = [job EXCEPT ![n] = "sleeping"]
    /\ renewal' = [renewal EXCEPT ![n] = "InProgress"]
    /\ UNCHANGED <<configured, seen, allVars>>

(* Faulty variant: the entry is taken out of the map and not put back. *)
JobEndsForgetting(n) ==
    /\ job[n] = "sleeping"
    /\ job' = [job EXCEPT ![n] = "ended"]
    /\ renewal' = [renewal EXCEPT ![n] = "none"]
    /\ UNCHANGED <<configured, seen, allVars>>

(* "We simulate success": nothing is renewed. *)
JobEnds(n) ==
    /\ job[n] = "sleeping"
    /\ job' = [job EXCEPT ![n] = "ended"]
    /\ renewal' = [renewal EXCEPT ![n] = "Completed"]
    /\ UNCHANGED <<configured, seen, allVars>>

(* Faulty variant: what the client was told is not looked up again. *)
GetOrderCached(x) ==
    /\ up /\ seen[x] \in {"accepted", "NotFound"} \cup Statuses
    /\ Sees(x, IF seen[x] = "accepted" THEN Told(x) ELSE seen[x])
    /\ UNCHANGED <<configured, job, renewal, allVars>>

(* GET /orders/{id}, for both kinds of task. *)
GetOrder(x) ==
    /\ up /\ seen[x] \in {"accepted", "NotFound"} \cup Statuses
    /\ Sees(x, Told(x))
    /\ UNCHANGED <<configured, job, renewal, allVars>>

(* GET /orders: a client without an answer looks for its domains, which    *)
(* the tasks of renewals do not have.                                      *)
ListOrders(t) ==
    /\ up /\ seen[t] = "unanswered"
    /\ Sees(t, Told(t))
    /\ UNCHANGED <<configured, job, renewal, allVars>>

Dies ==
    /\ ServerDies
    /\ job' = [n \in Renewals |-> IF job[n] = "none" THEN "none" ELSE "dead"]
    /\ renewal' = [n \in Renewals |-> IF job[n] = "none" THEN "none" ELSE "gone"]
    /\ UNCHANGED <<configured, seen>>

-----------------------------------------------------------------------------
Background(t) == Execute(t) /\ UNCHANGED apiVars
Job(n) == JobStarts(n) \/ JobEnds(n)

ApiNext ==
    \/ \E t \in Orders : PostOrder(t) \/ ListOrders(t) \/ Background(t)
    \/ \E n \in Renewals : PostRenew(n) \/ Job(n)
    \/ \E x \in Requests : GetOrder(x)
    \/ \E r \in Runs : CA(r) /\ UNCHANGED <<provVars, apiVars>>
    \/ Dies
    \/ ServerStarts /\ UNCHANGED apiVars

ApiSpec == ApiInit /\ [][ApiNext]_serverState

(* The executor runs what was spawned, and a client that has an id goes on *)
(* asking.  A request to the CA that is never answered is a step of        *)
(* Issuance to "stalled", which its task waits in for ever; the CA need    *)
(* not validate nor sign, and nothing restarts a process.                  *)
FairApi ==
    /\ ApiSpec
    /\ \A t \in Orders : WF_serverState(Background(t))
    /\ \A n \in Renewals : WF_serverState(Job(n))
    /\ \A x \in Requests : WF_serverState(GetOrder(x))

-----------------------------------------------------------------------------
(* Properties *)

(* Type invariant. *)
ApiTypeOK ==
    /\ ProvisioningTypeOK
    /\ configured \in BOOLEAN
    /\ job \in [Renewals -> {"none", "spawned", "sleeping", "ended", "dead"}]
    /\ renewal \in [Renewals -> {"none", "gone"} \cup Statuses]
    /\ seen \in [Requests -> Unsent \cup Statuses \cup
                    {"left", "unanswered", "refused", "accepted", "NotFound"}]
    /\ \A n \in Renewals :
          /\ renewal[n] \in {"none", "InProgress", "Completed", "gone"}
          /\ renewal[n] = "InProgress" <=> job[n] = "sleeping"
          /\ renewal[n] = "Completed" <=> job[n] = "ended"
          /\ renewal[n] = "gone" <=> job[n] = "dead"
    /\ \A t \in Orders : seen[t] \in Unsent <=> task[t] = "none"

(* 404 for an id that was announced has a cause: the process has ended     *)
(* since.  Only the job of a renewal may come after the first question,    *)
(* and no task that was found once is not found the next time.             *)
FoundUntilRestart ==
    [][\A x \in Requests :
          seen'[x] = "NotFound" /\ seen[x] # "NotFound" =>
             \/ StatusOf(x) = "gone"
             \/ x \in Renewals /\ seen[x] = "accepted" /\ job[x] = "spawned"]_serverState

(* The task of an order waits for an answer of the CA that never comes. *)
Stalled(x) == x \in Orders /\ pc[Attempt(x)] = "stalled"

(* A client that goes on asking for what it was promised is told how it    *)
(* has ended, even if it was told 404 first, unless the process ends or    *)
(* the CA never answers a request of the task itself.                      *)
ClientsLearn ==
    \A x \in Requests :
        seen[x] = "accepted" ~>
            seen[x] \in Finished \/ StatusOf(x) = "gone" \/ Stalled(x)
=============================================================================
