------------------------------ MODULE Issuance ------------------------------
(***************************************************************************)
(* AcmeClient::issue_certificate (src/client.rs) with the OrderManager it  *)
(* drives (src/order/manager.rs) and the solver its registry holds (module *)
(* Solvers), for several calls in one process, against a certificate       *)
(* authority.  issue_certificate never calls cleanup(): its caller may,    *)
(* when it has returned.                                                   *)
(*                                                                         *)
(* A request is one step: nothing else in the process depends on the time  *)
(* between sending it and its answer.  It may be refused or never arrive   *)
(* (Refused), or be carried out and its answer lost (Answered).  Or it     *)
(* never gets an answer: the clients for HTTP are made without a timeout   *)
(* (AcmeClient::new, AcmeClient::with_key_pair), so the run then waits for *)
(* ever and is "stalled".                                                  *)
(***************************************************************************)
EXTENDS Solvers

CONSTANTS
    MaxPolls,   \* attempts of poll_order, 30 in the code
    Reuse,      \* may the CA answer with authorizations that are valid already?
    TimelyCA    \* does the CA always act before the client stops polling?

ASSUME IssuanceAssumption ==
    /\ MaxPolls \in Nat \ {0}
    /\ Reuse \in BOOLEAN /\ TimelyCA \in BOOLEAN

VARIABLES
    pc,       \* where each run is
    account,  \* account[r]: does r's copy of the client know its account?
    idx,      \* idx[r]: the authorization r is at
    polls,    \* polls[r]: attempts of the current poll_order
    order,    \* at the CA: status of r's order
    authz     \* at the CA: authz[r][i], status of the i-th authorization

serverVars == <<order, authz>>
clientVars == <<pc, account, idx, polls>>
issuanceVars == <<solver, keyAuth, port, provider, records, recordId, cleaned, faults,
                  pc, account, idx, polls, order, authz>>

Over == {"ok", "failed"}   \* where issue_certificate has returned
Requesting == {"register", "order", "authz", "respond", "pollReady", "finalize",
               "pollValid", "download"}

Goto(r, label) == pc' = [pc EXCEPT ![r] = label]

(* A request goes wrong: an error, which the run ends with, or silence. *)
NoAnswer(r) ==
    /\ Fault
    /\ \E end \in {"failed", "stalled"} : Goto(r, end)

(* The answer comes back and the run goes on, or it does not although the  *)
(* CA did what it was asked.                                               *)
Answered(r, label) ==
    \/ Goto(r, label) /\ UNCHANGED faults
    \/ NoAnswer(r)

InitIssuance ==
    /\ SolversInit
    /\ pc = [r \in Runs |-> "idle"]
    /\ account \in [Runs -> BOOLEAN]
    /\ idx = [r \in Runs |-> 1]
    /\ polls = [r \in Runs |-> 0]
    /\ order = [r \in Runs |-> "none"]
    /\ authz = [r \in Runs |-> [i \in 1..Authzs[r] |-> "none"]]

-----------------------------------------------------------------------------
(* The client *)

Begin(r) ==
    /\ pc[r] = "idle"
    /\ Goto(r, IF account[r] THEN "order" ELSE "register")
    /\ UNCHANGED <<account, idx, polls, solverVars, serverVars, faults>>

(* A request that has no effect at the CA and fails: no connection, an     *)
(* error status (a rejected nonce is not retried), a bad answer, no        *)
(* challenge in it that the registry has a solver for, or no answer.       *)
Refused(r) ==
    /\ pc[r] \in Requesting
    /\ NoAnswer(r)
    /\ UNCHANGED <<account, idx, polls, solverVars, serverVars>>

(* register_account: account_id is set in this copy of the client only. *)
Register(r) ==
    /\ pc[r] = "register"
    /\ Goto(r, "order")
    /\ account' = [account EXCEPT ![r] = TRUE]
    /\ UNCHANGED <<idx, polls, solverVars, serverVars, faults>>

NewOrder(r) ==
    /\ pc[r] = "order"
    /\ \E known \in (IF Reuse THEN SUBSET (1..Authzs[r]) ELSE {{}}) :
          /\ authz' = [authz EXCEPT ![r] =
                         [i \in 1..Authzs[r] |-> IF i \in known THEN "valid" ELSE "pending"]]
          /\ order' = [order EXCEPT ![r] =
                         IF known = 1..Authzs[r] THEN "ready" ELSE "pending"]
    /\ Answered(r, "authz")
    /\ UNCHANGED <<account, idx, polls, solverVars>>

(* The authorization's own status is not looked at: its challenge is       *)
(* answered even if it is valid already.                                   *)
GetAuthorization(r) ==
    /\ pc[r] = "authz"
    /\ Goto(r, "prepare")
    /\ UNCHANGED <<account, idx, polls, solverVars, serverVars, faults>>

(* prepare() and present().  A request to a DNS provider may stall, too. *)
Prepare(r) ==
    /\ pc[r] = "prepare"
    /\ \E ok \in BOOLEAN :
          /\ SolverPrepare(r, idx[r], ok)
          /\ \/ Goto(r, IF ok THEN "respond" ELSE "failed")
             \/ faults' # faults /\ Goto(r, "stalled")
    /\ UNCHANGED <<account, idx, polls, serverVars>>

RespondToChallenge(r) ==
    /\ pc[r] = "respond"
    /\ authz' = [authz EXCEPT ![r][idx[r]] = IF @ = "pending" THEN "processing" ELSE @]
    /\ idx' = [idx EXCEPT ![r] = @ + 1]
    /\ Answered(r, IF idx[r] < Authzs[r] THEN "authz" ELSE "pollReady")
    /\ UNCHANGED <<account, polls, solverVars, order>>

(* Faulty variant: the attempts of poll_order are not counted. *)
PollForEver(r, here, wanted, next) ==
    /\ pc[r] = here
    /\ \/ /\ order[r] \in {"ready", "valid", "invalid"}
          /\ Goto(r, IF order[r] = wanted THEN next ELSE "failed")
          /\ polls' = [polls EXCEPT ![r] = 0]
       \/ /\ order[r] \in {"pending", "processing"}
          /\ polls' = [polls EXCEPT ![r] = 1 - @]
          /\ UNCHANGED pc
    /\ UNCHANGED <<account, idx, solverVars, serverVars, faults>>

(* One attempt of poll_order and, after the last one, the caller's check   *)
(* of the status it returned.                                              *)
Poll(r, here, wanted, next) ==
    /\ pc[r] = here
    /\ \/ /\ order[r] \in {"ready", "valid", "invalid"}
          /\ Goto(r, IF order[r] = wanted THEN next ELSE "failed")
          /\ polls' = [polls EXCEPT ![r] = 0]
       \/ /\ order[r] \in {"pending", "processing"}
          /\ polls[r] + 1 < MaxPolls
          /\ polls' = [polls EXCEPT ![r] = @ + 1]
          /\ UNCHANGED pc
       \/ /\ order[r] \in {"pending", "processing"}
          /\ polls[r] + 1 = MaxPolls
          /\ ~TimelyCA
          /\ Goto(r, "failed")
          /\ UNCHANGED polls
    /\ UNCHANGED <<account, idx, solverVars, serverVars, faults>>

PollReady(r) == Poll(r, "pollReady", "ready", "finalize")
PollValid(r) == Poll(r, "pollValid", "valid", "download")

(* Faulty variant: the certificate is fetched without the second poll. *)
FinalizeAndDownload(r) ==
    /\ pc[r] = "finalize"
    /\ order' = [order EXCEPT ![r] = "processing"]
    /\ Answered(r, "download")
    /\ UNCHANGED <<account, idx, polls, solverVars, authz>>

(* A fresh key and its CSR; only a ready order can be finalized. *)
FinalizeOrder(r) ==
    /\ pc[r] = "finalize"
    /\ order' = [order EXCEPT ![r] = "processing"]
    /\ Answered(r, "pollValid")
    /\ UNCHANGED <<account, idx, polls, solverVars, authz>>

Download(r) ==
    /\ pc[r] = "download"
    /\ Goto(r, "ok")
    /\ UNCHANGED <<account, idx, polls, solverVars, serverVars, faults>>

Client(r) ==
    \/ Refused(r) \/ Register(r) \/ NewOrder(r) \/ GetAuthorization(r)
    \/ Prepare(r) \/ RespondToChallenge(r) \/ PollReady(r)
    \/ FinalizeOrder(r) \/ PollValid(r) \/ Download(r)

-----------------------------------------------------------------------------
(* The certificate authority *)

(* A challenge succeeds only if its key authorization is served, and may   *)
(* fail although it is.                                                    *)
Validate(r) ==
    /\ \E i \in 1..Authzs[r] :
          /\ authz[r][i] = "processing"
          /\ \/ /\ authz' = [authz EXCEPT ![r][i] = IF Served(r, i) THEN "valid" ELSE "invalid"]
                /\ UNCHANGED faults
             \/ /\ authz' = [authz EXCEPT ![r][i] = "invalid"]
                /\ Fault
    /\ UNCHANGED <<clientVars, solverVars, order>>

UpdateOrder(r) ==
    /\ order[r] = "pending"
    /\ \/ /\ \A i \in 1..Authzs[r] : authz[r][i] = "valid"
          /\ order' = [order EXCEPT ![r] = "ready"]
       \/ /\ \E i \in 1..Authzs[r] : authz[r][i] = "invalid"
          /\ order' = [order EXCEPT ![r] = "invalid"]
    /\ UNCHANGED <<clientVars, solverVars, authz, faults>>

Sign(r) ==
    /\ order[r] = "processing"
    /\ \/ order' = [order EXCEPT ![r] = "valid"] /\ UNCHANGED faults
       \/ order' = [order EXCEPT ![r] = "invalid"] /\ Fault
    /\ UNCHANGED <<clientVars, solverVars, authz>>

CA(r) == Validate(r) \/ UpdateOrder(r) \/ Sign(r)

-----------------------------------------------------------------------------
(* The caller calls the solver's cleanup() when the call has returned. *)
Cleanup(r) ==
    /\ pc[r] \in Over
    /\ SolverCleanup(r)
    /\ UNCHANGED <<clientVars, serverVars>>

NextIssuance ==
    \/ \E r \in Runs : Begin(r) \/ Client(r) \/ CA(r) \/ Cleanup(r)
    \/ \E a \in Addrs : ServerDropped(a) /\ UNCHANGED <<clientVars, serverVars>>

SpecIssuance == InitIssuance /\ [][NextIssuance]_issuanceVars

(* The executor polls each call: an answer that has come is taken, and one *)
(* that never comes is a step to "stalled".  The CA need not validate, nor *)
(* sign, and the caller need not clean up.                                 *)
FairIssuance == SpecIssuance /\ \A r \in Runs : WF_issuanceVars(Client(r))

-----------------------------------------------------------------------------
(* Properties *)

(* Type invariant. *)
TypeOK ==
    /\ pc \in [Runs -> {"idle", "prepare", "stalled"} \cup Requesting \cup Over]
    /\ account \in [Runs -> BOOLEAN]
    /\ idx \in [Runs -> Nat \ {0}]
    /\ \A r \in Runs : idx[r] <= Authzs[r] + 1
    /\ \A r \in Runs : pc[r] \in {"authz", "prepare", "respond"} => idx[r] <= Authzs[r]
    /\ polls \in [Runs -> 0..(MaxPolls - 1)]
    /\ solver \in [Runs -> SolverTypes]
    /\ keyAuth \in [Runs -> Nat] /\ recordId \in [Runs -> Nat]
    /\ \A r \in Runs : keyAuth[r] <= Authzs[r] /\ recordId[r] <= Authzs[r]
    /\ port \in [Addrs -> {"free", "other", "closing"} \cup Runs]
    /\ provider \in Providers
    /\ \A x \in records : x.by \in Runs /\ x.authz \in 1..Authzs[x.by] /\ x.at = AddrOf[x.by]
    /\ cleaned \in [Runs -> {"no", "ok", "error"}]
    /\ order \in [Runs -> {"none", "pending", "ready", "processing", "valid", "invalid"}]
    /\ DOMAIN authz = Runs
    /\ \A r \in Runs :
          authz[r] \in [1..Authzs[r] -> {"none", "pending", "processing", "valid", "invalid"}]
    /\ faults \in 0..MaxFaults

(* Ok(bundle) is returned only for an order that the CA has issued, every  *)
(* authorization of which is valid: no poll outcome, lost answer or        *)
(* overtaking by another call lets a run get past its order's real state.  *)
OkIsIssued ==
    \A r \in Runs : pc[r] = "ok" =>
        /\ order[r] = "valid"
        /\ \A i \in 1..Authzs[r] : authz[r][i] = "valid"

(* Nobody but r takes away what r's solver serves: a server is r's own;    *)
(* with DNS-01 it takes a provider that keeps the records of a name apart. *)
Undisturbed(r) == solver[r] \in Servers \/ provider.delete = "record"

(* prepare, present, respond: the CA is told to validate a challenge only  *)
(* at a moment at which this very run serves its key authorization, for    *)
(* every authorization of the order.                                       *)
AnsweredWhenServed ==
    [][\A r \in Runs : \A i \in 1..Authzs[r] :
          /\ Undisturbed(r)
          /\ authz[r][i] = "pending" /\ authz'[r][i] = "processing"
          => Served(r, i)]_issuanceVars

(* What a run serves stays served until its own cleanup for as long as the *)
(* CA may still fetch it, even when the run itself has given up, and       *)
(* whatever other runs of the process do, their cleanup included.  With    *)
(* HTTP-01 only for orders with one authorization: the second prepare()    *)
(* replaces the key authorization of the first.                            *)
ServedWhileChecked ==
    \A r \in Runs : \A i \in 1..Authzs[r] :
        /\ Undisturbed(r) /\ cleaned[r] = "no"
        /\ authz[r][i] = "processing"
        /\ solver[r] = "http-01" => Authzs[r] = 1
        => Served(r, i)

(* cleanup() is complete ("remove DNS records or stop HTTP server", trait  *)
(* ChallengeSolver): when nothing has failed and it has returned Ok, the   *)
(* address and the records of r are given back and stay so, although other *)
(* runs use the same ones.  Only for orders with one authorization: the    *)
(* second prepare() of a DNS-01 solver overwrites the id of the first      *)
(* record, which nothing can delete after that.                            *)
CleanupIsComplete ==
    \A r \in Runs :
        faults = 0 /\ Authzs[r] = 1 /\ cleaned[r] = "ok" =>
            /\ port[AddrOf[r]] # r
            /\ \A x \in records : x.by # r

(* The whole of issue_certificate, seen from outside. *)
Call == INSTANCE IssueCall WITH
    Calls <- Runs,
    call <- [r \in Runs |-> IF pc[r] \in Over \cup {"idle"} THEN pc[r] ELSE "running"],
    binds <- [r \in Runs |-> solver[r] \in Servers],
    bound <- [r \in Runs |-> solver[r] \in Servers /\ port[AddrOf[r]] = r],
    holder <- [a \in Addrs |-> IF port[a] = "closing" THEN "other" ELSE port[a]]

(* What the callers of issue_certificate rely on: a call that listens      *)
(* succeeds only with an address that was free for it, an address has one  *)
(* holder, and only cleanup() takes it from it, never the end of a call.   *)
ImplementsCall == Call!SpecCalls

(* issue_certificate returns unless one of its own requests is never       *)
(* answered: a CA that answers, but neither validates nor issues, cannot   *)
(* keep it, for both polling loops give up, nor can what other runs do.    *)
EveryRunEnds == \A r \in Runs : pc[r] # "idle" ~> pc[r] \in Over \cup {"stalled"}
=============================================================================
