------------------------------- MODULE Solvers -------------------------------
(***************************************************************************)
(* Challenge solvers (src/challenge/): Http01Solver and TlsAlpn01Solver,   *)
(* which bind an address, and Dns01Solver over the DNS providers of        *)
(* src/dns/providers/.  Each run of Issuance has one solver of its own.    *)
(* The listening addresses of the process and the TXT records at the DNS   *)
(* provider are shared by all of them.                                     *)
(*                                                                         *)
(* prepare() of the first two binds the solver's address and spawns a      *)
(* detached server; dropping the solver does not stop it, cleanup() does.  *)
(* prepare() of the DNS-01 solver creates a record under the name of the   *)
(* domain the solver was made for, whatever the identifier, and remembers  *)
(* its id.                                                                 *)
(***************************************************************************)
EXTENDS Naturals, FiniteSets

CONSTANTS
    Runs,       \* calls of issue_certificate
    Authzs,     \* Authzs[r]: number of authorizations in r's order, >= 1
    Addrs,      \* listening addresses, and names of TXT records
    AddrOf,     \* AddrOf[r]: the address or name that r's solver uses
    Providers,  \* the DNS providers, one of which is in use
    MaxFaults   \* bound: failing requests, lost answers, unjust CA refusals

ASSUME SolversAssumption ==
    /\ Authzs \in [Runs -> Nat \ {0}]
    /\ AddrOf \in [Runs -> Addrs]
    /\ MaxFaults \in Nat
    /\ Runs \cap {"free", "other", "closing"} = {}

VARIABLES
    solver,   \* solver[r]: the type of the solver in r's registry
    keyAuth,  \* keyAuth[r]: authorization whose key r's server gives, 0: none
    port,     \* port[a]: "free", bound by some "other" program or by run r,
              \* or "closing" until the aborted server is dropped
    provider, \* the DNS provider in use
    records,  \* TXT records: who created them, for which authorization, where
    recordId, \* recordId[r]: authorization of the record that r remembers, 0: none
    cleaned,  \* what the last cleanup() of r's solver returned, or "no"
    faults    \* failures so far

Servers == {"http-01", "tls-alpn-01"}
SolverTypes == Servers \cup {"dns-01"}

solverVars == <<solver, keyAuth, port, provider, records, recordId, cleaned>>

Fault == faults < MaxFaults /\ faults' = faults + 1

-----------------------------------------------------------------------------
(* What a provider does.  create: another value under the same name is     *)
(* kept ("add"), overwritten ("replace"), or makes the request fail        *)
(* ("refuse").  delete: the record of the id, all values of the name, or   *)
(* the name if it has exactly the given value.  quiet: an error in the     *)
(* answer to a delete goes unnoticed.                                      *)

Cloudflare   == [create |-> "add", delete |-> "record", quiet |-> FALSE]
DigitalOcean == [create |-> "add", delete |-> "record", quiet |-> FALSE]
Linode       == [create |-> "add", delete |-> "record", quiet |-> FALSE]
Alibaba      == [create |-> "add", delete |-> "record", quiet |-> FALSE]
ClouDns      == [create |-> "add", delete |-> "record", quiet |-> FALSE]
MockDns      == [create |-> "add", delete |-> "record", quiet |-> FALSE]
(* The delete looks at the HTTP status only. *)
Tencent      == [create |-> "add", delete |-> "record", quiet |-> TRUE]
(* POST of a record set, which the service refuses if there is one. *)
Huawei       == [create |-> "refuse", delete |-> "record", quiet |-> FALSE]
(* PUT of all TXT records of the name, DELETE of all of them. *)
GoDaddy      == [create |-> "replace", delete |-> "name", quiet |-> FALSE]
Azure        == [create |-> "replace", delete |-> "name", quiet |-> FALSE]
(* Upsert, and deletion of the record set with the remembered value. *)
Route53      == [create |-> "replace", delete |-> "exact", quiet |-> FALSE]
(* An addition to a name that has a record set is refused; every TXT       *)
(* record set of the name is deleted.                                      *)
Google       == [create |-> "refuse", delete |-> "name", quiet |-> FALSE]

AllProviders ==
    {Cloudflare, DigitalOcean, Linode, Alibaba, ClouDns, MockDns, Tencent,
     Huawei, GoDaddy, Azure, Route53, Google}

ASSUME ProvidersAssumption == Providers \subseteq AllProviders

-----------------------------------------------------------------------------
SolversInit ==
    /\ solver \in [Runs -> SolverTypes]
    /\ keyAuth = [r \in Runs |-> 0]
    /\ port \in [Addrs -> {"free", "other"}]
    /\ provider \in Providers
    /\ records = {}
    /\ recordId = [r \in Runs |-> 0]
    /\ cleaned = [r \in Runs |-> "no"]
    /\ faults = 0

At(a) == {x \in records : x.at = a}
RecordOf(r, i) == [by |-> r, authz |-> i, at |-> AddrOf[r]]

(* The CA, looking where run r put it, finds the key authorization of r's  *)
(* i-th challenge (handle_challenge; the value of a TXT record).           *)
Served(r, i) ==
    IF solver[r] = "dns-01" THEN RecordOf(r, i) \in records
                 ELSE port[AddrOf[r]] = r /\ keyAuth[r] = i

(* Faulty variant: a failing bind is logged and ignored. *)
PrepareServerUnbound(r, i, ok) ==
    /\ solver[r] \in Servers
    /\ ok
    /\ keyAuth' = [keyAuth EXCEPT ![r] = i]
    /\ port' = [port EXCEPT ![AddrOf[r]] = IF @ = "free" THEN r ELSE @]
    /\ UNCHANGED <<solver, provider, records, recordId, cleaned, faults>>

(* prepare() of a server: the key authorization is replaced, then the      *)
(* address is bound.  The HTTP handler reads it for each request; it waits *)
(* for the lock that prepare() holds.  The TLS server has a certificate    *)
(* for the one it was started with.                                        *)
PrepareServer(r, i, ok) ==
    /\ solver[r] \in Servers
    /\ ok = (port[AddrOf[r]] = "free")
    /\ keyAuth' = IF ok \/ solver[r] = "http-01" THEN [keyAuth EXCEPT ![r] = i] ELSE keyAuth
    /\ port' = IF ok THEN [port EXCEPT ![AddrOf[r]] = r] ELSE port
    /\ UNCHANGED <<solver, provider, records, recordId, cleaned, faults>>

(* The request to create the record, when the provider carries it out. *)
Create(r, i) ==
    /\ provider.create = "refuse" => At(AddrOf[r]) = {}
    /\ records' = (IF provider.create = "replace" THEN records \ At(AddrOf[r]) ELSE records)
                    \cup {RecordOf(r, i)}

(* Dns01Solver::prepare.  Creating fails when the provider refuses, or the *)
(* request is lost, or its answer.                                         *)
PrepareDns(r, i, ok) ==
    /\ solver[r] = "dns-01"
    /\ \/ /\ ok
          /\ Create(r, i)
          /\ recordId' = [recordId EXCEPT ![r] = i]
          /\ UNCHANGED faults
       \/ /\ ~ok
          /\ provider.create = "refuse" /\ At(AddrOf[r]) # {}
          /\ UNCHANGED <<records, recordId, faults>>
       \/ /\ ~ok
          /\ Fault
          /\ Create(r, i) \/ UNCHANGED records
          /\ UNCHANGED recordId
    /\ UNCHANGED <<solver, keyAuth, port, provider, cleaned>>

SolverPrepare(r, i, ok) == PrepareServer(r, i, ok) \/ PrepareDns(r, i, ok)

-----------------------------------------------------------------------------
(* Faulty variant: the server's handle is not kept. *)
CleanupServerDetached(r) ==
    /\ solver[r] \in Servers
    /\ keyAuth' = [keyAuth EXCEPT ![r] = 0]
    /\ cleaned' = [cleaned EXCEPT ![r] = "ok"]
    /\ UNCHANGED <<solver, port, provider, records, recordId, faults>>

(* Faulty variant: whatever listens at the address is stopped. *)
CleanupServerByAddress(r) ==
    /\ solver[r] \in Servers
    /\ keyAuth' = [keyAuth EXCEPT ![r] = 0]
    /\ port' = [port EXCEPT ![AddrOf[r]] = "closing"]
    /\ cleaned' = [cleaned EXCEPT ![r] = "ok"]
    /\ UNCHANGED <<solver, provider, records, recordId, faults>>

(* cleanup() of a server: abort() returns before the listener is dropped. *)
CleanupServer(r) ==
    /\ solver[r] \in Servers
    /\ keyAuth' = [keyAuth EXCEPT ![r] = 0]
    /\ port' = [a \in Addrs |-> IF port[a] = r THEN "closing" ELSE port[a]]
    /\ cleaned' = [cleaned EXCEPT ![r] = "ok"]
    /\ UNCHANGED <<solver, provider, records, recordId, faults>>

ServerDropped(a) ==
    /\ port[a] = "closing"
    /\ port' = [port EXCEPT ![a] = "free"]
    /\ UNCHANGED <<solver, keyAuth, provider, records, recordId, cleaned, faults>>

(* Faulty variant: the record is deleted by its name. *)
DoomedByName(r) == At(AddrOf[r])

(* The records that a delete of r's remembered record removes. *)
Doomed(r) ==
    LET mine == {RecordOf(r, recordId[r])} IN
    CASE provider.delete = "record" -> mine
      [] provider.delete = "name" -> At(AddrOf[r])
      [] provider.delete = "exact" -> IF At(AddrOf[r]) = mine THEN mine ELSE {}

(* Dns01Solver::cleanup: the id is taken before the request is sent.       *)
(* Deleting what is not there is an error for some providers.              *)
CleanupDns(r) ==
    /\ solver[r] = "dns-01"
    /\ recordId' = [recordId EXCEPT ![r] = 0]
    /\ \/ /\ recordId[r] = 0
          /\ cleaned' = [cleaned EXCEPT ![r] = "ok"]
          /\ UNCHANGED <<records, faults>>
       \/ /\ recordId[r] # 0
          /\ records' = records \ Doomed(r)
          /\ \E result \in IF Doomed(r) \cap records # {} THEN {"ok"}
                           ELSE IF provider.quiet THEN {"ok"}
                           ELSE {"ok", "error"} :
                cleaned' = [cleaned EXCEPT ![r] = result]
          /\ UNCHANGED faults
       \/ /\ recordId[r] # 0
          /\ Fault
          /\ \E result \in (IF provider.quiet THEN {"ok", "error"} ELSE {"error"}) :
                cleaned' = [cleaned EXCEPT ![r] = result]
          /\ UNCHANGED records
    /\ UNCHANGED <<solver, keyAuth, port, provider>>

SolverCleanup(r) == CleanupServer(r) \/ CleanupDns(r)
=============================================================================
