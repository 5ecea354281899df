------------------------------ MODULE IssueCall ------------------------------
(***************************************************************************)
(* What its callers can rely on of AcmeClient::issue_certificate, and what *)
(* it leaves behind: a call that needs a listening address succeeds only   *)
(* if that address was free for it, and the listener outlives the call     *)
(* and its solver until it is cleaned up or the process ends.  Module      *)
(* Issuance implements this; SimpleRenewal is built on it.                 *)
(***************************************************************************)
CONSTANTS
    Calls,   \* callers, each with one call at a time
    Addrs,   \* listening addresses
    AddrOf   \* AddrOf[c]: the address of the solver in c's registry

ASSUME CallAssumption ==
    /\ AddrOf \in [Calls -> Addrs]
    /\ Calls \cap {"free", "other"} = {}

VARIABLES
    call,    \* "idle", "running", "ok" or "failed"
    binds,   \* binds[c]: does c's solver listen at an address?
    bound,   \* bound[c]: the solver of c's present call listens
    holder   \* holder[a]: whose process listens at a, "other", or "free"

callVars == <<call, binds, bound, holder>>

InitCalls ==
    /\ call = [c \in Calls |-> "idle"]
    /\ binds \in [Calls -> BOOLEAN]
    /\ bound = [c \in Calls |-> FALSE]
    /\ holder \in [Addrs -> {"free", "other"}]

Becomes(c, status) == call' = [call EXCEPT ![c] = status]

Begin(c) ==
    /\ call[c] = "idle"
    /\ Becomes(c, "running")
    /\ UNCHANGED <<binds, bound, holder>>

(* prepare() *)
Bind(c) ==
    /\ call[c] = "running" /\ binds[c]
    /\ holder[AddrOf[c]] = "free"
    /\ bound' = [bound EXCEPT ![c] = TRUE]
    /\ holder' = [holder EXCEPT ![AddrOf[c]] = c]
    /\ UNCHANGED <<call, binds>>

(* Ok(bundle) *)
Succeed(c) ==
    /\ call[c] = "running"
    /\ binds[c] => bound[c]
    /\ Becomes(c, "ok")
    /\ UNCHANGED <<binds, bound, holder>>

Fail(c) ==
    /\ call[c] = "running"
    /\ Becomes(c, "failed")
    /\ UNCHANGED <<binds, bound, holder>>

(* The caller drops the solver: its listener goes on listening. *)
Drop(c) ==
    /\ call[c] \in {"ok", "failed"}
    /\ Becomes(c, "idle")
    /\ bound' = [bound EXCEPT ![c] = FALSE]
    /\ UNCHANGED <<binds, holder>>

(* The caller calls cleanup(): the listener is on its way out. *)
Release(c) ==
    /\ call[c] \in {"ok", "failed"} /\ bound[c]
    /\ bound' = [bound EXCEPT ![c] = FALSE]
    /\ holder' = [holder EXCEPT ![AddrOf[c]] = "other"]
    /\ UNCHANGED <<call, binds>>

Vacate(a) ==
    /\ holder[a] = "other"
    /\ holder' = [holder EXCEPT ![a] = "free"]
    /\ UNCHANGED <<call, binds, bound>>

(* c's process ends, and its listener with it. *)
Die(c) ==
    /\ Becomes(c, "idle")
    /\ bound' = [bound EXCEPT ![c] = FALSE]
    /\ holder' = [a \in Addrs |-> IF holder[a] = c THEN "free" ELSE holder[a]]
    /\ UNCHANGED binds

NextCalls ==
    \/ \E c \in Calls :
          Begin(c) \/ Bind(c) \/ Succeed(c) \/ Fail(c) \/ Drop(c) \/ Release(c) \/ Die(c)
    \/ \E a \in Addrs : Vacate(a)

SpecCalls == InitCalls /\ [][NextCalls]_callVars
=============================================================================
