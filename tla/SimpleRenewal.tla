---------------------------- MODULE SimpleRenewal ----------------------------
(***************************************************************************)
(* SimpleRenewalScheduler::run (src/renewal/mod.rs): processes that go     *)
(* through their list of domain sets, renew what is due with an            *)
(* issue_certificate call (module IssueCall) and save it in the store they *)
(* share, then sleep.  Each process is one of the Calls: its calls use the *)
(* default HTTP-01 solver, which is never cleaned up, so that its listener *)
(* is in the way of every later call of the process.                       *)
(*                                                                         *)
(* Time is counted in check intervals.  A certificate is known by the      *)
(* intervals it has left.  A round takes no time beside an interval, and   *)
(* a process that is up has finished its round before the next interval    *)
(* begins, unless a request of its call is never answered: the client sets *)
(* no timeout.                                                             *)
(***************************************************************************)
EXTENDS IssueCall, Naturals, Sequences

CONSTANTS
    List,         \* domains_list
    Lifetime,     \* intervals that a new certificate is valid for
    RenewBefore,  \* renew_before
    MaxFaults,    \* bound: failing calls, loads and saves
    MaxCrashes,   \* bound: ends of a process
    None, Torn    \* no file; a file that does not parse

Domains == {List[i] : i \in DOMAIN List}

ASSUME RenewalAssumption ==
    /\ List \in Seq(Domains)
    /\ Lifetime \in Nat /\ RenewBefore \in Nat /\ RenewBefore < Lifetime
    /\ MaxFaults \in Nat /\ MaxCrashes \in Nat
    /\ None # Torn /\ {None, Torn} \cap 0..Lifetime = {}

VARIABLES
    backend,  \* what is under the store: "file", or "atomic" (Redis)
    cert,     \* cert[d]: intervals left of the stored certificate, None or Torn
    pc,       \* where each process is: "down", "check", "call", "stalled", "saving",
              \* "writing" or "asleep"
    at,       \* at[p]: index in the list
    hook,     \* the last hook that p has called: "none", "before", "after", "error"
    newest,   \* newest[d]: intervals left of the last certificate that the CA has
              \* issued for d, or None
    excuse,   \* observer: excuse[d], what has become of a bundle of d since that one was
              \* issued: "none", "reported", "ended" with its process, "overlapped"
    failed,   \* observer: domain sets whose own renewal has failed in this interval
    blocked,  \* observer: domain sets whose call has found its address taken in it
    missed,   \* observer: missed[d], intervals of the renewal window that d has lost
              \* because its own renewal failed or no loop was running
    shut,     \* observer: shut[d], those that it has lost to a taken address only
    faults, crashes

loopVars == <<pc, at, hook>>
bundleVars == <<newest, excuse>>
chanceVars == <<failed, blocked, missed, shut>>
renewalVars == <<call, binds, bound, holder, backend, cert, pc, at, hook, newest, excuse,
                 failed, blocked, missed, shut, faults, crashes>>

Readable(d) == cert[d] \notin {None, Torn}
At(p, d) == at[p] \in DOMAIN List /\ List[at[p]] = d
InHand(p, d) == pc[p] \in {"saving", "writing"} /\ At(p, d)
Looping(p) == pc[p] \notin {"down", "stalled"}

Init ==
    /\ InitCalls
    /\ \A c \in Calls : binds[c]
    /\ backend \in {"file", "atomic"}
    /\ cert = [d \in Domains |-> None]
    /\ pc = [p \in Calls |-> "check"]
    /\ at = [p \in Calls |-> 1]
    /\ hook = [p \in Calls |-> "none"]
    /\ newest = [d \in Domains |-> None]
    /\ excuse = [d \in Domains |-> "none"]
    /\ failed = {} /\ blocked = {}
    /\ missed = [d \in Domains |-> 0]
    /\ shut = [d \in Domains |-> 0]
    /\ faults = 0 /\ crashes = 0

Fault == faults < MaxFaults /\ faults' = faults + 1
Goto(p, label) == pc' = [pc EXCEPT ![p] = label]
Fails(d) == failed' = failed \cup {d} /\ UNCHANGED <<blocked, missed, shut>>
Excused(d, why) == excuse' = [excuse EXCEPT ![d] = why]

(* A hook is called about d: on_error reports, after_renewal says that all *)
(* is well.                                                                *)
Calling(p, d, which) ==
    /\ hook' = [hook EXCEPT ![p] = which]
    /\ \/ which = "before" /\ UNCHANGED excuse
       \/ which = "error" /\ Excused(d, "reported")
       \/ which = "after" /\ Excused(d, "none")

(* The loop over the list goes on, with the same or with the next one. *)
NextDomains(p) == Goto(p, "check") /\ at' = [at EXCEPT ![p] = @ + 1]

-----------------------------------------------------------------------------
(* needs_renewal: there is no certificate, it has expired, or the time of  *)
(* expiry less renew_before has come.                                      *)
Due(d) == cert[d] = None \/ (Readable(d) /\ cert[d] <= RenewBefore)

CheckDue(p, d) ==
    /\ pc[p] = "check" /\ At(p, d)
    /\ Due(d)
    /\ Calling(p, d, "before")
    /\ Begin(p)
    /\ Goto(p, "call")
    /\ UNCHANGED <<backend, cert, at, newest, chanceVars, faults, crashes>>

CheckNotDue(p, d) ==
    /\ pc[p] = "check" /\ At(p, d)
    /\ Readable(d) /\ ~Due(d)
    /\ NextDomains(p)
    /\ UNCHANGED <<callVars, backend, cert, hook, bundleVars, chanceVars, faults, crashes>>

(* Faulty variant: an error of needs_renewal ends the round. *)
CheckFailsRound(p, d) ==
    /\ pc[p] = "check" /\ At(p, d)
    /\ (cert[d] = Torn /\ UNCHANGED faults) \/ Fault
    /\ Fails(d)
    /\ at' = [at EXCEPT ![p] = Len(List) + 1]
    /\ UNCHANGED <<callVars, backend, cert, pc, hook, bundleVars, crashes>>

(* The bundle cannot be loaded, or what was loaded cannot be parsed: the   *)
(* error is logged, no hook is called.                                     *)
CheckFails(p, d) ==
    /\ pc[p] = "check" /\ At(p, d)
    /\ (cert[d] = Torn /\ UNCHANGED faults) \/ Fault
    /\ Fails(d)
    /\ NextDomains(p)
    /\ UNCHANGED <<callVars, backend, cert, hook, bundleVars, crashes>>

-----------------------------------------------------------------------------
(* renew *)

Prepare(p) ==
    /\ pc[p] = "call"
    /\ Bind(p)
    /\ UNCHANGED <<backend, cert, loopVars, bundleVars, chanceVars, faults, crashes>>

Issued(p, d) ==
    /\ pc[p] = "call" /\ At(p, d)
    /\ Succeed(p)
    /\ newest' = [newest EXCEPT ![d] = Lifetime]
    /\ Excused(d, "none")
    /\ Goto(p, "saving")
    /\ UNCHANGED <<backend, cert, at, hook, chanceVars, faults, crashes>>

(* prepare() finds the address taken, by a listener that an earlier call   *)
(* of a process has left, or by another program.                           *)
AddressTaken(p, d) ==
    /\ pc[p] = "call" /\ At(p, d)
    /\ ~bound[p] /\ holder[AddrOf[p]] # "free"
    /\ Fail(p)
    /\ blocked' = blocked \cup {d}
    /\ UNCHANGED <<backend, cert, loopVars, bundleVars, failed, missed, shut, faults, crashes>>

CallFails(p, d) ==
    /\ pc[p] = "call" /\ At(p, d)
    /\ Fault
    /\ Fail(p)
    /\ Fails(d)
    /\ UNCHANGED <<backend, cert, loopVars, bundleVars, crashes>>

(* A request of the call is never answered, and the whole loop waits. *)
CallStalls(p) ==
    /\ pc[p] = "call" /\ call[p] = "running"
    /\ Fault
    /\ Goto(p, "stalled")
    /\ UNCHANGED <<callVars, backend, cert, at, hook, bundleVars, chanceVars, crashes>>

(* Faulty variant: the same domain set is tried again at once. *)
ReportFailureAgain(p, d) ==
    /\ pc[p] = "call" /\ At(p, d) /\ call[p] = "failed"
    /\ Drop(p)
    /\ Calling(p, d, "error")
    /\ Goto(p, "check")
    /\ UNCHANGED <<backend, cert, at, newest, chanceVars, faults, crashes>>

ReportFailure(p, d) ==
    /\ pc[p] = "call" /\ At(p, d) /\ call[p] = "failed"
    /\ Drop(p)
    /\ Calling(p, d, "error")
    /\ NextDomains(p)
    /\ UNCHANGED <<backend, cert, newest, chanceVars, faults, crashes>>

(* FileStorage::store opens and truncates the file before it writes. *)
SaveOpen(p, d) ==
    /\ pc[p] = "saving" /\ At(p, d)
    /\ backend = "file"
    /\ cert' = [cert EXCEPT ![d] = Torn]
    /\ Goto(p, "writing")
    /\ UNCHANGED <<callVars, backend, at, hook, bundleVars, chanceVars, faults, crashes>>

(* The bundle is written and after_renewal called; if another process has  *)
(* written to the file since it was opened, the end of that bundle may     *)
(* stay behind this one, which nobody notices.                             *)
Save(p, d) ==
    /\ pc[p] = (IF backend = "file" THEN "writing" ELSE "saving") /\ At(p, d)
    /\ \/ /\ cert' = [cert EXCEPT ![d] = Lifetime]
          /\ Calling(p, d, "after")
       \/ /\ pc[p] = "writing" /\ cert[d] # Torn
          /\ cert' = [cert EXCEPT ![d] = Torn]
          /\ hook' = [hook EXCEPT ![p] = "after"] /\ Excused(d, "overlapped")
    /\ missed' = [missed EXCEPT ![d] = 0] /\ shut' = [shut EXCEPT ![d] = 0]
    /\ failed' = failed \ {d} /\ blocked' = blocked \ {d}
    /\ Drop(p)
    /\ NextDomains(p)
    /\ UNCHANGED <<backend, newest, faults, crashes>>

(* Faulty variant: the result of save is ignored. *)
SaveFailsSilently(p, d) ==
    /\ InHand(p, d)
    /\ Fault
    /\ Drop(p)
    /\ Calling(p, d, "after")
    /\ Fails(d)
    /\ NextDomains(p)
    /\ UNCHANGED <<backend, cert, newest, crashes>>

(* The bundle is dropped with the error that on_error is called with. *)
SaveFails(p, d) ==
    /\ InHand(p, d)
    /\ Fault
    /\ Drop(p)
    /\ Calling(p, d, "error")
    /\ Fails(d)
    /\ NextDomains(p)
    /\ UNCHANGED <<backend, cert, newest, crashes>>

-----------------------------------------------------------------------------
Sleep(p) ==
    /\ pc[p] = "check" /\ at[p] = Len(List) + 1
    /\ Goto(p, "asleep")
    /\ UNCHANGED <<callVars, backend, cert, at, hook, bundleVars, chanceVars, faults, crashes>>

Older(left) == IF left \notin {None, Torn, 0} THEN left - 1 ELSE left

(* In its renewal window, with a chance in this interval to be renewed. *)
InWindow(d) == Readable(d) /\ Due(d) /\ missed[d] + shut[d] < RenewBefore
Misses(d) == d \in failed \/ \A p \in Calls : ~Looping(p)

(* An interval goes by. *)
Tick ==
    /\ \A p \in Calls : pc[p] \in {"asleep", "down", "stalled"}
    /\ cert' = [d \in Domains |-> Older(cert[d])]
    /\ newest' = [d \in Domains |-> Older(newest[d])]
    /\ missed' = [d \in Domains |->
                    IF InWindow(d) /\ Misses(d) THEN missed[d] + 1 ELSE missed[d]]
    /\ shut' = [d \in Domains |->
                  IF InWindow(d) /\ ~Misses(d) /\ d \in blocked THEN shut[d] + 1 ELSE shut[d]]
    /\ failed' = {} /\ blocked' = {}
    /\ pc' = [p \in Calls |-> IF pc[p] = "asleep" THEN "check" ELSE pc[p]]
    /\ at' = [p \in Calls |-> 1]
    /\ UNCHANGED <<callVars, backend, hook, excuse, faults, crashes>>

(* A process ends, with the bundle that it has in hand. *)
Crash(p) ==
    /\ pc[p] # "down"
    /\ crashes < MaxCrashes
    /\ crashes' = crashes + 1
    /\ Die(p)
    /\ Goto(p, "down")
    /\ excuse' = [d \in Domains |-> IF InHand(p, d) THEN "ended" ELSE excuse[d]]
    /\ UNCHANGED <<backend, cert, at, hook, newest, chanceVars, faults>>

Restart(p) ==
    /\ pc[p] = "down"
    /\ Goto(p, "check")
    /\ at' = [at EXCEPT ![p] = 1]
    /\ hook' = [hook EXCEPT ![p] = "none"]
    /\ UNCHANGED <<callVars, backend, cert, bundleVars, chanceVars, faults, crashes>>

-----------------------------------------------------------------------------
Round(p) ==
    \/ \E d \in Domains :
          \/ CheckDue(p, d) \/ CheckNotDue(p, d) \/ CheckFails(p, d)
          \/ Issued(p, d) \/ AddressTaken(p, d) \/ CallFails(p, d)
          \/ ReportFailure(p, d) \/ SaveOpen(p, d) \/ Save(p, d) \/ SaveFails(p, d)
    \/ Prepare(p) \/ CallStalls(p) \/ Sleep(p)

Next ==
    \/ \E p \in Calls : Round(p) \/ Crash(p) \/ Restart(p)
    \/ Tick

Spec == Init /\ [][Next]_renewalVars

(* A process that is up runs, and a call that has not stalled returns      *)
(* (EveryRunEnds of module Issuance).  Nothing restarts a process.         *)
FairSpec == Spec /\ \A p \in Calls : WF_renewalVars(Round(p))

-----------------------------------------------------------------------------
(* Properties *)

(* Type invariant, with the call in step with the loop. *)
TypeOK ==
    /\ backend \in {"file", "atomic"}
    /\ cert \in [Domains -> {None, Torn} \cup 0..Lifetime]
    /\ pc \in [Calls -> {"down", "check", "call", "stalled", "saving", "writing", "asleep"}]
    /\ at \in [Calls -> 1..(Len(List) + 1)]
    /\ hook \in [Calls -> {"none", "before", "after", "error"}]
    /\ newest \in [Domains -> {None} \cup 0..Lifetime]
    /\ excuse \in [Domains -> {"none", "reported", "ended", "overlapped"}]
    /\ failed \subseteq Domains /\ blocked \subseteq Domains
    /\ missed \in [Domains -> 0..RenewBefore]
    /\ shut \in [Domains -> 0..RenewBefore]
    /\ faults \in 0..MaxFaults /\ crashes \in 0..MaxCrashes
    /\ \A p \in Calls :
          /\ pc[p] \in {"check", "asleep", "down"} => call[p] = "idle"
          /\ pc[p] \in {"saving", "writing"} => call[p] = "ok"
          /\ pc[p] = "call" => call[p] \in {"running", "failed"} /\ hook[p] = "before"
          /\ pc[p] = "stalled" => call[p] = "running"
    /\ call \in [Calls -> {"idle", "running", "ok", "failed"}]
    /\ binds \in [Calls -> BOOLEAN] /\ bound \in [Calls -> BOOLEAN]
    /\ holder \in [Addrs -> Calls \cup {"free", "other"}]

(* A certificate expires only if in every interval of its renewal window   *)
(* its own renewal has failed, or no loop was running (its process had     *)
(* ended, or waited for an answer that never came), or the address of its  *)
(* call was taken: neither errors with other domain sets, nor records of   *)
(* theirs that cannot be read, nor the end of one process of several cost  *)
(* it a chance, and the window is as long as it was set.  What one domain  *)
(* set does cost another is the address: see ExpiresOnlyByFailure.         *)
ExpiryHasCause == \A d \in Domains : cert[d] = 0 => missed[d] + shut[d] = RenewBefore

(* "ensure that certificates never expire": where nothing fails, no        *)
(* process ends and no other program has the address, no certificate does. *)
ExpiresOnlyByFailure ==
    faults = 0 /\ crashes = 0 /\ (\A a \in Addrs : holder[a] # "other") =>
        \A d \in Domains : cert[d] # 0

(* No certificate is lost unreported: the store holds the last one that    *)
(* the CA has issued for d, or a process has one in hand, or since then    *)
(* on_error was called about d, a process has ended with its bundle, or    *)
(* two processes wrote to the file together.                               *)
LossIsReported ==
    \A d \in Domains :
        cert[d] = newest[d] \/ (\E p \in Calls : InHand(p, d)) \/ excuse[d] # "none"

(* Every round ends, whatever fails in it: the other domain sets get their *)
(* turn, in this interval and the next, unless a request is never          *)
(* answered.                                                               *)
RoundsEnd == \A p \in Calls : pc[p] = "check" ~> pc[p] \in {"asleep", "down", "stalled"}
=============================================================================
