------------------------- MODULE SimpleRenewalProofs -------------------------
(***************************************************************************)
(* Theorems about SimpleRenewal, for every number of processes and domain  *)
(* sets, every lifetime and renewal window, and every number of failures   *)
(* and crashes.                                                            *)
(***************************************************************************)
EXTENDS SimpleRenewal, TLAPS

-----------------------------------------------------------------------------
(* The state is well formed *)

LEMMA ListIndices == DOMAIN List = 1..Len(List) /\ Len(List) \in Nat
  BY RenewalAssumption

LEMMA ListedDomains == \A i \in DOMAIN List : List[i] \in Domains
  BY DEF Domains

LEMMA TypeInit == Init => TypeOK
<1> SUFFICES ASSUME Init PROVE TypeOK
  OBVIOUS
<1>1. at \in [Calls -> 1..(Len(List) + 1)]
  BY ListIndices DEF Init
<1>2. missed \in [Domains -> 0..RenewBefore] /\ shut \in [Domains -> 0..RenewBefore]
  BY RenewalAssumption DEF Init
<1>3. faults \in 0..MaxFaults /\ crashes \in 0..MaxCrashes
  BY RenewalAssumption DEF Init
<1> QED
  BY <1>1, <1>2, <1>3 DEF Init, InitCalls, TypeOK

(* The calls in progress, as IssueCall keeps them. *)
CallsTyped ==
    /\ call \in [Calls -> {"idle", "running", "ok", "failed"}]
    /\ binds \in [Calls -> BOOLEAN] /\ bound \in [Calls -> BOOLEAN]
    /\ holder \in [Addrs -> Calls \cup {"free", "other"}]

(* The loop itself. *)
LoopTyped ==
    /\ pc \in [Calls -> {"down", "check", "call", "stalled", "saving", "writing", "asleep"}]
    /\ at \in [Calls -> 1..(Len(List) + 1)]
    /\ hook \in [Calls -> {"none", "before", "after", "error"}]

(* What the processes share, and what the observers count. *)
SharedTyped ==
    /\ backend \in {"file", "atomic"}
    /\ cert \in [Domains -> {None, Torn} \cup 0..Lifetime]
    /\ newest \in [Domains -> {None} \cup 0..Lifetime]
    /\ excuse \in [Domains -> {"none", "reported", "ended", "overlapped"}]
    /\ failed \subseteq Domains /\ blocked \subseteq Domains
    /\ missed \in [Domains -> 0..RenewBefore]
    /\ shut \in [Domains -> 0..RenewBefore]
    /\ faults \in 0..MaxFaults /\ crashes \in 0..MaxCrashes

(* The call is in step with the loop. *)
InStep ==
    \A p \in Calls :
        /\ pc[p] \in {"check", "asleep", "down"} => call[p] = "idle"
        /\ pc[p] \in {"saving", "writing"} => call[p] = "ok"
        /\ pc[p] = "call" => call[p] \in {"running", "failed"} /\ hook[p] = "before"
        /\ pc[p] = "stalled" => call[p] = "running"

LEMMA TypeParts == TypeOK <=> CallsTyped /\ LoopTyped /\ SharedTyped /\ InStep
  BY DEF TypeOK, CallsTyped, LoopTyped, SharedTyped, InStep

LEMMA CallsTypedNext ==
    ASSUME CallsTyped, NextCalls \/ UNCHANGED callVars
    PROVE  CallsTyped'
<1>1. CASE UNCHANGED callVars
  BY <1>1 DEF CallsTyped, callVars
<1>2. ASSUME NEW c \in Calls, Begin(c) \/ Succeed(c) \/ Fail(c) PROVE CallsTyped'
  BY <1>2 DEF CallsTyped, Begin, Succeed, Fail, Becomes
<1>3. ASSUME NEW c \in Calls, Bind(c) PROVE CallsTyped'
  BY <1>3, CallAssumption DEF CallsTyped, Bind
<1>4. ASSUME NEW c \in Calls, Drop(c) PROVE CallsTyped'
  BY <1>4 DEF CallsTyped, Drop, Becomes
<1>5. ASSUME NEW c \in Calls, Release(c) PROVE CallsTyped'
  BY <1>5 DEF CallsTyped, Release
<1>6. ASSUME NEW c \in Calls, Die(c) PROVE CallsTyped'
  BY <1>6 DEF CallsTyped, Die, Becomes
<1>7. ASSUME NEW a \in Addrs, Vacate(a) PROVE CallsTyped'
  BY <1>7 DEF CallsTyped, Vacate
<1> QED
  BY <1>1, <1>2, <1>3, <1>4, <1>5, <1>6, <1>7 DEF NextCalls

(* The steps of the loop, by what each does to the call that it makes. *)
LEMMA StepsUseCalls ==
    ASSUME [Next]_renewalVars
    PROVE  NextCalls \/ UNCHANGED callVars
<1>1. CASE UNCHANGED renewalVars
  BY <1>1 DEF renewalVars, callVars
<1>2. ASSUME NEW p \in Calls, NEW d \in Domains,
             CheckDue(p, d)
      PROVE  NextCalls
  BY <1>2 DEF CheckDue, NextCalls
<1>3. ASSUME NEW p \in Calls, NEW d \in Domains,
             CheckNotDue(p, d) \/ CheckFails(p, d) \/ SaveOpen(p, d)
      PROVE  UNCHANGED callVars
  BY <1>3 DEF CheckNotDue, CheckFails, SaveOpen
<1>4. ASSUME NEW p \in Calls, NEW d \in Domains,
             \/ Issued(p, d) \/ AddressTaken(p, d) \/ CallFails(p, d)
             \/ ReportFailure(p, d) \/ Save(p, d) \/ SaveFails(p, d)
      PROVE  NextCalls
  BY <1>4 DEF Issued, AddressTaken, CallFails, ReportFailure, Save, SaveFails, NextCalls
<1>5. ASSUME NEW p \in Calls, Prepare(p) PROVE NextCalls
  BY <1>5 DEF Prepare, NextCalls
<1>6. ASSUME NEW p \in Calls, CallStalls(p) \/ Sleep(p) \/ Restart(p)
      PROVE  UNCHANGED callVars
  BY <1>6 DEF CallStalls, Sleep, Restart
<1>7. ASSUME NEW p \in Calls, Crash(p) PROVE NextCalls
  BY <1>7 DEF Crash, NextCalls
<1>8. CASE Tick
  BY <1>8 DEF Tick
<1> QED
  BY <1>1, <1>2, <1>3, <1>4, <1>5, <1>6, <1>7, <1>8 DEF Next, Round

LEMMA LoopTypedNext ==
    ASSUME LoopTyped, [Next]_renewalVars
    PROVE  LoopTyped'
<1>1. CASE UNCHANGED renewalVars
  BY <1>1 DEF LoopTyped, renewalVars
<1>2. ASSUME NEW p \in Calls, NEW d \in Domains,
             CheckDue(p, d) \/ SaveOpen(p, d)
      PROVE  LoopTyped'
  BY <1>2 DEF LoopTyped, CheckDue, SaveOpen, Goto, Calling
<1>3. ASSUME NEW p \in Calls, NEW d \in Domains, At(p, d), NextDomains(p)
      PROVE  /\ pc' \in [Calls -> {"down", "check", "call", "stalled", "saving",
                                     "writing", "asleep"}]
             /\ at' \in [Calls -> 1..(Len(List) + 1)]
  <2>1. at[p] + 1 \in 1..(Len(List) + 1)
    BY <1>3, ListIndices DEF At
  <2> QED
    BY <1>3, <2>1 DEF LoopTyped, NextDomains, Goto
<1>4. ASSUME NEW p \in Calls, NEW d \in Domains,
             CheckNotDue(p, d) \/ CheckFails(p, d) \/ ReportFailure(p, d)
      PROVE  LoopTyped'
  BY <1>3, <1>4 DEF LoopTyped, CheckNotDue, CheckFails, ReportFailure, Calling
<1>5. ASSUME NEW p \in Calls, NEW d \in Domains,
             Save(p, d) \/ SaveFails(p, d)
      PROVE  LoopTyped'
  <2>1. At(p, d) /\ NextDomains(p)
    BY <1>5 DEF Save, SaveFails, InHand
  <2>2. hook' \in [Calls -> {"none", "before", "after", "error"}]
    BY <1>5 DEF LoopTyped, Save, SaveFails, Calling
  <2> QED
    BY <1>3, <2>1, <2>2 DEF LoopTyped
<1>6. ASSUME NEW p \in Calls, NEW d \in Domains,
             Issued(p, d) \/ AddressTaken(p, d) \/ CallFails(p, d)
      PROVE  LoopTyped'
  BY <1>6 DEF LoopTyped, Issued, AddressTaken, CallFails, Goto, loopVars
<1>7. ASSUME NEW p \in Calls, Prepare(p) \/ CallStalls(p) \/ Sleep(p) \/ Crash(p)
      PROVE  LoopTyped'
  BY <1>7 DEF LoopTyped, Prepare, CallStalls, Sleep, Crash, Goto, loopVars
<1>8. ASSUME NEW p \in Calls, Restart(p) PROVE LoopTyped'
  BY <1>8, ListIndices DEF LoopTyped, Restart, Goto
<1>9. CASE Tick
  <2>1. at' \in [Calls -> 1..(Len(List) + 1)]
    BY <1>9, ListIndices DEF Tick
  <2> QED
    BY <1>9, <2>1 DEF LoopTyped, Tick
<1> QED
  BY <1>1, <1>2, <1>4, <1>5, <1>6, <1>7, <1>8, <1>9 DEF Next, Round

LEMMA SharedTypedNext ==
    ASSUME SharedTyped, [Next]_renewalVars
    PROVE  SharedTyped'
<1> USE RenewalAssumption
<1>1. CASE UNCHANGED renewalVars
  BY <1>1 DEF SharedTyped, renewalVars
<1>2. ASSUME Fault PROVE faults' \in 0..MaxFaults
  BY <1>2 DEF SharedTyped, Fault
<1>3. ASSUME NEW p \in Calls, NEW d \in Domains,
             CheckDue(p, d) \/ CheckNotDue(p, d) \/ SaveOpen(p, d) \/ AddressTaken(p, d)
      PROVE  SharedTyped'
  BY <1>3 DEF SharedTyped, CheckDue, CheckNotDue, SaveOpen, AddressTaken, Calling,
      bundleVars, chanceVars
<1>4. ASSUME NEW p \in Calls, NEW d \in Domains,
             CheckFails(p, d) \/ CallFails(p, d) \/ ReportFailure(p, d) \/ SaveFails(p, d)
      PROVE  SharedTyped'
  BY <1>2, <1>4 DEF SharedTyped, CheckFails, CallFails, ReportFailure, SaveFails, Calling,
      Excused, Fails, bundleVars, chanceVars
<1>9. ASSUME NEW p \in Calls, NEW d \in Domains, Issued(p, d) PROVE SharedTyped'
  BY <1>9 DEF SharedTyped, Issued, Excused, chanceVars
<1>5. ASSUME NEW p \in Calls, NEW d \in Domains, Save(p, d)
      PROVE  SharedTyped'
  <2>1. cert' \in [Domains -> {None, Torn} \cup 0..Lifetime]
    <3>1. PICK value \in {Lifetime, Torn} : cert' = [cert EXCEPT ![d] = value]
      BY <1>5 DEF Save
    <3>2. value \in {None, Torn} \cup 0..Lifetime
      OBVIOUS
    <3> QED
      BY <3>1, <3>2 DEF SharedTyped
  <2>2. missed' \in [Domains -> 0..RenewBefore] /\ shut' \in [Domains -> 0..RenewBefore]
    <3>1. missed' = [missed EXCEPT ![d] = 0] /\ shut' = [shut EXCEPT ![d] = 0]
      BY <1>5 DEF Save
    <3> QED
      BY <3>1 DEF SharedTyped
  <2>3. excuse' \in [Domains -> {"none", "reported", "ended", "overlapped"}]
    BY <1>5 DEF SharedTyped, Save, Calling, Excused
  <2> QED
    <3>1. /\ failed' = failed \ {d} /\ blocked' = blocked \ {d}
          /\ UNCHANGED <<backend, newest, faults, crashes>>
      BY <1>5 DEF Save
    <3> QED
      BY <3>1, <2>1, <2>2, <2>3 DEF SharedTyped
<1>6. ASSUME NEW p \in Calls,
             Prepare(p) \/ CallStalls(p) \/ Sleep(p) \/ Restart(p)
      PROVE  SharedTyped'
  BY <1>2, <1>6 DEF SharedTyped, Prepare, CallStalls, Sleep, Restart, bundleVars, chanceVars
<1>7. ASSUME NEW p \in Calls, Crash(p) PROVE SharedTyped'
  BY <1>7 DEF SharedTyped, Crash, chanceVars
<1>8. CASE Tick
  <2>1. \A left \in {None, Torn} \cup 0..Lifetime :
           /\ Older(left) \in {None, Torn} \cup 0..Lifetime
           /\ left # Torn => Older(left) # Torn
    BY DEF Older
  <2>2. cert' \in [Domains -> {None, Torn} \cup 0..Lifetime]
    BY <1>8, <2>1 DEF SharedTyped, Tick
  <2>3. newest' \in [Domains -> {None} \cup 0..Lifetime]
    BY <1>8, <2>1 DEF SharedTyped, Tick
  <2>4. ASSUME NEW d \in Domains, InWindow(d)
        PROVE  missed[d] + 1 \in 0..RenewBefore /\ shut[d] + 1 \in 0..RenewBefore
    <3>1. missed[d] \in 0..RenewBefore /\ shut[d] \in 0..RenewBefore
      BY DEF SharedTyped
    <3>2. missed[d] + shut[d] < RenewBefore
      BY <2>4 DEF InWindow
    <3> QED
      BY <3>1, <3>2
  <2>5. missed' \in [Domains -> 0..RenewBefore] /\ shut' \in [Domains -> 0..RenewBefore]
    BY <1>8, <2>4 DEF SharedTyped, Tick
  <2> QED
    BY <1>8, <2>2, <2>3, <2>5 DEF SharedTyped, Tick
<1> QED
  BY <1>1, <1>3, <1>4, <1>5, <1>6, <1>7, <1>8, <1>9 DEF Next, Round

LEMMA InStepNext ==
    ASSUME CallsTyped, LoopTyped, InStep, [Next]_renewalVars
    PROVE  InStep'
<1>1. CASE UNCHANGED renewalVars
  BY <1>1 DEF InStep, renewalVars
<1>2. ASSUME NEW p \in Calls, NEW d \in Domains, CheckDue(p, d) PROVE InStep'
  BY <1>2 DEF CallsTyped, LoopTyped, InStep, CheckDue, Begin, Becomes, Goto, Calling
<1>3. ASSUME NEW p \in Calls, NEW d \in Domains,
             CheckNotDue(p, d) \/ CheckFails(p, d)
      PROVE  InStep'
  BY <1>3 DEF LoopTyped, InStep, CheckNotDue, CheckFails, NextDomains, Goto, callVars
<1>4. ASSUME NEW p \in Calls, NEW d \in Domains, SaveOpen(p, d) PROVE InStep'
  BY <1>4 DEF LoopTyped, InStep, SaveOpen, Goto, callVars
<1>5. ASSUME NEW p \in Calls, NEW d \in Domains,
             ReportFailure(p, d) \/ Save(p, d) \/ SaveFails(p, d)
      PROVE  InStep'
  <2>1. pc' = [pc EXCEPT ![p] = "check"] /\ call' = [call EXCEPT ![p] = "idle"]
    BY <1>5 DEF ReportFailure, Save, SaveFails, NextDomains, Goto, Drop, Becomes
  <2>2. \E h \in {"error", "after"} : hook' = [hook EXCEPT ![p] = h]
    BY <1>5 DEF ReportFailure, Save, SaveFails, Calling
  <2> QED
    BY <2>1, <2>2 DEF CallsTyped, LoopTyped, InStep
<1>6. ASSUME NEW p \in Calls, NEW d \in Domains,
             Issued(p, d) \/ AddressTaken(p, d) \/ CallFails(p, d)
      PROVE  InStep'
  BY <1>6 DEF CallsTyped, LoopTyped, InStep, Issued, AddressTaken, CallFails, Succeed, Fail,
      Becomes, Goto, loopVars
<1>10. ASSUME NEW p \in Calls, Prepare(p) PROVE InStep'
  BY <1>10 DEF InStep, Prepare, Bind, loopVars
<1>7. ASSUME NEW p \in Calls, CallStalls(p) \/ Sleep(p) \/ Restart(p) PROVE InStep'
  BY <1>7 DEF CallsTyped, LoopTyped, InStep, CallStalls, Sleep, Restart, Goto, callVars
<1>8. ASSUME NEW p \in Calls, Crash(p) PROVE InStep'
  BY <1>8 DEF CallsTyped, LoopTyped, InStep, Crash, Die, Becomes, Goto
<1>9. CASE Tick
  BY <1>9 DEF InStep, Tick, callVars
<1> QED
  BY <1>1, <1>2, <1>3, <1>4, <1>5, <1>6, <1>7, <1>8, <1>9, <1>10 DEF Next, Round

-----------------------------------------------------------------------------
(* No certificate is lost unreported *)

(* Nothing is issued for a domain set while a process has a bundle of it   *)
(* in hand but what is as new, and no interval goes by.                    *)
NewInHand ==
    \A p \in Calls : \A d \in Domains : InHand(p, d) => newest[d] = Lifetime

BundlesInv == NewInHand /\ LossIsReported

(* What a step does not concern. *)
Untouched(d) ==
    /\ cert'[d] = cert[d] /\ newest'[d] = newest[d] /\ excuse'[d] = excuse[d]
    /\ \A p \in Calls : InHand(p, d)' <=> InHand(p, d)

(* A step that concerns one domain set and accounts for its certificate. *)
LEMMA BundlesKept ==
    ASSUME BundlesInv, NEW d \in Domains, \A e \in Domains \ {d} : Untouched(e),
           \A p \in Calls : InHand(p, d)' => newest'[d] = Lifetime,
           cert'[d] = newest'[d] \/ (\E p \in Calls : InHand(p, d)') \/ excuse'[d] # "none"
    PROVE  BundlesInv'
<1>1. ASSUME NEW e \in Domains, NEW p \in Calls, InHand(p, e)' PROVE newest'[e] = Lifetime
  BY <1>1 DEF BundlesInv, NewInHand, Untouched
<1>2. ASSUME NEW e \in Domains
      PROVE  cert'[e] = newest'[e] \/ (\E p \in Calls : InHand(p, e)') \/ excuse'[e] # "none"
  BY DEF BundlesInv, LossIsReported, Untouched
<1> QED
  BY <1>1, <1>2 DEF BundlesInv, NewInHand, LossIsReported

(* A step of the loop of a process with nothing in hand. *)
LEMMA BundlesIdle ==
    ASSUME LoopTyped, BundlesInv, UNCHANGED <<cert, newest, excuse>>,
           NEW p \in Calls, pc[p] \notin {"saving", "writing"},
           \/ UNCHANGED pc
           \/ \E label \in {"call", "stalled", "check", "asleep"} : Goto(p, label),
           \A q \in Calls : q # p => at'[q] = at[q]
    PROVE  BundlesInv'
<1>1. pc'[p] \notin {"saving", "writing"} /\ \A q \in Calls : q # p => pc'[q] = pc[q]
  BY DEF LoopTyped, Goto
<1>2. \A q \in Calls : \A d \in Domains : InHand(q, d)' <=> InHand(q, d)
  BY <1>1 DEF InHand, At
<1> QED
  BY <1>2 DEF BundlesInv, NewInHand, LossIsReported

LEMMA BundlesNext ==
    ASSUME LoopTyped, SharedTyped, BundlesInv, [Next]_renewalVars
    PROVE  BundlesInv'
<1>1. CASE UNCHANGED renewalVars
  BY <1>1 DEF BundlesInv, NewInHand, LossIsReported, InHand, At, renewalVars
<1>2. ASSUME NEW p \in Calls, NEW d \in Domains,
             CheckDue(p, d) \/ CheckNotDue(p, d) \/ CheckFails(p, d)
             \/ AddressTaken(p, d) \/ CallFails(p, d)
      PROVE  BundlesInv'
  <2>1. UNCHANGED <<cert, newest, excuse>> /\ pc[p] \in {"check", "call"}
    BY <1>2 DEF CheckDue, CheckNotDue, CheckFails, AddressTaken, CallFails, Calling, bundleVars
  <2>2. UNCHANGED pc \/ \E label \in {"call", "check"} : Goto(p, label)
    BY <1>2 DEF CheckDue, CheckNotDue, CheckFails, AddressTaken, CallFails, NextDomains, loopVars
  <2>3. \A q \in Calls : q # p => at'[q] = at[q]
    BY <1>2 DEF LoopTyped, CheckDue, CheckNotDue, CheckFails, AddressTaken, CallFails,
        NextDomains, loopVars
  <2> QED
    BY <2>1, <2>2, <2>3, BundlesIdle
<1>3. ASSUME NEW p \in Calls, Prepare(p) \/ CallStalls(p) \/ Sleep(p) PROVE BundlesInv'
  <2>1. UNCHANGED <<cert, newest, excuse, at>> /\ pc[p] \in {"check", "call"}
    BY <1>3 DEF Prepare, CallStalls, Sleep, bundleVars, loopVars
  <2>2. UNCHANGED pc \/ \E label \in {"stalled", "asleep"} : Goto(p, label)
    BY <1>3 DEF Prepare, CallStalls, Sleep, loopVars
  <2> QED
    BY <2>1, <2>2, BundlesIdle
<1>4. ASSUME NEW p \in Calls, Restart(p) PROVE BundlesInv'
  <2>1. UNCHANGED <<cert, newest, excuse>> /\ pc[p] = "down" /\ Goto(p, "check")
        /\ \A q \in Calls : q # p => at'[q] = at[q]
    BY <1>4 DEF LoopTyped, Restart, bundleVars
  <2> QED
    BY <2>1, BundlesIdle
<1>5. ASSUME NEW p \in Calls, NEW d \in Domains, At(p, d),
             \A q \in Calls : q # p => pc'[q] = pc[q] /\ at'[q] = at[q],
             UNCHANGED at \/ pc'[p] \notin {"saving", "writing"}
      PROVE  /\ \A e \in Domains : e # d =>
                   \A q \in Calls : InHand(q, e)' <=> InHand(q, e)
             /\ \A q \in Calls : q # p => (InHand(q, d)' <=> InHand(q, d))
  BY <1>5 DEF InHand, At
<1>6. ASSUME NEW p \in Calls, NEW d \in Domains, Issued(p, d) PROVE BundlesInv'
  <2>1. /\ At(p, d) /\ UNCHANGED at /\ pc'[p] = "saving" /\ UNCHANGED cert
        /\ \A q \in Calls : q # p => pc'[q] = pc[q]
        /\ \A e \in Domains : newest'[e] = IF e = d THEN Lifetime ELSE newest[e]
        /\ \A e \in Domains : e # d => excuse'[e] = excuse[e]
    BY <1>6 DEF LoopTyped, SharedTyped, Issued, Goto, Excused
  <2>2. \A e \in Domains \ {d} : Untouched(e)
    BY <1>5, <2>1 DEF Untouched
  <2>3. InHand(p, d)' /\ newest'[d] = Lifetime
    BY <2>1 DEF InHand, At
  <2> QED
    BY <2>2, <2>3, BundlesKept
<1>7. ASSUME NEW p \in Calls, NEW d \in Domains, SaveOpen(p, d) PROVE BundlesInv'
  <2>1. /\ At(p, d) /\ UNCHANGED at /\ pc[p] = "saving" /\ pc'[p] = "writing"
        /\ \A q \in Calls : q # p => pc'[q] = pc[q]
        /\ \A e \in Domains : e # d => cert'[e] = cert[e]
        /\ UNCHANGED <<newest, excuse>>
    BY <1>7 DEF LoopTyped, SharedTyped, SaveOpen, Goto, bundleVars
  <2>2. \A e \in Domains \ {d} : Untouched(e)
    BY <1>5, <2>1 DEF Untouched
  <2>3. InHand(p, d)' /\ newest'[d] = Lifetime
    BY <2>1 DEF InHand, At, BundlesInv, NewInHand
  <2> QED
    BY <2>2, <2>3, BundlesKept
<1>8. ASSUME NEW p \in Calls, NEW d \in Domains,
             ReportFailure(p, d) \/ Save(p, d) \/ SaveFails(p, d)
      PROVE  BundlesInv'
  <2>1. /\ At(p, d) /\ pc'[p] = "check"
        /\ \A q \in Calls : q # p => pc'[q] = pc[q] /\ at'[q] = at[q]
    BY <1>8 DEF LoopTyped, ReportFailure, Save, SaveFails, InHand, NextDomains, Goto
  <2>2. /\ UNCHANGED newest
        /\ \A e \in Domains : e # d => cert'[e] = cert[e] /\ excuse'[e] = excuse[e]
    BY <1>8 DEF SharedTyped, ReportFailure, Save, SaveFails, Calling, Excused
  <2>3. \A e \in Domains \ {d} : Untouched(e)
    BY <1>5, <2>1, <2>2 DEF Untouched
  <2>4. \A q \in Calls : InHand(q, d)' => newest'[d] = Lifetime
    BY <1>5, <2>1, <2>2 DEF InHand, BundlesInv, NewInHand
  <2>5. cert'[d] = newest'[d] \/ excuse'[d] # "none"
    <3>1. CASE ReportFailure(p, d) \/ SaveFails(p, d)
      BY <3>1 DEF SharedTyped, ReportFailure, SaveFails, Calling, Excused
    <3>2. CASE Save(p, d)
      <4>1. InHand(p, d)
        BY <3>2 DEF Save, InHand
      <4>2. newest[d] = Lifetime
        BY <4>1 DEF BundlesInv, NewInHand
      <4>3. cert'[d] = Lifetime \/ excuse'[d] = "overlapped"
        BY <3>2 DEF SharedTyped, Save, Excused
      <4> QED
        BY <2>2, <4>2, <4>3
    <3> QED
      BY <1>8, <3>1, <3>2
  <2> QED
    BY <2>3, <2>4, <2>5, BundlesKept
<1>9. ASSUME NEW p \in Calls, Crash(p) PROVE BundlesInv'
  <2>1. /\ UNCHANGED <<cert, newest, at>> /\ pc'[p] = "down"
        /\ \A q \in Calls : q # p => pc'[q] = pc[q]
        /\ \A d \in Domains : excuse'[d] = IF InHand(p, d) THEN "ended" ELSE excuse[d]
    BY <1>9 DEF LoopTyped, Crash, Goto
  <2>2. \A q \in Calls : \A d \in Domains : InHand(q, d)' <=> q # p /\ InHand(q, d)
    BY <2>1 DEF InHand, At
  <2>3. NewInHand'
    BY <2>1, <2>2 DEF BundlesInv, NewInHand
  <2>4. ASSUME NEW d \in Domains
        PROVE  cert'[d] = newest'[d] \/ (\E q \in Calls : InHand(q, d)') \/ excuse'[d] # "none"
    BY <2>1, <2>2 DEF BundlesInv, LossIsReported
  <2> QED
    BY <2>3, <2>4 DEF BundlesInv, LossIsReported
<1>10. CASE Tick
  <2>1. \A p \in Calls : \A d \in Domains : ~InHand(p, d) /\ ~InHand(p, d)'
    BY <1>10 DEF LoopTyped, Tick, InHand
  <2>2. ASSUME NEW d \in Domains PROVE cert'[d] = newest'[d] \/ excuse'[d] # "none"
    BY <1>10, <2>1 DEF BundlesInv, LossIsReported, Tick
  <2> QED
    BY <2>1, <2>2 DEF BundlesInv, NewInHand, LossIsReported
<1> QED
  BY <1>1, <1>2, <1>3, <1>4, <1>6, <1>7, <1>8, <1>9, <1>10 DEF Next, Round

StateInv == CallsTyped /\ LoopTyped /\ SharedTyped /\ InStep /\ BundlesInv

LEMMA StateInvariant == Spec => []StateInv
<1>1. Init => StateInv
  BY TypeInit, TypeParts DEF Init, StateInv, BundlesInv, NewInHand, LossIsReported, InHand
<1>2. StateInv /\ [Next]_renewalVars => StateInv'
  BY StepsUseCalls, CallsTypedNext, LoopTypedNext, SharedTypedNext, InStepNext, BundlesNext
     DEF StateInv
<1> QED
  BY <1>1, <1>2, PTL DEF Spec

(* A certificate that the CA has issued is in the store, or in the hands   *)
(* of a process, or on_error was called about it: what is left is the end  *)
(* of the process that had it, and two that write to the file together.    *)
THEOREM NoLossUnreported == Spec => []LossIsReported
<1>1. StateInv => LossIsReported
  BY DEF StateInv, BundlesInv
<1> QED
  BY <1>1, StateInvariant, PTL

(* The variables keep their types, and every call is in step with the loop *)
(* that makes it: SimpleRenewalScheduler::run starts no call while it has  *)
(* one, and leaves none behind when it goes on with the list.              *)
THEOREM TypeCorrect == Spec => []TypeOK
<1>1. StateInv => TypeOK
  BY TypeParts DEF StateInv
<1> QED
  BY <1>1, StateInvariant, PTL

(* Whatever the loops do, their calls and listeners go only through steps  *)
(* that IssueCall allows; Issuance implements it (CallImplemented), so the *)
(* loop may be understood with it in the place of the client.              *)
THEOREM CallsAreUsedRight == Spec => SpecCalls
<1>1. Init => InitCalls
  BY DEF Init
<1>2. [Next]_renewalVars => [NextCalls]_callVars
  BY StepsUseCalls
<1> QED
  BY <1>1, <1>2, PTL DEF Spec, SpecCalls

-----------------------------------------------------------------------------
(* No certificate expires without a cause *)

(* Domain sets that have been tried in this interval, in vain. *)
Handled == failed \cup blocked

(* A loop that is running has tried what was due up to its place in the    *)
(* list, and one that sleeps all of it: what is due there still has failed *)
(* in this interval, or found its address taken.                           *)
Asleep == \A p \in Calls : pc[p] = "asleep" => at[p] = Len(List) + 1
Tried ==
    \A p \in Calls : Looping(p) =>
        \A i \in 1..Len(List) : i < at[p] /\ Due(List[i]) => List[i] \in Handled

(* So has the one whose failure is about to be reported. *)
FailedCalls ==
    \A p \in Calls : \A d \in Domains :
        pc[p] = "call" /\ call[p] = "failed" /\ At(p, d) /\ Due(d) => d \in Handled

(* In its renewal window, a certificate has lost a chance for every        *)
(* interval that it has lost.                                              *)
Windows ==
    \A d \in Domains :
        /\ missed[d] + shut[d] <= RenewBefore
        /\ Readable(d) /\ cert[d] <= RenewBefore => missed[d] + shut[d] + cert[d] >= RenewBefore

ExpiryInv == Asleep /\ Tried /\ FailedCalls /\ Windows

LEMMA NewIsNotDue ==
    /\ Lifetime \notin {None, Torn} /\ ~(Lifetime <= RenewBefore)
    /\ None # Torn
  BY RenewalAssumption

(* Within an interval nothing becomes due, and what is due and was tried   *)
(* stays tried.                                                            *)
DueKept == \A d \in Domains : Due(d)' => Due(d) /\ (d \in Handled => d \in Handled')

LEMMA DueKeptNext ==
    ASSUME StateInv, [Next]_renewalVars, ~Tick
    PROVE  DueKept
<1> USE DEF StateInv
<1>1. CASE UNCHANGED renewalVars
  BY <1>1 DEF DueKept, Due, Readable, Handled, renewalVars
<1>2. ASSUME UNCHANGED cert, failed \subseteq failed', blocked \subseteq blocked' PROVE DueKept
  BY <1>2 DEF DueKept, Due, Readable, Handled
<1>3. ASSUME NEW p \in Calls, NEW d \in Domains,
             \/ CheckDue(p, d) \/ CheckNotDue(p, d) \/ Issued(p, d) \/ AddressTaken(p, d)
             \/ ReportFailure(p, d)
      PROVE  DueKept
  BY <1>2, <1>3 DEF CheckDue, CheckNotDue, Issued, AddressTaken, ReportFailure, chanceVars
<1>4. ASSUME NEW p \in Calls, NEW d \in Domains,
             CheckFails(p, d) \/ CallFails(p, d) \/ SaveFails(p, d)
      PROVE  DueKept
  BY <1>2, <1>4 DEF CheckFails, CallFails, SaveFails, Fails
<1>5. ASSUME NEW p \in Calls, NEW d \in Domains, SaveOpen(p, d) PROVE DueKept
  <2>1. /\ ~Due(d)' /\ UNCHANGED <<failed, blocked>>
        /\ \A e \in Domains : e # d => cert'[e] = cert[e]
    BY <1>5, NewIsNotDue DEF SharedTyped, SaveOpen, Due, Readable, chanceVars
  <2> QED
    BY <2>1 DEF DueKept, Due, Readable, Handled
<1>6. ASSUME NEW p \in Calls, NEW d \in Domains, Save(p, d) PROVE DueKept
  <2>1. PICK written \in {Lifetime, Torn} : cert' = [cert EXCEPT ![d] = written]
    BY <1>6 DEF Save
  <2>2. ~Due(d)' /\ \A e \in Domains : e # d => cert'[e] = cert[e]
    BY <2>1, NewIsNotDue DEF SharedTyped, Due, Readable
  <2>3. \A e \in Domains : e # d => (e \in Handled => e \in Handled')
    BY <1>6 DEF Save, Handled
  <2> QED
    BY <2>2, <2>3 DEF DueKept, Due, Readable
<1>7. ASSUME NEW p \in Calls,
             Prepare(p) \/ CallStalls(p) \/ Sleep(p) \/ Crash(p) \/ Restart(p)
      PROVE  DueKept
  BY <1>2, <1>7 DEF Prepare, CallStalls, Sleep, Crash, Restart, chanceVars
<1> QED
  BY <1>1, <1>3, <1>4, <1>5, <1>6, <1>7 DEF Next, Round

(* A step after which nobody has come further in the list leaves what was  *)
(* tried tried.                                                            *)
LEMMA TriedKept ==
    ASSUME Tried, DueKept,
           \A p \in Calls : Looping(p)' => at'[p] = 1 \/ (Looping(p) /\ at'[p] = at[p])
    PROVE  Tried'
<1> SUFFICES ASSUME NEW p \in Calls, Looping(p)',
                    NEW i \in 1..Len(List), i < at'[p], Due(List[i])'
             PROVE  List[i] \in Handled'
  BY DEF Tried
<1>1. List[i] \in Domains
  BY ListIndices, ListedDomains
<1>2. at'[p] # 1
  BY ListIndices
<1>3. Due(List[i]) /\ (List[i] \in Handled => List[i] \in Handled')
  BY <1>1 DEF DueKept
<1> QED
  BY <1>2, <1>3 DEF Tried

(* The same when p goes on to the next domain set and d, the present one,  *)
(* is not due any more, or has failed.                                     *)
LEMMA TriedNext ==
    ASSUME LoopTyped, Tried, DueKept,
           NEW p \in Calls, NEW d \in Domains, Looping(p), At(p, d), NextDomains(p),
           Due(d)' => d \in Handled'
    PROVE  Tried'
<1> SUFFICES ASSUME NEW q \in Calls, Looping(q)',
                    NEW i \in 1..Len(List), i < at'[q], Due(List[i])'
             PROVE  List[i] \in Handled'
  BY DEF Tried
<1>1. /\ List[i] \in Domains
      /\ Due(List[i]) /\ (List[i] \in Handled => List[i] \in Handled')
  BY ListIndices, ListedDomains DEF DueKept
<1>2. CASE List[i] = d
  BY <1>2
<1>3. CASE List[i] # d
  <2>1. Looping(q)
    BY DEF LoopTyped, NextDomains, Goto, Looping
  <2>2. q # p => i < at[q]
    BY DEF LoopTyped, NextDomains
  <2>3. CASE q = p
    <3>1. at'[p] = at[p] + 1 /\ at[p] \in Nat /\ List[at[p]] = d
      BY ListIndices DEF LoopTyped, NextDomains, At
    <3>2. i # at[p]
      BY <1>3, <3>1
    <3>3. i < at[p]
      BY <2>3, <3>1, <3>2, ListIndices
    <3> QED
      BY <1>1, <2>1, <2>3, <3>3 DEF Tried
  <2> QED
    BY <1>1, <2>1, <2>2, <2>3 DEF Tried
<1> QED
  BY <1>2, <1>3

LEMMA TriedInvNext ==
    ASSUME StateInv, ExpiryInv, [Next]_renewalVars
    PROVE  Tried'
<1> USE DEF ExpiryInv, StateInv
<1>1. CASE UNCHANGED renewalVars
  BY <1>1 DEF Tried, Looping, Due, Readable, Handled, renewalVars
<1>2. CASE Tick
  BY <1>2, ListIndices DEF Tried, Tick
<1>3. ASSUME ~Tick PROVE DueKept
  BY <1>3, DueKeptNext
<1>4. ASSUME NEW p \in Calls, NEW d \in Domains, ~Tick, CheckNotDue(p, d) PROVE Tried'
  <2>1. Looping(p) /\ At(p, d) /\ NextDomains(p) /\ ~Due(d)'
    BY <1>4 DEF CheckNotDue, Looping, Due, Readable
  <2> QED
    BY <1>3, <1>4, <2>1, TriedNext
<1>5. ASSUME NEW p \in Calls, NEW d \in Domains, ~Tick, CheckFails(p, d) \/ SaveFails(p, d)
      PROVE  Tried'
  <2>1. Looping(p) /\ At(p, d) /\ NextDomains(p) /\ d \in Handled'
    BY <1>5 DEF CheckFails, SaveFails, Fails, Looping, InHand, Handled
  <2> QED
    BY <1>3, <1>5, <2>1, TriedNext
<1>6. ASSUME NEW p \in Calls, NEW d \in Domains, ~Tick, ReportFailure(p, d) PROVE Tried'
  <2>1. /\ pc[p] = "call" /\ call[p] = "failed" /\ At(p, d) /\ NextDomains(p)
        /\ UNCHANGED <<cert, failed, blocked>>
    BY <1>6 DEF ReportFailure, chanceVars
  <2>2. Looping(p) /\ (Due(d)' => d \in Handled')
    BY <2>1 DEF FailedCalls, Looping, Due, Readable, Handled
  <2> QED
    BY <1>3, <1>6, <2>1, <2>2, TriedNext
<1>7. ASSUME NEW p \in Calls, NEW d \in Domains, ~Tick, Save(p, d) PROVE Tried'
  <2>1. PICK written \in {Lifetime, Torn} : cert' = [cert EXCEPT ![d] = written]
    BY <1>7 DEF Save
  <2>2. ~Due(d)'
    BY <2>1, NewIsNotDue DEF SharedTyped, Due, Readable
  <2>3. Looping(p) /\ At(p, d) /\ NextDomains(p)
    BY <1>7 DEF Save, Looping
  <2> QED
    BY <1>3, <1>7, <2>2, <2>3, TriedNext
<1>8. ASSUME NEW p \in Calls, NEW d \in Domains, ~Tick,
             \/ CheckDue(p, d) \/ Issued(p, d) \/ AddressTaken(p, d) \/ CallFails(p, d)
             \/ SaveOpen(p, d)
      PROVE  Tried'
  <2>1. UNCHANGED at /\ \A q \in Calls : Looping(q)' => Looping(q)
    BY <1>8 DEF LoopTyped, CheckDue, Issued, AddressTaken, CallFails, SaveOpen, Goto, Looping,
        loopVars
  <2> QED
    BY <1>3, <1>8, <2>1, TriedKept
<1>9. ASSUME NEW p \in Calls, ~Tick,
             Prepare(p) \/ CallStalls(p) \/ Sleep(p) \/ Crash(p) \/ Restart(p)
      PROVE  Tried'
  <2>1. \A q \in Calls : Looping(q)' => at'[q] = 1 \/ (Looping(q) /\ at'[q] = at[q])
    BY <1>9 DEF LoopTyped, Prepare, CallStalls, Sleep, Crash, Restart, Goto, Looping, loopVars
  <2> QED
    BY <1>3, <1>9, <2>1, TriedKept
<1> QED
  BY <1>1, <1>2, <1>4, <1>5, <1>6, <1>7, <1>8, <1>9 DEF Next, Round

LEMMA FailedCallsNext ==
    ASSUME StateInv, ExpiryInv, [Next]_renewalVars
    PROVE  FailedCalls'
<1> USE DEF ExpiryInv, StateInv
<1>1. CASE UNCHANGED renewalVars
  BY <1>1 DEF FailedCalls, At, Due, Readable, Handled, renewalVars
<1>2. CASE Tick
  BY <1>2 DEF LoopTyped, FailedCalls, Tick
<1>3. ASSUME ~Tick,
             \A p \in Calls : pc'[p] = "call" /\ call'[p] = "failed" =>
                pc[p] = "call" /\ call[p] = "failed" /\ at'[p] = at[p]
      PROVE  FailedCalls'
  <2>1. DueKept
    BY <1>3, DueKeptNext
  <2> QED
    BY <1>3, <2>1 DEF FailedCalls, DueKept, At
<1>4. ASSUME NEW p \in Calls, NEW d \in Domains, ~Tick, CheckDue(p, d) PROVE FailedCalls'
  <2>1. call'[p] = "running" /\ \A q \in Calls : q # p => call'[q] = call[q] /\ pc'[q] = pc[q]
    BY <1>4 DEF CallsTyped, LoopTyped, CheckDue, Begin, Becomes, Goto
  <2>2. UNCHANGED at
    BY <1>4 DEF CheckDue
  <2> QED
    BY <1>3, <1>4, <2>1, <2>2
<1>5. ASSUME NEW p \in Calls, ~Tick, pc'[p] # "call",
             \A q \in Calls : q # p => pc'[q] = pc[q] /\ call'[q] = call[q] /\ at'[q] = at[q]
      PROVE  FailedCalls'
  BY <1>3, <1>5
<1>6. ASSUME NEW p \in Calls, NEW d \in Domains, ~Tick,
             \/ CheckNotDue(p, d) \/ CheckFails(p, d) \/ ReportFailure(p, d)
             \/ Save(p, d) \/ SaveFails(p, d)
      PROVE  FailedCalls'
  <2>1. /\ pc'[p] = "check"
        /\ \A q \in Calls : q # p => pc'[q] = pc[q] /\ at'[q] = at[q]
    BY <1>6 DEF LoopTyped, CheckNotDue, CheckFails, ReportFailure, Save, SaveFails,
        NextDomains, Goto
  <2>2. \A q \in Calls : q # p => call'[q] = call[q]
    BY <1>6 DEF CallsTyped, CheckNotDue, CheckFails, ReportFailure, Save, SaveFails,
        Drop, Becomes, callVars
  <2> QED
    BY <1>5, <1>6, <2>1, <2>2
<1>7. ASSUME NEW p \in Calls, NEW d \in Domains, ~Tick, Issued(p, d) \/ SaveOpen(p, d)
      PROVE  FailedCalls'
  <2>1. /\ pc'[p] \in {"saving", "writing"} /\ UNCHANGED at
        /\ \A q \in Calls : q # p => pc'[q] = pc[q] /\ call'[q] = call[q]
    BY <1>7 DEF CallsTyped, LoopTyped, Issued, SaveOpen, Goto, Succeed, Becomes, callVars
  <2> QED
    BY <1>5, <1>7, <2>1
<1>8. ASSUME NEW p \in Calls, NEW d \in Domains, ~Tick, AddressTaken(p, d) \/ CallFails(p, d)
      PROVE  FailedCalls'
  <2>1. /\ At(p, d) /\ UNCHANGED <<pc, at>> /\ d \in Handled'
        /\ \A q \in Calls : q # p => call'[q] = call[q]
    BY <1>8 DEF CallsTyped, AddressTaken, CallFails, Fails, Fail, Becomes, Handled, loopVars
  <2>2. DueKept
    BY <1>8, DueKeptNext
  <2>3. ASSUME NEW q \in Calls, NEW e \in Domains, pc'[q] = "call", call'[q] = "failed",
               At(q, e)', Due(e)'
        PROVE  e \in Handled'
    <3>1. CASE q = p
      BY <2>1, <2>3, <3>1 DEF At
    <3>2. CASE q # p
      BY <2>1, <2>2, <2>3, <3>2 DEF FailedCalls, DueKept, At
    <3> QED
      BY <3>1, <3>2
  <2> QED
    BY <2>3 DEF FailedCalls
<1>9. ASSUME NEW p \in Calls, ~Tick, Prepare(p) PROVE FailedCalls'
  <2>1. UNCHANGED <<pc, at, call>>
    BY <1>9 DEF Prepare, Bind, loopVars
  <2> QED
    BY <1>3, <1>9, <2>1
<1>10. ASSUME NEW p \in Calls, ~Tick, CallStalls(p) \/ Sleep(p) \/ Crash(p) \/ Restart(p)
       PROVE  FailedCalls'
  <2>1. /\ pc'[p] # "call"
        /\ \A q \in Calls : q # p => pc'[q] = pc[q] /\ call'[q] = call[q] /\ at'[q] = at[q]
    BY <1>10 DEF CallsTyped, LoopTyped, CallStalls, Sleep, Crash, Restart, Goto, Die, Becomes,
        callVars
  <2> QED
    BY <1>5, <1>10, <2>1
<1> QED
  BY <1>1, <1>2, <1>4, <1>6, <1>7, <1>8, <1>9, <1>10 DEF Next, Round

LEMMA AsleepNext ==
    ASSUME StateInv, ExpiryInv, [Next]_renewalVars
    PROVE  Asleep'
<1> USE DEF ExpiryInv, StateInv
<1>1. CASE UNCHANGED renewalVars
  BY <1>1 DEF Asleep, renewalVars
<1>2. ASSUME NEW p \in Calls,
             NEW label \in {"check", "call", "stalled", "saving", "writing", "down"},
             Goto(p, label), \A q \in Calls : q # p => at'[q] = at[q]
      PROVE  Asleep'
  BY <1>2 DEF LoopTyped, Asleep, Goto
<1>3. ASSUME NEW p \in Calls, NEW d \in Domains,
             CheckDue(p, d) \/ Issued(p, d) \/ SaveOpen(p, d)
      PROVE  Asleep'
  BY <1>2, <1>3 DEF CheckDue, Issued, SaveOpen
<1>4. ASSUME NEW p \in Calls, NEW d \in Domains,
             \/ CheckNotDue(p, d) \/ CheckFails(p, d)
             \/ ReportFailure(p, d) \/ Save(p, d) \/ SaveFails(p, d)
      PROVE  Asleep'
  <2>1. NextDomains(p)
    BY <1>4 DEF CheckNotDue, CheckFails, ReportFailure, Save, SaveFails
  <2> QED
    BY <1>2, <2>1 DEF LoopTyped, NextDomains
<1>5. ASSUME NEW p \in Calls, NEW d \in Domains,
             AddressTaken(p, d) \/ CallFails(p, d)
      PROVE  Asleep'
  BY <1>5 DEF Asleep, AddressTaken, CallFails, loopVars
<1>9. ASSUME NEW p \in Calls, Prepare(p) PROVE Asleep'
  BY <1>9 DEF Asleep, Prepare, loopVars
<1>6. ASSUME NEW p \in Calls, CallStalls(p) \/ Crash(p) \/ Restart(p) PROVE Asleep'
  BY <1>2, <1>6 DEF LoopTyped, CallStalls, Crash, Restart
<1>7. ASSUME NEW p \in Calls, Sleep(p) PROVE Asleep'
  BY <1>7 DEF LoopTyped, Asleep, Sleep, Goto
<1>8. CASE Tick
  BY <1>8 DEF LoopTyped, Asleep, Tick
<1> QED
  BY <1>1, <1>3, <1>4, <1>5, <1>6, <1>7, <1>8, <1>9 DEF Next, Round

(* What is due when an interval goes by has lost a chance in it. *)
LEMMA DueWasTried ==
    ASSUME StateInv, ExpiryInv, Tick, NEW d \in Domains, Due(d), ~Misses(d)
    PROVE  d \in blocked
<1>1. PICK p \in Calls : Looping(p)
  BY DEF Misses
<1>2. pc[p] = "asleep" /\ at[p] = Len(List) + 1
  BY <1>1 DEF Tick, Looping, ExpiryInv, Asleep
<1>3. PICK i \in 1..Len(List) : d = List[i]
  BY ListIndices DEF Domains
<1>4. i < at[p]
  BY <1>2, ListIndices
<1>5. d \in Handled
  BY <1>1, <1>3, <1>4 DEF ExpiryInv, Tried
<1> QED
  BY <1>5 DEF Handled, Misses

LEMMA WindowsNext ==
    ASSUME StateInv, ExpiryInv, [Next]_renewalVars
    PROVE  Windows'
<1> USE DEF ExpiryInv, StateInv
<1>1. ASSUME UNCHANGED <<cert, missed, shut>> PROVE Windows'
  BY <1>1 DEF Windows, Readable
<1>2. CASE UNCHANGED renewalVars
  BY <1>1, <1>2 DEF renewalVars
<1>3. ASSUME NEW p \in Calls, NEW d \in Domains,
             \/ CheckDue(p, d) \/ CheckNotDue(p, d) \/ Issued(p, d) \/ AddressTaken(p, d)
             \/ ReportFailure(p, d)
      PROVE  Windows'
  BY <1>1, <1>3 DEF CheckDue, CheckNotDue, Issued, AddressTaken, ReportFailure, chanceVars
<1>4. ASSUME NEW p \in Calls, NEW d \in Domains,
             CheckFails(p, d) \/ CallFails(p, d) \/ SaveFails(p, d)
      PROVE  Windows'
  BY <1>1, <1>4 DEF CheckFails, CallFails, SaveFails, Fails
<1>5. ASSUME NEW p \in Calls, NEW d \in Domains, SaveOpen(p, d) PROVE Windows'
  <2>1. /\ UNCHANGED <<missed, shut>> /\ ~Readable(d)'
        /\ \A e \in Domains : e # d => cert'[e] = cert[e]
    BY <1>5 DEF SharedTyped, SaveOpen, Readable, chanceVars
  <2> QED
    BY <2>1 DEF Windows, Readable
<1>6. ASSUME NEW p \in Calls, NEW d \in Domains, Save(p, d) PROVE Windows'
  <2>1. PICK written \in {Lifetime, Torn} : cert' = [cert EXCEPT ![d] = written]
    BY <1>6 DEF Save
  <2>2. ~(Readable(d)' /\ cert'[d] <= RenewBefore) /\ missed'[d] = 0 /\ shut'[d] = 0
    BY <1>6, <2>1, NewIsNotDue DEF SharedTyped, Save, Readable
  <2>3. \A e \in Domains : e # d =>
           cert'[e] = cert[e] /\ missed'[e] = missed[e] /\ shut'[e] = shut[e]
    BY <1>6, <2>1 DEF SharedTyped, Save
  <2>4. 0 + 0 <= RenewBefore
    BY RenewalAssumption
  <2> QED
    BY <2>2, <2>3, <2>4 DEF Windows, Readable
<1>7. ASSUME NEW p \in Calls,
             Prepare(p) \/ CallStalls(p) \/ Sleep(p) \/ Crash(p) \/ Restart(p)
      PROVE  Windows'
  BY <1>1, <1>7 DEF Prepare, CallStalls, Sleep, Crash, Restart, chanceVars
<1>8. CASE Tick
  <2> SUFFICES ASSUME NEW d \in Domains
               PROVE  /\ missed'[d] + shut'[d] <= RenewBefore
                      /\ Readable(d)' /\ cert'[d] <= RenewBefore
                            => missed'[d] + shut'[d] + cert'[d] >= RenewBefore
    BY DEF Windows
  <2>1. /\ missed[d] \in Nat /\ shut[d] \in Nat /\ missed[d] + shut[d] <= RenewBefore
        /\ missed'[d] = IF InWindow(d) /\ Misses(d) THEN missed[d] + 1 ELSE missed[d]
        /\ shut'[d] = IF InWindow(d) /\ ~Misses(d) /\ d \in blocked THEN shut[d] + 1 ELSE shut[d]
    BY <1>8 DEF SharedTyped, Windows, Tick
  <2>2. missed'[d] + shut'[d] = missed[d] + shut[d] + (IF InWindow(d) THEN 1 ELSE 0)
    <3>1. CASE InWindow(d)
      BY <1>8, <2>1, <3>1, DueWasTried DEF InWindow
    <3>2. CASE ~InWindow(d)
      BY <2>1, <3>2
    <3> QED
      BY <3>1, <3>2
  <2>3. InWindow(d) => missed[d] + shut[d] < RenewBefore
    BY DEF InWindow
  <2>4. missed'[d] + shut'[d] <= RenewBefore
    BY <2>1, <2>2, <2>3, RenewalAssumption
  <2>5. missed'[d] \in Nat /\ shut'[d] \in Nat
    BY <2>1
  <2>6. ASSUME Readable(d)', cert'[d] <= RenewBefore
        PROVE  missed'[d] + shut'[d] + cert'[d] >= RenewBefore
    <3>1. Readable(d) /\ cert[d] \in 0..Lifetime
      BY <1>8, <2>6 DEF SharedTyped, Tick, Readable, Older
    <3>2. cert'[d] = IF cert[d] > 0 THEN cert[d] - 1 ELSE cert[d]
      BY <1>8, <3>1 DEF Tick, Readable, Older
    <3>3. CASE cert[d] > RenewBefore
      <4>1. cert'[d] >= RenewBefore /\ cert'[d] \in Nat
        BY <3>1, <3>2, <3>3, RenewalAssumption
      <4> QED
        BY <2>5, <4>1, RenewalAssumption
    <3>4. CASE cert[d] <= RenewBefore
      <4>1. missed[d] + shut[d] + cert[d] >= RenewBefore
        BY <3>1, <3>4 DEF Windows
      <4>2. ~InWindow(d) => missed[d] + shut[d] >= RenewBefore
        BY <2>1, <3>1, <3>4, RenewalAssumption DEF InWindow, Due
      <4>3. cert'[d] \in Nat /\ cert'[d] + 1 >= cert[d]
        BY <3>1, <3>2
      <4>4. CASE InWindow(d)
        <5>1. missed'[d] + shut'[d] = missed[d] + shut[d] + 1
          BY <2>2, <4>4
        <5> QED
          BY <2>1, <2>5, <3>1, <4>1, <4>3, <5>1, RenewalAssumption
      <4>5. CASE ~InWindow(d)
        <5>1. missed'[d] + shut'[d] = missed[d] + shut[d]
          BY <2>1, <2>2, <4>5
        <5>2. missed'[d] + shut'[d] >= RenewBefore
          BY <4>2, <4>5, <5>1
        <5> QED
          BY <2>5, <4>3, <5>2, RenewalAssumption
      <4> QED
        BY <4>4, <4>5
    <3> QED
      BY <3>1, <3>3, <3>4, RenewalAssumption
  <2> QED
    BY <2>4, <2>6
<1> QED
  BY <1>2, <1>3, <1>4, <1>5, <1>6, <1>7, <1>8 DEF Next, Round

LEMMA ExpiryInvariant == Spec => []ExpiryInv
<1>1. Init => ExpiryInv
  <2> SUFFICES ASSUME Init PROVE ExpiryInv
    OBVIOUS
  <2>1. Windows
    BY RenewalAssumption DEF Init, Windows, Readable
  <2> QED
    BY <2>1, ListIndices DEF Init, ExpiryInv, Asleep, Tried, FailedCalls
<1>2. StateInv /\ ExpiryInv /\ [Next]_renewalVars => ExpiryInv'
  BY TriedInvNext, FailedCallsNext, AsleepNext, WindowsNext DEF ExpiryInv
<1> QED
  BY <1>1, <1>2, StateInvariant, PTL DEF Spec

(* The scheduler lets a certificate expire only if in every interval of    *)
(* its renewal window its own renewal has failed, no loop was running, or  *)
(* the address of its call was taken: the address is the only thing by     *)
(* which another domain set costs it a chance.                             *)
THEOREM NothingExpiresUnnoticed == Spec => []ExpiryHasCause
<1>1. StateInv /\ ExpiryInv => ExpiryHasCause
  <2> SUFFICES ASSUME StateInv, ExpiryInv, NEW d \in Domains, cert[d] = 0
               PROVE  missed[d] + shut[d] = RenewBefore
    BY DEF ExpiryHasCause
  <2>0. 0 \in 0..Lifetime /\ 0 <= RenewBefore
    BY RenewalAssumption
  <2>1. Readable(d) /\ cert[d] <= RenewBefore
    BY <2>0, RenewalAssumption DEF Readable
  <2>2. /\ missed[d] + shut[d] + cert[d] >= RenewBefore
        /\ missed[d] + shut[d] <= RenewBefore
    BY <2>1 DEF ExpiryInv, Windows
  <2>3. missed[d] \in Nat /\ shut[d] \in Nat
    BY DEF StateInv, SharedTyped
  <2> QED
    BY <2>2, <2>3, RenewalAssumption
<1> QED
  BY <1>1, StateInvariant, ExpiryInvariant, PTL
=============================================================================
