---------------------------- MODULE LimitsProofs ----------------------------
(***************************************************************************)
(* The token bucket keeps to its rate, for every capacity, rate and        *)
(* demand; and the limiter counts its guards and is exceeded by racing     *)
(* threads only, for any number of tasks and threads and any limit.        *)
(***************************************************************************)
EXTENDS Limits, FiniteSetTheorems, TLAPS

-----------------------------------------------------------------------------
(* TokenBucket *)

(* The products, which the steps below take as given. *)
LEMMA CreditArith ==
    /\ Credit(0) = 0
    /\ \A n \in Nat : Credit(n) \in Nat /\ Credit(n + 1) = Credit(n) + Rate
BY BucketAssumption DEF Credit

LEMMA CreditFacts ==
    ASSUME TypeOK
    PROVE  /\ Pending \in Nat
           /\ Credit(Pending) \in Nat
           /\ Credit(window) \in Nat
           /\ Refilled \in 0..MaxTokens
<1>1. Pending \in Nat
  BY DEF TypeOK, Pending
<1>2. Credit(Pending) \in Nat /\ Credit(window) \in Nat
  BY <1>1, CreditArith DEF TypeOK
<1> QED BY <1>1, <1>2, BucketAssumption DEF TypeOK, Refilled, AtMost

LEMMA TypeInit == Init => TypeOK
BY BucketAssumption DEF Init, TypeOK

LEMMA TypeStep == TypeOK /\ [Next]_vars => TypeOK'
<1> SUFFICES ASSUME TypeOK, [Next]_vars PROVE TypeOK'
  OBVIOUS
<1> USE BucketAssumption DEF TypeOK
<1>1. ASSUME NEW c \in Callers, Begin(c) PROVE TypeOK'
  BY <1>1 DEF Begin
<1>2. ASSUME NEW c \in Callers, AcquireOk(c) PROVE TypeOK'
  <2>1. Demand[c] \in Nat /\ Refilled \in 0..MaxTokens
    BY CreditFacts
  <2>2. tokens' \in 0..MaxTokens
    BY <1>2, <2>1 DEF AcquireOk
  <2>3. granted' \in Nat
    BY <1>2, <2>1 DEF AcquireOk
  <2> QED BY <1>2, <2>2, <2>3 DEF AcquireOk
<1>3. ASSUME NEW c \in Callers, AcquireFail(c) PROVE TypeOK'
  BY <1>3, CreditFacts DEF AcquireFail
<1>4. ASSUME NEW c \in Callers, Retry(c) PROVE TypeOK'
  BY <1>4 DEF Retry
<1>5. ASSUME Tick PROVE TypeOK'
  BY <1>5 DEF Tick
<1>6. ASSUME SetBack PROVE TypeOK'
  BY <1>6 DEF SetBack
<1>7. ASSUME BeginWindow PROVE TypeOK'
  BY <1>7 DEF BeginWindow
<1>8. ASSUME UNCHANGED vars PROVE TypeOK'
  BY <1>8 DEF vars
<1> QED BY <1>1, <1>2, <1>3, <1>4, <1>5, <1>6, <1>7, <1>8 DEF Next

LEMMA BucketInit == Init => BucketInv
<1> SUFFICES ASSUME Init PROVE BucketInv
  OBVIOUS
<1>1. Pending = 0 /\ Credit(Pending) = 0 /\ Credit(window) = 0
  BY CreditArith DEF Init, Pending
<1> QED BY <1>1, BucketAssumption DEF Init, BucketInv, Refilled, AtMost

LEMMA BucketStep == TypeOK /\ BucketInv /\ [Next]_vars => BucketInv'
<1> SUFFICES ASSUME TypeOK, BucketInv, [Next]_vars PROVE BucketInv'
  OBVIOUS
<1> USE BucketAssumption
<1>t. TypeOK'
  BY TypeStep
<1>0. /\ tokens \in 0..MaxTokens /\ window \in Nat /\ granted \in Nat /\ elapsed \in Int
      /\ Rate \in Nat /\ MaxTokens \in Nat
      /\ Refilled \in 0..MaxTokens /\ Credit(window) \in Nat
      /\ Pending \in Nat /\ Credit(Pending) \in Nat
      /\ Pending' \in Nat /\ Credit(Pending') \in Nat /\ Credit(window') \in Nat
  <2>1. Pending' \in Nat
    BY <1>t DEF TypeOK, Pending
  <2>2. Credit(Pending') \in Nat /\ Credit(window') \in Nat
    BY <1>t, <2>1, CreditArith DEF TypeOK
  <2> QED BY <2>1, <2>2, CreditFacts DEF TypeOK
<1>1. ASSUME NEW c \in Callers, Begin(c) PROVE BucketInv'
  BY <1>1 DEF Begin, BucketInv, Refilled, AtMost, Pending
<1>2. ASSUME NEW c \in Callers, AcquireOk(c) PROVE BucketInv'
  <2>1. Demand[c] \in Nat
    OBVIOUS
  <2>2. Pending' = 0 /\ Credit(Pending') = 0
    BY <1>2, CreditArith DEF AcquireOk, Pending
  <2>3. Refilled' = Refilled - Demand[c]
    BY <1>2, <2>1, <2>2, <1>0 DEF AcquireOk, Refilled, AtMost
  <2> QED BY <1>2, <2>1, <2>3, <1>0 DEF AcquireOk, BucketInv
<1>3. ASSUME NEW c \in Callers, AcquireFail(c) PROVE BucketInv'
  <2>1. Pending' = 0 /\ Credit(Pending') = 0
    BY <1>3, CreditArith DEF AcquireFail, Pending
  <2>2. Refilled' = Refilled
    BY <1>3, <2>1, <1>0 DEF AcquireFail, Refilled, AtMost
  <2> QED BY <1>3, <2>2 DEF AcquireFail, BucketInv
<1>4. ASSUME NEW c \in Callers, Retry(c) PROVE BucketInv'
  BY <1>4 DEF Retry, BucketInv, Refilled, AtMost, Pending
<1>5. ASSUME Tick PROVE BucketInv'
  <2>1. Credit(window') = Credit(window) + Rate
    BY <1>5, <1>0, CreditArith DEF Tick
  <2>2. Pending' = Pending \/ Pending' = Pending + 1
    BY <1>5, <1>0 DEF Tick, Pending
  <2>3. Credit(Pending') <= Credit(Pending) + Rate
    BY <2>2, <1>0, CreditArith
  <2>4. Refilled' <= Refilled + Rate /\ Refilled' \in Int
    BY <1>5, <2>3, <1>0 DEF Tick, Refilled, AtMost
  <2> QED BY <1>5, <2>1, <2>4, <1>0 DEF Tick, BucketInv
<1>6. ASSUME SetBack PROVE BucketInv'
  <2>1. Pending' = Pending \/ Pending = Pending' + 1
    BY <1>6, <1>0 DEF SetBack, Pending
  <2>2. Credit(Pending') <= Credit(Pending)
    <3>1. CASE Pending' = Pending
      BY <3>1, <1>0
    <3>2. CASE Pending = Pending' + 1
      <4>1. Credit(Pending' + 1) = Credit(Pending') + Rate
        BY <1>0, CreditArith
      <4>2. Credit(Pending) = Credit(Pending' + 1)
        BY <3>2
      <4> QED BY <4>1, <4>2, <1>0
    <3> QED BY <2>1, <3>1, <3>2
  <2>3. Refilled' <= Refilled /\ Refilled' \in Int
    BY <1>6, <2>2, <1>0 DEF SetBack, Refilled, AtMost
  <2> QED BY <1>6, <2>3, <1>0 DEF SetBack, BucketInv
<1>7. ASSUME BeginWindow PROVE BucketInv'
  <2>1. Refilled' = Refilled
    BY <1>7 DEF BeginWindow, Refilled, AtMost, Pending
  <2> QED BY <1>7, <2>1, <1>0 DEF BeginWindow, BucketInv
<1>8. ASSUME UNCHANGED vars PROVE BucketInv'
  BY <1>8 DEF vars, BucketInv, Refilled, AtMost, Pending
<1> QED BY <1>1, <1>2, <1>3, <1>4, <1>5, <1>6, <1>7, <1>8 DEF Next

(* The state of RateLimiter is always well formed; in particular the       *)
(* bucket never overflows and never owes tokens.                           *)
THEOREM TypeCorrect == Spec => []TypeOK
<1>1. Init => TypeOK
  BY TypeInit
<1>2. TypeOK /\ [Next]_vars => TypeOK'
  BY TypeStep
<1> QED BY <1>1, <1>2, PTL DEF Spec

(* RateLimiter::acquire grants, in any window of time, at most a full      *)
(* bucket and the credit of the clock's forward movement in that window.   *)
THEOREM RateIsKept == Spec => []WindowBounded
<1>1. Init => BucketInv
  BY BucketInit
<1>2. TypeOK /\ BucketInv /\ [Next]_vars => BucketInv'
  BY BucketStep
<1>3. TypeOK /\ BucketInv => WindowBounded
  <2> SUFFICES ASSUME TypeOK, BucketInv PROVE WindowBounded
    OBVIOUS
  <2>1. Refilled \in 0..MaxTokens /\ granted \in Nat /\ window \in Nat
    BY CreditFacts DEF TypeOK
  <2>2. Credit(window) \in Nat /\ MaxTokens \in Nat
    BY CreditFacts, BucketAssumption
  <2> QED BY <2>1, <2>2 DEF BucketInv, WindowBounded
<1> QED BY TypeCorrect, <1>1, <1>2, <1>3, PTL DEF Spec

-----------------------------------------------------------------------------
(* RequestLimiter *)

LIInv == LimiterTypeOK /\ CountsGuards /\ AdmittedBounded

(* The tasks in a phase are finitely many. *)
LEMMA PhaseFinite ==
    ASSUME NEW where
    PROVE  IsFiniteSet(In(where)) /\ Cardinality(In(where)) \in Nat
<1>1. In(where) \in SUBSET Tasks
  BY DEF In
<1> QED BY <1>1, LimiterAssumption, FS_Subset, FS_CardinalityType

LEMMA LimiterStart == LimiterInit => LIInv
<1> SUFFICES ASSUME LimiterInit PROVE LIInv
  OBVIOUS
<1>1. In("in") = {} /\ In("admitted") = {}
  BY DEF LimiterInit, In
<1> QED BY <1>1, FS_EmptySet, LimiterAssumption
        DEF LimiterInit, LIInv, LimiterTypeOK, CountsGuards, AdmittedBounded

(* A step moves one task from one phase to the next. *)
LEMMA CheckMoves ==
    ASSUME LimiterTypeOK, NEW t \in Tasks, Check(t)
    PROVE  /\ In("in")' = In("in")
           /\ In("admitted")' = In("admitted") \cup {t} /\ t \notin In("admitted")
BY DEF LimiterTypeOK, Check, In

LEMMA StartMoves ==
    ASSUME LimiterTypeOK, NEW t \in Tasks, StartRequest(t)
    PROVE  /\ In("in")' = In("in") \cup {t} /\ t \notin In("in")
           /\ In("admitted")' = In("admitted") \ {t} /\ t \in In("admitted")
BY DEF LimiterTypeOK, StartRequest, In

LEMMA FinishMoves ==
    ASSUME LimiterTypeOK, NEW t \in Tasks, FinishRequest(t)
    PROVE  /\ In("in")' = In("in") \ {t} /\ t \in In("in")
           /\ In("admitted")' = In("admitted")
BY DEF LimiterTypeOK, FinishRequest, In

LEMMA LimiterStep == LIInv /\ [LimiterNext]_limiterVars => LIInv'
<1> SUFFICES ASSUME LIInv, [LimiterNext]_limiterVars PROVE LIInv'
  OBVIOUS
<1> USE LimiterAssumption
<1>0. /\ LimiterTypeOK /\ CountsGuards /\ AdmittedBounded
      /\ Cardinality(In("in")) \in Nat /\ Cardinality(In("admitted")) \in Nat
      /\ IsFiniteSet(In("in")) /\ IsFiniteSet(In("admitted"))
  BY PhaseFinite DEF LIInv
<1>1. ASSUME NEW t \in Tasks, Check(t) PROVE LIInv'
  <2>1. Cardinality(In("admitted")') = Cardinality(In("admitted")) + 1
    BY <1>0, <1>1, CheckMoves, FS_AddElement
  <2>2. current < MaxConcurrent /\ current' = current /\ Cardinality(In("admitted")) < Threads
    BY <1>1 DEF Check
  <2>3. LimiterTypeOK'
    BY <1>0, <1>1 DEF LimiterTypeOK, Check
  <2>4. CountsGuards'
    BY <1>0, <1>1, <2>2, CheckMoves DEF CountsGuards
  <2>5. AdmittedBounded'
    BY <1>0, <2>1, <2>2 DEF AdmittedBounded, LimiterTypeOK
  <2> QED BY <2>3, <2>4, <2>5 DEF LIInv
<1>2. ASSUME NEW t \in Tasks, StartRequest(t) PROVE LIInv'
  <2>1. /\ Cardinality(In("admitted")') = Cardinality(In("admitted")) - 1
        /\ Cardinality(In("in")') = Cardinality(In("in")) + 1
    BY <1>0, <1>2, StartMoves, FS_AddElement, FS_RemoveElement
  <2>2. current' = current + 1 /\ In("admitted") # {}
    BY <1>0, <1>2, StartMoves DEF StartRequest
  <2>3. LimiterTypeOK'
    BY <1>0, <1>2 DEF LimiterTypeOK, StartRequest
  <2>4. CountsGuards'
    BY <1>0, <2>1, <2>2 DEF CountsGuards
  <2>5. AdmittedBounded'
    BY <1>0, <2>1, <2>2 DEF AdmittedBounded, LimiterTypeOK
  <2> QED BY <2>3, <2>4, <2>5 DEF LIInv
<1>3. ASSUME NEW t \in Tasks, FinishRequest(t) PROVE LIInv'
  <2>1. /\ Cardinality(In("in")') = Cardinality(In("in")) - 1
        /\ In("admitted")' = In("admitted") /\ In("in") # {}
    BY <1>0, <1>3, FinishMoves, FS_RemoveElement
  <2>2. current' = current - 1 /\ Cardinality(In("in")) # 0
    BY <1>0, <1>3, <2>1, FS_EmptySet DEF FinishRequest
  <2>3. current' \in Nat
    BY <1>0, <2>2 DEF CountsGuards
  <2>4. LimiterTypeOK'
    BY <1>0, <1>3, <2>3 DEF LimiterTypeOK, FinishRequest
  <2>5. CountsGuards'
    BY <1>0, <2>1, <2>2 DEF CountsGuards
  <2>6. AdmittedBounded'
    BY <1>0, <2>1, <2>2 DEF AdmittedBounded, LimiterTypeOK
  <2> QED BY <2>4, <2>5, <2>6 DEF LIInv
<1>4. ASSUME UNCHANGED limiterVars PROVE LIInv'
  BY <1>0, <1>4 DEF limiterVars, LIInv, LimiterTypeOK, CountsGuards, AdmittedBounded, In
<1> QED BY <1>1, <1>2, <1>3, <1>4 DEF LimiterNext

LEMMA LimiterInvariant == LimiterSpec => []LIInv
BY LimiterStart, LimiterStep, PTL DEF LimiterSpec

(* The counter is the number of guards, whatever the order of loads,       *)
(* additions and drops of any number of tasks (RequestLimiter::clone,      *)
(* RequestGuard::drop); in particular fetch_sub never wraps below zero.    *)
THEOREM GuardsAreCounted == LimiterSpec => [](LimiterTypeOK /\ CountsGuards)
<1>1. LIInv => LimiterTypeOK /\ CountsGuards
  BY DEF LIInv
<1> QED BY <1>1, LimiterInvariant, PTL

(* start_request's check and addition are two steps, and yet the limit is  *)
(* exceeded by no more than the threads that can be between them.          *)
THEOREM LimitIsNearlyKept == LimiterSpec => []OvershootBounded
<1>1. LIInv => OvershootBounded
  <2> SUFFICES ASSUME LIInv PROVE OvershootBounded
    OBVIOUS
  <2>1. Cardinality(In("in")) \in Nat /\ Cardinality(In("admitted")) \in Nat
    BY PhaseFinite
  <2>2. MaxConcurrent = 0 => Cardinality(In("in")) = 0
    BY FS_EmptySet DEF LIInv, AdmittedBounded
  <2> QED BY <2>1, <2>2, LimiterAssumption
          DEF LIInv, LimiterTypeOK, CountsGuards, AdmittedBounded, OvershootBounded
<1> QED BY <1>1, LimiterInvariant, PTL

-----------------------------------------------------------------------------
(* A client that uses both: neither limiter disturbs the other. *)
THEOREM LimitsAreKept ==
    LimitsSpec => [](WindowBounded /\ CountsGuards /\ OvershootBounded)
<1>1. LimitsInit => Init /\ LimiterInit
  BY DEF LimitsInit
<1>2. [LimitsNext]_<<vars, limiterVars>> => [Next]_vars /\ [LimiterNext]_limiterVars
  BY DEF LimitsNext
<1>3. LimitsSpec => Spec /\ LimiterSpec
  BY <1>1, <1>2, PTL DEF LimitsSpec, Spec, LimiterSpec
<1> QED BY <1>3, RateIsKept, GuardsAreCounted, LimitIsNearlyKept, PTL
=============================================================================
