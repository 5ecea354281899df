----------------------------- MODULE TokenBucket -----------------------------
(***************************************************************************)
(* RateLimiter (src/transport/rate_limit.rs): callers of wait_for_token    *)
(* share a bucket whose tokens are credited from the wall clock.           *)
(*                                                                         *)
(* Only the difference between the clock and last_update matters: it is    *)
(* `elapsed`, negative after the clock was set back.  Tokens are counted   *)
(* in units in which the credit of one tick is a whole number; the         *)
(* rounding of the code's f64 is left out.                                 *)
(*                                                                         *)
(* An observer counts what is granted in a window of time: it begins a     *)
(* window whenever it likes.                                               *)
(***************************************************************************)
EXTENDS Integers

CONSTANTS
    Callers,    \* callers of wait_for_token
    Demand,     \* Demand[c]: tokens that c waits for
    MaxTokens,  \* capacity of the bucket
    Rate,       \* tokens credited per tick
    MaxElapsed, \* bound: ticks since (or set back before) the last update
    MaxWindow   \* bound: ticks in a window

ASSUME BucketAssumption ==
    /\ MaxTokens \in Nat /\ Rate \in Nat
    /\ Demand \in [Callers -> Nat]
    /\ MaxElapsed \in Nat \ {0} /\ MaxWindow \in Nat \ {0}

VARIABLES
    tokens,   \* tokens in the bucket
    elapsed,  \* now - last_update
    pc,       \* where each caller is
    window,   \* observer: ticks since its window began
    granted   \* observer: tokens granted in its window

vars == <<tokens, elapsed, pc, window, granted>>

AtMost(x, limit) == IF x <= limit THEN x ELSE limit

(* What the bucket is credited for n ticks. *)
Credit(n) == Rate * n

(* saturating_sub: no credit when the clock was set back *)
Pending == IF elapsed >= 0 THEN elapsed ELSE 0

(* refill: what the bucket holds once the elapsed time is credited *)
Refilled == AtMost(tokens + Credit(Pending), MaxTokens)

Init ==
    /\ tokens = MaxTokens
    /\ elapsed = 0
    /\ pc = [c \in Callers |-> "idle"]
    /\ window = 0 /\ granted = 0

-----------------------------------------------------------------------------
Begin(c) ==
    /\ pc[c] = "idle"
    /\ pc' = [pc EXCEPT ![c] = "try"]
    /\ UNCHANGED <<tokens, elapsed, window, granted>>

(* Faulty variant: last_update is written when a token is refused only. *)
AcquireOkStale(c) ==
    /\ pc[c] = "try"
    /\ Refilled >= Demand[c]
    /\ tokens' = Refilled - Demand[c]
    /\ granted' = granted + Demand[c]
    /\ pc' = [pc EXCEPT ![c] = "idle"]
    /\ UNCHANGED <<elapsed, window>>

(* acquire(), under the mutex of tokens: refill, then take or refuse. *)
AcquireOk(c) ==
    /\ pc[c] = "try"
    /\ Refilled >= Demand[c]
    /\ tokens' = Refilled - Demand[c]
    /\ elapsed' = 0
    /\ granted' = granted + Demand[c]
    /\ pc' = [pc EXCEPT ![c] = "idle"]
    /\ UNCHANGED window

AcquireFail(c) ==
    /\ pc[c] = "try"
    /\ Refilled < Demand[c]
    /\ tokens' = Refilled
    /\ elapsed' = 0
    /\ pc' = [pc EXCEPT ![c] = "sleep"]
    /\ UNCHANGED <<window, granted>>

(* wait_for_token tries again after 100 ms. *)
Retry(c) ==
    /\ pc[c] = "sleep"
    /\ pc' = [pc EXCEPT ![c] = "try"]
    /\ UNCHANGED <<tokens, elapsed, window, granted>>

-----------------------------------------------------------------------------
(* The clock and the observer *)

Tick ==
    /\ elapsed < MaxElapsed /\ window < MaxWindow
    /\ elapsed' = elapsed + 1
    /\ window' = window + 1
    /\ UNCHANGED <<tokens, pc, granted>>

SetBack ==
    /\ elapsed > -MaxElapsed
    /\ elapsed' = elapsed - 1
    /\ UNCHANGED <<tokens, pc, window, granted>>

BeginWindow ==
    /\ window' = 0 /\ granted' = 0
    /\ UNCHANGED <<tokens, elapsed, pc>>

Next ==
    \/ \E c \in Callers : Begin(c) \/ AcquireOk(c) \/ AcquireFail(c) \/ Retry(c)
    \/ Tick \/ SetBack \/ BeginWindow

Spec == Init /\ [][Next]_vars

-----------------------------------------------------------------------------
(* Properties *)

(* Type invariant. *)
TypeOK ==
    /\ tokens \in 0..MaxTokens
    /\ elapsed \in Int
    /\ pc \in [Callers -> {"idle", "try", "sleep"}]
    /\ window \in Nat /\ granted \in Nat

(* In any window at most a full bucket and the credit of the window's      *)
(* ticks is granted, however the callers' attempts interleave and however  *)
(* often the clock is set back.  Ticks are forward movements of the wall   *)
(* clock: the limiter holds to them and not to the time that passes.       *)
WindowBounded == granted <= MaxTokens + Credit(window)

(* The strengthening: what could be granted at once counts as granted. *)
BucketInv == Refilled + granted <= MaxTokens + Credit(window)

=============================================================================
