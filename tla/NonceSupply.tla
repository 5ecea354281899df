----------------------------- MODULE NonceSupply -----------------------------
(***************************************************************************)
(* Anti-replay nonces: NonceManager (src/protocol/nonce.rs), the signed    *)
(* requests of the account and order managers that take nonces from it     *)
(* and give it the ones of their responses, and the prefetching NoncePool  *)
(* (src/protocol/nonce_pool.rs) over a manager, as enable_nonce_pool       *)
(* (src/client.rs) sets it up.  A NonceManager is Clone and its clones     *)
(* share their nonces, so the pool and other requests may share one.       *)
(*                                                                         *)
(* The server never gives the same nonce twice: nonces are numbered in     *)
(* the order in which they are given.                                      *)
(***************************************************************************)
EXTENDS Naturals, Sequences, FiniteSets

CONSTANTS
    Requests,   \* tasks that send signed requests through the manager
    Getters,    \* tasks that take nonces from the pool
    MinSize,    \* min_size of the pool
    MaxSize,    \* max_size of the pool
    MaxNonces,  \* bound: nonces given by the server
    MaxFaults   \* bound: failing requests

ASSUME NonceAssumption ==
    /\ Requests \cap Getters = {}
    /\ MinSize \in Nat /\ MaxSize \in Nat /\ MinSize <= MaxSize
    /\ MaxNonces \in Nat /\ MaxSize <= MaxNonces
    /\ MaxFaults \in Nat

VARIABLES
    given,    \* nonces 1..given have been given by the server
    spent,    \* nonces the server has seen in a request
    cache,    \* nonce_pool of the manager, a stack
    pool,     \* nonces of the NoncePool, a queue
    waiting,  \* spawned refill() tasks that wait for the pool's lock
    missing,  \* what the refill() that holds the pool's lock still fetches
    refill,   \* where that refill() is: at the manager's stack or asking the server
    pc,       \* where each task is
    held,     \* the nonce each task has in its hands, 0: none
    faults    \* failed requests so far

vars == <<given, spent, cache, pool, waiting, missing, refill, pc, held, faults>>
taskVars == <<pc, held>>
poolVars == <<pool, waiting, missing, refill>>

Tasks == Requests \cup Getters
Last(s) == s[Len(s)]
Front(s) == SubSeq(s, 1, Len(s) - 1)
ToSet(s) == {s[i] : i \in DOMAIN s}

Locked == missing > 0
Fault == faults < MaxFaults /\ faults' = faults + 1
Hand(p, label, n) == pc' = [pc EXCEPT ![p] = label] /\ held' = [held EXCEPT ![p] = n]

(* enable_nonce_pool fills the pool before it is used; without tasks that  *)
(* use it there is none.                                                   *)
Init ==
    /\ given = IF Getters = {} THEN 0 ELSE MaxSize
    /\ pool = [i \in 1..given |-> i]
    /\ spent = {} /\ cache = <<>>
    /\ waiting = 0 /\ missing = 0 /\ refill = "pop"
    /\ pc = [p \in Tasks |-> "idle"]
    /\ held = [p \in Tasks |-> 0]
    /\ faults = 0

-----------------------------------------------------------------------------
(* NonceManager *)

(* get_nonce, under the lock: the newest cached nonce. *)
PopCached(p) ==
    /\ pc[p] = "get" /\ cache # <<>>
    /\ Hand(p, "send", Last(cache))
    /\ cache' = Front(cache)
    /\ UNCHANGED <<given, spent, poolVars, faults>>

(* get_nonce: nothing is cached; the lock is released before the request. *)
MissCache(p) ==
    /\ pc[p] = "get" /\ cache = <<>>
    /\ Hand(p, "fetch", 0)
    /\ UNCHANGED <<given, spent, cache, poolVars, faults>>

(* fetch_nonce: a HEAD request.  It fails on a network error, an error     *)
(* status or a missing header.                                             *)
Fetch(p) ==
    /\ pc[p] = "fetch"
    /\ \/ /\ given < MaxNonces
          /\ given' = given + 1
          /\ Hand(p, "send", given')
          /\ UNCHANGED faults
       \/ /\ Fault
          /\ Hand(p, "idle", 0)
          /\ UNCHANGED given
    /\ UNCHANGED <<spent, cache, poolVars>>

-----------------------------------------------------------------------------
(* A signed request of the account or order manager *)

BeginRequest(p) ==
    /\ p \in Requests /\ pc[p] = "idle"
    /\ Hand(p, "get", 0)
    /\ UNCHANGED <<given, spent, cache, poolVars, faults>>

(* Faulty variant: the nonce goes back to the manager when no answer came. *)
SendReturned(p) ==
    /\ p \in Requests /\ pc[p] = "send"
    /\ spent' = spent \cup {held[p]}
    /\ \/ /\ given < MaxNonces
          /\ given' = given + 1
          /\ Hand(p, "cache", given')
          /\ UNCHANGED faults
       \/ /\ Fault
          /\ Hand(p, "cache", held[p])
          /\ UNCHANGED given
    /\ UNCHANGED <<cache, poolVars>>

(* The answer carries a nonce, whatever its status, or there is none: the  *)
(* request failed before or after the server saw it.                       *)
Send(p) ==
    /\ p \in Requests /\ pc[p] = "send"
    /\ \/ /\ given < MaxNonces
          /\ given' = given + 1
          /\ spent' = spent \cup {held[p]}
          /\ Hand(p, "cache", given')
          /\ UNCHANGED faults
       \/ /\ Fault
          /\ spent' \in {spent, spent \cup {held[p]}}
          /\ Hand(p, "idle", 0)
          /\ UNCHANGED given
    /\ UNCHANGED <<cache, poolVars>>

CacheNonce(p) ==
    /\ pc[p] = "cache"
    /\ cache' = Append(cache, held[p])
    /\ Hand(p, "idle", 0)
    /\ UNCHANGED <<given, spent, poolVars, faults>>

-----------------------------------------------------------------------------
(* NoncePool *)

(* A caller of the pool waits for its lock. *)
BeginGet(p) ==
    /\ p \in Getters /\ pc[p] = "idle"
    /\ Hand(p, "lock", 0)
    /\ UNCHANGED <<given, spent, cache, poolVars, faults>>

(* Faulty variant: the size is compared before the nonce is taken. *)
GetPooledEarly(p) ==
    /\ pc[p] = "lock" /\ ~Locked
    /\ pool # <<>>
    /\ Hand(p, "send", Head(pool))
    /\ pool' = Tail(pool)
    /\ waiting' = IF Len(pool) < MinSize THEN waiting + 1 ELSE waiting
    /\ UNCHANGED <<given, spent, cache, missing, refill, faults>>

(* The oldest nonce is taken, and a refill spawned below min_size. *)
GetPooled(p) ==
    /\ pc[p] = "lock" /\ ~Locked
    /\ pool # <<>>
    /\ Hand(p, "send", Head(pool))
    /\ pool' = Tail(pool)
    /\ waiting' = IF Len(pool') < MinSize THEN waiting + 1 ELSE waiting
    /\ UNCHANGED <<given, spent, cache, missing, refill, faults>>

(* Faulty variant: with an empty pool the caller counts on a refill. *)
GetEmptyWaits(p) ==
    /\ pc[p] = "lock" /\ ~Locked
    /\ pool = <<>> /\ waiting > 0
    /\ Hand(p, "get", 0)
    /\ UNCHANGED <<given, spent, cache, poolVars, faults>>

(* The pool is empty: the lock is dropped and the manager is asked.  No    *)
(* refill is spawned.                                                      *)
GetEmpty(p) ==
    /\ pc[p] = "lock" /\ ~Locked
    /\ pool = <<>>
    /\ Hand(p, "get", 0)
    /\ UNCHANGED <<given, spent, cache, poolVars, faults>>

(* The caller sends its request with its nonce. *)
UsePooled(p) ==
    /\ p \in Getters /\ pc[p] = "send"
    /\ spent' = spent \cup {held[p]}
    /\ Hand(p, "idle", 0)
    /\ UNCHANGED <<given, cache, poolVars, faults>>

(* Faulty variant: the number to fetch is taken before the lock. *)
RefillLockEarly ==
    /\ waiting > 0
    /\ waiting' = waiting - 1
    /\ missing' = MaxSize - Len(pool) + missing
    /\ UNCHANGED <<given, spent, cache, pool, refill, taskVars, faults>>

(* refill() keeps the lock until it has fetched what is missing. *)
RefillLock ==
    /\ waiting > 0 /\ ~Locked
    /\ waiting' = waiting - 1
    /\ missing' = MaxSize - Len(pool)
    /\ UNCHANGED <<given, spent, cache, pool, refill, taskVars, faults>>

(* get_nonce of the manager, as above: a nonce of its stack ... *)
RefillPop ==
    /\ Locked /\ refill = "pop" /\ cache # <<>>
    /\ pool' = Append(pool, Last(cache))
    /\ cache' = Front(cache)
    /\ missing' = missing - 1
    /\ UNCHANGED <<given, spent, waiting, refill, taskVars, faults>>

RefillMiss ==
    /\ Locked /\ refill = "pop" /\ cache = <<>>
    /\ refill' = "fetch"
    /\ UNCHANGED <<given, spent, cache, pool, waiting, missing, taskVars, faults>>

(* ... or a fresh one, although the stack may hold some again.  An error   *)
(* ends the refill.                                                        *)
RefillFetch ==
    /\ refill = "fetch"
    /\ refill' = "pop"
    /\ \/ /\ given < MaxNonces
          /\ given' = given + 1
          /\ pool' = Append(pool, given')
          /\ missing' = missing - 1
          /\ UNCHANGED faults
       \/ /\ Fault
          /\ missing' = 0
          /\ UNCHANGED <<given, pool>>
    /\ UNCHANGED <<spent, cache, waiting, taskVars>>

RefillOne == RefillPop \/ RefillMiss \/ RefillFetch

-----------------------------------------------------------------------------
Step(p) ==
    \/ PopCached(p) \/ MissCache(p) \/ Fetch(p) \/ Send(p) \/ CacheNonce(p)
    \/ GetPooled(p) \/ GetEmpty(p) \/ UsePooled(p)

Next ==
    \/ \E p \in Tasks : BeginRequest(p) \/ BeginGet(p) \/ Step(p)
    \/ RefillLock \/ RefillOne

Spec == Init /\ [][Next]_vars

(* Tasks run, and every request ends: nothing in the code sees to that,    *)
(* since the client is built without a timeout, and a server that never    *)
(* answers refill() keeps the pool locked (assumed away here).  tokio's    *)
(* mutex is granted in the order in which it was asked for.                *)
Fairness ==
    /\ WF_vars(RefillOne) /\ SF_vars(RefillLock)
    /\ \A p \in Tasks : WF_vars(Step(p)) /\ SF_vars(GetPooled(p) \/ GetEmpty(p))

-----------------------------------------------------------------------------
(* Properties *)

(* Type invariant. *)
TypeOK ==
    /\ given \in 0..MaxNonces
    /\ spent \subseteq 1..given
    /\ cache \in Seq(1..given) /\ pool \in Seq(1..given)
    /\ waiting \in Nat /\ missing \in Nat
    /\ refill \in {"pop", "fetch"}
    /\ pc \in [Tasks -> {"idle", "get", "fetch", "send", "cache", "lock"}]
    /\ held \in [Tasks -> 0..given]
    /\ faults \in 0..MaxFaults

Holders(n) ==
    {<<"task", p>> : p \in {q \in Tasks : held[q] = n}}
    \cup {<<"cache", i>> : i \in {j \in DOMAIN cache : cache[j] = n}}
    \cup {<<"pool", i>> : i \in {j \in DOMAIN pool : pool[j] = n}}

(* No nonce is in two hands, and none that the server has seen is in any:  *)
(* no interleaving of requests, answers and refills sends one twice.       *)
UsedOnce ==
    \A n \in 1..given :
        /\ Cardinality(Holders(n)) <= 1
        /\ n \in spent => Holders(n) = {}

(* The pool never outgrows max_size, not even with several refills: the    *)
(* subtraction `max_size - n.len()` cannot underflow.                      *)
PoolBounded == Len(pool) + missing <= MaxSize

(* As long as no request has failed, a pool below min_size has a refill    *)
(* under way or about to begin.  After a failure it may stay empty for     *)
(* ever, since taking from an empty pool spawns none.                      *)
RefillPending ==
    Getters # {} /\ faults = 0 => Len(pool) >= MinSize \/ waiting > 0 \/ Locked

(* A caller of the pool gets an answer although refills hold its lock      *)
(* across network requests (within the bound on nonces), if these end.     *)
GetReturns ==
    \A p \in Getters : pc[p] = "lock" ~> (pc[p] # "lock" \/ given = MaxNonces)
=============================================================================
