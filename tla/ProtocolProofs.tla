--------------------------- MODULE ProtocolProofs --------------------------
(***************************************************************************)
(* Theorems about Protocol.  The nonce supply, for every set of tasks,     *)
(* every size of the pool and every number of nonces and failures; then    *)
(* the caches, for every set of callers, time to live, number of versions  *)
(* and length of time.                                                     *)
(***************************************************************************)
EXTENDS Protocol, FiniteSetTheorems, SequenceTheorems, TLAPS

(* What is left of a stack or a queue when a nonce is taken, and what      *)
(* becomes of one to which a nonce is added.                               *)
LEMMA FrontElements ==
    ASSUME NEW S, NEW s \in Seq(S), s # <<>>
    PROVE  /\ Front(s) \in Seq(S)
           /\ Len(Front(s)) = Len(s) - 1 /\ Len(s) \in Nat \ {0}
           /\ \A i \in 1..(Len(s) - 1) : Front(s)[i] = s[i] /\ s[i] \in S
           /\ Last(s) = s[Len(s)] /\ Last(s) \in S
<1>1. Len(s) \in Nat \ {0} /\ \A i \in 1..Len(s) : s[i] \in S
  OBVIOUS
<1>2. /\ Len(Front(s)) = Len(s) - 1
      /\ Front(s) \in Seq(S)
      /\ \A i \in 1..(Len(s) - 1) : Front(s)[i] = s[i]
  <2> DEFINE n == Len(s) - 1
  <2>1. /\ n \in Nat /\ 1 <= n + 1 /\ n + 1 = Len(s)
        /\ \A i \in 1..n : i \in 1..Len(s) /\ 1 + i - 1 = i
    BY <1>1
  <2>2. n - 1 + 1 = n /\ 1..(n - 1 + 1) = 1..n
    BY <2>1
  <2> HIDE DEF n
  <2>3. /\ Len(SubSeq(s, 1, n)) = n /\ SubSeq(s, 1, n) \in Seq(S)
        /\ \A i \in 1..n : SubSeq(s, 1, n)[i] = s[i]
    BY <2>1, <2>2, <1>1, SubSeqProperties
  <2> QED
    BY <2>3 DEF Front, n
<1>3. Len(s) \in 1..Len(s) /\ 1..(Len(s) - 1) \subseteq 1..Len(s)
  BY <1>1
<1> QED
  BY <1>1, <1>2, <1>3 DEF Last

LEMMA PoppedStack ==
    ASSUME NEW S, NEW s \in Seq(S), s # <<>>, NEW t, t = Front(s)
    PROVE  /\ Len(s) \in 1..Len(s) /\ Last(s) = s[Len(s)]
           /\ \A i \in 1..Len(t) : t[i] = s[i] /\ i \in 1..Len(s) /\ i # Len(s)
<1>1. /\ Len(s) \in Nat \ {0} /\ Len(t) = Len(s) - 1 /\ Last(s) = s[Len(s)]
      /\ \A i \in 1..(Len(s) - 1) : t[i] = s[i]
  BY FrontElements
<1>2. Len(s) \in 1..Len(s) /\ \A i \in 1..(Len(s) - 1) : i \in 1..Len(s) /\ i # Len(s)
  BY <1>1
<1> QED
  BY <1>1, <1>2

LEMMA TailElements ==
    ASSUME NEW S, NEW s \in Seq(S), s # <<>>
    PROVE  /\ Tail(s) \in Seq(S)
           /\ Len(Tail(s)) = Len(s) - 1 /\ Len(s) \in Nat \ {0}
           /\ \A i \in 1..(Len(s) - 1) : Tail(s)[i] = s[i + 1] /\ i + 1 \in 1..Len(s)
           /\ Head(s) = s[1] /\ Head(s) \in S
OBVIOUS

LEMMA AppendElements ==
    ASSUME NEW S, NEW s \in Seq(S), NEW x \in S
    PROVE  /\ Append(s, x) \in Seq(S)
           /\ Len(Append(s, x)) = Len(s) + 1 /\ Len(s) \in Nat
           /\ \A i \in 1..Len(s) : Append(s, x)[i] = s[i]
           /\ Append(s, x)[Len(s) + 1] = x
OBVIOUS

LEMMA WiderSeq ==
    ASSUME NEW m \in Nat, NEW n \in Nat, m <= n, NEW s \in Seq(1..m)
    PROVE  s \in Seq(1..n)
<1>1. 1..m \subseteq 1..n
  OBVIOUS
<1> QED
  BY <1>1

-----------------------------------------------------------------------------
(* A task has a nonce in its hands while it is about to send it, or to     *)
(* give the one of an answer to the manager.                               *)
InHand == \A p \in Tasks : pc[p] \in {"send", "cache"} <=> held[p] # 0

(* A refill that asks the server has the lock. *)
FetchesLocked == refill = "fetch" => Locked

TypeInv == TypeOK /\ InHand /\ FetchesLocked /\ PoolBounded

LEMMA TypeInvInit == Init => TypeInv
<1> SUFFICES ASSUME Init PROVE TypeInv
  OBVIOUS
<1>1. given \in 0..MaxNonces /\ (given = 0 \/ given = MaxSize) /\ MaxSize \in Nat
  BY NonceAssumption DEF Init
<1>2. pool \in Seq(1..given) /\ Len(pool) = given
  BY <1>1 DEF Init
<1>3. <<>> \in Seq(1..given)
  OBVIOUS
<1>4. TypeOK
  BY <1>1, <1>2, <1>3, NonceAssumption DEF Init, TypeOK
<1> QED
  BY <1>1, <1>2, <1>4 DEF Init, TypeInv, InHand, FetchesLocked, PoolBounded

LEMMA TypeInvStep == TypeInv /\ [Next]_vars => TypeInv'
<1> SUFFICES ASSUME TypeInv, [Next]_vars PROVE TypeInv'
  OBVIOUS
<1>0. /\ given \in Nat /\ given <= MaxNonces /\ given' \in {given, given + 1}
      /\ 1..given \subseteq 1..given' /\ 0..given \subseteq 0..given'
      /\ cache \in Seq(1..given') /\ pool \in Seq(1..given')
      /\ MaxSize \in Nat /\ MaxNonces \in Nat /\ MaxFaults \in Nat
  <2>1. given \in Nat /\ given <= MaxNonces /\ given' \in {given, given + 1}
    BY NonceAssumption DEF TypeInv, TypeOK, Next, BeginRequest, BeginGet, Step, PopCached,
          MissCache, Fetch, Send, CacheNonce, GetPooled, GetEmpty, UsePooled, RefillLock,
          RefillOne, RefillPop, RefillMiss, RefillFetch, vars
  <2>2. 1..given \subseteq 1..given' /\ 0..given \subseteq 0..given'
    BY <2>1
  <2>3. cache \in Seq(1..given') /\ pool \in Seq(1..given')
    BY <2>2, SeqMonotonic DEF TypeInv, TypeOK
  <2> QED
    BY <2>1, <2>2, <2>3, NonceAssumption
<1> USE DEF TypeInv, TypeOK, InHand, FetchesLocked, Locked, PoolBounded, Hand
<1>1. ASSUME NEW p \in Tasks, BeginRequest(p) \/ BeginGet(p) \/ MissCache(p) \/ GetEmpty(p)
      PROVE  TypeInv'
  BY <1>1 DEF BeginRequest, BeginGet, MissCache, GetEmpty, poolVars
<1>2. ASSUME NEW p \in Tasks, PopCached(p)
      PROVE  TypeInv'
  <2>1. /\ Last(cache) \in 1..given /\ Front(cache) \in Seq(1..given)
    BY <1>2, FrontElements DEF PopCached
  <2>2. Last(cache) # 0
    BY <2>1
  <2> QED
    BY <1>0, <1>2, <2>1, <2>2 DEF PopCached, poolVars
<1>3. ASSUME NEW p \in Tasks, Fetch(p)
      PROVE  TypeInv'
  <2>1. CASE given < MaxNonces /\ given' = given + 1 /\ Hand(p, "send", given') /\ UNCHANGED faults
    <3>1. given' \in 1..given' /\ given' \in 0..MaxNonces /\ given' # 0
      BY <1>0, <2>1
    <3>2. held' \in [Tasks -> 0..given']
      BY <1>0, <2>1, <3>1
    <3> QED
      BY <1>0, <1>3, <2>1, <3>1, <3>2 DEF Fetch, poolVars
  <2>2. CASE Fault /\ Hand(p, "idle", 0) /\ UNCHANGED given
    BY <1>0, <1>3, <2>2 DEF Fetch, Fault, poolVars
  <2> QED
    BY <1>3, <2>1, <2>2 DEF Fetch
<1>4. ASSUME NEW p \in Tasks, Send(p)
      PROVE  TypeInv'
  <2>1. held[p] \in 1..given
    BY <1>0, <1>4 DEF Send
  <2>2. CASE given < MaxNonces /\ given' = given + 1 /\ spent' = spent \cup {held[p]}
             /\ Hand(p, "cache", given') /\ UNCHANGED faults
    <3>1. given' \in 1..given' /\ given' \in 0..MaxNonces /\ given' # 0
      BY <1>0, <2>2
    <3>2. held' \in [Tasks -> 0..given']
      BY <1>0, <2>2, <3>1
    <3>3. spent' \subseteq 1..given
      BY <2>1, <2>2
    <3>4. spent' \subseteq 1..given'
      BY <1>0, <3>3
    <3> QED
      BY <1>0, <1>4, <2>2, <3>1, <3>2, <3>4 DEF Send, poolVars
  <2>3. CASE Fault /\ spent' \in {spent, spent \cup {held[p]}} /\ Hand(p, "idle", 0)
             /\ UNCHANGED given
    <3>1. spent' \subseteq 1..given /\ faults' \in 0..MaxFaults
      BY <1>0, <2>1, <2>3 DEF Fault
    <3> QED
      BY <1>0, <1>4, <2>3, <3>1 DEF Send, poolVars
  <2> QED
    BY <1>4, <2>2, <2>3 DEF Send
<1>5. ASSUME NEW p \in Tasks, CacheNonce(p)
      PROVE  TypeInv'
  <2>1. held[p] \in 1..given
    BY <1>0, <1>5 DEF CacheNonce
  <2>2. Append(cache, held[p]) \in Seq(1..given)
    BY <2>1, AppendElements
  <2> QED
    BY <1>0, <1>5, <2>2 DEF CacheNonce, poolVars
<1>6. ASSUME NEW p \in Tasks, GetPooled(p)
      PROVE  TypeInv'
  <2>1. /\ Head(pool) \in 1..given /\ Tail(pool) \in Seq(1..given)
        /\ Len(Tail(pool)) = Len(pool) - 1 /\ Len(pool) \in Nat
    BY <1>6, TailElements DEF GetPooled
  <2>2. Head(pool) # 0
    BY <2>1
  <2> QED
    BY <1>0, <1>6, <2>1, <2>2 DEF GetPooled
<1>7. ASSUME NEW p \in Tasks, UsePooled(p)
      PROVE  TypeInv'
  <2>1. held[p] \in 1..given
    BY <1>0, <1>7 DEF UsePooled
  <2>2. spent' \subseteq 1..given
    BY <1>7, <2>1 DEF UsePooled
  <2> QED
    BY <1>0, <1>7, <2>2 DEF UsePooled, poolVars
<1>8. CASE RefillLock
  BY <1>0, <1>8 DEF RefillLock, taskVars
<1>9. CASE RefillOne
  <2>1. missing > 0 /\ missing \in Nat /\ Len(pool) \in Nat
    BY <1>9 DEF RefillOne, RefillPop, RefillMiss, RefillFetch, Locked
  <2>2. CASE RefillPop
    <3>1. Last(cache) \in 1..given /\ Front(cache) \in Seq(1..given)
      BY <2>2, FrontElements DEF RefillPop
    <3>2. pool' \in Seq(1..given) /\ Len(pool') = Len(pool) + 1
      BY <2>2, <3>1, AppendElements DEF RefillPop
    <3> QED
      BY <1>0, <2>1, <2>2, <3>1, <3>2 DEF RefillPop, taskVars, Locked
  <2>3. CASE RefillMiss
    BY <1>0, <2>1, <2>3 DEF RefillMiss, taskVars, Locked
  <2>4. CASE RefillFetch /\ given' = given + 1 /\ pool' = Append(pool, given')
             /\ given < MaxNonces /\ missing' = missing - 1 /\ UNCHANGED faults
    <3>1. given' \in 1..given'
      BY <1>0, <2>4
    <3>2. pool' \in Seq(1..given') /\ Len(pool') = Len(pool) + 1
      BY <1>0, <2>4, <3>1, AppendElements
    <3> QED
      BY <1>0, <2>1, <2>4, <3>2 DEF RefillFetch, taskVars, Locked
  <2>5. CASE RefillFetch /\ Fault /\ missing' = 0 /\ UNCHANGED <<given, pool>>
    BY <1>0, <2>1, <2>5 DEF RefillFetch, Fault, taskVars, Locked
  <2> QED
    BY <1>9, <2>2, <2>3, <2>4, <2>5 DEF RefillOne, RefillFetch
<1>10. CASE UNCHANGED vars
  BY <1>10 DEF vars
<1> QED
  BY <1>1, <1>2, <1>3, <1>4, <1>5, <1>6, <1>7, <1>8, <1>9, <1>10 DEF Next, Step

(* The state is well formed: nonces are those the server has given. *)
THEOREM TypeCorrect == Spec => []TypeOK
<1>1. TypeInv => TypeOK
  BY DEF TypeInv
<1> QED
  BY TypeInvInit, TypeInvStep, <1>1, PTL DEF Spec

(* `max_size - n.len()` does not underflow: no number of refills, spawned  *)
(* by however many callers, fills the pool beyond max_size.                *)
THEOREM PoolStaysBounded == Spec => []PoolBounded
<1>1. TypeInv => PoolBounded
  BY DEF TypeInv
<1> QED
  BY TypeInvInit, TypeInvStep, <1>1, PTL DEF Spec
-----------------------------------------------------------------------------
(* Every nonce is in one place: in the hands of a task, in the stack of    *)
(* the manager or in the pool, and once the server has seen it nowhere.    *)
Distinct(s) == \A i, j \in 1..Len(s) : s[i] = s[j] => i = j
HandsDiffer == \A p, q \in Tasks : held[p] # 0 /\ held[p] = held[q] => p = q
HandsAlone ==
    \A p \in Tasks : held[p] # 0 =>
        /\ held[p] \notin spent
        /\ \A i \in 1..Len(cache) : held[p] # cache[i]
        /\ \A i \in 1..Len(pool) : held[p] # pool[i]
CacheAlone ==
    /\ Distinct(cache)
    /\ \A i \in 1..Len(cache) : cache[i] \notin spent
PoolAlone ==
    /\ Distinct(pool)
    /\ \A i \in 1..Len(pool) : pool[i] \notin spent
    /\ \A i \in 1..Len(pool), j \in 1..Len(cache) : pool[i] # cache[j]

OnePlace == HandsDiffer /\ HandsAlone /\ CacheAlone /\ PoolAlone

LEMMA OnePlaceInit == Init => OnePlace
<1> SUFFICES ASSUME Init PROVE OnePlace
  OBVIOUS
<1>1. given \in Nat /\ Len(pool) = given /\ Len(cache) = 0 /\ \A i \in 1..given : pool[i] = i
  BY NonceAssumption DEF Init
<1>2. spent = {} /\ \A p \in Tasks : held[p] = 0
  BY DEF Init
<1> QED
  BY <1>1, <1>2 DEF OnePlace, HandsDiffer, HandsAlone, CacheAlone, PoolAlone, Distinct

(* The nonce the server gives next is nowhere.                             *)
LEMMA NextIsNew ==
    ASSUME TypeInv
    PROVE  /\ given \in Nat /\ given + 1 \notin spent
           /\ \A p \in Tasks : held[p] # given + 1
           /\ \A i \in 1..Len(cache) : cache[i] # given + 1 /\ cache[i] # 0
           /\ \A i \in 1..Len(pool) : pool[i] # given + 1 /\ pool[i] # 0
<1>1. /\ given \in Nat /\ spent \subseteq 1..given
      /\ \A p \in Tasks : held[p] \in 0..given
      /\ cache \in Seq(1..given) /\ pool \in Seq(1..given)
  BY NonceAssumption DEF TypeInv, TypeOK
<1>2. /\ \A i \in 1..Len(cache) : cache[i] \in 1..given
      /\ \A i \in 1..Len(pool) : pool[i] \in 1..given
  BY <1>1
<1>3. given + 1 \notin 0..given /\ given + 1 \notin 1..given /\ 0 \notin 1..given
  BY <1>1
<1> QED
  BY <1>1, <1>2, <1>3

LEMMA OnePlaceStep == TypeInv /\ OnePlace /\ [Next]_vars => OnePlace'
<1> SUFFICES ASSUME TypeInv, OnePlace, [Next]_vars PROVE OnePlace'
  OBVIOUS
<1>0. /\ cache \in Seq(1..given) /\ pool \in Seq(1..given)
      /\ DOMAIN held = Tasks /\ Len(cache) \in Nat /\ Len(pool) \in Nat
      /\ \A p \in Tasks : pc[p] \in {"send", "cache"} <=> held[p] # 0
  BY DEF TypeInv, TypeOK, InHand
<1> USE DEF OnePlace, HandsDiffer, HandsAlone, CacheAlone, PoolAlone, Distinct
<1>1. ASSUME NEW p \in Tasks, BeginRequest(p) \/ BeginGet(p) \/ MissCache(p) \/ GetEmpty(p)
      PROVE  OnePlace'
  <2>1. held' = [held EXCEPT ![p] = 0] /\ UNCHANGED <<spent, cache, pool>>
    BY <1>1 DEF BeginRequest, BeginGet, MissCache, GetEmpty, Hand, poolVars
  <2> QED
    BY <1>0, <2>1
<1>2. ASSUME NEW p \in Tasks, PopCached(p)
      PROVE  OnePlace'
  <2>1. /\ cache # <<>> /\ cache' = Front(cache) /\ UNCHANGED <<spent, pool>>
        /\ held' = [held EXCEPT ![p] = Last(cache)]
    BY <1>2 DEF PopCached, Hand, poolVars
  <2>2. /\ Len(cache) \in 1..Len(cache) /\ Last(cache) = cache[Len(cache)]
        /\ \A i \in 1..Len(cache') : cache'[i] = cache[i] /\ i \in 1..Len(cache) /\ i # Len(cache)
    BY <1>0, <2>1, PoppedStack
  <2>3. \A q \in Tasks : held'[q] = IF q = p THEN cache[Len(cache)] ELSE held[q]
    BY <1>0, <2>1, <2>2
  <2>4. CacheAlone' /\ PoolAlone'
    BY <2>1, <2>2
  <2>5. HandsDiffer'
    BY <2>2, <2>3
  <2>6. HandsAlone'
    BY <2>1, <2>2, <2>3
  <2> QED
    BY <2>4, <2>5, <2>6
<1>3. ASSUME NEW p \in Tasks, Fetch(p)
      PROVE  OnePlace'
  <2>1. /\ held' \in {[held EXCEPT ![p] = given + 1], [held EXCEPT ![p] = 0]}
        /\ UNCHANGED <<spent, cache, pool>>
    BY <1>3 DEF Fetch, Hand, poolVars
  <2>2. held'[p] \in {0, given + 1} /\ \A q \in Tasks : q # p => held'[q] = held[q]
    BY <1>0, <2>1
  <2>3. HandsDiffer' /\ CacheAlone' /\ PoolAlone'
    BY <2>1, <2>2, NextIsNew
  <2>4. HandsAlone'
    BY <2>1, <2>2, NextIsNew
  <2> QED
    BY <2>3, <2>4
<1>4. ASSUME NEW p \in Tasks, Send(p) \/ UsePooled(p)
      PROVE  OnePlace'
  <2>1. /\ spent' \in {spent, spent \cup {held[p]}} /\ held[p] # 0
        /\ held' \in {[held EXCEPT ![p] = given + 1], [held EXCEPT ![p] = 0]}
        /\ UNCHANGED <<cache, pool>>
    BY <1>0, <1>4 DEF Send, UsePooled, Hand, poolVars
  <2>2. \A q \in Tasks : q # p => held'[q] = held[q]
    BY <1>0, <2>1
  <2>3. held'[p] \in {0, given + 1}
    BY <1>0, <2>1
  <2>4. held[p] # given + 1
    BY NextIsNew
  <2>5. HandsDiffer' /\ CacheAlone' /\ PoolAlone'
    BY <2>1, <2>2, <2>3, NextIsNew
  <2>6. HandsAlone'
    BY <2>1, <2>2, <2>3, <2>4, NextIsNew
  <2> QED
    BY <2>5, <2>6
<1>5. ASSUME NEW p \in Tasks, CacheNonce(p)
      PROVE  OnePlace'
  <2>1. /\ cache' = Append(cache, held[p]) /\ held[p] # 0 /\ held[p] \in 1..given
        /\ held' = [held EXCEPT ![p] = 0] /\ UNCHANGED <<spent, pool>>
    <3>1. pc[p] = "cache" /\ held[p] \in 0..given /\ given \in Nat
      BY <1>5, NonceAssumption DEF CacheNonce, TypeInv, TypeOK
    <3>2. held[p] # 0 /\ held[p] \in 1..given
      BY <1>0, <3>1
    <3> QED
      BY <1>5, <3>2 DEF CacheNonce, Hand, poolVars
  <2>2. /\ Len(cache') = Len(cache) + 1 /\ cache'[Len(cache) + 1] = held[p]
        /\ \A i \in 1..Len(cache) : cache'[i] = cache[i]
    BY <1>0, <2>1, AppendElements
  <2>3. \A i \in 1..Len(cache') : i \in 1..Len(cache) \/ i = Len(cache')
    BY <1>0, <2>2
  <2>4. \A q \in Tasks : held'[q] = IF q = p THEN 0 ELSE held[q]
    BY <1>0, <2>1
  <2>5. HandsDiffer'
    BY <2>4
  <2>6. HandsAlone'
    BY <2>1, <2>2, <2>3, <2>4
  <2>7. CacheAlone'
    BY <2>1, <2>2, <2>3
  <2>8. PoolAlone'
    BY <2>1, <2>2, <2>3
  <2> QED
    BY <2>5, <2>6, <2>7, <2>8
<1>6. ASSUME NEW p \in Tasks, GetPooled(p)
      PROVE  OnePlace'
  <2>1. /\ pool # <<>> /\ pool' = Tail(pool) /\ UNCHANGED <<spent, cache>>
        /\ held' = [held EXCEPT ![p] = Head(pool)]
    BY <1>6 DEF GetPooled, Hand
  <2>2. /\ Len(pool) \in Nat \ {0} /\ Head(pool) = pool[1] /\ Len(pool') = Len(pool) - 1
        /\ \A i \in 1..Len(pool') : pool'[i] = pool[i + 1] /\ i + 1 \in 1..Len(pool)
    BY <1>0, <2>1, TailElements
  <2>3. /\ 1 \in 1..Len(pool) /\ \A i \in 1..Len(pool') : i + 1 # 1
        /\ \A i, j \in 1..Len(pool') : i + 1 = j + 1 => i = j
    BY <2>2
  <2>4. \A q \in Tasks : held'[q] = IF q = p THEN pool[1] ELSE held[q]
    BY <1>0, <2>1, <2>2
  <2> QED
    BY <2>1, <2>2, <2>3, <2>4
<1>7. CASE RefillLock
  BY <1>7 DEF RefillLock, taskVars
<1>8. CASE RefillOne
  <2>1. UNCHANGED <<spent, held>>
    BY <1>8 DEF RefillOne, RefillPop, RefillMiss, RefillFetch, taskVars
  <2>2. CASE cache # <<>> /\ pool' = Append(pool, Last(cache)) /\ cache' = Front(cache)
    <3>1. /\ Len(cache) \in 1..Len(cache) /\ Last(cache) = cache[Len(cache)]
          /\ \A i \in 1..Len(cache') : cache'[i] = cache[i] /\ i \in 1..Len(cache) /\ i # Len(cache)
      BY <1>0, <2>2, PoppedStack
    <3>2. Last(cache) \in 1..given
      BY <1>0, <2>2, FrontElements
    <3>3. /\ Len(pool') = Len(pool) + 1 /\ pool'[Len(pool')] = cache[Len(cache)]
          /\ \A i \in 1..Len(pool) : pool'[i] = pool[i]
      BY <1>0, <2>2, <3>1, <3>2, AppendElements
    <3>4. \A i \in 1..Len(pool') : i \in 1..Len(pool) \/ i = Len(pool')
      BY <1>0, <3>3
    <3> QED
      BY <2>1, <3>1, <3>3, <3>4
  <2>3. CASE given' = given + 1 /\ pool' = Append(pool, given') /\ UNCHANGED cache
    <3>1. given + 1 \in 1..given' /\ pool \in Seq(1..given')
      BY <2>3, <1>0, NextIsNew, WiderSeq
    <3>2. /\ Len(pool') = Len(pool) + 1 /\ pool'[Len(pool')] = given + 1
          /\ \A i \in 1..Len(pool) : pool'[i] = pool[i]
      BY <2>3, <3>1, AppendElements
    <3>3. \A i \in 1..Len(pool') : i \in 1..Len(pool) \/ i = Len(pool')
      BY <1>0, <3>2
    <3> QED
      BY <2>1, <2>3, <3>2, <3>3, NextIsNew
  <2>4. CASE UNCHANGED <<cache, pool>>
    BY <2>1, <2>4
  <2> QED
    BY <1>8, <2>2, <2>3, <2>4 DEF RefillOne, RefillPop, RefillMiss, RefillFetch
<1>9. CASE UNCHANGED vars
  BY <1>9 DEF vars
<1> QED
  BY <1>1, <1>2, <1>3, <1>4, <1>5, <1>6, <1>7, <1>8, <1>9 DEF Next, Step

LEMMA OnePlaceIsUsedOnce ==
    ASSUME TypeInv, OnePlace
    PROVE  UsedOnce
<1> SUFFICES ASSUME NEW n \in 1..given
             PROVE  Cardinality(Holders(n)) <= 1 /\ (n \in spent => Holders(n) = {})
  BY DEF UsedOnce
<1>0. /\ DOMAIN cache = 1..Len(cache) /\ DOMAIN pool = 1..Len(pool) /\ n # 0
  BY DEF TypeInv, TypeOK
<1>1. \A a, b \in Holders(n) : a = b
  BY <1>0 DEF Holders, OnePlace, HandsDiffer, HandsAlone, CacheAlone, PoolAlone, Distinct
<1>2. n \in spent => Holders(n) = {}
  BY <1>0 DEF Holders, OnePlace, HandsAlone, CacheAlone, PoolAlone
<1>3. CASE Holders(n) = {}
  BY <1>2, <1>3, FS_EmptySet
<1>4. CASE Holders(n) # {}
  <2>1. PICK a \in Holders(n) : TRUE
    BY <1>4
  <2>2. Holders(n) = {a}
    BY <1>1, <2>1
  <2> QED
    BY <1>2, <2>2, FS_Singleton
<1> QED
  BY <1>3, <1>4

(* No nonce is sent twice: none is in two hands, and none that the server  *)
(* has seen is in any, in every interleaving of requests, answers, callers *)
(* of the pool and refills.                                                *)
THEOREM NoncesAreUsedOnce == Spec => []UsedOnce
<1>1. TypeInv /\ OnePlace => UsedOnce
  BY OnePlaceIsUsedOnce
<1> QED
  BY TypeInvInit, TypeInvStep, OnePlaceInit, OnePlaceStep, <1>1, PTL DEF Spec

-----------------------------------------------------------------------------
(* A refill that has the lock fills the pool: nobody takes a nonce in the  *)
(* meantime.                                                               *)
FillsUp == Locked => Len(pool) + missing = MaxSize

RefillInv == FillsUp /\ RefillPending

LEMMA RefillInvInit == Init => RefillInv
<1> SUFFICES ASSUME Init PROVE RefillInv
  OBVIOUS
<1>1. missing = 0 /\ (Getters # {} => Len(pool) = MaxSize)
  BY NonceAssumption DEF Init
<1> QED
  BY <1>1, NonceAssumption DEF RefillInv, FillsUp, RefillPending, Locked

LEMMA RefillInvStep == TypeInv /\ RefillInv /\ [Next]_vars => RefillInv'
<1> SUFFICES ASSUME TypeInv, RefillInv, [Next]_vars PROVE RefillInv'
  OBVIOUS
<1>0. /\ pool \in Seq(1..given) /\ cache \in Seq(1..given) /\ given \in Nat
      /\ waiting \in Nat /\ missing \in Nat /\ faults \in Nat /\ Len(pool) \in Nat
      /\ Len(pool) + missing <= MaxSize
      /\ MaxSize \in Nat /\ MinSize \in Nat /\ MinSize <= MaxSize
  BY NonceAssumption DEF TypeInv, TypeOK, PoolBounded
<1> USE DEF RefillInv, FillsUp, RefillPending, Locked
<1>1. CASE UNCHANGED <<pool, waiting, missing>> /\ faults' \in {faults, faults + 1}
  BY <1>0, <1>1
<1>2. ASSUME NEW p \in Tasks, GetPooled(p)
      PROVE  RefillInv'
  <2>1. Len(pool') = Len(pool) - 1
    BY <1>0, <1>2, TailElements DEF GetPooled
  <2>2. missing = 0 /\ missing' = missing
    BY <1>0, <1>2 DEF GetPooled
  <2>3. IF Len(pool') < MinSize THEN waiting' = waiting + 1 ELSE waiting' = waiting
    BY <1>2 DEF GetPooled
  <2> QED
    BY <1>0, <2>1, <2>2, <2>3
<1>3. CASE RefillLock
  BY <1>0, <1>3 DEF RefillLock
<1>4. CASE RefillOne
  <2>1. missing > 0 /\ waiting' = waiting /\ Len(pool) + missing = MaxSize
    BY <1>4 DEF TypeInv, FetchesLocked, RefillOne, RefillPop, RefillMiss, RefillFetch
  <2>2. CASE missing' = missing - 1 /\ faults' = faults
             /\ \E n : pool' = Append(pool, n) /\ n \in 1..given'
    <3>1. Len(pool') = Len(pool) + 1 /\ missing' = missing - 1
      <4>1. PICK n \in 1..given' : pool' = Append(pool, n)
        BY <2>2
      <4>2. Len(Append(pool, n)) = Len(pool) + 1
        BY <1>0
      <4> QED
        BY <2>2, <4>1, <4>2
    <3>2. Len(pool') + missing' = MaxSize
      <4>1. \A m, n, k \in Nat : m + n = k => (m + 1) + (n - 1) = k
        OBVIOUS
      <4>2. (Len(pool) + 1) + (missing - 1) = MaxSize
        BY <1>0, <2>1, <4>1
      <4> QED
        BY <3>1, <4>2
    <3>3. missing' > 0 \/ Len(pool') >= MinSize
      BY <1>0, <2>1, <3>1, <3>2
    <3> QED
      BY <3>2, <3>3
  <2>3. CASE missing' = 0 /\ faults' = faults + 1
    BY <1>0, <2>1, <2>3
  <2>4. cache # <<>> => Last(cache) \in 1..given
    BY <1>0, FrontElements
  <2>5. given + 1 \in 1..(given + 1)
    BY <1>0
  <2> QED
    BY <1>1, <1>4, <2>2, <2>3, <2>4, <2>5 DEF RefillOne, RefillPop, RefillMiss, RefillFetch, Fault
<1>5. \A p \in Tasks :
        BeginRequest(p) \/ BeginGet(p) \/ PopCached(p) \/ MissCache(p) \/ Fetch(p) \/ Send(p)
        \/ CacheNonce(p) \/ GetEmpty(p) \/ UsePooled(p)
        => UNCHANGED <<pool, waiting, missing>> /\ faults' \in {faults, faults + 1}
  BY DEF BeginRequest, BeginGet, PopCached, MissCache, Fetch, Send, CacheNonce, GetEmpty,
         UsePooled, Fault, poolVars
<1>6. CASE UNCHANGED vars
  BY <1>1, <1>6 DEF vars
<1> QED
  BY <1>1, <1>2, <1>3, <1>4, <1>5, <1>6 DEF Next, Step

(* Until a request fails, a pool below min_size is being refilled or about *)
(* to be: the comparison is made after the nonce is taken.                 *)
THEOREM ShortPoolIsRefilled == Spec => []RefillPending
<1>1. RefillInv => RefillPending
  BY DEF RefillInv
<1> QED
  BY TypeInvInit, TypeInvStep, RefillInvInit, RefillInvStep, <1>1, PTL DEF Spec

-----------------------------------------------------------------------------
(* Lookups *)

(* While no two calls have asked at once, one call at most is asking; what *)
(* is cached is as new as everything that was told, or is about to be, and *)
(* what a call has been answered as new as what is cached.                 *)
NewAs(v) == v >= told /\ (cached = "directory" => v >= floor)
NewAsDone(v) == \A b \in Askers : asker[b].pc = "done" => v >= asker[b].value

OneAsks == ~raced => \A a, b \in Asking : a = b
EntryNewest == ~raced /\ entry # NoEntry => NewAs(entry.value) /\ NewAsDone(entry.value)
AnswerNewest ==
    ~raced => \A a \in Askers : asker[a].pc = "store" =>
        /\ NewAs(asker[a].value) /\ NewAsDone(asker[a].value)
        /\ entry # NoEntry => asker[a].value >= entry.value
AnswerKept == \A a \in Askers : asker[a].pc = "store" => asker[a].value >= seen[a]

NewestInv == OneAsks /\ EntryNewest /\ AnswerNewest /\ AnswerKept /\ NeverBack

(* When a value that is on its way, or cached, or told, went out of date.  *)
Ended(v) == since[v + 1]
AnswerInTime ==
    \A a \in Askers : asker[a].pc = "store" /\ asker[a].value + 1 <= truth =>
        asker[a].at <= Ended(asker[a].value)
EntryInTime ==
    cached = "dns" /\ entry # NoEntry =>
        /\ entry.expires <= clock + Ttl
        /\ entry.value + 1 <= truth => entry.expires <= Ended(entry.value) + Ttl + delay
ToldInTime ==
    cached = "dns" => \A a \in Askers :
        asker[a].pc = "done" /\ asker[a].value + 1 <= truth =>
            asker[a].at <= Ended(asker[a].value) + Ttl + delay

StaleInv == AnswerInTime /\ EntryInTime /\ ToldInTime

LEMMA LookupsConstants == Ttl \in Nat /\ MaxTime \in Nat /\ MaxVersions \in Nat \ {0}
BY LookupsAssumption

LEMMA LookupsTypeInit == LookupsInit => LookupsTypeOK
<1> SUFFICES ASSUME LookupsInit PROVE LookupsTypeOK
  OBVIOUS
<1>1. since \in [Version -> 0..MaxTime]
  BY LookupsConstants DEF LookupsInit
<1>2. asker \in [Askers -> [pc : {"rest", "ask", "store", "done"}, value : 0..truth, at : 0..clock]]
  BY DEF LookupsInit, AtRest
<1>3. seen \in [Askers -> 0..truth] /\ truth \in Version /\ clock \in 0..MaxTime
  BY LookupsConstants DEF LookupsInit, Version
<1>4. told \in 0..truth /\ floor \in 0..truth /\ delay \in 0..MaxTime
  BY LookupsConstants DEF LookupsInit
<1> QED BY <1>1, <1>2, <1>3, <1>4 DEF LookupsInit, LookupsTypeOK

(* What a move of a caller does to the calls. *)
LEMMA MoveTyped ==
    ASSUME LookupsTypeOK, NEW a \in Askers, NEW p \in {"rest", "ask", "store", "done"},
           NEW v \in 0..truth, NEW t \in 0..clock, Move(a, p, v, t)
    PROVE  /\ asker' \in [Askers -> [pc : {"rest", "ask", "store", "done"},
                                     value : 0..truth, at : 0..clock]]
           /\ asker'[a].pc = p /\ asker'[a].value = v /\ asker'[a].at = t
           /\ \A b \in Askers : b # a => asker'[b] = asker[b]
BY DEF LookupsTypeOK, Move

LEMMA RestIsMove ==
    ASSUME NEW a, asker' = [asker EXCEPT ![a] = AtRest]
    PROVE  Move(a, "rest", 0, 0)
BY DEF AtRest, Move

(* The types, of one caller and of one value at a time. *)
Typed ==
    /\ clock \in Nat /\ clock <= MaxTime /\ truth \in 1..MaxVersions /\ delay \in Nat
    /\ \A v \in 1..MaxVersions : since[v] \in Nat
    /\ entry # NoEntry => entry.value \in 1..truth /\ entry.expires \in Nat
    /\ \A a \in Askers : /\ asker[a].value \in 0..truth /\ asker[a].at \in 0..clock
                         /\ seen[a] \in 0..truth
    /\ told \in 0..truth /\ floor \in 0..truth

LEMMA TypesOfEach == LookupsTypeOK => Typed
BY LookupsConstants DEF LookupsTypeOK, Typed, Version

(* What each step of a caller stores and moves. *)
LEMMA AskNextMoves ==
    ASSUME LookupsTypeOK, NEW a \in Askers, AskNext(a)
    PROVE  Move(a, "ask", 0, 0) /\ 0 \in 0..truth /\ 0 \in 0..clock
BY LookupsConstants DEF AskNext, LookupsTypeOK, Version

LEMMA LookUpMoves ==
    ASSUME LookupsTypeOK, NEW a \in Askers, LookUp(a), Usable
    PROVE  /\ Move(a, "done", entry.value, clock)
           /\ entry.value \in 0..truth /\ clock \in 0..clock
BY TypesOfEach, LookupsConstants DEF LookUp, Usable, Typed

LEMMA AnswerMoves ==
    ASSUME LookupsTypeOK, NEW a \in Askers, Answer(a)
    PROVE  /\ Move(a, "store", truth, clock) \/ Move(a, "rest", 0, 0)
           /\ {0, truth} \subseteq 0..truth /\ {0, clock} \subseteq 0..clock
BY TypesOfEach, RestIsMove DEF Answer, Typed

LEMMA StoreMoves ==
    ASSUME LookupsTypeOK, NEW a \in Askers, Store(a)
    PROVE  /\ Move(a, "done", asker[a].value, clock)
           /\ asker[a].value \in 0..truth /\ clock \in 0..clock
           /\ entry'.value = asker[a].value /\ entry'.expires = clock + Ttl
BY TypesOfEach DEF Store, Typed

LEMMA ReturnMoves ==
    ASSUME LookupsTypeOK, NEW a \in Askers, Return(a)
    PROVE  Move(a, "rest", 0, 0) /\ 0 \in 0..truth /\ 0 \in 0..clock
<1>1. asker' = [asker EXCEPT ![a] = AtRest]
  BY DEF Return
<1>2. Move(a, "rest", 0, 0)
  BY <1>1, RestIsMove
<1> QED BY <1>2, TypesOfEach, LookupsConstants DEF Typed

(* A behaviour of Protocol is one of the caches, and one of the pool. *)
LEMMA ProtocolIsBoth ==
    ProtocolSpec => /\ Spec
                    /\ LookupsInit /\ [][LookupsNext]_lookupVars
<1>1. ProtocolInit => Init /\ LookupsInit
  BY DEF ProtocolInit
<1>2. [ProtocolNext]_protocolVars => [Next]_vars /\ [LookupsNext]_lookupVars
  BY DEF ProtocolNext, protocolVars
<1> QED BY <1>1, <1>2, PTL DEF ProtocolSpec, Spec

(* An answer on its way to the cache is one that the source has given. *)
AnswerGiven == \A a \in Askers : asker[a].pc = "store" => asker[a].value # 0

LookupsTypeInv == LookupsTypeOK /\ AnswerGiven

LEMMA LookupsTypeStep == LookupsTypeInv /\ [LookupsNext]_lookupVars => LookupsTypeOK'
<1> SUFFICES ASSUME LookupsTypeOK, AnswerGiven, [LookupsNext]_lookupVars PROVE LookupsTypeOK'
  BY DEF LookupsTypeInv
<1> USE DEF world, observers
<1>t. Typed
  BY TypesOfEach
<1>1. ASSUME NEW a \in Askers, LookUp(a) PROVE LookupsTypeOK'
  <2>1. asker' \in [Askers -> [pc : {"rest", "ask", "store", "done"}, value : 0..truth, at : 0..clock]]
    <3>1. CASE Usable
      BY <1>1, <3>1, LookUpMoves, MoveTyped
    <3>2. CASE ~Usable
      BY <1>1, <3>2, AskNextMoves, MoveTyped DEF LookUp
    <3> QED BY <3>1, <3>2
  <2> QED BY <1>1, <2>1 DEF LookUp, AskNext, LookupsTypeOK
<1>2. ASSUME NEW a \in Askers, FetchDirectory(a) PROVE LookupsTypeOK'
  <2>1. asker' \in [Askers -> [pc : {"rest", "ask", "store", "done"}, value : 0..truth, at : 0..clock]]
    BY <1>2, AskNextMoves, MoveTyped DEF FetchDirectory
  <2> QED BY <1>2, <2>1 DEF FetchDirectory, AskNext, LookupsTypeOK
<1>3. ASSUME NEW a \in Askers, Answer(a) PROVE LookupsTypeOK'
  <2>1. asker' \in [Askers -> [pc : {"rest", "ask", "store", "done"}, value : 0..truth, at : 0..clock]]
    BY <1>3, AnswerMoves, MoveTyped
  <2> QED BY <1>3, <2>1 DEF Answer, LookupsTypeOK
<1>4. ASSUME NEW a \in Askers, Store(a) PROVE LookupsTypeOK'
  <2>1. asker' \in [Askers -> [pc : {"rest", "ask", "store", "done"}, value : 0..truth, at : 0..clock]]
    BY <1>4, StoreMoves, MoveTyped
  <2>2. entry' = NoEntry \/ entry' \in [value : 1..truth, expires : 0..(MaxTime + Ttl)]
    BY <1>4, <1>t, LookupsConstants DEF Store, Typed, AnswerGiven
  <2>3. delay' \in 0..MaxTime
    BY <1>4, <1>t, LookupsConstants DEF Store, Typed, LookupsTypeOK
  <2> QED BY <1>4, <2>1, <2>2, <2>3 DEF Store, LookupsTypeOK
<1>5. ASSUME NEW a \in Askers, Return(a) PROVE LookupsTypeOK'
  <2>1. asker' \in [Askers -> [pc : {"rest", "ask", "store", "done"}, value : 0..truth, at : 0..clock]]
    BY <1>5, ReturnMoves, MoveTyped
  <2> QED BY <1>5, <2>1, <1>t DEF Return, LookupsTypeOK, Typed
<1>6. CASE Clear
  BY <1>6, <1>t DEF Clear, LookupsTypeOK, Typed
<1>7. CASE Cleanup
  BY <1>7 DEF Cleanup, LookupsTypeOK
<1>8. CASE Publish
  <2>1. 0..truth \subseteq 0..truth' /\ 1..truth \subseteq 1..truth' /\ truth' \in Version
    BY <1>8, <1>t, LookupsConstants DEF Publish, Typed, Version
  <2>2. since' \in [Version -> 0..MaxTime]
    BY <1>8, <2>1 DEF Publish, LookupsTypeOK
  <2> QED BY <1>8, <2>1, <2>2 DEF Publish, LookupsTypeOK
<1>9. CASE Pass
  <2>1. 0..clock \subseteq 0..clock' /\ clock' \in 0..MaxTime
    BY <1>9, <1>t, LookupsConstants DEF Pass, Typed
  <2> QED BY <1>9, <2>1 DEF Pass, LookupsTypeOK
<1>10. CASE UNCHANGED lookupVars
  BY <1>10 DEF lookupVars, LookupsTypeOK
<1> QED BY <1>1, <1>2, <1>3, <1>4, <1>5, <1>6, <1>7, <1>8, <1>9, <1>10 DEF LookupsNext

LEMMA GivenStep == LookupsTypeInv /\ [LookupsNext]_lookupVars => AnswerGiven'
<1> SUFFICES ASSUME LookupsTypeOK, AnswerGiven, [LookupsNext]_lookupVars PROVE AnswerGiven'
  BY DEF LookupsTypeInv
<1>t. Typed
  BY TypesOfEach
<1> USE DEF AnswerGiven
<1>1. ASSUME NEW a \in Askers, LookUp(a) PROVE AnswerGiven'
  <2>1. CASE Usable
    BY <1>1, <2>1, LookUpMoves, MoveTyped
  <2>2. CASE ~Usable
    BY <1>1, <2>2, AskNextMoves, MoveTyped DEF LookUp
  <2> QED BY <2>1, <2>2
<1>2. ASSUME NEW a \in Askers, FetchDirectory(a) PROVE AnswerGiven'
  BY <1>2, AskNextMoves, MoveTyped DEF FetchDirectory
<1>3. ASSUME NEW a \in Askers, Answer(a) PROVE AnswerGiven'
  BY <1>3, <1>t, AnswerMoves, MoveTyped DEF Typed
<1>4. ASSUME NEW a \in Askers, Store(a) PROVE AnswerGiven'
  BY <1>4, StoreMoves, MoveTyped
<1>5. ASSUME NEW a \in Askers, Return(a) PROVE AnswerGiven'
  BY <1>5, ReturnMoves, MoveTyped
<1>6. CASE asker' = asker
  BY <1>6
<1> QED BY <1>1, <1>2, <1>3, <1>4, <1>5, <1>6
        DEF LookupsNext, lookupVars, Clear, Cleanup, Publish, Pass

LEMMA LookupsTypeInvariant == ProtocolSpec => []LookupsTypeInv
<1>1. LookupsInit => LookupsTypeInv
  BY LookupsTypeInit DEF LookupsInit, AtRest, AnswerGiven, LookupsTypeInv
<1>2. LookupsTypeInv /\ [LookupsNext]_lookupVars => LookupsTypeInv'
  BY LookupsTypeStep, GivenStep DEF LookupsTypeInv
<1> QED BY <1>1, <1>2, ProtocolIsBoth, PTL

LEMMA NewestInit == LookupsInit => NewestInv
BY DEF LookupsInit, NewestInv, OneAsks, EntryNewest, AnswerNewest, AnswerKept, NeverBack,
       Asking, AtRest

LEMMA NewestStep == LookupsTypeInv /\ NewestInv /\ [LookupsNext]_lookupVars => NewestInv'
<1> SUFFICES ASSUME LookupsTypeOK, NewestInv, [LookupsNext]_lookupVars PROVE NewestInv'
  BY DEF LookupsTypeInv
<1>t. Typed /\ OneAsks /\ EntryNewest /\ AnswerNewest /\ AnswerKept /\ NeverBack
  BY TypesOfEach DEF NewestInv
<1> USE DEF world, observers
<1>1. ASSUME NEW a \in Askers, LookUp(a) PROVE NewestInv'
  <2>1. CASE Usable
    <3>m. /\ asker'[a].pc = "done" /\ asker'[a].value = entry.value /\ asker'[a].at = clock
          /\ \A b \in Askers : b # a => asker'[b] = asker[b]
      BY <1>1, <2>1, LookUpMoves, MoveTyped
    <3>s. /\ seen'[a] = (IF cached = "directory" /\ floor > told THEN floor ELSE told)
          /\ \A b \in Askers : b # a => seen'[b] = seen[b]
      BY <1>1, <1>t DEF LookUp, LookupsTypeOK
    <3>1. OneAsks'
      BY <1>1, <1>t, <2>1, <3>m DEF LookUp, Usable, OneAsks, Asking, Typed
    <3>2. EntryNewest'
      BY <1>1, <1>t, <2>1, <3>m DEF LookUp, Usable, EntryNewest, AnswerNewest, NewAs, NewAsDone, OneAsks, Asking, Typed
    <3>3. AnswerNewest'
      BY <1>1, <1>t, <2>1, <3>m DEF LookUp, Usable, AnswerNewest, EntryNewest, NewAs, NewAsDone, OneAsks, Asking, Typed
    <3>4. AnswerKept'
      BY <1>1, <1>t, <2>1, <3>m DEF LookUp, Usable, AnswerKept, Typed
    <3>5. NeverBack'
      BY <1>1, <1>t, <2>1, <3>s, <3>m DEF LookUp, Usable, NeverBack, AnswerKept, EntryNewest, NewAs, Typed
    <3> QED BY <3>1, <3>2, <3>3, <3>4, <3>5 DEF NewestInv
  <2>2. CASE ~Usable
    <3>0. AskNext(a)
      BY <1>1, <2>2 DEF LookUp
    <3>m. /\ asker'[a].pc = "ask" /\ asker'[a].value = 0 /\ asker'[a].at = 0
          /\ \A b \in Askers : b # a => asker'[b] = asker[b]
      BY <3>0, AskNextMoves, MoveTyped
    <3>s. /\ seen'[a] = (IF cached = "directory" /\ floor > told THEN floor ELSE told)
          /\ \A b \in Askers : b # a => seen'[b] = seen[b]
      BY <1>1, <1>t DEF LookUp, LookupsTypeOK
    <3>1. OneAsks'
      BY <1>1, <1>t, <2>2, <3>0, <3>m DEF LookUp, AskNext, OneAsks, Asking, Typed
    <3>2. EntryNewest'
      BY <1>1, <1>t, <2>2, <3>0, <3>m DEF LookUp, AskNext, EntryNewest, AnswerNewest, NewAs, NewAsDone, OneAsks, Asking, Typed
    <3>3. AnswerNewest'
      BY <1>1, <1>t, <2>2, <3>0, <3>m DEF LookUp, AskNext, AnswerNewest, EntryNewest, NewAs, NewAsDone, OneAsks, Asking, Typed
    <3>4. AnswerKept'
      BY <1>1, <1>t, <2>2, <3>0, <3>m DEF LookUp, AskNext, AnswerKept, Typed
    <3>5. NeverBack'
      BY <1>1, <1>t, <2>2, <3>0, <3>s, <3>m DEF LookUp, AskNext, NeverBack, AnswerKept, EntryNewest, NewAs, Typed
    <3> QED BY <3>1, <3>2, <3>3, <3>4, <3>5 DEF NewestInv
  <2> QED BY <2>1, <2>2
<1>2. ASSUME NEW a \in Askers, FetchDirectory(a) PROVE NewestInv'
  <2>0. AskNext(a)
    BY <1>2 DEF FetchDirectory
  <2>m. /\ asker'[a].pc = "ask" /\ asker'[a].value = 0 /\ asker'[a].at = 0
        /\ \A b \in Askers : b # a => asker'[b] = asker[b]
    BY <2>0, AskNextMoves, MoveTyped
  <2>s. /\ seen'[a] = (IF cached = "directory" /\ floor > told THEN floor ELSE told)
        /\ \A b \in Askers : b # a => seen'[b] = seen[b]
    BY <1>2, <1>t DEF FetchDirectory, LookupsTypeOK
  <2>1. OneAsks'
    BY <1>2, <1>t, <2>0, <2>m DEF FetchDirectory, AskNext, OneAsks, Asking, Typed
  <2>2. EntryNewest'
    BY <1>2, <1>t, <2>0, <2>m DEF FetchDirectory, AskNext, EntryNewest, AnswerNewest, NewAs, NewAsDone, OneAsks, Asking, Typed
  <2>3. AnswerNewest'
    BY <1>2, <1>t, <2>0, <2>m DEF FetchDirectory, AskNext, AnswerNewest, EntryNewest, NewAs, NewAsDone, OneAsks, Asking, Typed
  <2>4. AnswerKept'
    BY <1>2, <1>t, <2>0, <2>m DEF FetchDirectory, AskNext, AnswerKept, Typed
  <2>5. NeverBack'
    BY <1>2, <1>t, <2>0, <2>s, <2>m DEF FetchDirectory, AskNext, NeverBack, AnswerKept, EntryNewest, NewAs, Typed
  <2> QED BY <2>1, <2>2, <2>3, <2>4, <2>5 DEF NewestInv
<1>3. ASSUME NEW a \in Askers, Answer(a) PROVE NewestInv'
  <2>m. /\ \/ asker'[a].pc = "store" /\ asker'[a].value = truth
           \/ asker'[a].pc = "rest"
        /\ \A b \in Askers : b # a => asker'[b] = asker[b]
    BY <1>3, AnswerMoves, MoveTyped
  <2>1. OneAsks'
    BY <1>3, <1>t, <2>m DEF Answer, OneAsks, Asking, Typed
  <2>2. EntryNewest'
    BY <1>3, <1>t, <2>m DEF Answer, EntryNewest, AnswerNewest, NewAs, NewAsDone, OneAsks, Asking, Typed
  <2>3. AnswerNewest'
    BY <1>3, <1>t, <2>m DEF Answer, AnswerNewest, EntryNewest, NewAs, NewAsDone, OneAsks, Asking, Typed
  <2>4. AnswerKept'
    BY <1>3, <1>t, <2>m DEF Answer, AnswerKept, Typed
  <2>5. NeverBack'
    BY <1>3, <1>t, <2>m DEF Answer, NeverBack, AnswerKept, EntryNewest, NewAs, Typed
  <2> QED BY <2>1, <2>2, <2>3, <2>4, <2>5 DEF NewestInv
<1>4. ASSUME NEW a \in Askers, Store(a) PROVE NewestInv'
  <2>m. /\ asker'[a].pc = "done" /\ asker'[a].value = asker[a].value /\ asker'[a].at = clock
        /\ \A b \in Askers : b # a => asker'[b] = asker[b]
    BY <1>4, StoreMoves, MoveTyped
  <2>e. entry'.value = asker[a].value
    BY <1>4, StoreMoves
  <2>1. OneAsks'
    BY <1>4, <1>t, <2>e, <2>m DEF Store, OneAsks, Asking, Typed
  <2>2. EntryNewest'
    BY <1>4, <1>t, <2>e, <2>m DEF Store, EntryNewest, AnswerNewest, NewAs, NewAsDone, OneAsks, Asking, Typed
  <2>3. AnswerNewest'
    BY <1>4, <1>t, <2>e, <2>m DEF Store, AnswerNewest, EntryNewest, NewAs, NewAsDone, OneAsks, Asking, Typed
  <2>4. AnswerKept'
    BY <1>4, <1>t, <2>e, <2>m DEF Store, AnswerKept, Typed
  <2>5. NeverBack'
    BY <1>4, <1>t, <2>e, <2>m DEF Store, NeverBack, AnswerKept, EntryNewest, NewAs, Typed
  <2> QED BY <2>1, <2>2, <2>3, <2>4, <2>5 DEF NewestInv
<1>5. ASSUME NEW a \in Askers, Return(a) PROVE NewestInv'
  <2>m. /\ asker'[a].pc = "rest" /\ asker'[a].value = 0 /\ asker'[a].at = 0
        /\ \A b \in Askers : b # a => asker'[b] = asker[b]
    BY <1>5, ReturnMoves, MoveTyped
  <2>s. told' \in {told, asker[a].value} /\ told' >= told
    BY <1>5, <1>t DEF Return, Typed
  <2>r. \A b \in Askers : b # a => seen'[b] = seen[b]
    BY <1>5 DEF Return, LookupsTypeOK
  <2>1. OneAsks'
    BY <1>5, <1>t, <2>s, <2>r, <2>m DEF Return, OneAsks, Asking, Typed
  <2>2. EntryNewest'
    BY <1>5, <1>t, <2>s, <2>r, <2>m DEF Return, EntryNewest, AnswerNewest, NewAs, NewAsDone, OneAsks, Asking, Typed
  <2>3. AnswerNewest'
    BY <1>5, <1>t, <2>s, <2>r, <2>m DEF Return, AnswerNewest, EntryNewest, NewAs, NewAsDone, OneAsks, Asking, Typed
  <2>4. AnswerKept'
    BY <1>5, <1>t, <2>s, <2>r, <2>m DEF Return, AnswerKept, Typed
  <2>5. NeverBack'
    BY <1>5, <1>t, <2>s, <2>r, <2>m DEF Return, NeverBack, AnswerKept, EntryNewest, NewAs, Typed
  <2> QED BY <2>1, <2>2, <2>3, <2>4, <2>5 DEF NewestInv
<1>6. CASE Clear
  BY <1>6, <1>t DEF Clear, NewestInv, OneAsks, EntryNewest, AnswerNewest, AnswerKept, NeverBack,
     NewAs, NewAsDone, Asking, Typed
<1>7. CASE Cleanup
  BY <1>7, <1>t DEF Cleanup, NewestInv, OneAsks, EntryNewest, AnswerNewest, AnswerKept, NeverBack,
     NewAs, NewAsDone, Asking, Typed
<1>8. CASE Publish
  BY <1>8, <1>t DEF Publish, NewestInv, OneAsks, EntryNewest, AnswerNewest, AnswerKept, NeverBack,
     NewAs, NewAsDone, Asking, Typed
<1>9. CASE Pass
  BY <1>9, <1>t DEF Pass, NewestInv, OneAsks, EntryNewest, AnswerNewest, AnswerKept, NeverBack,
     NewAs, NewAsDone, Asking, Typed
<1>10. CASE UNCHANGED lookupVars
  BY <1>10, <1>t DEF lookupVars, NewestInv, OneAsks, EntryNewest, AnswerNewest, AnswerKept, NeverBack,
     NewAs, NewAsDone, Asking, Typed
<1> QED BY <1>1, <1>2, <1>3, <1>4, <1>5, <1>6, <1>7, <1>8, <1>9, <1>10 DEF LookupsNext

LEMMA StaleInit == LookupsInit => StaleInv
BY DEF LookupsInit, StaleInv, AnswerInTime, EntryInTime, ToldInTime, AtRest

LEMMA StaleStep == LookupsTypeInv /\ StaleInv /\ [LookupsNext]_lookupVars => StaleInv'
<1> SUFFICES ASSUME LookupsTypeOK, StaleInv, [LookupsNext]_lookupVars PROVE StaleInv'
  BY DEF LookupsTypeInv
<1>t. Typed /\ AnswerInTime /\ EntryInTime /\ ToldInTime
  BY TypesOfEach DEF StaleInv
<1> USE DEF world, observers
<1>1. ASSUME NEW a \in Askers, LookUp(a) PROVE StaleInv'
  <2>1. CASE Usable
    <3>m. /\ asker'[a].pc = "done" /\ asker'[a].value = entry.value /\ asker'[a].at = clock
          /\ \A b \in Askers : b # a => asker'[b] = asker[b]
      BY <1>1, <2>1, LookUpMoves, MoveTyped
    <3>1. AnswerInTime'
      BY <1>1, <1>t, <2>1, <3>m, LookupsConstants DEF LookUp, Usable, AnswerInTime, Ended, Typed
    <3>2. EntryInTime'
      BY <1>1, <1>t, <2>1, <3>m, LookupsConstants DEF LookUp, Usable, EntryInTime, AnswerInTime, Ended, Typed
    <3>3. ToldInTime'
      BY <1>1, <1>t, <2>1, <3>m, LookupsConstants DEF LookUp, Usable, ToldInTime, EntryInTime, AnswerInTime, Ended, Typed
    <3> QED BY <3>1, <3>2, <3>3 DEF StaleInv
  <2>2. CASE ~Usable
    <3>0. AskNext(a)
      BY <1>1, <2>2 DEF LookUp
    <3>m. /\ asker'[a].pc = "ask" /\ asker'[a].value = 0 /\ asker'[a].at = 0
          /\ \A b \in Askers : b # a => asker'[b] = asker[b]
      BY <3>0, AskNextMoves, MoveTyped
    <3>1. AnswerInTime'
      BY <1>1, <1>t, <2>2, <3>0, <3>m, LookupsConstants DEF LookUp, AskNext, AnswerInTime, Ended, Typed
    <3>2. EntryInTime'
      BY <1>1, <1>t, <2>2, <3>0, <3>m, LookupsConstants DEF LookUp, AskNext, EntryInTime, AnswerInTime, Ended, Typed
    <3>3. ToldInTime'
      BY <1>1, <1>t, <2>2, <3>0, <3>m, LookupsConstants DEF LookUp, AskNext, ToldInTime, EntryInTime, AnswerInTime, Ended, Typed
    <3> QED BY <3>1, <3>2, <3>3 DEF StaleInv
  <2> QED BY <2>1, <2>2
<1>2. ASSUME NEW a \in Askers, FetchDirectory(a) PROVE StaleInv'
  <2>0. AskNext(a)
    BY <1>2 DEF FetchDirectory
  <2>m. /\ asker'[a].pc = "ask" /\ asker'[a].value = 0 /\ asker'[a].at = 0
        /\ \A b \in Askers : b # a => asker'[b] = asker[b]
    BY <2>0, AskNextMoves, MoveTyped
  <2>1. AnswerInTime'
    BY <1>2, <1>t, <2>0, <2>m, LookupsConstants DEF FetchDirectory, AskNext, AnswerInTime, Ended, Typed
  <2>2. EntryInTime'
    BY <1>2, <1>t, <2>0, <2>m, LookupsConstants DEF FetchDirectory, AskNext, EntryInTime, AnswerInTime, Ended, Typed
  <2>3. ToldInTime'
    BY <1>2, <1>t, <2>0, <2>m, LookupsConstants DEF FetchDirectory, AskNext, ToldInTime, EntryInTime, AnswerInTime, Ended, Typed
  <2> QED BY <2>1, <2>2, <2>3 DEF StaleInv
<1>3. ASSUME NEW a \in Askers, Answer(a) PROVE StaleInv'
  <2>m. /\ \/ asker'[a].pc = "store" /\ asker'[a].value = truth
           \/ asker'[a].pc = "rest"
        /\ \A b \in Askers : b # a => asker'[b] = asker[b]
    BY <1>3, AnswerMoves, MoveTyped
  <2>1. AnswerInTime'
    BY <1>3, <1>t, <2>m, LookupsConstants DEF Answer, AnswerInTime, Ended, Typed
  <2>2. EntryInTime'
    BY <1>3, <1>t, <2>m, LookupsConstants DEF Answer, EntryInTime, AnswerInTime, Ended, Typed
  <2>3. ToldInTime'
    BY <1>3, <1>t, <2>m, LookupsConstants DEF Answer, ToldInTime, EntryInTime, AnswerInTime, Ended, Typed
  <2> QED BY <2>1, <2>2, <2>3 DEF StaleInv
<1>4. ASSUME NEW a \in Askers, Store(a) PROVE StaleInv'
  <2>m. /\ asker'[a].pc = "done" /\ asker'[a].value = asker[a].value /\ asker'[a].at = clock
        /\ \A b \in Askers : b # a => asker'[b] = asker[b]
    BY <1>4, StoreMoves, MoveTyped
  <2>e. entry'.value = asker[a].value /\ entry'.expires = clock + Ttl
    BY <1>4, StoreMoves
  <2>d. delay' \in Nat /\ delay' >= delay /\ clock <= asker[a].at + delay'
    BY <1>4, <1>t DEF Store, Typed
  <2>1. AnswerInTime'
    BY <1>4, <1>t, <2>e, <2>d, <2>m, LookupsConstants DEF Store, AnswerInTime, Ended, Typed
  <2>2. EntryInTime'
    BY <1>4, <1>t, <2>e, <2>d, <2>m, LookupsConstants DEF Store, EntryInTime, AnswerInTime, Ended, Typed
  <2>3. ToldInTime'
    BY <1>4, <1>t, <2>e, <2>d, <2>m, LookupsConstants DEF Store, ToldInTime, EntryInTime, AnswerInTime, Ended, Typed
  <2> QED BY <2>1, <2>2, <2>3 DEF StaleInv
<1>5. ASSUME NEW a \in Askers, Return(a) PROVE StaleInv'
  <2>m. /\ asker'[a].pc = "rest" /\ asker'[a].value = 0 /\ asker'[a].at = 0
        /\ \A b \in Askers : b # a => asker'[b] = asker[b]
    BY <1>5, ReturnMoves, MoveTyped
  <2>1. AnswerInTime'
    BY <1>5, <1>t, <2>m, LookupsConstants DEF Return, AnswerInTime, Ended, Typed
  <2>2. EntryInTime'
    BY <1>5, <1>t, <2>m, LookupsConstants DEF Return, EntryInTime, AnswerInTime, Ended, Typed
  <2>3. ToldInTime'
    BY <1>5, <1>t, <2>m, LookupsConstants DEF Return, ToldInTime, EntryInTime, AnswerInTime, Ended, Typed
  <2> QED BY <2>1, <2>2, <2>3 DEF StaleInv
<1>6. CASE Clear
  BY <1>6, <1>t, LookupsConstants DEF Clear, StaleInv, AnswerInTime, EntryInTime, ToldInTime, Ended, Typed
<1>7. CASE Cleanup
  BY <1>7, <1>t, LookupsConstants DEF Cleanup, StaleInv, AnswerInTime, EntryInTime, ToldInTime, Ended, Typed
<1>8. CASE Publish
  <2>m. /\ truth' = truth + 1 /\ since'[truth + 1] = clock
        /\ \A v \in 1..truth : since'[v] = since[v]
    BY <1>8, <1>t, LookupsConstants DEF Publish, LookupsTypeOK, Version, Typed
  <2>1. AnswerInTime'
    BY <1>8, <1>t, <2>m, LookupsConstants DEF Publish, AnswerInTime, Ended, Typed
  <2>2. EntryInTime'
    BY <1>8, <1>t, <2>m, LookupsConstants DEF Publish, EntryInTime, AnswerInTime, Ended, Typed
  <2>3. ToldInTime'
    BY <1>8, <1>t, <2>m, LookupsConstants DEF Publish, ToldInTime, EntryInTime, AnswerInTime, Ended, Typed
  <2> QED BY <2>1, <2>2, <2>3 DEF StaleInv
<1>9. CASE Pass
  BY <1>9, <1>t, LookupsConstants DEF Pass, StaleInv, AnswerInTime, EntryInTime, ToldInTime, Ended, Typed
<1>10. CASE UNCHANGED lookupVars
  BY <1>10, <1>t, LookupsConstants DEF lookupVars, StaleInv, AnswerInTime, EntryInTime, ToldInTime, Ended, Typed
<1> QED BY <1>1, <1>2, <1>3, <1>4, <1>5, <1>6, <1>7, <1>8, <1>9, <1>10 DEF LookupsNext

(* The caches: what is cached, on its way or told is an answer that the    *)
(* source has given, and not one of the future.                            *)
THEOREM LookupsTypeCorrect == ProtocolSpec => []LookupsTypeOK
<1>1. LookupsTypeInv => LookupsTypeOK
  BY DEF LookupsTypeInv
<1> QED BY <1>1, LookupsTypeInvariant, PTL

(* DirectoryManager and CachingDnsResolver: a caller is not told an older  *)
(* answer than was returned, or true at a clear_cache, before it asked, as *)
(* long as no two calls have asked the source at once.                     *)
THEOREM AnswersDoNotGoBack == ProtocolSpec => []NeverBack
<1>1. NewestInv => NeverBack
  BY DEF NewestInv
<1> QED BY <1>1, ProtocolIsBoth, LookupsTypeInvariant, NewestInit, NewestStep, PTL

(* DnsCache: an answer that is returned is out of date for at most its     *)
(* time to live and the time that an answer took to be stored.             *)
THEOREM AnswersGoStaleInTime == ProtocolSpec => []StaleBounded
<1>1. LookupsTypeInv /\ StaleInv => StaleBounded
  BY TypesOfEach, LookupsConstants
     DEF LookupsTypeInv, Typed, StaleInv, ToldInTime, Ended, StaleBounded
<1> QED BY <1>1, ProtocolIsBoth, LookupsTypeInvariant, StaleInit, StaleStep, PTL

(* A client that has a nonce pool and the caches: what is proved of the    *)
(* pool alone holds beside them.                                           *)
THEOREM PoolHoldsBesideCaches ==
    ProtocolSpec => [](UsedOnce /\ PoolBounded /\ RefillPending)
BY ProtocolIsBoth, NoncesAreUsedOnce, PoolStaysBounded, ShortPoolIsRefilled, PTL
=============================================================================
