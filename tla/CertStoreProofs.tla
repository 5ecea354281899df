-------------------------- MODULE CertStoreProofs ---------------------------
(***************************************************************************)
(* Theorems about CertStore, for every set of keys, savers and loaders and *)
(* every number of bundles and failures.                                   *)
(***************************************************************************)
EXTENDS CertStore, TLAPS

USE StoreAssumption

(* The file of a key is one of its own. *)
LEMMA Places ==
    /\ \A k \in Keys : Place(KeyOf(k)) \in Names /\ KeyOf(k) \in Names
    /\ \A k \in Keys : kind = "atomic" => Place(KeyOf(k)) = KeyOf(k)
    /\ \A j, k \in Keys : Place(KeyOf(j)) = Place(KeyOf(k)) => j = k
    /\ \A j, k \in Keys : KeyOf(j) = KeyOf(k) => j = k
BY DEF Place, KeyOf, Names

(* The states of a save in progress and of a load. *)
Opened == [key : Keys, linked : BOOLEAN]
Reading == [pc : {"read"}, key : Keys, secret : {"right", "wrong"}]
Loaded == [pc : {"done"}, key : Keys, result : Versions \cup {Nothing, Error}]

LEMMA TypeInit == Init => TypeOK
BY DEF Init, TypeOK, Names, Versions, Passes, Takers

LEMMA FaultType == Fault /\ faults \in 0..MaxFaults => faults' \in 0..MaxFaults
BY DEF Fault

(* What is loaded is the stored bundle, that there is none, or an error.   *)
LEMMA ParsedValue ==
    ASSUME NEW value, NEW secret
    PROVE  /\ Parsed(Decrypted(secret, value)) \in Versions \cup {Nothing, Error}
           /\ Parsed(Decrypted(secret, value)) \in Versions => Parsed(Decrypted(secret, value)) = value
           /\ Parsed(Decrypted(secret, value)) = Nothing => value = Nothing
BY DEF Parsed, Decrypted, Versions

(* What is written under a key changes no other. *)
LEMMA PutStored ==
    ASSUME TypeOK, NEW k \in Keys, NEW value, Put(k, value), kind' = kind
    PROVE  /\ Stored(k)' = value
           /\ \A j \in Keys : j # k => Stored(j)' = Stored(j)
           /\ value \in Versions \cup {Nothing, Empty, Mixed} =>
                 content' \in [Names -> Versions \cup {Nothing, Empty, Mixed}]
<1>1. /\ content \in [Names -> Versions \cup {Nothing, Empty, Mixed}]
      /\ content' = [content EXCEPT ![Place(KeyOf(k))] = value]
      /\ \A j \in Keys : Place(KeyOf(j))' = Place(KeyOf(j))
  BY DEF TypeOK, Put, Place, KeyOf
<1>2. \A j \in Keys : Stored(j)' = content'[Place(KeyOf(j))]
  BY <1>1 DEF Stored
<1> QED
  BY <1>1, <1>2, Places DEF Stored

LEMMA TypeSave ==
    ASSUME TypeOK, NEW s \in Savers,
           SaveOpen(s) \/ SaveWrite(s) \/ SaveAbort(s) \/ SaveAtomic(s)
    PROVE  TypeOK'
<1>0. MaxVersions \in Nat /\ version \in 0..MaxVersions /\ Versions = 1..MaxVersions
  BY DEF TypeOK, Versions
<1>1. CASE SaveOpen(s)
  <2>1. PICK k \in Keys : Put(k, Empty) /\ saving' = [saving EXCEPT ![s] = [key |-> k, linked |-> TRUE]]
    BY <1>1 DEF SaveOpen
  <2>2. content' \in [Names -> Versions \cup {Nothing, Empty, Mixed}]
    BY <1>1, <2>1, PutStored DEF SaveOpen
  <2>3. saving' \in [Savers -> {Idle} \cup [key : Keys, linked : BOOLEAN]]
    BY <2>1 DEF TypeOK
  <2> QED
    BY <1>1, <2>2, <2>3 DEF SaveOpen, passVars, TypeOK
<1>2. CASE SaveWrite(s)
  <2>0. /\ saving[s] \in Opened /\ saving[s].key \in Keys /\ version' \in Versions
        /\ version' \in 0..MaxVersions
    BY <1>0, <1>2 DEF SaveWrite, TypeOK, Opened
  <2>1. content' \in [Names -> Versions \cup {Nothing, Empty, Mixed}]
    <3>1. CASE UNCHANGED content
      BY <3>1 DEF TypeOK
    <3>2. CASE \E value \in Versions \cup {Mixed} : Put(saving[s].key, value)
      BY <1>2, <2>0, <3>2, PutStored DEF SaveWrite
    <3> QED
      BY <1>2, <2>0, <3>1, <3>2 DEF SaveWrite
  <2>2. saving' \in [Savers -> {Idle} \cup [key : Keys, linked : BOOLEAN]]
    BY <1>2 DEF SaveWrite, TypeOK
  <2>3. committed' \in [Keys -> 0..MaxVersions]
    BY <1>2, <2>0 DEF SaveWrite, TypeOK
  <2> QED
    BY <1>2, <2>0, <2>1, <2>2, <2>3 DEF SaveWrite, passVars, TypeOK
<1>3. CASE SaveAbort(s)
  BY <1>3, FaultType DEF SaveAbort, passVars, TypeOK
<1>4. CASE SaveAtomic(s)
  <2>1. version' \in Versions /\ version' \in 0..MaxVersions
    BY <1>0, <1>4 DEF SaveAtomic
  <2>2. PICK k \in Keys : Put(k, version') /\ committed' = [committed EXCEPT ![k] = version']
    BY <1>4 DEF SaveAtomic
  <2>3. content' \in [Names -> Versions \cup {Nothing, Empty, Mixed}]
    BY <1>4, <2>1, <2>2, PutStored DEF SaveAtomic
  <2>4. committed' \in [Keys -> 0..MaxVersions]
    BY <2>1, <2>2 DEF TypeOK
  <2> QED
    BY <1>4, <2>1, <2>3, <2>4 DEF SaveAtomic, passVars, TypeOK
<1> QED
  BY <1>1, <1>2, <1>3, <1>4

LEMMA TypeDelete ==
    ASSUME TypeOK, NEW k \in Keys, Delete(k)
    PROVE  TypeOK'
<1>1. content' \in [Names -> Versions \cup {Nothing, Empty, Mixed}]
  BY PutStored DEF Delete
<1>2. saving' \in [Savers -> {Idle} \cup [key : Keys, linked : BOOLEAN]]
  BY DEF Delete, TypeOK
<1>3. floor' \in [Loaders -> 0..MaxVersions] /\ before' \in [Keys -> 0..MaxVersions]
      /\ committed' \in [Keys -> 0..MaxVersions]
  BY DEF Delete, TypeOK
<1> QED
  BY <1>1, <1>2, <1>3 DEF Delete, TypeOK

LEMMA TypeLoad ==
    ASSUME TypeOK, NEW l \in Loaders, LoadCheck(l) \/ LoadRead(l) \/ LoadReturn(l)
    PROVE  TypeOK'
<1>0. loading \in [Loaders -> [pc : {"idle"}] \cup Reading \cup Loaded]
  BY DEF TypeOK, Reading, Loaded
<1>1. CASE LoadCheck(l)
  <2>1. PICK k \in Keys, secret \in {"right", "wrong"} :
          /\ floor' = [floor EXCEPT ![l] = committed[k]]
          /\ loading' = [loading EXCEPT ![l] =
                IF Stored(k) = Nothing THEN Done(k, Nothing)
                ELSE IF kind = "atomic" THEN Done(k, Parsed(Decrypted(secret, Stored(k))))
                ELSE [pc |-> "read", key |-> k, secret |-> secret]]
    BY <1>1 DEF LoadCheck
  <2>2. floor' \in [Loaders -> 0..MaxVersions]
    BY <2>1 DEF TypeOK
  <2>3. /\ Done(k, Nothing) \in Loaded
        /\ Done(k, Parsed(Decrypted(secret, Stored(k)))) \in Loaded
        /\ [pc |-> "read", key |-> k, secret |-> secret] \in Reading
    BY ParsedValue DEF Done, Loaded, Reading
  <2>4. loading' \in [Loaders -> [pc : {"idle"}] \cup Reading \cup Loaded]
    BY <1>0, <2>1, <2>3
  <2> QED
    BY <1>1, <2>2, <2>4 DEF LoadCheck, passVars, TypeOK, Reading, Loaded
<1>2. CASE LoadRead(l)
  <2> DEFINE k == loading[l].key
             value == IF Stored(k) = Nothing THEN Error
                      ELSE Parsed(Decrypted(loading[l].secret, Stored(k)))
  <2>1. k \in Keys
    BY <1>0, <1>2 DEF LoadRead, Reading, Loaded
  <2>2. value \in Versions \cup {Nothing, Error}
    BY ParsedValue
  <2>3. loading' = [loading EXCEPT ![l] = Done(k, value)]
    BY <1>2 DEF LoadRead
  <2> HIDE DEF k, value
  <2>4. Done(k, value) \in Loaded
    BY <2>1, <2>2 DEF Done, Loaded
  <2>5. loading' \in [Loaders -> [pc : {"idle"}] \cup Reading \cup Loaded]
    BY <1>0, <2>3, <2>4
  <2> QED
    BY <1>2, <2>5 DEF LoadRead, passVars, TypeOK, Reading, Loaded
<1>3. CASE LoadReturn(l)
  <2>1. loading' \in [Loaders -> [pc : {"idle"}] \cup Reading \cup Loaded]
    BY <1>0, <1>3 DEF LoadReturn
  <2>2. floor' \in [Loaders -> 0..MaxVersions]
    BY <1>3 DEF LoadReturn, TypeOK
  <2> QED
    BY <1>3, <2>1, <2>2 DEF LoadReturn, passVars, TypeOK, Reading, Loaded
<1> QED
  BY <1>1, <1>2, <1>3

LEMMA TypePass ==
    ASSUME TypeOK, List \/ Finish \/ \E x \in Names : Visit(x) \/ VisitFails(x)
    PROVE  TypeOK'
<1>1. CASE List
  BY <1>1, FaultType DEF List, storeVars, TypeOK
<1>2. CASE Finish
  BY <1>2 DEF Finish, storeVars, TypeOK
<1>3. ASSUME NEW x \in Names, Visit(x) PROVE TypeOK'
  <2>1. found' \in [Names -> 0..MaxVersions]
    BY <1>3 DEF Visit, TypeOK, Versions
  <2>2. todo' \in SUBSET Names
    BY <1>3 DEF Visit, TypeOK
  <2> QED
    BY <1>3, <2>1, <2>2 DEF Visit, storeVars, TypeOK
<1>4. ASSUME NEW x \in Names, VisitFails(x) PROVE TypeOK'
  BY <1>4, FaultType DEF VisitFails, storeVars, TypeOK
<1> QED
  BY <1>1, <1>2, <1>3, <1>4

LEMMA TypeStep == TypeOK /\ [Next]_vars => TypeOK'
<1>1. UNCHANGED vars /\ TypeOK => TypeOK'
  BY DEF vars, TypeOK
<1> QED
  BY <1>1, TypeSave, TypeDelete, TypeLoad, TypePass DEF Next

(* The state is well formed. *)
THEOREM TypeCorrect == Spec => []TypeOK
BY TypeInit, TypeStep, PTL DEF Spec

-----------------------------------------------------------------------------
(* What is stored *)

(* A whole bundle is the one saved last, no name means that there is none, *)
(* and versions only grow; with atomic operations nothing else is stored.  *)
StoredInv ==
    \A k \in Keys :
        /\ Stored(k) \in Versions => committed[k] = Stored(k)
        /\ Stored(k) = Nothing => committed[k] = 0
        /\ committed[k] <= version
        /\ kind = "atomic" => Stored(k) \in Versions \cup {Nothing}

AtomicSavesAtOnce == kind = "atomic" => \A s \in Savers : saving[s] = Idle

(* A load has to find no more than what is committed now, and has found    *)
(* no less.                                                                *)
LoadInv ==
    \A l \in Loaders :
        /\ loading[l].pc = "read" => loading[l].key \in Keys /\ floor[l] <= committed[loading[l].key]
        /\ loading[l].pc = "done" =>
              /\ loading[l].result \in Versions => loading[l].result >= floor[l]
              /\ loading[l].result = Nothing => floor[l] = 0

StoreInv == StoredInv /\ AtomicSavesAtOnce /\ LoadInv

LEMMA StoreInvInit == Init => StoreInv
<1> SUFFICES ASSUME Init PROVE StoreInv
  OBVIOUS
<1>1. \A k \in Keys : Stored(k) = Nothing /\ committed[k] = 0
  BY Places DEF Init, Stored
<1>2. StoredInv
  BY <1>1 DEF Init, StoredInv, Versions
<1> QED
  BY <1>2 DEF Init, StoreInv, AtomicSavesAtOnce, LoadInv

(* Steps that leave what is stored. *)
LEMMA StoredStays ==
    ASSUME StoredInv, UNCHANGED <<kind, content, committed>>, version' >= version,
           version \in Nat, version' \in Nat, committed \in [Keys -> Nat]
    PROVE  StoredInv'
<1>1. \A k \in Keys : Stored(k)' = Stored(k)
  BY DEF Stored, Place, KeyOf
<1>2. \A k \in Keys : committed'[k] <= version'
  BY DEF StoredInv
<1> QED
  BY <1>1, <1>2 DEF StoredInv

(* A save or a delete under a key. *)
LEMMA StoredPut ==
    ASSUME TypeOK, StoredInv, NEW k \in Keys, NEW value, Put(k, value), NEW last \in Nat,
           committed'[k] = last, \A j \in Keys : j # k => committed'[j] = committed[j], kind' = kind,
           version' \in Nat, version' >= version, last <= version',
           value \in Versions => last = value,
           value = Nothing => last = 0,
           kind = "atomic" => value \in Versions \cup {Nothing}
    PROVE  StoredInv'
<1>1. Stored(k)' = value /\ \A j \in Keys : j # k => Stored(j)' = Stored(j)
  BY PutStored
<1>3. \A j \in Keys : committed[j] <= version'
  <2>1. version \in Nat /\ \A j \in Keys : committed[j] \in Nat /\ committed[j] <= version
    BY DEF TypeOK, StoredInv
  <2> QED
    BY <2>1
<1>4. ASSUME NEW j \in Keys
      PROVE  /\ Stored(j)' \in Versions => committed'[j] = Stored(j)'
             /\ Stored(j)' = Nothing => committed'[j] = 0
             /\ committed'[j] <= version'
             /\ kind' = "atomic" => Stored(j)' \in Versions \cup {Nothing}
  BY <1>1, <1>3 DEF StoredInv
<1> QED
  BY <1>4 DEF StoredInv

(* Loads under way when something is saved. *)
LEMMA LoadsGoOn ==
    ASSUME TypeOK, LoadInv, UNCHANGED <<loading, floor>>,
           \A k \in Keys : committed'[k] \in Nat /\ committed'[k] >= committed[k]
    PROVE  LoadInv'
<1>1. ASSUME NEW l \in Loaders, loading[l].pc = "read"
      PROVE  floor[l] <= committed'[loading[l].key]
  <2>1. /\ loading[l].key \in Keys /\ floor[l] \in Nat /\ committed[loading[l].key] \in Nat
        /\ floor[l] <= committed[loading[l].key]
    BY <1>1 DEF TypeOK, LoadInv
  <2>2. \A a, b, c \in Nat : a <= b /\ c >= b => a <= c
    OBVIOUS
  <2> QED
    BY <2>1, <2>2
<1> QED
  BY <1>1 DEF LoadInv

LEMMA StoreInvSave ==
    ASSUME TypeOK, StoreInv, NEW s \in Savers,
           SaveOpen(s) \/ SaveWrite(s) \/ SaveAbort(s) \/ SaveAtomic(s)
    PROVE  StoreInv'
<1>0. /\ version \in Nat /\ committed \in [Keys -> Nat] /\ kind' = kind
      /\ \A k \in Keys : committed[k] <= version
      /\ \A v \in Nat : v \in Versions => v \notin {0}
      /\ UNCHANGED <<loading, floor>>
  BY DEF TypeOK, StoreInv, StoredInv, SaveOpen, SaveWrite, SaveAbort, SaveAtomic, Versions
<1>1. CASE SaveOpen(s)
  <2>1. PICK k \in Keys : Put(k, Empty)
    BY <1>1 DEF SaveOpen
  <2>2. committed' = committed /\ version' = version /\ kind # "atomic"
    BY <1>1 DEF SaveOpen
  <2>3. committed[k] \in Nat /\ committed[k] <= version'
    BY <1>0, <2>2
  <2>4. Empty \notin Versions /\ Empty # Nothing
    BY DEF Versions
  <2>5. StoredInv'
    BY <1>0, <2>1, <2>2, <2>3, <2>4, StoredPut DEF StoreInv
  <2>6. LoadInv'
    BY <1>0, <2>2, LoadsGoOn DEF StoreInv
  <2> QED
    BY <1>0, <2>2, <2>5, <2>6 DEF StoreInv, AtomicSavesAtOnce
<1>2. CASE SaveWrite(s)
  <2>0. /\ saving[s].key \in Keys /\ kind # "atomic" /\ version' = version + 1
        /\ version' \in Versions
    BY <1>2 DEF SaveWrite, TypeOK, StoreInv, AtomicSavesAtOnce, Versions
  <2>1. CASE ~saving[s].linked
    <3>1. UNCHANGED <<content, committed>>
      BY <1>2, <2>1 DEF SaveWrite
    <3> QED
      BY <1>0, <2>0, <3>1, StoredStays, LoadsGoOn DEF StoreInv, AtomicSavesAtOnce
  <2>2. CASE saving[s].linked
    <3>1. PICK value \in {version', Mixed} : Put(saving[s].key, value)
      BY <1>2, <2>2 DEF SaveWrite
    <3>2. committed' = [committed EXCEPT ![saving[s].key] = version']
      BY <1>2, <2>2 DEF SaveWrite
    <3>3. Mixed \notin Versions /\ Mixed # Nothing /\ version' # Nothing /\ version' \in Nat
      BY <1>0, <2>0 DEF Versions
    <3>6. /\ committed'[saving[s].key] = version'
          /\ \A j \in Keys : j # saving[s].key => committed'[j] = committed[j]
      BY <1>0, <2>0, <3>2
    <3>4. StoredInv'
      BY <1>0, <2>0, <3>1, <3>3, <3>6, StoredPut DEF StoreInv
    <3>5. \A k \in Keys : committed'[k] \in Nat /\ committed'[k] >= committed[k]
      BY <1>0, <2>0, <3>2
    <3> QED
      BY <1>0, <2>0, <3>4, <3>5, LoadsGoOn DEF StoreInv, AtomicSavesAtOnce
  <2> QED
    BY <2>1, <2>2
<1>3. CASE SaveAbort(s)
  <2>1. UNCHANGED <<content, committed, version>> /\ kind # "atomic"
    BY <1>3 DEF SaveAbort, StoreInv, AtomicSavesAtOnce
  <2> QED
    BY <1>0, <2>1, StoredStays, LoadsGoOn DEF StoreInv, AtomicSavesAtOnce
<1>4. CASE SaveAtomic(s)
  <2>1. PICK k \in Keys : Put(k, version') /\ committed' = [committed EXCEPT ![k] = version']
    BY <1>4 DEF SaveAtomic
  <2>2. version' = version + 1 /\ version' \in Versions /\ saving' = saving
    BY <1>4 DEF SaveAtomic, TypeOK, Versions
  <2>3. version' # Nothing /\ version' \in Nat
    BY <1>0, <2>2
  <2>6. committed'[k] = version' /\ \A j \in Keys : j # k => committed'[j] = committed[j]
    BY <1>0, <2>1
  <2>4. StoredInv'
    BY <1>0, <2>1, <2>2, <2>3, <2>6, StoredPut DEF StoreInv
  <2>5. \A j \in Keys : committed'[j] \in Nat /\ committed'[j] >= committed[j]
    BY <1>0, <2>1, <2>2
  <2> QED
    BY <1>0, <2>2, <2>4, <2>5, LoadsGoOn DEF StoreInv, AtomicSavesAtOnce
<1> QED
  BY <1>1, <1>2, <1>3, <1>4

LEMMA StoreInvDelete ==
    ASSUME TypeOK, StoreInv, NEW k \in Keys, Delete(k)
    PROVE  StoreInv'
<1>1. StoredInv'
  <2>1. /\ Put(k, Nothing) /\ kind' = kind /\ version' = version
        /\ committed'[k] = 0 /\ \A j \in Keys : j # k => committed'[j] = committed[j]
    BY DEF Delete, TypeOK
  <2>2. version \in Nat /\ Nothing \notin Versions
    BY DEF TypeOK, Versions
  <2> QED
    BY <2>1, <2>2, StoredPut DEF StoreInv
<1>2. AtomicSavesAtOnce'
  <2>1. ASSUME kind = "atomic" PROVE \A s \in Savers : saving'[s] = Idle
    BY <2>1 DEF Delete, StoreInv, AtomicSavesAtOnce
  <2> QED
    BY <2>1 DEF Delete, AtomicSavesAtOnce
<1>3. ASSUME NEW l \in Loaders
      PROVE  /\ loading[l].pc = "read" =>
                   loading[l].key \in Keys /\ floor'[l] <= committed'[loading[l].key]
             /\ loading[l].pc = "done" =>
                   /\ loading[l].result \in Versions => loading[l].result >= floor'[l]
                   /\ loading[l].result = Nothing => floor'[l] = 0
  <2>1. floor'[l] = IF loading[l].pc = "read" /\ loading[l].key = k THEN 0 ELSE floor[l]
    BY DEF Delete
  <2>2. committed'[k] = 0 /\ \A j \in Keys : j # k => committed'[j] = committed[j]
    BY DEF Delete, TypeOK
  <2> QED
    BY <2>1, <2>2 DEF StoreInv, LoadInv
<1>4. LoadInv'
  BY <1>3 DEF Delete, LoadInv
<1> QED
  BY <1>1, <1>2, <1>4 DEF StoreInv

LEMMA StoreInvLoad ==
    ASSUME TypeOK, StoreInv, NEW l \in Loaders, LoadCheck(l) \/ LoadRead(l) \/ LoadReturn(l)
    PROVE  StoreInv'
<1>0. /\ DOMAIN loading = Loaders /\ DOMAIN floor = Loaders /\ version \in Nat
      /\ committed \in [Keys -> Nat]
      /\ UNCHANGED <<kind, content, version, saving, committed>>
  BY DEF TypeOK, LoadCheck, LoadRead, LoadReturn
<1>1. StoredInv' /\ AtomicSavesAtOnce'
  BY <1>0, StoredStays DEF StoreInv, AtomicSavesAtOnce
<1>2. \A m \in Loaders : m # l => loading'[m] = loading[m] /\ floor'[m] = floor[m]
  BY <1>0 DEF LoadCheck, LoadRead, LoadReturn
<1>3. /\ loading'[l].pc = "read" => /\ loading'[l].key \in Keys
                                   /\ floor'[l] <= committed[loading'[l].key]
      /\ loading'[l].pc = "done" =>
            /\ loading'[l].result \in Versions => loading'[l].result >= floor'[l]
            /\ loading'[l].result = Nothing => floor'[l] = 0
  <2>1. CASE LoadCheck(l)
    <3>1. PICK k \in Keys, secret \in {"right", "wrong"} :
            /\ floor' = [floor EXCEPT ![l] = committed[k]]
            /\ loading' = [loading EXCEPT ![l] =
                  IF Stored(k) = Nothing THEN Done(k, Nothing)
                  ELSE IF kind = "atomic" THEN Done(k, Parsed(Decrypted(secret, Stored(k))))
                  ELSE [pc |-> "read", key |-> k, secret |-> secret]]
      BY <2>1 DEF LoadCheck
    <3>2. floor'[l] = committed[k] /\ committed[k] \in Nat
      BY <1>0, <3>1
    <3>3. CASE Stored(k) = Nothing
      <4>1. loading'[l] = Done(k, Nothing) /\ committed[k] = 0
        BY <1>0, <3>1, <3>3 DEF StoreInv, StoredInv
      <4>2. Nothing \notin Versions
        BY DEF Versions
      <4> QED
        BY <3>2, <4>1, <4>2 DEF Done
    <3>4. CASE Stored(k) # Nothing /\ kind = "atomic"
      <4>1. loading'[l] = Done(k, Parsed(Decrypted(secret, Stored(k))))
        BY <1>0, <3>1, <3>4
      <4>2. Parsed(Decrypted(secret, Stored(k))) \in Versions =>
              Parsed(Decrypted(secret, Stored(k))) = committed[k]
        BY ParsedValue DEF StoreInv, StoredInv
      <4>3. Parsed(Decrypted(secret, Stored(k))) # Nothing
        BY <3>4, ParsedValue
      <4> QED
        BY <3>2, <4>1, <4>2, <4>3 DEF Done
    <3>5. CASE Stored(k) # Nothing /\ kind # "atomic"
      <4>1. loading'[l] = [pc |-> "read", key |-> k, secret |-> secret]
        BY <1>0, <3>1, <3>5
      <4> QED
        BY <3>2, <4>1
    <3> QED
      BY <3>3, <3>4, <3>5
  <2>2. CASE LoadRead(l)
    <3> DEFINE k == loading[l].key
               value == IF Stored(k) = Nothing THEN Error
                        ELSE Parsed(Decrypted(loading[l].secret, Stored(k)))
    <3>1. /\ k \in Keys /\ floor[l] <= committed[k] /\ floor' = floor
          /\ loading' = [loading EXCEPT ![l] = Done(k, value)]
      BY <2>2 DEF LoadRead, StoreInv, LoadInv
    <3>2. value \in Versions => value = committed[k]
      BY <3>1, ParsedValue DEF StoreInv, StoredInv, Versions
    <3>3. value # Nothing
      BY ParsedValue
    <3> HIDE DEF value, k
    <3>4. loading'[l] = Done(k, value)
      BY <1>0, <3>1
    <3>5. floor[l] \in Nat /\ committed[k] \in Nat
      BY <1>0, <3>1 DEF TypeOK
    <3> QED
      BY <3>1, <3>2, <3>3, <3>4, <3>5 DEF Done
  <2>3. CASE LoadReturn(l)
    <3>1. loading'[l] = [pc |-> "idle"]
      BY <1>0, <2>3 DEF LoadReturn
    <3> QED
      BY <3>1
  <2> QED
    BY <2>1, <2>2, <2>3
<1>4. LoadInv'
  BY <1>0, <1>2, <1>3 DEF StoreInv, LoadInv
<1> QED
  BY <1>1, <1>4 DEF StoreInv

LEMMA StoreInvStep == TypeOK /\ StoreInv /\ [Next]_vars => StoreInv'
<1> SUFFICES ASSUME TypeOK, StoreInv, [Next]_vars PROVE StoreInv'
  OBVIOUS
<1>1. ASSUME UNCHANGED storeVars PROVE StoreInv'
  <2>1. StoredInv'
    BY <1>1, StoredStays DEF storeVars, StoreInv, TypeOK
  <2>2. AtomicSavesAtOnce' /\ LoadInv'
    BY <1>1 DEF storeVars, StoreInv, AtomicSavesAtOnce, LoadInv
  <2> QED
    BY <2>1, <2>2 DEF StoreInv
<1>2. List \/ Finish \/ (\E x \in Names : Visit(x) \/ VisitFails(x)) \/ UNCHANGED vars
      => UNCHANGED storeVars
  BY DEF List, Finish, Visit, VisitFails, vars, storeVars
<1> QED
  BY <1>1, <1>2, StoreInvSave, StoreInvDelete, StoreInvLoad DEF Next

(* load returns no bundle older than the one stored when it began, and     *)
(* says that there is none only if none was there or it was deleted.       *)
THEOREM LoadIsTrue == Spec => []LoadTellsTruth
<1>1. StoreInv => LoadTellsTruth
  BY DEF StoreInv, LoadInv, LoadTellsTruth
<1> QED
  BY TypeInit, TypeStep, StoreInvInit, StoreInvStep, <1>1, PTL DEF Spec

-----------------------------------------------------------------------------
(* The pass over an atomic backend *)

(* What has to be found is still there in a version as new, and what has   *)
(* been visited was found.                                                 *)
PassInv ==
    kind = "atomic" =>
        /\ \A k \in Keys : before[k] <= committed[k]
        /\ pass = "ok" => todo = {}
        /\ pass \in {"running", "ok"} /\ work \in Takers =>
              \A k \in Keys : KeyOf(k) \in todo \/ found[KeyOf(k)] >= before[k]

LEMMA PassInvInit == Init => PassInv
BY DEF Init, PassInv

LEMMA PassInvStep == TypeOK /\ StoreInv /\ PassInv /\ [Next]_vars => PassInv'
<1> SUFFICES ASSUME TypeOK, StoreInv, PassInv, [Next]_vars, kind = "atomic"
             PROVE  PassInv'
  BY DEF Next, SaveOpen, SaveWrite, SaveAbort, SaveAtomic, Delete, LoadCheck, LoadRead, LoadReturn,
         List, Finish, Visit, VisitFails, storeVars, vars, PassInv
<1>0. /\ \A k \in Keys : before[k] \in Nat /\ committed[k] \in Nat /\ found[KeyOf(k)] \in Nat
      /\ \A k \in Keys : before[k] <= committed[k]
      /\ DOMAIN before = Keys /\ DOMAIN committed = Keys /\ DOMAIN found = Names
  BY Places DEF TypeOK, PassInv
<1>1. ASSUME UNCHANGED <<work, pass, todo, found, kind>>,
             \A k \in Keys : before'[k] \in {0, before[k]} /\ before'[k] <= committed'[k]
      PROVE  PassInv'
  <2>1. ASSUME NEW k \in Keys, found[KeyOf(k)] >= before[k] PROVE found'[KeyOf(k)] >= before'[k]
    <3>1. found[KeyOf(k)] \in Nat /\ found'[KeyOf(k)] = found[KeyOf(k)] /\ before'[k] \in {0, before[k]}
      BY <1>0, <1>1 DEF KeyOf
    <3> QED
      BY <2>1, <3>1
  <2> QED
    BY <1>1, <2>1 DEF PassInv, KeyOf
<1>2. ASSUME NEW s \in Savers, SaveOpen(s) \/ SaveWrite(s) \/ SaveAbort(s)
      PROVE  FALSE
  BY <1>2 DEF SaveOpen, SaveWrite, SaveAbort, StoreInv, AtomicSavesAtOnce
<1>3. ASSUME NEW s \in Savers, SaveAtomic(s)
      PROVE  PassInv'
  <2>1. PICK k \in Keys : committed' = [committed EXCEPT ![k] = version']
    BY <1>3 DEF SaveAtomic
  <2>2. version' \in Nat /\ \A j \in Keys : before[j] <= version'
    <3>1. version \in Nat /\ version' = version + 1
      BY <1>3 DEF SaveAtomic, TypeOK
    <3>2. \A j \in Keys : committed[j] <= version
      BY DEF StoreInv, StoredInv
    <3> QED
      BY <1>0, <3>1, <3>2
  <2>3. \A j \in Keys : before[j] <= committed'[j]
    BY <1>0, <2>1, <2>2
  <2> QED
    BY <1>1, <1>3, <2>3 DEF SaveAtomic, passVars
<1>4. ASSUME NEW k \in Keys, Delete(k)
      PROVE  PassInv'
  <2>1. /\ committed' = [committed EXCEPT ![k] = 0] /\ before' = [before EXCEPT ![k] = 0]
        /\ UNCHANGED <<work, pass, todo, found, kind>>
    BY <1>4 DEF Delete
  <2>2. \A j \in Keys : before'[j] \in {0, before[j]} /\ before'[j] <= committed'[j]
    BY <1>0, <2>1
  <2> QED
    BY <1>1, <2>1, <2>2
<1>5. ASSUME NEW l \in Loaders, LoadCheck(l) \/ LoadRead(l) \/ LoadReturn(l)
      PROVE  PassInv'
  <2>1. UNCHANGED <<work, pass, todo, found, kind, before, committed>>
    BY <1>5 DEF LoadCheck, LoadRead, LoadReturn, passVars
  <2> QED
    BY <1>0, <1>1, <2>1
<1>6. CASE List
  <2>1. UNCHANGED <<kind, committed, found, content>>
    BY <1>6 DEF List, storeVars
  <2>2. CASE pass' = "error" /\ UNCHANGED before
    BY <1>0, <2>1, <2>2 DEF PassInv
  <2>3. CASE pass' = "running" /\ before' = committed /\ todo' = {x \in Names : content[x] # Nothing}
    <3>1. ASSUME NEW k \in Keys, KeyOf(k) \notin todo' PROVE found'[KeyOf(k)] >= before'[k]
      <4>1. Stored(k) = Nothing
        BY <2>3, <3>1, Places DEF Stored
      <4>2. committed[k] = 0
        BY <4>1 DEF StoreInv, StoredInv
      <4> QED
        BY <1>0, <2>1, <2>3, <4>2 DEF KeyOf
    <3>2. \A k \in Keys : before'[k] <= committed'[k]
      BY <1>0, <2>1, <2>3
    <3> QED
      BY <2>3, <3>1, <3>2 DEF PassInv, KeyOf
  <2> QED
    BY <1>6, <2>2, <2>3 DEF List
<1>7. CASE Finish
  <2>1. UNCHANGED <<kind, committed, before, todo, found, work>> /\ todo = {}
        /\ pass' = IF pass = "running" THEN "ok" ELSE "error"
    BY <1>7 DEF Finish, storeVars
  <2> QED
    BY <2>1 DEF PassInv, KeyOf
<1>8. ASSUME NEW x \in Names, Visit(x)
      PROVE  PassInv'
  <2>1. /\ UNCHANGED <<kind, committed, before, work, pass>> /\ todo' = todo \ {x} /\ pass # "ok"
        /\ found' = IF work \in Takers /\ content[Place(x)] \in Versions
                      THEN [found EXCEPT ![x] = content[Place(x)]] ELSE found
    BY <1>8 DEF Visit, storeVars
  <2>2. ASSUME NEW k \in Keys, pass = "running", work \in Takers, KeyOf(k) \notin todo'
        PROVE  found'[KeyOf(k)] >= before[k]
    <3>1. CASE KeyOf(k) # x
      BY <1>0, <2>1, <2>2, <3>1, Places DEF PassInv
    <3>2. CASE KeyOf(k) = x /\ content[Place(x)] \in Versions
      <4>1. found'[KeyOf(k)] = content[Place(x)]
        BY <1>0, <2>1, <2>2, <3>2
      <4>2. content[Place(x)] = committed[k]
        BY <3>2 DEF StoreInv, StoredInv, Stored
      <4> QED
        BY <1>0, <4>1, <4>2
    <3>3. CASE KeyOf(k) = x /\ content[Place(x)] \notin Versions
      <4>1. Stored(k) = Nothing
        BY <3>3 DEF StoreInv, StoredInv, Stored
      <4>2. committed[k] = 0
        BY <4>1 DEF StoreInv, StoredInv
      <4>3. before[k] = 0 /\ found' = found
        BY <1>0, <2>1, <3>3, <4>2
      <4> QED
        BY <1>0, <4>3
    <3> QED
      BY <3>1, <3>2, <3>3
  <2>3. \A k \in Keys : before'[k] <= committed'[k]
    BY <1>0, <2>1
  <2> QED
    BY <2>1, <2>2, <2>3 DEF PassInv, KeyOf
<1>9. ASSUME NEW x \in Names, VisitFails(x)
      PROVE  PassInv'
  <2>1. UNCHANGED <<kind, committed, before>> /\ pass' \in {"failing", "error"}
    BY <1>9 DEF VisitFails, storeVars
  <2> QED
    BY <1>0, <2>1 DEF PassInv
<1>10. CASE UNCHANGED vars
  <2>1. UNCHANGED <<work, pass, todo, found, kind, before, committed>>
    BY <1>10 DEF vars
  <2> QED
    BY <1>0, <1>1, <2>1
<1> QED
  BY <1>2, <1>3, <1>4, <1>5, <1>6, <1>7, <1>8, <1>9, <1>10 DEF Next

(* Over a backend with atomic operations list_all and migrate are          *)
(* complete, whatever is saved and deleted meanwhile.                      *)
THEOREM AtomicPassComplete == Spec => []AtomicPassIsComplete
<1>1. PassInv => AtomicPassIsComplete
  BY DEF PassInv, AtomicPassIsComplete, PassIsComplete
<1> QED
  BY TypeInit, TypeStep, StoreInvInit, StoreInvStep, PassInvInit, PassInvStep, <1>1, PTL DEF Spec
=============================================================================
