-------------------------- MODULE ApiServerProofs ---------------------------
(***************************************************************************)
(* Theorems about Issuance, for every number of calls, authorizations,     *)
(* addresses, polls and failures and every choice of the providers, and    *)
(* about ApiServer, for every number of orders, attempts, renewals and     *)
(* ends of the process.  The attempts of the server are runs of Issuance,  *)
(* whose invariants hold there as well, although the provisioner and the   *)
(* end of the process take steps of their own.                             *)
(***************************************************************************)
EXTENDS ApiServer, TLAPS

USE SolversAssumption, IssuanceAssumption

-----------------------------------------------------------------------------
(* The state is well formed *)

(* A run is at its first authorization until it has created its order. *)
StartsAtFirst == \A r \in Runs : pc[r] \in {"idle", "register", "order"} => idx[r] = 1

(* A record is known by who made it and for which authorization. *)
RecordsAreOfRuns ==
    \A x \in records : \E r \in Runs : \E i \in 1..Authzs[r] : x = RecordOf(r, i)

TypeInv == TypeOK /\ StartsAtFirst /\ RecordsAreOfRuns

LEMMA TypeInvInit == InitIssuance => TypeInv
<1> SUFFICES ASSUME InitIssuance PROVE TypeInv
  OBVIOUS
<1>1. TypeOK
  BY DEF InitIssuance, SolversInit, TypeOK, Requesting, Over
<1> QED
  BY <1>1 DEF InitIssuance, SolversInit, TypeInv, StartsAtFirst, RecordsAreOfRuns

(* The part of the state that the client's steps outside the solver change. *)
ClientTypes ==
    /\ pc \in [Runs -> {"idle", "prepare", "stalled"} \cup Requesting \cup Over]
    /\ account \in [Runs -> BOOLEAN]
    /\ idx \in [Runs -> Nat \ {0}]
    /\ \A r \in Runs : idx[r] <= Authzs[r] + 1
    /\ \A r \in Runs : pc[r] \in {"authz", "prepare", "respond"} => idx[r] <= Authzs[r]
    /\ polls \in [Runs -> 0..(MaxPolls - 1)]
    /\ StartsAtFirst

(* What is at the CA. *)
ServerTypes ==
    /\ order \in [Runs -> {"none", "pending", "ready", "processing", "valid", "invalid"}]
    /\ DOMAIN authz = Runs
    /\ \A r \in Runs :
          authz[r] \in [1..Authzs[r] -> {"none", "pending", "processing", "valid", "invalid"}]

SolverTypesOK ==
    /\ solver \in [Runs -> SolverTypes]
    /\ keyAuth \in [Runs -> Nat] /\ recordId \in [Runs -> Nat]
    /\ \A r \in Runs : keyAuth[r] <= Authzs[r] /\ recordId[r] <= Authzs[r]
    /\ port \in [Addrs -> {"free", "other", "closing"} \cup Runs]
    /\ provider \in Providers
    /\ \A x \in records : x.by \in Runs /\ x.authz \in 1..Authzs[x.by] /\ x.at = AddrOf[x.by]
    /\ cleaned \in [Runs -> {"no", "ok", "error"}]
    /\ RecordsAreOfRuns

LEMMA TypeParts ==
    /\ TypeInv <=> ClientTypes /\ ServerTypes /\ SolverTypesOK /\ faults \in 0..MaxFaults
    /\ TypeInv' <=> ClientTypes' /\ ServerTypes' /\ SolverTypesOK' /\ faults' \in 0..MaxFaults
BY DEF TypeInv, TypeOK, ClientTypes, ServerTypes, SolverTypesOK

(* Steps of the client outside the solver. *)
Moves(r) ==
    \/ Begin(r) \/ Refused(r) \/ Register(r) \/ NewOrder(r) \/ GetAuthorization(r)
    \/ RespondToChallenge(r) \/ PollReady(r) \/ FinalizeOrder(r) \/ PollValid(r) \/ Download(r)

LEMMA FaultType == Fault /\ faults \in 0..MaxFaults => faults' \in 0..MaxFaults
BY DEF Fault

LEMMA MovesType ==
    ASSUME TypeInv, NEW r \in Runs, Moves(r)
    PROVE  ClientTypes' /\ faults' \in 0..MaxFaults
<1>0. ClientTypes /\ faults \in 0..MaxFaults
  BY TypeParts
<1> USE DEF ClientTypes, StartsAtFirst, Goto
<1>1. CASE Begin(r)
  BY <1>0, <1>1 DEF Begin, Requesting
<1>2. CASE Refused(r)
  BY <1>0, <1>2, FaultType DEF Refused, NoAnswer, Requesting, Over
<1>3. CASE Register(r)
  BY <1>0, <1>3 DEF Register, Requesting
<1>4. CASE NewOrder(r)
  <2>1. /\ pc[r] = "order" /\ UNCHANGED <<account, idx, polls>>
        /\ \E label \in {"authz", "failed", "stalled"} : pc' = [pc EXCEPT ![r] = label]
        /\ faults' \in 0..MaxFaults
    BY <1>0, <1>4, FaultType DEF NewOrder, Answered, NoAnswer
  <2>2. idx[r] <= Authzs[r]
    BY <1>0, <2>1
  <2> QED
    BY <1>0, <2>1, <2>2 DEF Requesting, Over
<1>5. CASE GetAuthorization(r)
  BY <1>0, <1>5 DEF GetAuthorization, Requesting
<1>6. CASE RespondToChallenge(r)
  <2>1. /\ pc[r] = "respond" /\ idx' = [idx EXCEPT ![r] = @ + 1]
        /\ idx[r] \in Nat \ {0} /\ idx[r] <= Authzs[r] /\ Authzs[r] \in Nat
    BY <1>0, <1>6 DEF RespondToChallenge
  <2>2. /\ idx' \in [Runs -> Nat \ {0}]
        /\ \A q \in Runs : idx'[q] <= Authzs[q] + 1
    BY <1>0, <2>1
  <2>3. /\ pc' \in [Runs -> {"idle", "prepare", "stalled"} \cup Requesting \cup Over]
        /\ pc'[r] \in {"authz", "pollReady", "failed", "stalled"}
        /\ pc'[r] = "authz" => idx[r] < Authzs[r]
        /\ \A q \in Runs : q # r => pc'[q] = pc[q] /\ idx'[q] = idx[q]
        /\ faults' \in 0..MaxFaults
    BY <1>0, <1>6, FaultType DEF RespondToChallenge, Answered, NoAnswer, Requesting, Over
  <2>4. \A q \in Runs : pc'[q] \in {"authz", "prepare", "respond"} => idx'[q] <= Authzs[q]
    BY <1>0, <2>1, <2>3
  <2> QED
    BY <1>0, <1>6, <2>2, <2>3, <2>4 DEF RespondToChallenge
<1>7. CASE PollReady(r)
  BY <1>0, <1>7 DEF PollReady, Poll, Requesting, Over
<1>8. CASE FinalizeOrder(r)
  BY <1>0, <1>8, FaultType DEF FinalizeOrder, Answered, NoAnswer, Requesting, Over
<1>9. CASE PollValid(r)
  BY <1>0, <1>9 DEF PollValid, Poll, Requesting, Over
<1>10. CASE Download(r)
  BY <1>0, <1>10 DEF Download, Requesting, Over
<1> QED
  BY <1>1, <1>2, <1>3, <1>4, <1>5, <1>6, <1>7, <1>8, <1>9, <1>10 DEF Moves

(* Steps that change the order or the authorizations. *)
LEMMA ServerType ==
    ASSUME TypeInv, NEW r \in Runs, Moves(r) \/ CA(r)
    PROVE  ServerTypes'
<1>0. ServerTypes /\ \A q \in Runs : Authzs[q] \in Nat
  BY TypeParts
<1> USE DEF ServerTypes
<1>1. CASE NewOrder(r)
  <2>1. PICK known \in SUBSET (1..Authzs[r]) :
          /\ authz' = [authz EXCEPT ![r] =
                         [i \in 1..Authzs[r] |-> IF i \in known THEN "valid" ELSE "pending"]]
          /\ order' = [order EXCEPT ![r] =
                         IF known = 1..Authzs[r] THEN "ready" ELSE "pending"]
    BY <1>1 DEF NewOrder
  <2>2. order' \in [Runs -> {"none", "pending", "ready", "processing", "valid", "invalid"}]
    BY <1>0, <2>1
  <2>3. /\ DOMAIN authz' = Runs /\ \A q \in Runs : q # r => authz'[q] = authz[q]
        /\ authz'[r] = [i \in 1..Authzs[r] |-> IF i \in known THEN "valid" ELSE "pending"]
    BY <1>0, <2>1
  <2>4. authz'[r] \in [1..Authzs[r] -> {"none", "pending", "processing", "valid", "invalid"}]
    BY <2>3
  <2> QED
    BY <1>0, <2>2, <2>3, <2>4
<1>2. CASE RespondToChallenge(r)
  <2> DEFINE i == idx[r]
  <2>1. /\ authz' = [authz EXCEPT ![r] = [authz[r] EXCEPT ![i] =
                        IF authz[r][i] = "pending" THEN "processing" ELSE authz[r][i]]]
        /\ order' = order
    BY <1>2 DEF RespondToChallenge
  <2> HIDE DEF i
  <2>2. /\ DOMAIN authz' = Runs /\ \A q \in Runs : q # r => authz'[q] = authz[q]
        /\ authz'[r] = [authz[r] EXCEPT ![i] =
                           IF authz[r][i] = "pending" THEN "processing" ELSE authz[r][i]]
    BY <1>0, <2>1
  <2>3. authz'[r] \in [1..Authzs[r] -> {"none", "pending", "processing", "valid", "invalid"}]
    BY <1>0, <2>2
  <2> QED
    BY <1>0, <2>1, <2>2, <2>3
<1>3. CASE FinalizeOrder(r)
  BY <1>0, <1>3 DEF FinalizeOrder
<1>4. CASE Validate(r)
  <2>1. PICK i \in 1..Authzs[r], to \in {"valid", "invalid"} :
          authz' = [authz EXCEPT ![r] = [authz[r] EXCEPT ![i] = to]] /\ order' = order
    BY <1>4 DEF Validate
  <2>2. /\ DOMAIN authz' = Runs /\ \A q \in Runs : q # r => authz'[q] = authz[q]
        /\ authz'[r] = [authz[r] EXCEPT ![i] = to]
    BY <1>0, <2>1
  <2>3. authz'[r] \in [1..Authzs[r] -> {"none", "pending", "processing", "valid", "invalid"}]
    BY <1>0, <2>2
  <2> QED
    BY <1>0, <2>1, <2>2, <2>3
<1>5. CASE UpdateOrder(r)
  BY <1>0, <1>5 DEF UpdateOrder
<1>6. CASE Sign(r)
  BY <1>0, <1>6 DEF Sign
<1>7. CASE UNCHANGED serverVars
  BY <1>0, <1>7 DEF serverVars
<1>8. Begin(r) \/ Refused(r) \/ Register(r) \/ GetAuthorization(r) \/ PollReady(r)
      \/ PollValid(r) \/ Download(r) => UNCHANGED serverVars
  BY DEF Begin, Refused, Register, GetAuthorization, PollReady, PollValid, Poll, Download
<1> QED
  BY <1>1, <1>2, <1>3, <1>4, <1>5, <1>6, <1>7, <1>8 DEF Moves, CA

LEMMA CAFaults ==
    ASSUME faults \in 0..MaxFaults, NEW r \in Runs, CA(r)
    PROVE  faults' \in 0..MaxFaults
BY FaultType DEF CA, Validate, UpdateOrder, Sign

(* What a provider makes of the records. *)
LEMMA CreateRecords ==
    ASSUME NEW r, NEW i, Create(r, i)
    PROVE  /\ \A x \in records' : x \in records \/ x = RecordOf(r, i)
           /\ RecordOf(r, i) \in records'
           /\ provider.create # "replace" => records \subseteq records'
           /\ provider.create = "replace" => \A x \in records' : x.at = AddrOf[r] => x = RecordOf(r, i)
BY DEF Create, At

(* A request to the DNS provider may stall; a server is prepared or not. *)
LEMMA PrepareEnds ==
    ASSUME NEW r \in Runs, Prepare(r)
    PROVE  \E ok \in BOOLEAN, label \in {"respond", "failed", "stalled"} :
              /\ SolverPrepare(r, idx[r], ok) /\ Goto(r, label)
              /\ label = "respond" <=> ok
              /\ PrepareServer(r, idx[r], ok) => label # "stalled"
<1>1. PICK ok \in BOOLEAN :
        /\ SolverPrepare(r, idx[r], ok)
        /\ \/ Goto(r, IF ok THEN "respond" ELSE "failed")
           \/ faults' # faults /\ Goto(r, "stalled")
  BY DEF Prepare
<1>2. CASE Goto(r, IF ok THEN "respond" ELSE "failed")
  BY <1>1, <1>2
<1>3. CASE faults' # faults /\ Goto(r, "stalled")
  <2>1. ~PrepareServer(r, idx[r], ok) /\ ~ok
    BY <1>1, <1>3 DEF SolverPrepare, PrepareServer, PrepareDns
  <2> QED
    BY <1>1, <1>3, <2>1
<1> QED
  BY <1>1, <1>2, <1>3

LEMMA PrepareType ==
    ASSUME TypeInv, NEW r \in Runs, Prepare(r)
    PROVE  TypeInv'
<1>0. ClientTypes /\ ServerTypes /\ SolverTypesOK /\ faults \in 0..MaxFaults
  BY TypeParts
<1>1. PICK ok \in BOOLEAN, label \in {"respond", "failed", "stalled"} :
        /\ SolverPrepare(r, idx[r], ok) /\ Goto(r, label)
        /\ label = "respond" <=> ok
        /\ PrepareServer(r, idx[r], ok) => label # "stalled"
  BY PrepareEnds
<1>2. /\ pc[r] = "prepare" /\ UNCHANGED <<account, idx, polls, serverVars>>
      /\ idx[r] \in 1..Authzs[r]
  BY <1>0 DEF Prepare, ClientTypes
<1>3. ClientTypes'
  BY <1>0, <1>1, <1>2 DEF ClientTypes, StartsAtFirst, Goto, Requesting, Over
<1>4. ServerTypes'
  BY <1>0, <1>2 DEF ServerTypes, serverVars
<1>5. CASE PrepareServer(r, idx[r], ok)
  BY <1>0, <1>2, <1>3, <1>4, <1>5, TypeParts DEF PrepareServer, SolverTypesOK, RecordsAreOfRuns
<1>6. CASE PrepareDns(r, idx[r], ok)
  <2>1. Create(r, idx[r]) \/ UNCHANGED records
    BY <1>6 DEF PrepareDns
  <2>2. \A x \in records' : x \in records \/ x = RecordOf(r, idx[r])
    BY <2>1, CreateRecords
  <2>3. RecordsAreOfRuns'
    BY <1>0, <1>2, <2>2 DEF SolverTypesOK, RecordsAreOfRuns, RecordOf
  <2>4. \A x \in records' : x.by \in Runs /\ x.authz \in 1..Authzs[x.by] /\ x.at = AddrOf[x.by]
    BY <1>0, <1>2, <2>2 DEF SolverTypesOK, RecordOf
  <2>5. /\ recordId' \in [Runs -> Nat]
        /\ \A q \in Runs : recordId'[q] <= Authzs[q]
        /\ faults' \in 0..MaxFaults
    BY <1>0, <1>2, <1>6, FaultType DEF PrepareDns, SolverTypesOK
  <2> QED
    BY <1>0, <1>3, <1>4, <1>6, <2>3, <2>4, <2>5, TypeParts DEF PrepareDns, SolverTypesOK
<1> QED
  BY <1>1, <1>5, <1>6 DEF SolverPrepare

LEMMA CleanupType ==
    ASSUME TypeInv, NEW r \in Runs, Cleanup(r)
    PROVE  TypeInv'
<1>0. ClientTypes /\ ServerTypes /\ SolverTypesOK /\ faults \in 0..MaxFaults
  BY TypeParts
<1>1. ClientTypes' /\ ServerTypes'
  BY <1>0 DEF Cleanup, clientVars, serverVars, ClientTypes, ServerTypes, StartsAtFirst
<1>2. CASE CleanupServer(r)
  BY <1>0, <1>1, <1>2, TypeParts DEF CleanupServer, SolverTypesOK, RecordsAreOfRuns
<1>3. CASE CleanupDns(r)
  <2>1. records' \subseteq records /\ faults' \in 0..MaxFaults
    BY <1>0, <1>3, FaultType DEF CleanupDns
  <2>2. cleaned' \in [Runs -> {"no", "ok", "error"}]
    BY <1>0, <1>3 DEF CleanupDns, SolverTypesOK
  <2>3. recordId' \in [Runs -> Nat] /\ \A q \in Runs : recordId'[q] <= Authzs[q]
    BY <1>0, <1>3 DEF CleanupDns, SolverTypesOK
  <2> QED
    BY <1>0, <1>1, <1>3, <2>1, <2>2, <2>3, TypeParts DEF CleanupDns, SolverTypesOK, RecordsAreOfRuns
<1> QED
  BY <1>2, <1>3 DEF Cleanup, SolverCleanup

LEMMA TypeInvStep == TypeInv /\ [NextIssuance]_issuanceVars => TypeInv'
<1> SUFFICES ASSUME TypeInv, [NextIssuance]_issuanceVars PROVE TypeInv'
  OBVIOUS
<1>0. ClientTypes /\ ServerTypes /\ SolverTypesOK /\ faults \in 0..MaxFaults
  BY TypeParts
<1>1. ASSUME NEW r \in Runs, Moves(r)
      PROVE  TypeInv'
  <2>1. UNCHANGED solverVars
    BY <1>1 DEF Moves, Begin, Refused, Register, NewOrder, GetAuthorization, RespondToChallenge,
                PollReady, PollValid, Poll, FinalizeOrder, Download
  <2>2. SolverTypesOK'
    BY <1>0, <2>1 DEF solverVars, SolverTypesOK, RecordsAreOfRuns
  <2> QED
    BY <1>1, <2>2, MovesType, ServerType, TypeParts
<1>2. ASSUME NEW r \in Runs, CA(r)
      PROVE  TypeInv'
  <2>1. UNCHANGED <<clientVars, solverVars>>
    BY <1>2 DEF CA, Validate, UpdateOrder, Sign
  <2>2. ClientTypes' /\ SolverTypesOK'
    BY <1>0, <2>1 DEF clientVars, solverVars, ClientTypes, SolverTypesOK, RecordsAreOfRuns, StartsAtFirst
  <2> QED
    BY <1>0, <1>2, <2>2, ServerType, CAFaults, TypeParts
<1>3. ASSUME NEW a \in Addrs, ServerDropped(a), UNCHANGED <<clientVars, serverVars>>
      PROVE  TypeInv'
  BY <1>0, <1>3, TypeParts DEF ServerDropped, clientVars, serverVars, ClientTypes, ServerTypes,
     SolverTypesOK, RecordsAreOfRuns, StartsAtFirst
<1>4. CASE UNCHANGED issuanceVars
  BY <1>0, <1>4, TypeParts DEF issuanceVars, ClientTypes, ServerTypes, SolverTypesOK,
     RecordsAreOfRuns, StartsAtFirst
<1> QED
  BY <1>1, <1>2, <1>3, <1>4, PrepareType, CleanupType DEF NextIssuance, Client, Moves

(* The state is well formed: no run goes beyond its authorizations, its    *)
(* polls or its solver's records.                                          *)
THEOREM TypeCorrect == SpecIssuance => []TypeOK
<1>1. TypeInv => TypeOK
  BY DEF TypeInv
<1> QED
  BY TypeInvInit, TypeInvStep, <1>1, PTL DEF SpecIssuance

-----------------------------------------------------------------------------
(* What the steps of a run do to the program and the order of a run *)

(* A step of a run leaves the others where they are, and their orders.     *)
LEMMA OthersStay ==
    ASSUME TypeInv, NEW r \in Runs, Begin(r) \/ Client(r) \/ CA(r) \/ Cleanup(r),
           NEW q \in Runs, q # r
    PROVE  pc'[q] = pc[q] /\ idx'[q] = idx[q] /\ order'[q] = order[q] /\ authz'[q] = authz[q]
<1>0. DOMAIN pc = Runs /\ DOMAIN idx = Runs /\ DOMAIN order = Runs /\ DOMAIN authz = Runs
  BY DEF TypeInv, TypeOK
<1>1. CASE Begin(r) \/ Refused(r) \/ Register(r) \/ GetAuthorization(r) \/ PollReady(r)
           \/ PollValid(r) \/ Download(r)
  BY <1>0, <1>1 DEF Begin, Refused, NoAnswer, Register, GetAuthorization, PollReady,
                    PollValid, Poll, Download, Goto, serverVars
<1>2. CASE NewOrder(r)
  BY <1>0, <1>2 DEF NewOrder, Answered, NoAnswer, Goto
<1>3. CASE Prepare(r)
  BY <1>0, <1>3 DEF Prepare, Goto, serverVars
<1>4. CASE RespondToChallenge(r)
  BY <1>0, <1>4 DEF RespondToChallenge, Answered, NoAnswer, Goto
<1>5. CASE FinalizeOrder(r)
  BY <1>0, <1>5 DEF FinalizeOrder, Answered, NoAnswer, Goto
<1>6. CASE CA(r)
  BY <1>0, <1>6 DEF CA, Validate, UpdateOrder, Sign, clientVars
<1>7. CASE Cleanup(r)
  BY <1>7 DEF Cleanup, clientVars, serverVars
<1> QED
  BY <1>1, <1>2, <1>3, <1>4, <1>5, <1>6, <1>7 DEF Client

(* Steps of a run that leave its order, and what they do to the run. *)
LEMMA OrderStays ==
    ASSUME TypeInv, NEW r \in Runs,
           Begin(r) \/ Refused(r) \/ Register(r) \/ GetAuthorization(r) \/ Prepare(r)
           \/ PollReady(r) \/ PollValid(r) \/ Download(r)
    PROVE  /\ UNCHANGED <<serverVars, idx>>
           /\ \/ pc'[r] \in {"register", "order", "authz", "prepare", "respond", "failed",
                              "stalled"}
              \/ pc'[r] = pc[r] /\ pc[r] \in {"pollReady", "pollValid"}
              \/ pc'[r] = "finalize" /\ pc[r] = "pollReady" /\ order[r] = "ready"
              \/ pc'[r] = "download" /\ pc[r] = "pollValid" /\ order[r] = "valid"
              \/ pc'[r] = "ok" /\ pc[r] = "download"
           /\ pc'[r] \in {"register", "order", "idle"} => pc[r] \in {"idle", "register"}
           /\ pc'[r] = "authz" => FALSE
           /\ pc'[r] = "respond" => pc[r] = "prepare"
BY DEF TypeInv, TypeOK, Begin, Refused, NoAnswer, Register, GetAuthorization, Prepare, PollReady,
       PollValid, Poll, Download, Goto

(* What a new order is: ready if all its authorizations are reused.        *)
LEMMA NewOrderEffect ==
    ASSUME TypeInv, NEW r \in Runs, NewOrder(r)
    PROVE  /\ pc[r] = "order" /\ pc'[r] \in {"authz", "failed", "stalled"} 
           /\ UNCHANGED <<idx, solverVars>>
           /\ order'[r] \in {"pending", "ready"}
           /\ order'[r] = "ready" => \A i \in 1..Authzs[r] : authz'[r][i] = "valid"
           /\ \A i \in 1..Authzs[r] : authz'[r][i] \in {"pending", "valid"}
<1>0. DOMAIN pc = Runs /\ DOMAIN order = Runs /\ DOMAIN authz = Runs
  BY DEF TypeInv, TypeOK
<1>1. PICK known \in SUBSET (1..Authzs[r]) :
        /\ authz' = [authz EXCEPT ![r] =
                       [i \in 1..Authzs[r] |-> IF i \in known THEN "valid" ELSE "pending"]]
        /\ order' = [order EXCEPT ![r] =
                       IF known = 1..Authzs[r] THEN "ready" ELSE "pending"]
  BY DEF NewOrder
<1>2. \A i \in 1..Authzs[r] : authz'[r][i] = IF i \in known THEN "valid" ELSE "pending"
  BY <1>0, <1>1
<1>3. order'[r] = IF known = 1..Authzs[r] THEN "ready" ELSE "pending"
  BY <1>0, <1>1
<1>4. /\ pc[r] = "order" /\ pc'[r] \in {"authz", "failed", "stalled"}
      /\ UNCHANGED <<idx, solverVars>>
  BY <1>0 DEF NewOrder, Answered, NoAnswer, Goto
<1> QED
  BY <1>2, <1>3, <1>4

(* The challenge of the current authorization is answered. *)
LEMMA RespondEffect ==
    ASSUME TypeInv, NEW r \in Runs, RespondToChallenge(r)
    PROVE  /\ pc[r] = "respond" /\ pc'[r] \in {"authz", "pollReady", "failed", "stalled"}
           /\ idx'[r] = idx[r] + 1 /\ idx[r] \in 1..Authzs[r]
           /\ UNCHANGED <<solverVars, order>>
           /\ \A i \in 1..Authzs[r] :
                 authz'[r][i] = IF i = idx[r] /\ authz[r][i] = "pending" THEN "processing"
                                                                     ELSE authz[r][i]
<1>0. DOMAIN pc = Runs /\ DOMAIN idx = Runs /\ DOMAIN authz = Runs /\ DOMAIN authz[r] = 1..Authzs[r]
  BY DEF TypeInv, TypeOK
<1>1. /\ pc[r] = "respond" /\ pc'[r] \in {"authz", "pollReady", "failed", "stalled"}
      /\ idx'[r] = idx[r] + 1
      /\ UNCHANGED <<solverVars, order>>
  BY <1>0 DEF RespondToChallenge, Answered, NoAnswer, Goto
<1>2. idx[r] \in 1..Authzs[r]
  BY <1>1 DEF TypeInv, TypeOK
<1>3. authz'[r] = [authz[r] EXCEPT ![idx[r]] =
                     IF authz[r][idx[r]] = "pending" THEN "processing" ELSE authz[r][idx[r]]]
  BY <1>0 DEF RespondToChallenge
<1>4. ASSUME NEW i \in 1..Authzs[r]
      PROVE  authz'[r][i] = IF i = idx[r] /\ authz[r][i] = "pending" THEN "processing" ELSE authz[r][i]
  BY <1>0, <1>3
<1> QED
  BY <1>1, <1>2, <1>4

LEMMA FinalizeEffect ==
    ASSUME TypeInv, NEW r \in Runs, FinalizeOrder(r)
    PROVE  /\ pc[r] = "finalize" /\ pc'[r] \in {"pollValid", "failed", "stalled"}
           /\ order'[r] = "processing" /\ UNCHANGED <<authz, idx, solverVars>>
BY DEF TypeInv, TypeOK, FinalizeOrder, Answered, NoAnswer, Goto

(* The CA ends the validations it was asked for, and moves orders on.      *)
LEMMA CAEffect ==
    ASSUME TypeInv, NEW r \in Runs, CA(r)
    PROVE  /\ UNCHANGED <<clientVars, solverVars>>
           /\ \/ UNCHANGED authz
                 /\ \/ order[r] = "pending" /\ order'[r] = "invalid"
                    \/ order[r] = "pending" /\ order'[r] = "ready"
                       /\ \A i \in 1..Authzs[r] : authz[r][i] = "valid"
                    \/ order[r] = "processing" /\ order'[r] \in {"valid", "invalid"}
              \/ UNCHANGED order
                 /\ \A i \in 1..Authzs[r] :
                       \/ authz'[r][i] = authz[r][i]
                       \/ authz[r][i] = "processing" /\ authz'[r][i] \in {"valid", "invalid"}
<1>0. DOMAIN order = Runs /\ DOMAIN authz = Runs /\ DOMAIN authz[r] = 1..Authzs[r]
  BY DEF TypeInv, TypeOK
<1>1. CASE Validate(r)
  <2>1. PICK i \in 1..Authzs[r], to \in {"valid", "invalid"} :
          /\ authz[r][i] = "processing"
          /\ authz' = [authz EXCEPT ![r] = [authz[r] EXCEPT ![i] = to]]
    BY <1>1 DEF Validate
  <2>2. \A j \in 1..Authzs[r] : authz'[r][j] = IF j = i THEN to ELSE authz[r][j]
    BY <1>0, <2>1
  <2> QED
    BY <1>1, <2>1, <2>2 DEF Validate
<1>2. CASE UpdateOrder(r)
  BY <1>0, <1>2 DEF UpdateOrder
<1>3. CASE Sign(r)
  BY <1>0, <1>3 DEF Sign
<1> QED
  BY <1>1, <1>2, <1>3 DEF CA

-----------------------------------------------------------------------------
(* Orders *)

(* What a run believes of its order, having polled it, is so: nothing but  *)
(* the run's own finalization, or the CA's signature, moves an order on.   *)
OrderInv ==
    \A r \in Runs :
        /\ pc[r] = "finalize" => order[r] = "ready"
        /\ pc[r] \in {"download", "ok"} => order[r] = "valid"
        /\ order[r] \in {"ready", "processing", "valid"} =>
              \A i \in 1..Authzs[r] : authz[r][i] = "valid"

LEMMA OrderInvInit == InitIssuance => OrderInv
BY DEF InitIssuance, OrderInv

LEMMA OrderInvRun ==
    ASSUME TypeInv, OrderInv, NEW r \in Runs, Begin(r) \/ Client(r) \/ CA(r) \/ Cleanup(r)
    PROVE  OrderInv'
<1> DEFINE Own(q) ==
        /\ pc[q] = "finalize" => order[q] = "ready"
        /\ pc[q] \in {"download", "ok"} => order[q] = "valid"
        /\ order[q] \in {"ready", "processing", "valid"} =>
              \A i \in 1..Authzs[q] : authz[q][i] = "valid"
<1>1. \A q \in Runs : q # r => Own(q)'
  BY OthersStay DEF OrderInv
<1>2. Own(r)'
  <2>0. Own(r)
    BY DEF OrderInv
  <2>1. CASE Begin(r) \/ Refused(r) \/ Register(r) \/ GetAuthorization(r) \/ Prepare(r)
             \/ PollReady(r) \/ PollValid(r) \/ Download(r)
    BY <2>0, <2>1, OrderStays DEF serverVars
  <2>2. CASE NewOrder(r)
    BY <2>2, NewOrderEffect
  <2>3. CASE RespondToChallenge(r)
    BY <2>0, <2>3, RespondEffect
  <2>4. CASE FinalizeOrder(r)
    BY <2>0, <2>4, FinalizeEffect
  <2>5. CASE CA(r)
    BY <2>0, <2>5, CAEffect DEF clientVars
  <2>6. CASE Cleanup(r)
    BY <2>0, <2>6 DEF Cleanup, clientVars, serverVars
  <2> QED
    BY <2>1, <2>2, <2>3, <2>4, <2>5, <2>6 DEF Client
<1> QED
  BY <1>1, <1>2 DEF OrderInv

LEMMA OrderInvStep == TypeInv /\ OrderInv /\ [NextIssuance]_issuanceVars => OrderInv'
<1>1. UNCHANGED <<clientVars, serverVars>> /\ OrderInv => OrderInv'
  BY DEF OrderInv, clientVars, serverVars
<1>2. UNCHANGED issuanceVars => UNCHANGED <<clientVars, serverVars>>
  BY DEF issuanceVars, clientVars, serverVars
<1> QED
  BY <1>1, <1>2, OrderInvRun DEF NextIssuance

(* Ok(bundle) is returned only for an order that the CA has issued, every  *)
(* authorization of which is valid.                                        *)
THEOREM OkOnlyWhenIssued == SpecIssuance => []OkIsIssued
<1>1. OrderInv => OkIsIssued
  BY DEF OrderInv, OkIsIssued
<1> QED
  BY TypeInvInit, TypeInvStep, OrderInvInit, OrderInvStep, <1>1, PTL DEF SpecIssuance

-----------------------------------------------------------------------------
(* Solvers *)

(* The address of a server is its run's, and taken only by its prepare().  *)
PortsAreOfServers ==
    \A a \in Addrs : port[a] \in Runs => AddrOf[port[a]] = a /\ solver[port[a]] \in Servers

(* A run with a server that has passed prepare() once keeps its address.   *)
Prepared(r) == pc[r] = "respond" \/ (pc[r] \notin {"failed", "stalled"} /\ idx[r] > 1)

ServersKeepPorts ==
    \A r \in Runs :
        /\ pc[r] \in {"pollReady", "finalize", "pollValid", "download", "ok"} => idx[r] > 1
        /\ solver[r] \in Servers /\ cleaned[r] = "no" /\ Prepared(r) => port[AddrOf[r]] = r

(* cleanup() comes after the call, and a challenge is under validation     *)
(* when it was answered.                                                   *)
InTurn ==
    \A r \in Runs :
        /\ cleaned[r] # "no" => pc[r] \in Over
        /\ \A i \in 1..Authzs[r] : authz[r][i] = "processing" => i < idx[r]

(* What r may have told the CA to look at, or is about to.                 *)
Asked(r, i) ==
    \/ pc[r] = "respond" /\ i = idx[r]
    \/ authz[r][i] = "processing" /\ (solver[r] = "http-01" => Authzs[r] = 1)

AskedIsServed ==
    \A r \in Runs : \A i \in 1..Authzs[r] :
        Undisturbed(r) /\ cleaned[r] = "no" /\ Asked(r, i) => Served(r, i)

(* Records are made by DNS-01 solvers; one that replaces the records of a  *)
(* name leaves one.                                                        *)
RecordsAreOfDns ==
    /\ \A x \in records : solver[x.by] = "dns-01"
    /\ provider.create = "replace" => \A x, y \in records : x.at = y.at => x = y

(* The only record of a run is remembered until it is cleaned up.          *)
RecordsAreRemembered ==
    faults = 0 =>
        \A x \in records : Authzs[x.by] = 1 =>
            recordId[x.by] = x.authz /\ cleaned[x.by] # "ok"

AddressesGivenBack == \A r \in Runs : cleaned[r] = "ok" => port[AddrOf[r]] # r

SolverInv ==
    /\ PortsAreOfServers /\ ServersKeepPorts /\ InTurn /\ AskedIsServed
    /\ RecordsAreOfDns /\ RecordsAreRemembered /\ AddressesGivenBack

(* Failures are only ever added. *)
LEMMA NoFaultBefore ==
    ASSUME TypeInv, [NextIssuance]_issuanceVars, faults' = 0
    PROVE  UNCHANGED faults
<1>0. faults \in Nat /\ (Fault => faults' = faults + 1)
  BY DEF TypeInv, TypeOK, Fault
<1>1. UNCHANGED faults \/ Fault
  BY DEF NextIssuance, Begin, Client, Refused, Register, NewOrder, GetAuthorization, Prepare,
         SolverPrepare, PrepareServer, PrepareDns, RespondToChallenge, PollReady, PollValid, Poll,
         FinalizeOrder, Download, Answered, NoAnswer, CA, Validate, UpdateOrder, Sign, Cleanup,
         SolverCleanup, CleanupServer, CleanupDns, ServerDropped, issuanceVars
<1> QED
  BY <1>0, <1>1

(* What a provider with an id for each record does not do. *)
LEMMA ProvidersDiffer ==
    ASSUME TypeInv
    PROVE  /\ provider.delete = "record" => provider.create # "replace"
           /\ provider.delete = "exact" => provider.create = "replace"
           /\ provider.delete \in {"record", "name", "exact"}
<1>1. provider \in AllProviders
  BY ProvidersAssumption DEF TypeInv, TypeOK
<1> QED
  BY <1>1 DEF AllProviders, Cloudflare, DigitalOcean, Linode, Alibaba, ClouDns, MockDns, Tencent,
              Huawei, GoDaddy, Azure, Route53, Google

LEMMA SolverInvInit == InitIssuance => SolverInv
<1> SUFFICES ASSUME InitIssuance PROVE SolverInv
  OBVIOUS
<1>1. /\ \A a \in Addrs : port[a] \in {"free", "other"}
      /\ \A r \in Runs : pc[r] = "idle" /\ idx[r] = 1 /\ cleaned[r] = "no"
      /\ \A r \in Runs : \A i \in 1..Authzs[r] : authz[r][i] = "none"
      /\ records = {}
  BY DEF InitIssuance, SolversInit
<1> QED
  BY <1>1 DEF SolverInv, PortsAreOfServers, ServersKeepPorts, Prepared, InTurn, Asked,
     AskedIsServed, RecordsAreOfDns, RecordsAreRemembered, AddressesGivenBack

LEMMA MovesEffect ==
    ASSUME TypeInv, NEW r \in Runs, Moves(r)
    PROVE  /\ UNCHANGED solverVars
           /\ pc[r] \notin Over \cup {"stalled"} /\ pc'[r] \notin {"respond"}
           /\ \/ idx'[r] = idx[r]
              \/ idx'[r] = idx[r] + 1 /\ pc[r] = "respond"
           /\ pc'[r] \in {"pollReady", "finalize", "pollValid", "download", "ok"} =>
                 idx'[r] # idx[r] \/ pc[r] \in {"pollReady", "finalize", "pollValid", "download"}
           /\ \A i \in 1..Authzs[r] :
                 authz'[r][i] = "processing" =>
                    \/ authz[r][i] = "processing"
                    \/ pc[r] = "respond" /\ i = idx[r] /\ idx'[r] = idx[r] + 1
<1>0. idx[r] \in Nat /\ DOMAIN pc = Runs
  BY DEF TypeInv, TypeOK
<1>1. CASE Begin(r) \/ Refused(r) \/ Register(r) \/ GetAuthorization(r) \/ PollReady(r)
           \/ PollValid(r) \/ Download(r)
  <2>1. UNCHANGED <<solverVars, idx, authz>>
    BY <1>1 DEF Begin, Refused, Register, GetAuthorization, PollReady, PollValid, Poll, Download,
                serverVars
  <2>2. /\ pc[r] \notin Over \cup {"stalled"} /\ pc'[r] # "respond"
        /\ pc'[r] \in {"pollReady", "finalize", "pollValid", "download", "ok"} =>
              pc[r] \in {"pollReady", "finalize", "pollValid", "download"}
    BY <1>0, <1>1 DEF Begin, Refused, NoAnswer, Register, GetAuthorization, PollReady, PollValid,
                      Poll, Download, Goto, Requesting, Over
  <2> QED
    BY <2>1, <2>2
<1>2. CASE NewOrder(r)
  BY <1>2, NewOrderEffect DEF Over
<1>3. CASE RespondToChallenge(r)
  BY <1>0, <1>3, RespondEffect DEF Over
<1>4. CASE FinalizeOrder(r)
  BY <1>4, FinalizeEffect DEF Over
<1> QED
  BY <1>1, <1>2, <1>3, <1>4 DEF Moves

(* The part of the invariant that depends on the progress of each run.     *)
Progress(r) ==
    /\ pc[r] \in {"pollReady", "finalize", "pollValid", "download", "ok"} => idx[r] > 1
    /\ solver[r] \in Servers /\ cleaned[r] = "no" /\ Prepared(r) => port[AddrOf[r]] = r
    /\ cleaned[r] # "no" => pc[r] \in Over
    /\ \A i \in 1..Authzs[r] : authz[r][i] = "processing" => i < idx[r]
    /\ \A i \in 1..Authzs[r] :
          Undisturbed(r) /\ cleaned[r] = "no" /\ Asked(r, i) => Served(r, i)

LEMMA SolverParts ==
    /\ SolverInv <=>
          /\ PortsAreOfServers /\ \A r \in Runs : Progress(r)
          /\ RecordsAreOfDns /\ RecordsAreRemembered /\ AddressesGivenBack
    /\ SolverInv' <=>
          /\ PortsAreOfServers' /\ \A r \in Runs : Progress(r)'
          /\ RecordsAreOfDns' /\ RecordsAreRemembered' /\ AddressesGivenBack'
<1>1. ServersKeepPorts /\ InTurn /\ AskedIsServed <=> \A r \in Runs : Progress(r)
  BY DEF ServersKeepPorts, InTurn, AskedIsServed, Progress
<1>2. (ServersKeepPorts /\ InTurn /\ AskedIsServed)' <=> \A r \in Runs : Progress(r)'
  BY DEF ServersKeepPorts, InTurn, AskedIsServed, Progress
<1> QED
  BY <1>1, <1>2 DEF SolverInv

(* A step outside the solver. *)
LEMMA SolverInvMoves ==
    ASSUME TypeInv, SolverInv, NEW r \in Runs, Moves(r) \/ CA(r), faults' = 0 => faults = 0
    PROVE  SolverInv'
<1>1. UNCHANGED solverVars
  BY MovesEffect, CAEffect
<1>2. /\ PortsAreOfServers' /\ RecordsAreOfDns' /\ RecordsAreRemembered' /\ AddressesGivenBack'
  BY <1>1 DEF solverVars, SolverInv, PortsAreOfServers, RecordsAreOfDns, RecordsAreRemembered,
              AddressesGivenBack
<1>3. \A q \in Runs : \A i : Served(q, i)' <=> Served(q, i)
  BY <1>1 DEF solverVars, Served
<1>4. \A q \in Runs : Undisturbed(q)' <=> Undisturbed(q)
  BY <1>1 DEF solverVars, Undisturbed
<1>5. Begin(r) \/ Client(r) \/ CA(r) \/ Cleanup(r)
  BY DEF Moves, Client
<1>6. ASSUME NEW q \in Runs, q # r
      PROVE  Progress(q)'
  <2>1. pc'[q] = pc[q] /\ idx'[q] = idx[q] /\ authz'[q] = authz[q]
    BY <1>5, <1>6, OthersStay
  <2> QED
    BY <1>1, <1>3, <1>4, <2>1, SolverParts DEF Progress, Prepared, Asked, solverVars
<1>7. Progress(r)'
  <2>0. Progress(r) /\ idx[r] \in Nat /\ idx[r] >= 1
    BY SolverParts DEF TypeInv, TypeOK
  <2>1. CASE Moves(r)
    <3>1. pc'[r] \in {"pollReady", "finalize", "pollValid", "download", "ok"} => idx'[r] > 1
      BY <2>0, <2>1, MovesEffect DEF Progress
    <3>2. solver'[r] \in Servers /\ cleaned'[r] = "no" /\ Prepared(r)' => port'[AddrOf[r]] = r
      BY <1>1, <2>0, <2>1, MovesEffect DEF Progress, Prepared, solverVars, Over
    <3>3. cleaned'[r] # "no" => pc'[r] \in Over
      BY <1>1, <2>0, <2>1, MovesEffect DEF Progress, solverVars
    <3>4. \A i \in 1..Authzs[r] : authz'[r][i] = "processing" => i < idx'[r]
      BY <2>0, <2>1, MovesEffect DEF Progress
    <3>5. \A i \in 1..Authzs[r] : Asked(r, i)' => Asked(r, i)
      <4>1. solver' = solver
        BY <1>1 DEF solverVars
      <4>2. ASSUME NEW i \in 1..Authzs[r], Asked(r, i)'
            PROVE  Asked(r, i)
        <5>1. authz'[r][i] = "processing" /\ (solver[r] = "http-01" => Authzs[r] = 1)
          BY <2>1, <4>1, <4>2, MovesEffect DEF Asked
        <5>2. \/ authz[r][i] = "processing"
              \/ pc[r] = "respond" /\ i = idx[r]
          BY <2>1, <5>1, MovesEffect
        <5> QED
          BY <5>1, <5>2 DEF Asked
      <4> QED
        BY <4>2
    <3>6. \A i \in 1..Authzs[r] :
             Undisturbed(r)' /\ cleaned'[r] = "no" /\ Asked(r, i)' => Served(r, i)'
      BY <1>1, <1>3, <1>4, <2>0, <3>5 DEF Progress, solverVars
    <3> QED
      BY <3>1, <3>2, <3>3, <3>4, <3>6 DEF Progress
  <2>2. CASE CA(r)
    <3>1. /\ pc' = pc /\ idx' = idx /\ cleaned' = cleaned /\ solver' = solver /\ port' = port
          /\ \A i \in 1..Authzs[r] : authz'[r][i] = "processing" => authz[r][i] = "processing"
      BY <2>2, CAEffect DEF clientVars, solverVars
    <3>2. \A i \in 1..Authzs[r] : Asked(r, i)' => Asked(r, i)
      BY <3>1 DEF Asked
    <3>3. \A i \in 1..Authzs[r] :
             Undisturbed(r)' /\ cleaned'[r] = "no" /\ Asked(r, i)' => Served(r, i)'
      BY <1>3, <1>4, <2>0, <3>1, <3>2 DEF Progress
    <3> QED
      BY <2>0, <3>1, <3>3 DEF Progress, Prepared
  <2> QED
    BY <2>1, <2>2
<1> QED
  BY <1>2, <1>6, <1>7, SolverParts

(* prepare() of a server that finds its address free. *)
LEMMA SolverInvBind ==
    ASSUME TypeInv, SolverInv, NEW r \in Runs, PrepareServer(r, idx[r], TRUE),
           pc[r] = "prepare", Goto(r, "respond"), UNCHANGED <<account, idx, polls, serverVars>>
    PROVE  SolverInv'
<1>0. /\ DOMAIN pc = Runs /\ port \in [Addrs -> {"free", "other", "closing"} \cup Runs]
      /\ DOMAIN keyAuth = Runs /\ idx[r] \in 1..Authzs[r]
  BY DEF TypeInv, TypeOK
<1>1. /\ port[AddrOf[r]] = "free" /\ solver[r] \in Servers
      /\ keyAuth' = [keyAuth EXCEPT ![r] = idx[r]] /\ port' = [port EXCEPT ![AddrOf[r]] = r]
      /\ UNCHANGED <<solver, provider, records, recordId, cleaned, faults, order, authz, idx>>
      /\ pc' = [pc EXCEPT ![r] = "respond"]
  BY DEF PrepareServer, Goto, serverVars
<1>2. /\ port'[AddrOf[r]] = r /\ \A a \in Addrs : a # AddrOf[r] => port'[a] = port[a]
      /\ keyAuth'[r] = idx[r] /\ \A q \in Runs : q # r => keyAuth'[q] = keyAuth[q]
      /\ pc'[r] = "respond" /\ \A q \in Runs : q # r => pc'[q] = pc[q]
  BY <1>0, <1>1
<1>3. \A q \in Runs : port[AddrOf[q]] = q => AddrOf[q] # AddrOf[r] /\ q # r
  BY <1>1
<1>4. PortsAreOfServers'
  BY <1>1, <1>2 DEF SolverInv, PortsAreOfServers
<1>5. RecordsAreOfDns' /\ RecordsAreRemembered'
  BY <1>1 DEF SolverInv, RecordsAreOfDns, RecordsAreRemembered
<1>6. Progress(r)
  BY SolverParts
<1>7. cleaned[r] = "no"
  BY <1>6 DEF Progress, Over
<1>8. AddressesGivenBack'
  BY <1>1, <1>2, <1>7 DEF SolverInv, AddressesGivenBack
<1>9. ASSUME NEW q \in Runs, q # r
      PROVE  Progress(q)'
  <2>1. ASSUME NEW i \in 1..Authzs[q], Served(q, i) PROVE Served(q, i)'
    BY <1>1, <1>2, <1>3, <1>9, <2>1 DEF Served
  <2>2. (Undisturbed(q) <=> Undisturbed(q)') /\ \A i \in 1..Authzs[q] : Asked(q, i)' => Asked(q, i)
    BY <1>1, <1>2, <1>9 DEF Undisturbed, Asked
  <2>3. solver'[q] \in Servers /\ cleaned'[q] = "no" /\ Prepared(q)' => port'[AddrOf[q]] = q
    BY <1>1, <1>2, <1>3, <1>9, SolverParts DEF Progress, Prepared
  <2> QED
    BY <1>1, <1>2, <1>9, <2>1, <2>2, <2>3, SolverParts DEF Progress
<1>10. Progress(r)'
  <2>1. idx[r] = 1
    BY <1>0, <1>1, <1>3, <1>6, <1>7 DEF Progress, Prepared
  <2>2. ASSUME NEW i \in 1..Authzs[r] PROVE authz[r][i] # "processing"
    BY <1>6, <2>1 DEF Progress
  <2>3. ASSUME NEW i \in 1..Authzs[r], Asked(r, i)' PROVE Served(r, i)'
    BY <1>1, <1>2, <2>2, <2>3 DEF Asked, Served, Servers
  <2> QED
    BY <1>1, <1>2, <1>7, <2>2, <2>3 DEF Progress, Prepared
<1> QED
  BY <1>4, <1>5, <1>8, <1>9, <1>10, SolverParts

(* prepare() of a server that does not. *)
LEMMA SolverInvBusy ==
    ASSUME TypeInv, SolverInv, NEW r \in Runs, PrepareServer(r, idx[r], FALSE),
           pc[r] = "prepare", Goto(r, "failed"), UNCHANGED <<account, idx, polls, serverVars>>
    PROVE  SolverInv'
<1>0. DOMAIN pc = Runs /\ DOMAIN keyAuth = Runs /\ idx[r] \in 1..Authzs[r]
  BY DEF TypeInv, TypeOK
<1>1. /\ solver[r] \in Servers
      /\ keyAuth' = IF solver[r] = "http-01" THEN [keyAuth EXCEPT ![r] = idx[r]] ELSE keyAuth
      /\ UNCHANGED <<port, solver, provider, records, recordId, cleaned, faults, order, authz, idx>>
      /\ pc' = [pc EXCEPT ![r] = "failed"]
  BY DEF PrepareServer, Goto, serverVars
<1>2. /\ \A q \in Runs : q # r => keyAuth'[q] = keyAuth[q] /\ pc'[q] = pc[q]
      /\ pc'[r] = "failed"
  BY <1>0, <1>1
<1>3. PortsAreOfServers' /\ RecordsAreOfDns' /\ RecordsAreRemembered' /\ AddressesGivenBack'
  BY <1>1 DEF SolverInv, PortsAreOfServers, RecordsAreOfDns, RecordsAreRemembered, AddressesGivenBack
<1>4. ASSUME NEW q \in Runs, q # r
      PROVE  Progress(q)'
  <2>1. \A i \in 1..Authzs[q] : Served(q, i) => Served(q, i)'
    BY <1>1, <1>2, <1>4 DEF Served
  <2>2. (Undisturbed(q) <=> Undisturbed(q)') /\ \A i \in 1..Authzs[q] : Asked(q, i)' => Asked(q, i)
    BY <1>1, <1>2, <1>4 DEF Undisturbed, Asked
  <2> QED
    BY <1>1, <1>2, <1>4, <2>1, <2>2, SolverParts DEF Progress, Prepared
<1>5. Progress(r)'
  <2>0. Progress(r)
    BY SolverParts
  <2>1. ASSUME NEW i \in 1..Authzs[r], Asked(r, i)', cleaned[r] = "no"
        PROVE  Served(r, i)'
    <3>1. authz[r][i] = "processing" /\ (solver[r] = "http-01" => Authzs[r] = 1)
      BY <1>1, <1>2, <2>1 DEF Asked
    <3>2. i < idx[r]
      BY <2>0, <3>1 DEF Progress
    <3>3. solver[r] # "http-01"
      BY <1>0, <3>1, <3>2
    <3>4. Served(r, i)
      BY <1>1, <2>0, <2>1, <3>1 DEF Progress, Asked, Undisturbed
    <3> QED
      BY <1>1, <3>3, <3>4 DEF Served
  <2> QED
    BY <1>1, <1>2, <2>0, <2>1 DEF Progress, Prepared, Over
<1> QED
  BY <1>3, <1>4, <1>5, SolverParts

(* prepare() of a DNS-01 solver. *)
LEMMA SolverInvRecord ==
    ASSUME TypeInv, SolverInv, NEW r \in Runs, NEW ok \in BOOLEAN, PrepareDns(r, idx[r], ok),
           NEW label \in {"respond", "failed", "stalled"}, label = "respond" <=> ok,
           pc[r] = "prepare", Goto(r, label),
           UNCHANGED <<account, idx, polls, serverVars>>, faults' = 0 => faults = 0
    PROVE  SolverInv'
<1>0. DOMAIN pc = Runs /\ DOMAIN recordId = Runs /\ idx[r] \in 1..Authzs[r] /\ faults \in Nat
  BY DEF TypeInv, TypeOK
<1>1. /\ solver[r] = "dns-01"
      /\ UNCHANGED <<port, solver, provider, keyAuth, cleaned, order, authz, idx>>
      /\ pc' = [pc EXCEPT ![r] = label]
      /\ ok => Create(r, idx[r]) /\ recordId' = [recordId EXCEPT ![r] = idx[r]]
      /\ ~ok => UNCHANGED recordId
      /\ Create(r, idx[r]) \/ UNCHANGED records
      /\ ok \/ UNCHANGED records \/ faults' = faults + 1
  BY DEF PrepareDns, Goto, serverVars, Fault
<1>2. /\ pc'[r] = label
      /\ \A q \in Runs : q # r => pc'[q] = pc[q]
  BY <1>0, <1>1
<1>3. PortsAreOfServers' /\ AddressesGivenBack'
  BY <1>1 DEF SolverInv, PortsAreOfServers, AddressesGivenBack
<1>4. RecordOf(r, idx[r]).by = r /\ RecordOf(r, idx[r]).at = AddrOf[r]
      /\ RecordOf(r, idx[r]).authz = idx[r]
  BY DEF RecordOf
<1>5. RecordsAreOfDns'
  <2>1. CASE UNCHANGED records
    BY <1>1, <2>1 DEF SolverInv, RecordsAreOfDns
  <2>2. CASE Create(r, idx[r])
    <3>1. \A x \in records' : solver'[x.by] = "dns-01"
      BY <1>1, <1>4, <2>2, CreateRecords DEF SolverInv, RecordsAreOfDns
    <3>2. ASSUME provider.create = "replace", NEW x \in records', NEW y \in records', x.at = y.at
          PROVE  x = y
      <4>0. \A z \in records' : z.at = AddrOf[r] => z = RecordOf(r, idx[r])
        BY <2>2, <3>2, CreateRecords
      <4>1. CASE x.at = AddrOf[r]
        <5>1. x = RecordOf(r, idx[r]) /\ y = RecordOf(r, idx[r])
          BY <3>2, <4>0, <4>1
        <5> QED
          BY <5>1
      <4>2. CASE x.at # AddrOf[r]
        BY <1>4, <2>2, <3>2, <4>2, CreateRecords DEF SolverInv, RecordsAreOfDns
      <4> QED
        BY <4>1, <4>2
    <3> QED
      BY <1>1, <3>1, <3>2 DEF RecordsAreOfDns
  <2> QED
    BY <1>1, <2>1, <2>2
<1>6. Progress(r)
  BY SolverParts
<1>7. cleaned[r] = "no"
  BY <1>6 DEF Progress, Over
<1>8. RecordsAreRemembered'
  <2> SUFFICES ASSUME faults' = 0, NEW x \in records', Authzs[x.by] = 1
               PROVE  recordId'[x.by] = x.authz /\ cleaned'[x.by] # "ok"
    BY DEF RecordsAreRemembered
  <2>1. ASSUME x \in records
        PROVE  x.by \in Runs /\ x.authz \in 1..Authzs[x.by]
               /\ recordId[x.by] = x.authz /\ cleaned[x.by] # "ok"
    BY <2>1 DEF SolverInv, RecordsAreRemembered, TypeInv, TypeOK
  <2>2. CASE ok
    <3>1. x \in records \/ x = RecordOf(r, idx[r])
      BY <1>1, <2>2, CreateRecords
    <3>2. CASE x \in records /\ x.by # r
      BY <1>0, <1>1, <2>1, <2>2, <3>2
    <3>3. CASE x \in records /\ x.by = r
      <4>1. x.authz = 1 /\ idx[r] = 1
        BY <1>0, <2>1, <3>3
      <4> QED
        BY <1>0, <1>1, <1>7, <2>2, <3>3, <4>1
    <3>4. CASE x = RecordOf(r, idx[r])
      BY <1>0, <1>1, <1>4, <1>7, <2>2, <3>4
    <3> QED
      BY <3>1, <3>2, <3>3, <3>4
  <2>3. CASE ~ok
    BY <1>0, <1>1, <2>1, <2>3
  <2> QED
    BY <2>2, <2>3
<1>9. ASSUME NEW q \in Runs, NEW i, Undisturbed(q), Served(q, i)
      PROVE  Served(q, i)'
  <2>1. CASE solver[q] = "dns-01"
    <3>1. provider.create # "replace"
      BY <1>9, <2>1, ProvidersDiffer DEF Undisturbed, Servers
    <3>2. RecordOf(q, i) \in records
      BY <1>9, <2>1 DEF Served
    <3>3. records \subseteq records'
      BY <1>1, <3>1, CreateRecords
    <3> QED
      BY <1>1, <2>1, <3>2, <3>3 DEF Served, RecordOf
  <2>2. CASE solver[q] # "dns-01"
    BY <1>1, <1>9, <2>2 DEF Served
  <2> QED
    BY <2>1, <2>2
<1>10. \A q \in Runs : Undisturbed(q)' <=> Undisturbed(q)
  BY <1>1 DEF Undisturbed
<1>11. ASSUME NEW q \in Runs, q # r
       PROVE  Progress(q)'
  <2>1. \A i \in 1..Authzs[q] : Asked(q, i)' => Asked(q, i)
    BY <1>1, <1>2, <1>11 DEF Asked
  <2> QED
    BY <1>1, <1>2, <1>9, <1>10, <1>11, <2>1, SolverParts DEF Progress, Prepared
<1>12. Progress(r)'
  <2>1. ASSUME NEW i \in 1..Authzs[r], Asked(r, i)', Undisturbed(r) PROVE Served(r, i)'
    <3>1. CASE pc'[r] = "respond" /\ i = idx[r]
      <4>1. ok
        BY <1>2, <3>1
      <4> QED
        BY <1>1, <3>1, <4>1, CreateRecords DEF Served, RecordOf
    <3>2. CASE Asked(r, i)
      BY <1>6, <1>7, <1>9, <2>1, <3>2 DEF Progress
    <3> QED
      BY <1>1, <2>1, <3>1, <3>2 DEF Asked
  <2> QED
    BY <1>1, <1>2, <1>6, <1>7, <1>10, <2>1 DEF Progress, Servers
<1> QED
  BY <1>3, <1>5, <1>8, <1>11, <1>12, SolverParts

LEMMA SolverInvPrepare ==
    ASSUME TypeInv, SolverInv, NEW r \in Runs, Prepare(r), faults' = 0 => faults = 0
    PROVE  SolverInv'
<1>1. PICK ok \in BOOLEAN, label \in {"respond", "failed", "stalled"} :
        /\ SolverPrepare(r, idx[r], ok) /\ Goto(r, label)
        /\ label = "respond" <=> ok
        /\ PrepareServer(r, idx[r], ok) => label # "stalled"
  BY PrepareEnds
<1>2. pc[r] = "prepare" /\ UNCHANGED <<account, idx, polls, serverVars>>
  BY DEF Prepare
<1>3. CASE PrepareServer(r, idx[r], ok) /\ ok = TRUE
  BY <1>1, <1>2, <1>3, SolverInvBind
<1>4. CASE PrepareServer(r, idx[r], ok) /\ ok = FALSE
  BY <1>1, <1>2, <1>4, SolverInvBusy
<1>5. CASE PrepareDns(r, idx[r], ok)
  BY <1>1, <1>2, <1>5, SolverInvRecord
<1> QED
  BY <1>1, <1>3, <1>4, <1>5 DEF SolverPrepare

(* cleanup() takes away what its own run serves, and nothing else. *)
LEMMA SolverInvCleanup ==
    ASSUME TypeInv, SolverInv, NEW r \in Runs, Cleanup(r), faults' = 0 => faults = 0
    PROVE  SolverInv'
<1>0. /\ DOMAIN cleaned = Runs /\ DOMAIN keyAuth = Runs /\ DOMAIN recordId = Runs
      /\ port \in [Addrs -> {"free", "other", "closing"} \cup Runs]
      /\ faults \in Nat /\ \A q \in Runs : recordId[q] \in Nat
  BY DEF TypeInv, TypeOK
<1>1. /\ pc[r] \in Over /\ UNCHANGED <<pc, idx, authz, solver, provider>>
      /\ cleaned' \in {[cleaned EXCEPT ![r] = "ok"], [cleaned EXCEPT ![r] = "error"]}
  BY DEF Cleanup, SolverCleanup, CleanupServer, CleanupDns, clientVars, serverVars
<1>2. cleaned'[r] # "no" /\ \A q \in Runs : q # r => cleaned'[q] = cleaned[q]
  BY <1>0, <1>1
<1>3. ASSUME \A q \in Runs : q # r => (port[AddrOf[q]] = q => port'[AddrOf[q]] = q),
             \A q \in Runs : q # r => \A i : Undisturbed(q) /\ Served(q, i) => Served(q, i)'
      PROVE  \A q \in Runs : Progress(q)'
  <2>1. Progress(r)'
    BY <1>1, <1>2, SolverParts DEF Progress
  <2>2. ASSUME NEW q \in Runs, q # r PROVE Progress(q)'
    BY <1>1, <1>2, <1>3, <2>2, SolverParts DEF Progress, Prepared, Asked, Undisturbed
  <2> QED
    BY <2>1, <2>2
<1>4. CASE CleanupServer(r)
  <2>1. /\ solver[r] \in Servers /\ UNCHANGED <<records, recordId, faults>>
        /\ \A a \in Addrs : port'[a] = IF port[a] = r THEN "closing" ELSE port[a]
        /\ \A q \in Runs : q # r => keyAuth'[q] = keyAuth[q]
    BY <1>0, <1>4 DEF CleanupServer
  <2>2. "closing" \notin Runs
    OBVIOUS
  <2>3. PortsAreOfServers' /\ AddressesGivenBack'
    <3>1. PortsAreOfServers'
      BY <1>1, <2>1, <2>2 DEF SolverInv, PortsAreOfServers
    <3>2. ASSUME NEW q \in Runs, cleaned'[q] = "ok" PROVE port'[AddrOf[q]] # q
      BY <1>2, <2>1, <2>2, <3>2 DEF SolverInv, AddressesGivenBack
    <3> QED
      BY <3>1, <3>2 DEF AddressesGivenBack
  <2>4. RecordsAreOfDns'
    BY <1>1, <2>1 DEF SolverInv, RecordsAreOfDns
  <2>5. RecordsAreRemembered'
    <3>1. \A x \in records : x.by \in Runs /\ x.by # r
      BY <2>1 DEF SolverInv, RecordsAreOfDns, TypeInv, TypeOK, Servers
    <3> QED
      BY <1>2, <2>1, <3>1 DEF SolverInv, RecordsAreRemembered
  <2>6. \A q \in Runs : Progress(q)'
    <3>1. \A q \in Runs : q # r => (port[AddrOf[q]] = q => port'[AddrOf[q]] = q)
      BY <2>1
    <3>2. \A q \in Runs : q # r => \A i : Undisturbed(q) /\ Served(q, i) => Served(q, i)'
      BY <1>1, <2>1, <3>1 DEF Served
    <3> QED
      BY <1>3, <3>1, <3>2
  <2> QED
    BY <2>3, <2>4, <2>5, <2>6, SolverParts
<1>5. CASE CleanupDns(r)
  <2>1. /\ solver[r] = "dns-01" /\ UNCHANGED <<port, keyAuth>>
        /\ recordId' = [recordId EXCEPT ![r] = 0]
        /\ records' \subseteq records
        /\ \A x \in records : x \in records' \/ (recordId[r] # 0 /\ x \in Doomed(r))
        /\ \/ recordId[r] = 0
           \/ recordId[r] # 0 /\ records' = records \ Doomed(r)
           \/ faults' = faults + 1
    BY <1>5 DEF CleanupDns, Fault
  <2>2. /\ \A q \in Runs : q # r => recordId'[q] = recordId[q]
    BY <1>0, <2>1
  <2>3. PortsAreOfServers' /\ AddressesGivenBack'
    <3>1. PortsAreOfServers' /\ port[AddrOf[r]] # r
      BY <1>1, <2>1 DEF SolverInv, PortsAreOfServers, Servers
    <3> QED
      BY <1>2, <2>1, <3>1 DEF SolverInv, AddressesGivenBack
  <2>4. RecordsAreOfDns'
    BY <1>1, <2>1 DEF SolverInv, RecordsAreOfDns
  <2>5. RecordsAreRemembered'
    <3> SUFFICES ASSUME faults' = 0, NEW x \in records', Authzs[x.by] = 1
                 PROVE  recordId'[x.by] = x.authz /\ cleaned'[x.by] # "ok"
      BY DEF RecordsAreRemembered
    <3>1. /\ x \in records /\ x.by \in Runs /\ x.authz \in 1..Authzs[x.by]
          /\ x = RecordOf(x.by, x.authz)
          /\ recordId[x.by] = x.authz /\ cleaned[x.by] # "ok"
      BY <2>1 DEF SolverInv, RecordsAreRemembered, TypeInv, TypeOK, RecordsAreOfRuns, RecordOf
    <3>2. ASSUME x.by = r PROVE FALSE
      <4>1. records' = records \ Doomed(r) /\ x = RecordOf(r, recordId[r])
        BY <1>0, <2>1, <3>1, <3>2
      <4>2. x.at = AddrOf[r]
        BY <4>1 DEF RecordOf
      <4>3. provider.delete = "exact" => At(AddrOf[r]) = {x}
        BY <3>1, <4>2, ProvidersDiffer DEF SolverInv, RecordsAreOfDns, At
      <4>4. x \in Doomed(r)
        BY <3>1, <4>1, <4>2, <4>3, ProvidersDiffer DEF Doomed, At
      <4> QED
        BY <4>1, <4>4
    <3> QED
      BY <1>2, <2>2, <3>1, <3>2
  <2>6. \A q \in Runs : Progress(q)'
    <3>1. ASSUME NEW q \in Runs, q # r, NEW i, Undisturbed(q), Served(q, i)
          PROVE  Served(q, i)'
      <4>1. CASE solver[q] = "dns-01"
        <5>1. provider.delete = "record" /\ RecordOf(q, i) \in records
          BY <3>1, <4>1 DEF Undisturbed, Served, Servers
        <5>2. RecordOf(q, i) \notin Doomed(r)
          BY <3>1, <5>1 DEF Doomed, RecordOf
        <5> QED
          BY <1>1, <2>1, <4>1, <5>1, <5>2 DEF Served, RecordOf
      <4>2. CASE solver[q] # "dns-01"
        BY <1>1, <2>1, <3>1, <4>2 DEF Served
      <4> QED
        BY <4>1, <4>2
    <3> QED
      BY <1>3, <2>1, <3>1
  <2> QED
    BY <2>3, <2>4, <2>5, <2>6, SolverParts
<1> QED
  BY <1>4, <1>5 DEF Cleanup, SolverCleanup

LEMMA SolverInvDropped ==
    ASSUME TypeInv, SolverInv, NEW a \in Addrs, ServerDropped(a),
           UNCHANGED <<clientVars, serverVars>>
    PROVE  SolverInv'
<1>1. /\ port[a] = "closing" /\ port' = [port EXCEPT ![a] = "free"] /\ DOMAIN port = Addrs
      /\ UNCHANGED <<pc, idx, authz, solver, keyAuth, provider, records, recordId, cleaned, faults>>
  BY DEF ServerDropped, clientVars, serverVars, TypeInv, TypeOK
<1>2. "closing" \notin Runs /\ "free" \notin Runs
  OBVIOUS
<1>3. \A q \in Runs : port'[AddrOf[q]] = q <=> port[AddrOf[q]] = q
  BY <1>1, <1>2
<1>4. PortsAreOfServers'
  BY <1>1, <1>2 DEF SolverInv, PortsAreOfServers
<1>5. RecordsAreOfDns' /\ RecordsAreRemembered' /\ AddressesGivenBack'
  BY <1>1, <1>3 DEF SolverInv, RecordsAreOfDns, RecordsAreRemembered, AddressesGivenBack
<1>6. \A q \in Runs : \A i : Served(q, i)' <=> Served(q, i)
  BY <1>1, <1>3 DEF Served
<1>7. \A q \in Runs : Progress(q)'
  BY <1>1, <1>3, <1>6, SolverParts DEF Progress, Prepared, Asked, Undisturbed
<1> QED
  BY <1>4, <1>5, <1>7, SolverParts

LEMMA SolverInvStep == TypeInv /\ SolverInv /\ [NextIssuance]_issuanceVars => SolverInv'
<1> SUFFICES ASSUME TypeInv, SolverInv, [NextIssuance]_issuanceVars PROVE SolverInv'
  OBVIOUS
<1>1. faults' = 0 => faults = 0
  BY NoFaultBefore
<1>2. ASSUME NEW r \in Runs, Begin(r) \/ Client(r) \/ CA(r) \/ Cleanup(r)
      PROVE  SolverInv'
  BY <1>1, <1>2, SolverInvMoves, SolverInvPrepare, SolverInvCleanup DEF Client, Moves
<1>3. CASE UNCHANGED issuanceVars
  BY <1>3 DEF issuanceVars, SolverInv, PortsAreOfServers, ServersKeepPorts, Prepared, InTurn, Asked,
     AskedIsServed, Undisturbed, Served, RecordsAreOfDns, RecordsAreRemembered, AddressesGivenBack
<1> QED
  BY <1>2, <1>3, SolverInvDropped DEF NextIssuance

(* What a run serves stays served until its own cleanup for as long as the *)
(* CA may still fetch it, whatever other runs do.                          *)
THEOREM ServedUntilCleanup == SpecIssuance => []ServedWhileChecked
<1>1. SolverInv => ServedWhileChecked
  BY DEF SolverInv, AskedIsServed, Asked, ServedWhileChecked
<1> QED
  BY TypeInvInit, TypeInvStep, SolverInvInit, SolverInvStep, <1>1, PTL DEF SpecIssuance

(* A cleanup() that returned Ok, in a run without failures, has given back *)
(* what the only prepare() of its run took, with every provider.           *)
THEOREM CleanupComplete == SpecIssuance => []CleanupIsComplete
<1>1. SolverInv => CleanupIsComplete
  BY DEF SolverInv, RecordsAreRemembered, AddressesGivenBack, CleanupIsComplete
<1> QED
  BY TypeInvInit, TypeInvStep, SolverInvInit, SolverInvStep, <1>1, PTL DEF SpecIssuance

(* The CA is told to validate a challenge only at a moment at which its    *)
(* run serves the key authorization.                                       *)
THEOREM AnsweredOnlyWhenServed == SpecIssuance => AnsweredWhenServed
<1> DEFINE Answers == \A r \in Runs : \A i \in 1..Authzs[r] :
                         /\ Undisturbed(r)
                         /\ authz[r][i] = "pending" /\ authz'[r][i] = "processing"
                         => Served(r, i)
<1>1. TypeInv /\ SolverInv /\ [NextIssuance]_issuanceVars => [Answers]_issuanceVars
  <2> SUFFICES ASSUME TypeInv, SolverInv, NextIssuance, NEW r \in Runs, NEW i \in 1..Authzs[r],
                      Undisturbed(r), authz[r][i] = "pending", authz'[r][i] = "processing"
               PROVE  Served(r, i)
    OBVIOUS
  <2>1. RespondToChallenge(r) => Served(r, i)
    <3> SUFFICES ASSUME RespondToChallenge(r) PROVE Served(r, i)
      OBVIOUS
    <3>1. pc[r] = "respond" /\ i = idx[r]
      BY RespondEffect
    <3>2. cleaned[r] = "no"
      BY <3>1 DEF SolverInv, InTurn, Over
    <3> QED
      BY <3>1, <3>2 DEF SolverInv, AskedIsServed, Asked
  <2>2. ASSUME NEW q \in Runs, Begin(q) \/ Client(q) \/ CA(q) \/ Cleanup(q)
        PROVE  RespondToChallenge(r)
    <3>1. q = r
      BY <2>2, OthersStay
    <3>2. ~NewOrder(r) /\ ~FinalizeOrder(r) /\ ~CA(r)
      BY NewOrderEffect, FinalizeEffect, CAEffect
    <3>3. authz' # authz
      OBVIOUS
    <3> QED
      BY <2>2, <3>1, <3>2, <3>3, OrderStays DEF Client, Cleanup, serverVars
  <2> QED
    BY <2>1, <2>2 DEF NextIssuance, serverVars
<1> QED
  BY TypeInvInit, TypeInvStep, SolverInvInit, SolverInvStep, <1>1, PTL
     DEF SpecIssuance, AnsweredWhenServed

-----------------------------------------------------------------------------
(* The call seen from outside *)

(* What Issuance shows as the variables of IssueCall. *)
CallState == [r \in Runs |-> IF pc[r] \in Over \cup {"idle"} THEN pc[r] ELSE "running"]
CallBinds == [r \in Runs |-> solver[r] \in Servers]
CallBound == [r \in Runs |-> solver[r] \in Servers /\ port[AddrOf[r]] = r]
CallHolder == [a \in Addrs |-> IF port[a] = "closing" THEN "other" ELSE port[a]]

LEMMA CallVars ==
    UNCHANGED <<CallState, CallBinds, CallBound, CallHolder>> <=> UNCHANGED Call!callVars
BY DEF Call!callVars, CallState, CallBinds, CallBound, CallHolder

LEMMA CallInit == InitIssuance => Call!InitCalls
<1> SUFFICES ASSUME InitIssuance PROVE Call!InitCalls
  OBVIOUS
<1>1. /\ pc = [r \in Runs |-> "idle"] /\ port \in [Addrs -> {"free", "other"}]
  BY DEF InitIssuance, SolversInit
<1>2. CallState = [r \in Runs |-> "idle"]
  BY <1>1 DEF CallState
<1>3. CallBinds \in [Runs -> BOOLEAN]
  BY DEF CallBinds
<1>4. \A r \in Runs : port[AddrOf[r]] # r
  BY <1>1
<1>5. CallBound = [r \in Runs |-> FALSE]
  BY <1>4 DEF CallBound
<1>6. CallHolder \in [Addrs -> {"free", "other"}]
  BY <1>1 DEF CallHolder
<1> QED
  BY <1>2, <1>3, <1>5, <1>6 DEF Call!InitCalls, CallState, CallBinds, CallBound, CallHolder

(* A run that moves on without touching its address. *)
LEMMA CallMoves ==
    ASSUME TypeInv, NEW r \in Runs, NEW label, pc' = [pc EXCEPT ![r] = label],
           UNCHANGED <<solver, port>>
    PROVE  /\ CallState' = [CallState EXCEPT ![r] =
                              IF label \in Over \cup {"idle"} THEN label ELSE "running"]
           /\ UNCHANGED <<CallBinds, CallBound, CallHolder>>
<1>1. DOMAIN pc = Runs
  BY DEF TypeInv, TypeOK
<1>2. CallState' = [CallState EXCEPT ![r] =
                      IF label \in Over \cup {"idle"} THEN label ELSE "running"]
  BY <1>1 DEF CallState
<1> QED
  BY <1>2 DEF CallBinds, CallBound, CallHolder

(* A run that is over or idle does not move by itself but for its start;   *)
(* a call in progress stays so, fails or succeeds.                         *)
LEMMA MovesTo ==
    ASSUME TypeInv, NEW r \in Runs, Moves(r)
    PROVE  /\ UNCHANGED <<solver, port>>
           /\ \E label : pc' = [pc EXCEPT ![r] = label]
                         /\ \/ pc[r] = "idle" /\ label \notin Over \cup {"idle"}
                            \/ /\ pc[r] \notin Over \cup {"idle"}
                               /\ \/ label \notin {"idle", "ok"}
                                  \/ label = "ok" /\ pc[r] = "download"
<1>0. UNCHANGED <<solver, port>> /\ pc[r] \in {"idle"} \cup Requesting
  BY MovesEffect DEF solverVars, Moves, Begin, Refused, Register, NewOrder, GetAuthorization,
     RespondToChallenge, PollReady, PollValid, Poll, FinalizeOrder, Download, Requesting
<1>1. CASE Begin(r)
  <2>1. pc[r] = "idle" /\ \E label \in {"order", "register"} : pc' = [pc EXCEPT ![r] = label]
    BY <1>1 DEF Begin, Goto
  <2> QED
    BY <1>0, <2>1 DEF Over
<1>2. CASE Download(r)
  <2>1. pc[r] = "download" /\ pc' = [pc EXCEPT ![r] = "ok"]
    BY <1>2 DEF Download, Goto
  <2> QED
    BY <1>0, <2>1 DEF Over
<1>4. CASE Refused(r) \/ Register(r) \/ GetAuthorization(r) \/ NewOrder(r)
           \/ RespondToChallenge(r) \/ FinalizeOrder(r)
  <2>1. /\ pc[r] \in Requesting
        /\ \E label \in {"failed", "stalled", "order", "prepare", "authz", "pollReady", "pollValid"} :
              pc' = [pc EXCEPT ![r] = label]
    <3>1. pc[r] \in Requesting
      BY <1>4 DEF Refused, Register, GetAuthorization, NewOrder, RespondToChallenge, FinalizeOrder,
                  Requesting
    <3>2. CASE Refused(r) \/ Register(r) \/ GetAuthorization(r)
      BY <3>1, <3>2 DEF Refused, NoAnswer, Register, GetAuthorization, Goto
    <3>3. CASE NewOrder(r) \/ RespondToChallenge(r) \/ FinalizeOrder(r)
      <4>1. \E label \in {"authz", "pollReady", "pollValid"} : Answered(r, label)
        BY <3>3 DEF NewOrder, RespondToChallenge, FinalizeOrder
      <4> QED
        BY <3>1, <4>1 DEF Answered, NoAnswer, Goto
    <3> QED
      BY <1>4, <3>2, <3>3
  <2> QED
    BY <1>0, <2>1 DEF Over, Requesting
<1>3. CASE PollReady(r) \/ PollValid(r)
  <2>1. pc[r] \in {"pollReady", "pollValid"} /\ DOMAIN pc = Runs
    BY <1>3 DEF PollReady, PollValid, Poll, TypeInv, TypeOK
  <2>2. \/ pc' = [pc EXCEPT ![r] = "finalize"] \/ pc' = [pc EXCEPT ![r] = "download"]
        \/ pc' = [pc EXCEPT ![r] = "failed"] \/ pc' = pc
    BY <1>3 DEF PollReady, PollValid, Poll, Goto
  <2>3. pc = [pc EXCEPT ![r] = pc[r]]
    BY <2>1 DEF TypeInv, TypeOK
  <2>4. \E label : pc' = [pc EXCEPT ![r] = label] /\ label \notin {"idle", "ok"}
    BY <2>1, <2>2, <2>3
  <2> QED
    BY <1>0, <2>1, <2>4 DEF Over
<1> QED
  BY <1>1, <1>2, <1>3, <1>4 DEF Moves

LEMMA CallStepMoves ==
    ASSUME TypeInv, SolverInv, NEW r \in Runs, Moves(r)
    PROVE  Call!Begin(r) \/ Call!Succeed(r) \/ Call!Fail(r) \/ UNCHANGED Call!callVars
<1>1. PICK label : /\ pc' = [pc EXCEPT ![r] = label]
                   /\ \/ pc[r] = "idle" /\ label \notin Over \cup {"idle"}
                      \/ /\ pc[r] \notin Over \cup {"idle"}
                         /\ \/ label \notin {"idle", "ok"}
                            \/ label = "ok" /\ pc[r] = "download"
  BY MovesTo
<1>2. /\ CallState' = [CallState EXCEPT ![r] =
                         IF label \in Over \cup {"idle"} THEN label ELSE "running"]
      /\ UNCHANGED <<CallBinds, CallBound, CallHolder>>
  BY <1>1, CallMoves, MovesTo
<1>3. CASE pc[r] = "idle"
  <2>1. CallState[r] = "idle" /\ CallState' = [CallState EXCEPT ![r] = "running"]
    BY <1>1, <1>2, <1>3 DEF CallState, Over
  <2> QED
    BY <1>2, <2>1 DEF Call!Begin, Call!Becomes, CallState, CallBinds, CallBound, CallHolder
<1>4. CASE pc[r] # "idle" /\ label = "ok"
  <2>1. CallState[r] = "running" /\ CallState' = [CallState EXCEPT ![r] = "ok"]
    BY <1>1, <1>2, <1>4 DEF CallState, Over
  <2>2. CallBinds[r] => CallBound[r]
    <3>1. pc[r] = "download"
      BY <1>1, <1>4 DEF Over
    <3>2. cleaned[r] = "no" /\ Prepared(r)
      BY <3>1 DEF SolverInv, InTurn, ServersKeepPorts, Prepared, Over
    <3> QED
      BY <3>2 DEF SolverInv, ServersKeepPorts, CallBinds, CallBound
  <2> QED
    BY <1>2, <2>1, <2>2 DEF Call!Succeed, Call!Becomes, CallState, CallBinds, CallBound, CallHolder
<1>5. CASE pc[r] # "idle" /\ label = "failed"
  <2>1. CallState[r] = "running" /\ CallState' = [CallState EXCEPT ![r] = "failed"]
    BY <1>1, <1>2, <1>5 DEF CallState, Over
  <2> QED
    BY <1>2, <2>1 DEF Call!Fail, Call!Becomes, CallState, CallBinds, CallBound, CallHolder
<1>6. CASE pc[r] # "idle" /\ label \notin {"ok", "failed"}
  <2>1. CallState[r] = "running" /\ label \notin Over \cup {"idle"}
    BY <1>1, <1>6 DEF CallState, Over
  <2>2. CallState' = CallState
    BY <1>2, <2>1 DEF CallState
  <2> QED
    BY <1>2, <2>2, CallVars
<1> QED
  BY <1>3, <1>4, <1>5, <1>6

LEMMA CallStepPrepare ==
    ASSUME TypeInv, SolverInv, NEW r \in Runs, Prepare(r)
    PROVE  Call!Bind(r) \/ Call!Fail(r) \/ UNCHANGED Call!callVars
<1>0. pc[r] = "prepare" /\ DOMAIN pc = Runs
  BY DEF Prepare, TypeInv, TypeOK
<1>1. PICK ok \in BOOLEAN, label \in {"respond", "failed", "stalled"} :
        /\ SolverPrepare(r, idx[r], ok) /\ pc' = [pc EXCEPT ![r] = label]
        /\ label = "respond" <=> ok
  BY PrepareEnds DEF Goto
<1>2. CallState[r] = "running"
  BY <1>0 DEF CallState, Over
<1>3. CallState' = [CallState EXCEPT ![r] = IF label = "failed" THEN "failed" ELSE "running"]
  BY <1>0, <1>1 DEF CallState, Over
<1>4. CASE UNCHANGED <<solver, port>>
  <2>1. UNCHANGED <<CallBinds, CallBound, CallHolder>>
    BY <1>4 DEF CallBinds, CallBound, CallHolder
  <2>2. CASE label # "failed"
    <3>1. CallState' = CallState
      BY <1>2, <1>3, <2>2 DEF CallState
    <3> QED
      BY <2>1, <3>1, CallVars
  <2>3. CASE label = "failed"
    BY <1>2, <1>3, <2>1, <2>3 DEF Call!Fail, Call!Becomes, CallState, CallBinds, CallBound, CallHolder
  <2> QED
    BY <2>2, <2>3
<1>5. CASE PrepareServer(r, idx[r], ok) /\ ok
  <2>1. /\ solver[r] \in Servers /\ solver' = solver /\ port[AddrOf[r]] = "free"
        /\ port' = [port EXCEPT ![AddrOf[r]] = r] /\ DOMAIN port = Addrs
    BY <1>5 DEF PrepareServer, TypeInv, TypeOK
  <2>2. CallState' = CallState
    BY <1>1, <1>2, <1>3, <1>5 DEF CallState
  <2>3. CallBinds[r] /\ CallBinds' = CallBinds /\ CallHolder[AddrOf[r]] = "free"
    BY <2>1 DEF CallBinds, CallHolder
  <2>4. CallHolder' = [CallHolder EXCEPT ![AddrOf[r]] = r]
    BY <2>1 DEF CallHolder
  <2>5. CallBound' = [CallBound EXCEPT ![r] = TRUE]
    <3>1. ASSUME NEW q \in Runs, q # r PROVE port'[AddrOf[q]] = q <=> port[AddrOf[q]] = q
      BY <2>1, <3>1
    <3> QED
      BY <2>1, <3>1 DEF CallBound
  <2> QED
    BY <1>2, <2>2, <2>3, <2>4, <2>5
       DEF Call!Bind, CallState, CallBinds, CallBound, CallHolder
<1> QED
  BY <1>1, <1>4, <1>5 DEF SolverPrepare, PrepareServer, PrepareDns

LEMMA CallStepCleanup ==
    ASSUME TypeInv, SolverInv, NEW r \in Runs, Cleanup(r)
    PROVE  Call!Release(r) \/ UNCHANGED Call!callVars
<1>1. /\ pc[r] \in Over /\ UNCHANGED <<pc, solver>> /\ DOMAIN port = Addrs
  BY DEF Cleanup, SolverCleanup, CleanupServer, CleanupDns, clientVars, TypeInv, TypeOK
<1>2. UNCHANGED <<CallState, CallBinds>>
  BY <1>1 DEF CallState, CallBinds
<1>3. CASE UNCHANGED port
  <2>1. UNCHANGED <<CallBound, CallHolder>>
    BY <1>1, <1>3 DEF CallBound, CallHolder
  <2> QED
    BY <1>2, <2>1, CallVars
<1>4. CASE CleanupServer(r) /\ port[AddrOf[r]] # r
  <2>1. \A a \in Addrs : port[a] # r
    BY <1>4 DEF SolverInv, PortsAreOfServers
  <2>2. port' = port
    BY <1>4, <2>1 DEF CleanupServer, TypeInv, TypeOK
  <2> QED
    BY <1>3, <2>2
<1>5. CASE CleanupServer(r) /\ port[AddrOf[r]] = r
  <2>1. solver[r] \in Servers /\ CallState[r] \in {"ok", "failed"} /\ CallBound[r]
    BY <1>1, <1>5 DEF CallBound, CallState, CleanupServer, Over
  <2>2. \A a \in Addrs : port'[a] = IF a = AddrOf[r] THEN "closing" ELSE port[a]
    BY <1>5 DEF CleanupServer, SolverInv, PortsAreOfServers
  <2>3. CallHolder' = [CallHolder EXCEPT ![AddrOf[r]] = "other"]
    BY <2>2 DEF CallHolder
  <2>4. CallBound' = [CallBound EXCEPT ![r] = FALSE]
    <3>1. ASSUME NEW q \in Runs, q # r PROVE port'[AddrOf[q]] = q <=> port[AddrOf[q]] = q
      BY <1>5, <2>2, <3>1
    <3>2. port'[AddrOf[r]] # r
      BY <2>2
    <3> QED
      BY <1>1, <3>1, <3>2 DEF CallBound
  <2> QED
    BY <1>2, <2>1, <2>3, <2>4 DEF Call!Release, CallState, CallBinds, CallBound, CallHolder
<1> QED
  BY <1>3, <1>4, <1>5 DEF Cleanup, SolverCleanup, CleanupDns

LEMMA CallStepDropped ==
    ASSUME TypeInv, NEW a \in Addrs, ServerDropped(a), UNCHANGED clientVars
    PROVE  Call!Vacate(a)
<1>1. /\ UNCHANGED <<pc, solver>> /\ port[a] = "closing" /\ port' = [port EXCEPT ![a] = "free"]
      /\ DOMAIN port = Addrs
  BY DEF ServerDropped, clientVars, TypeInv, TypeOK
<1>2. UNCHANGED <<CallState, CallBinds>>
  BY <1>1 DEF CallState, CallBinds
<1>3. CallHolder[a] = "other" /\ CallHolder' = [CallHolder EXCEPT ![a] = "free"]
  BY <1>1 DEF CallHolder
<1>4. \A q \in Runs : port'[AddrOf[q]] = q <=> port[AddrOf[q]] = q
  BY <1>1
<1>5. CallBound' = CallBound
  BY <1>1, <1>4 DEF CallBound
<1> QED
  BY <1>2, <1>3, <1>5 DEF Call!Vacate, CallState, CallBinds, CallBound, CallHolder

LEMMA CallStep ==
    TypeInv /\ SolverInv /\ [NextIssuance]_issuanceVars => [Call!NextCalls]_(Call!callVars)
<1> SUFFICES ASSUME TypeInv, SolverInv, [NextIssuance]_issuanceVars
             PROVE  Call!NextCalls \/ UNCHANGED Call!callVars
  OBVIOUS
<1>1. ASSUME NEW r \in Runs, Moves(r)
      PROVE  Call!NextCalls \/ UNCHANGED Call!callVars
  BY <1>1, CallStepMoves DEF Call!NextCalls
<1>2. ASSUME NEW r \in Runs, Prepare(r)
      PROVE  Call!NextCalls \/ UNCHANGED Call!callVars
  BY <1>2, CallStepPrepare DEF Call!NextCalls
<1>3. ASSUME NEW r \in Runs, Cleanup(r)
      PROVE  Call!NextCalls \/ UNCHANGED Call!callVars
  BY <1>3, CallStepCleanup DEF Call!NextCalls
<1>4. ASSUME NEW a \in Addrs, ServerDropped(a), UNCHANGED <<clientVars, serverVars>>
      PROVE  Call!NextCalls \/ UNCHANGED Call!callVars
  BY <1>4, CallStepDropped DEF Call!NextCalls
<1>5. UNCHANGED <<pc, solver, port>> => UNCHANGED Call!callVars
  BY DEF Call!callVars
<1>6. ASSUME NEW r \in Runs, CA(r)
      PROVE  Call!NextCalls \/ UNCHANGED Call!callVars
  BY <1>5, <1>6, CAEffect DEF clientVars, solverVars
<1>7. CASE UNCHANGED issuanceVars
  BY <1>5, <1>7 DEF issuanceVars
<1> QED
  BY <1>1, <1>2, <1>3, <1>4, <1>6, <1>7 DEF NextIssuance, Client, Moves

(* issue_certificate implements what its callers rely on: a call that      *)
(* listens succeeds only with an address that was free for it and that it  *)
(* keeps, beyond its own end, until cleanup().                             *)
THEOREM CallImplemented == SpecIssuance => ImplementsCall
<1> QED
  BY TypeInvInit, TypeInvStep, SolverInvInit, SolverInvStep, CallInit, CallStep, PTL
     DEF SpecIssuance, ImplementsCall, Call!SpecCalls

-----------------------------------------------------------------------------
(* ApiServer: its attempts *)

Times == 0..MaxRetries

LEMMA TryRuns ==
    /\ \A t \in Orders : \A n \in Times : Try[<<t, n>>] \in Runs
    /\ \A s, t \in Orders : \A m, n \in Times : Try[<<s, m>>] = Try[<<t, n>>] => s = t /\ m = n
<1>1. \A s, t \in Orders : \A m, n \in Times : Try[<<s, m>>] = Try[<<t, n>>] => <<s, m>> = <<t, n>>
  BY ProvisioningAssumption DEF Times
<1> QED
  BY <1>1, ProvisioningAssumption DEF Times

LEMMA LastTry == \A n \in Times : n < MaxRetries \/ n = MaxRetries
<1>1. MaxRetries \in Nat
  BY ProvisioningAssumption
<1> QED
  BY <1>1 DEF Times

-----------------------------------------------------------------------------
(* The runs *)

(* What happens to the runs: a step of Issuance, a run that is given up    *)
(* before its next request, or the end of all of them.                     *)
RunsGoOn == [NextIssuance]_issuanceVars

LEMMA StepOfRuns ==
    ASSUME ProvisioningTypeOK, [ApiNext]_serverState
    PROVE  RunsGoOn \/ (\E t \in Orders : Misconfigured(t)) \/ ServerDies
<1>0. \A t \in Orders : Attempt(t) \in Runs
  BY TryRuns DEF Attempt, ProvisioningTypeOK, Times
<1>1. ASSUME NEW t \in Orders, Execute(t), ~Misconfigured(t)
      PROVE  RunsGoOn
  <2>1. CASE Start(t)
    BY <1>0, <2>1 DEF Start, RunsGoOn, NextIssuance
  <2>2. CASE Provision(t)
    BY <2>2, TryRuns DEF Provision, RunsGoOn, NextIssuance, Times
  <2>3. CASE AttemptOk(t) \/ AttemptFailed(t) \/ Wake(t)
    BY <2>3 DEF AttemptOk, AttemptFailed, Wake, RunsGoOn
  <2> QED
    BY <1>1, <2>1, <2>2, <2>3 DEF Execute
<1>2. ASSUME NEW t \in Orders, PostOrder(t) \/ ListOrders(t)
      PROVE  RunsGoOn
  <2>1. UNCHANGED issuanceVars
    BY <1>2 DEF PostOrder, ListOrders, CreateOrder, RunsGoOn, allVars, issuanceVars
  <2> QED
    BY <2>1 DEF RunsGoOn
<1>3. ASSUME NEW n \in Renewals, PostRenew(n) \/ Job(n)
      PROVE  RunsGoOn
  <2>1. UNCHANGED allVars
    BY <1>3 DEF PostRenew, Job, JobStarts, JobEnds
  <2> QED
    BY <2>1 DEF RunsGoOn, allVars, issuanceVars
<1>4. ASSUME NEW x \in Requests, GetOrder(x)
      PROVE  RunsGoOn
  BY <1>4 DEF GetOrder, RunsGoOn, allVars, issuanceVars
<1>5. ASSUME NEW r \in Runs, CA(r)
      PROVE  RunsGoOn
  BY <1>5 DEF RunsGoOn, NextIssuance
<1>6. ServerStarts => RunsGoOn
  BY DEF ServerStarts, RunsGoOn
<1>7. UNCHANGED serverState => RunsGoOn
  BY DEF serverState, allVars, RunsGoOn, issuanceVars
<1> QED
  BY <1>1, <1>2, <1>3, <1>4, <1>5, <1>6, <1>7 DEF ApiNext, Background, Dies

RunInv == TypeInv /\ OrderInv

(* A run is given up, before its next request. *)
LEMMA RunsGivenUp ==
    ASSUME RunInv, NEW t \in Orders, ProvisioningTypeOK, Misconfigured(t)
    PROVE  RunInv'
<1> DEFINE r == Attempt(t)
<1>0. r \in Runs
  BY TryRuns DEF Attempt, ProvisioningTypeOK, Times
<1> HIDE DEF r
<1>1. /\ pc' = [pc EXCEPT ![r] = "failed"] /\ pc \in [Runs -> {"idle", "prepare", "stalled"} \cup Requesting \cup Over]
      /\ UNCHANGED <<account, idx, polls, solverVars, serverVars, faults>>
  BY DEF Misconfigured, Goto, RunInv, TypeInv, TypeOK, r
<1>2. ClientTypes' /\ ServerTypes' /\ SolverTypesOK' /\ faults' \in 0..MaxFaults
  <2>1. ClientTypes /\ ServerTypes /\ SolverTypesOK /\ faults \in 0..MaxFaults
    BY TypeParts DEF RunInv
  <2>2. ClientTypes'
    BY <1>0, <1>1, <2>1 DEF ClientTypes, StartsAtFirst, Over
  <2>3. ServerTypes' /\ SolverTypesOK' /\ faults' \in 0..MaxFaults
    BY <1>1, <2>1 DEF ServerTypes, SolverTypesOK, RecordsAreOfRuns, serverVars, solverVars
  <2> QED
    BY <2>2, <2>3
<1>3. OrderInv'
  BY <1>0, <1>1 DEF RunInv, OrderInv, serverVars
<1> QED
  BY <1>2, <1>3, TypeParts DEF RunInv

LEMMA RunsEnd ==
    ASSUME RunInv, ServerDies
    PROVE  RunInv'
<1>1. /\ pc' = [r \in Runs |-> IF pc[r] \in Over \cup {"idle"} THEN pc[r] ELSE "failed"]
      /\ port' = [a \in Addrs |-> IF port[a] = "other" THEN "other" ELSE "free"]
      /\ UNCHANGED <<solver, keyAuth, provider, records, recordId, cleaned, faults, account, idx,
                     polls, order, authz>>
  BY DEF ServerDies, serverVars
<1>2. ClientTypes /\ ServerTypes /\ SolverTypesOK /\ faults \in 0..MaxFaults
  BY TypeParts DEF RunInv
<1>3. ClientTypes'
  BY <1>1, <1>2 DEF ClientTypes, StartsAtFirst, Over
<1>4. ServerTypes' /\ SolverTypesOK' /\ faults' \in 0..MaxFaults
  BY <1>1, <1>2 DEF ServerTypes, SolverTypesOK, RecordsAreOfRuns
<1>5. OrderInv'
  BY <1>1 DEF RunInv, OrderInv, Over
<1> QED
  BY <1>3, <1>4, <1>5, TypeParts DEF RunInv

LEMMA RunInvStep ==
    ASSUME RunInv, ProvisioningTypeOK, [ApiNext]_serverState
    PROVE  RunInv'
BY StepOfRuns, RunsGivenUp, RunsEnd, TypeInvStep, OrderInvStep DEF RunsGoOn, RunInv

-----------------------------------------------------------------------------
(* The attempts of a task *)

(* The attempts before the present one have failed, the later ones have    *)
(* not begun, and the status says how the last one ended.                  *)
TaskInv(t) ==
    /\ \A n \in Times :
          /\ n < retry[t] => pc[Try[<<t, n>>]] = "failed"
          /\ n > retry[t] => pc[Try[<<t, n>>]] = "idle"
    /\ loop[t] \in {"idle", "start", "sleep"} => pc[Attempt(t)] = "idle"
    /\ loop[t] \in {"await", "returned"} => pc[Attempt(t)] # "idle"
    /\ task[t] = "none" <=> loop[t] = "idle"
    /\ task[t] = "InProgress" <=> loop[t] \in {"start", "await", "sleep"}
    /\ task[t] = "Completed" => pc[Attempt(t)] = "ok"
    /\ task[t] = "Failed" => retry[t] = MaxRetries /\ pc[Attempt(t)] = "failed"

ProvInv == ProvisioningTypeOK /\ \A t \in Orders : TaskInv(t)

LEMMA ProvInvInit == Init => ProvInv
<1> SUFFICES ASSUME Init PROVE ProvInv
  OBVIOUS
<1>1. ProvisioningTypeOK
  BY ProvisioningAssumption DEF Init, ProvisioningTypeOK
<1>2. \A r \in Runs : pc[r] = "idle"
  BY DEF Init, InitIssuance
<1>3. ASSUME NEW t \in Orders PROVE TaskInv(t)
  BY <1>2, TryRuns, ProvisioningAssumption DEF Init, TaskInv, Attempt, Times
<1> QED
  BY <1>1, <1>3 DEF ProvInv

LEMMA TaskStays ==
    ASSUME ProvInv, NEW t \in Orders,
           \A n \in Times : pc'[Try[<<t, n>>]] = pc[Try[<<t, n>>]],
           task'[t] = task[t], loop'[t] = loop[t], retry'[t] = retry[t]
    PROVE  TaskInv(t)'
<1>1. TaskInv(t) /\ retry[t] \in Times
  BY DEF ProvInv, ProvisioningTypeOK, Times
<1>2. Attempt(t)' = Attempt(t) /\ pc'[Attempt(t)] = pc[Attempt(t)]
  BY <1>1 DEF Attempt
<1>3. \A n \in Times : /\ n < retry'[t] => pc'[Try[<<t, n>>]] = "failed"
                       /\ n > retry'[t] => pc'[Try[<<t, n>>]] = "idle"
  BY <1>1 DEF TaskInv
<1>4. /\ loop'[t] \in {"idle", "start", "sleep"} => pc'[Attempt(t)] = "idle"
      /\ loop'[t] \in {"await", "returned"} => pc'[Attempt(t)] # "idle"
      /\ task'[t] = "none" <=> loop'[t] = "idle"
      /\ task'[t] = "InProgress" <=> loop'[t] \in {"start", "await", "sleep"}
      /\ task'[t] = "Completed" => pc'[Attempt(t)] = "ok"
      /\ task'[t] = "Failed" => retry'[t] = MaxRetries /\ pc'[Attempt(t)] = "failed"
  BY <1>1, <1>2 DEF TaskInv
<1> HIDE DEF Times
<1> QED
  BY <1>2, <1>3, <1>4 DEF TaskInv

(* The request that runs is one of the present attempt of its task.        *)
LEMMA TheOneThatRuns ==
    ASSUME ProvInv, NEW t \in Orders, NEW n \in Times, pc[Try[<<t, n>>]] \notin {"idle", "failed"}
    PROVE  n = retry[t]
<1>1. TaskInv(t) /\ retry[t] \in Times
  BY DEF ProvInv, ProvisioningTypeOK, Times
<1>2. ~(n < retry[t]) /\ ~(n > retry[t])
  BY <1>1 DEF TaskInv
<1>3. n \in Nat /\ retry[t] \in Nat
  BY <1>1, ProvisioningAssumption DEF Times
<1>4. \A a, b \in Nat : ~(a < b) /\ ~(a > b) => a = b
  OBVIOUS
<1> QED
  BY <1>2, <1>3, <1>4

LEMMA ClientMoves ==
    ASSUME TypeInv, NEW r \in Runs, Client(r)
    PROVE  pc[r] \notin Over \cup {"idle"} /\ pc'[r] # "idle"
<1>1. CASE Prepare(r)
  BY <1>1 DEF Prepare, Goto, TypeInv, TypeOK, Over
<1>2. CASE Moves(r)
  <2>1. ~Begin(r)
    <3>1. Client(r) => pc[r] # "idle"
      BY DEF Client, Refused, Register, NewOrder, GetAuthorization, Prepare, RespondToChallenge,
             PollReady, PollValid, Poll, FinalizeOrder, Download, Requesting
    <3> QED
      BY <3>1 DEF Begin
  <2>2. pc[r] # "idle"
    BY DEF Client, Refused, Register, NewOrder, GetAuthorization, Prepare, RespondToChallenge,
           PollReady, PollValid, Poll, FinalizeOrder, Download, Requesting
  <2>3. PICK label : pc' = [pc EXCEPT ![r] = label] /\ label # "idle"
    BY <1>2, <2>2, MovesTo DEF Over
  <2> QED
    BY <1>2, <2>2, <2>3, MovesEffect DEF TypeInv, TypeOK
<1> QED
  BY <1>1, <1>2 DEF Client, Moves

(* A step of the call of an attempt. *)
LEMMA ProvInvCall ==
    ASSUME TypeInv, ProvInv, NEW t \in Orders, NEW n \in Times, Client(Try[<<t, n>>]),
           UNCHANGED provVars
    PROVE  ProvInv'
<1> DEFINE r == Try[<<t, n>>]
<1>1. r \in Runs /\ pc[r] \notin Over \cup {"idle"} /\ pc'[r] # "idle"
  BY ClientMoves, TryRuns
<1>2. n = retry[t] /\ Attempt(t) = r
  BY <1>1, TheOneThatRuns DEF Attempt, Over
<1>3. UNCHANGED <<task, loop, retry, config, up, deaths>>
  BY DEF provVars
<1>4. \A q \in Runs : q # r => pc'[q] = pc[q]
  BY <1>1, OthersStay
<1>5. ProvisioningTypeOK'
  BY <1>3 DEF ProvInv, ProvisioningTypeOK
<1>6. ASSUME NEW s \in Orders, s # t PROVE TaskInv(s)'
  <2>1. \A m \in Times : Try[<<s, m>>] \in Runs /\ Try[<<s, m>>] # r
    BY <1>6, TryRuns
  <2>2. \A m \in Times : pc'[Try[<<s, m>>]] = pc[Try[<<s, m>>]]
    BY <1>4, <2>1
  <2> QED
    BY <1>3, <2>2, TaskStays
<1>7. TaskInv(t)'
  <2>1. ASSUME NEW m \in Times, m # n PROVE pc'[Try[<<t, m>>]] = pc[Try[<<t, m>>]]
    <3>1. Try[<<t, m>>] \in Runs /\ Try[<<t, m>>] # r
      BY <2>1, TryRuns
    <3> QED
      BY <1>4, <3>1
  <2>2. TaskInv(t)
    BY DEF ProvInv
  <2>3. Attempt(t)' = Attempt(t)
    BY <1>3 DEF Attempt
  <2> HIDE DEF r
  <2>4. \A m \in Times : /\ m < retry[t] => pc'[Try[<<t, m>>]] = "failed"
                         /\ m > retry[t] => pc'[Try[<<t, m>>]] = "idle"
    BY <1>2, <2>1, <2>2 DEF TaskInv, Times
  <2> QED
    BY <1>1, <1>2, <1>3, <2>2, <2>3, <2>4 DEF TaskInv, Over
<1> QED
  BY <1>5, <1>6, <1>7 DEF ProvInv

(* A step after which the runs are where they were. *)
LEMMA ProvInvIdle ==
    ASSUME TypeInv, ProvInv, UNCHANGED <<pc, task, loop, retry, config>>,
           up' \in BOOLEAN, deaths' \in 0..MaxDeaths
    PROVE  ProvInv'
<1>1. ProvisioningTypeOK'
  BY DEF ProvInv, ProvisioningTypeOK
<1>2. ASSUME NEW t \in Orders PROVE TaskInv(t)'
  BY TaskStays
<1> QED
  BY <1>1, <1>2 DEF ProvInv

(* A step of execute() that starts or gives up the present attempt.        *)
LEMMA ProvInvAttempt ==
    ASSUME TypeInv, ProvInv, NEW t \in Orders, NEW label,
           label # "idle", pc' = [pc EXCEPT ![Attempt(t)] = label],
           \/ loop[t] = "start" /\ loop' = [loop EXCEPT ![t] = "await"]
           \/ loop[t] = "await" /\ loop' = loop,
           UNCHANGED <<task, retry, processVars>>
    PROVE  ProvInv'
<1> DEFINE r == Attempt(t)
<1>0. TaskInv(t) /\ retry[t] \in Times /\ r = Try[<<t, retry[t]>>] /\ r \in Runs
      /\ DOMAIN pc = Runs /\ DOMAIN loop = Orders
  BY TryRuns DEF ProvInv, ProvisioningTypeOK, Times, Attempt, TypeInv, TypeOK
<1> HIDE DEF r
<1>1. pc'[r] = label /\ \A q \in Runs : q # r => pc'[q] = pc[q]
  BY <1>0 DEF r
<1>2. UNCHANGED <<config, up, deaths>> /\ loop'[t] = "await" /\ loop[t] \in {"start", "await"}
      /\ \A s \in Orders : s # t => loop'[s] = loop[s]
  BY <1>0 DEF processVars
<1>3. ProvisioningTypeOK'
  <2>1. loop' \in [Orders -> {"idle", "start", "await", "sleep", "returned", "dead"}]
    BY DEF ProvInv, ProvisioningTypeOK
  <2>2. \A s \in Orders : task'[s] = "gone" <=> loop'[s] = "dead"
    BY <1>2 DEF ProvInv, ProvisioningTypeOK
  <2> QED
    BY <1>2, <2>1, <2>2 DEF ProvInv, ProvisioningTypeOK
<1>4. ASSUME NEW s \in Orders, s # t PROVE TaskInv(s)'
  <2>1. \A m \in Times : Try[<<s, m>>] \in Runs /\ Try[<<s, m>>] # r
    BY <1>0, <1>4, TryRuns
  <2>2. \A m \in Times : pc'[Try[<<s, m>>]] = pc[Try[<<s, m>>]]
    BY <1>1, <2>1
  <2> QED
    BY <1>2, <1>4, <2>2, TaskStays
<1>5. TaskInv(t)'
  <2>1. ASSUME NEW m \in Times, m # retry[t] PROVE pc'[Try[<<t, m>>]] = pc[Try[<<t, m>>]]
    <3>1. Try[<<t, m>>] \in Runs /\ Try[<<t, m>>] # r
      BY <1>0, <2>1, TryRuns
    <3> QED
      BY <1>1, <3>1
  <2>2. \A m \in Times : /\ m < retry[t] => pc'[Try[<<t, m>>]] = "failed"
                         /\ m > retry[t] => pc'[Try[<<t, m>>]] = "idle"
    BY <1>0, <2>1 DEF TaskInv, Times
  <2>3. Attempt(t)' = r
    BY <1>0 DEF Attempt
  <2>4. task'[t] = "InProgress"
    BY <1>0, <1>2 DEF TaskInv
  <2> QED
    BY <1>1, <1>2, <2>2, <2>3, <2>4 DEF TaskInv
<1> QED
  BY <1>3, <1>4, <1>5 DEF ProvInv

(* A step of the provisioner alone. *)
LEMMA ProvInvTask ==
    ASSUME TypeInv, ProvInv, NEW t \in Orders, UNCHANGED <<pc, processVars>>,
           NEW status, NEW place, NEW count,
           task' = [task EXCEPT ![t] = status], loop' = [loop EXCEPT ![t] = place],
           retry' = [retry EXCEPT ![t] = count],
           \/ /\ loop[t] = "idle" /\ status = "InProgress" /\ place = "start" /\ count = retry[t]
           \/ /\ loop[t] = "await" /\ pc[Attempt(t)] = "ok"
              /\ status = "Completed" /\ place = "returned" /\ count = retry[t]
           \/ /\ loop[t] = "await" /\ pc[Attempt(t)] = "failed" /\ retry[t] < MaxRetries
              /\ status = task[t] /\ place = "sleep" /\ count = retry[t] + 1
           \/ /\ loop[t] = "await" /\ pc[Attempt(t)] = "failed" /\ retry[t] = MaxRetries
              /\ status = "Failed" /\ place = "returned" /\ count = retry[t]
           \/ /\ loop[t] = "sleep" /\ status = task[t] /\ place = "start" /\ count = retry[t]
    PROVE  ProvInv'
<1>0. /\ TaskInv(t) /\ retry[t] \in Times /\ MaxRetries \in Nat /\ Times = 0..MaxRetries
      /\ DOMAIN task = Orders /\ DOMAIN loop = Orders /\ DOMAIN retry = Orders
  BY ProvisioningAssumption DEF ProvInv, ProvisioningTypeOK, Times
<1>1. /\ task'[t] = status /\ loop'[t] = place /\ retry'[t] = count
      /\ \A s \in Orders : s # t => task'[s] = task[s] /\ loop'[s] = loop[s] /\ retry'[s] = retry[s]
  BY <1>0
<1>2. count \in Times
  BY <1>0
<1>3. ASSUME NEW s \in Orders, s # t PROVE TaskInv(s)'
  BY <1>1, <1>3, TaskStays
<1>4. ProvisioningTypeOK'
  <2>1. task' \in [Orders -> {"none", "gone", "InProgress"} \cup Finished]
    BY <1>0 DEF ProvInv, ProvisioningTypeOK, Finished
  <2>2. loop' \in [Orders -> {"idle", "start", "await", "sleep", "returned", "dead"}]
    BY DEF ProvInv, ProvisioningTypeOK
  <2>3. retry' \in [Orders -> 0..MaxRetries]
    BY <1>2 DEF ProvInv, ProvisioningTypeOK, Times
  <2>4. \A s \in Orders : task'[s] = "gone" <=> loop'[s] = "dead"
    <3>1. \A s \in Orders : task[s] = "gone" <=> loop[s] = "dead"
      BY DEF ProvInv, ProvisioningTypeOK
    <3>2. task'[t] # "gone" /\ loop'[t] # "dead"
      BY <1>1, <3>1
    <3> QED
      BY <1>1, <3>1, <3>2
  <2> QED
    BY <2>1, <2>2, <2>3, <2>4 DEF ProvInv, ProvisioningTypeOK, processVars
<1>5. TaskInv(t)'
  <2>1. CASE count = retry[t]
    <3>1. Attempt(t)' = Attempt(t) /\ pc' = pc
      BY <1>1, <2>1 DEF Attempt
    <3>2. \A n \in Times : /\ n < retry'[t] => pc'[Try[<<t, n>>]] = "failed"
                           /\ n > retry'[t] => pc'[Try[<<t, n>>]] = "idle"
      BY <1>0, <1>1, <2>1 DEF TaskInv
    <3>3. /\ place \in {"start", "sleep"} => pc[Attempt(t)] = "idle"
          /\ place = "returned" => pc[Attempt(t)] # "idle"
          /\ place \in {"start", "returned"}
      BY <1>0, <2>1 DEF TaskInv
    <3>4. /\ place = "start" => status = "InProgress"
          /\ place = "returned" => \/ status = "Completed" /\ pc[Attempt(t)] = "ok"
                                   \/ /\ status = "Failed" /\ pc[Attempt(t)] = "failed"
                                      /\ retry[t] = MaxRetries
      BY <1>0, <2>1 DEF TaskInv
    <3> HIDE DEF Times
    <3> QED
      BY <1>1, <2>1, <3>1, <3>2, <3>3, <3>4 DEF TaskInv
  <2>2. CASE count = retry[t] + 1 /\ loop[t] = "await" /\ pc[Attempt(t)] = "failed"
             /\ retry[t] < MaxRetries /\ status = task[t] /\ place = "sleep"
    <3>1. Attempt(t)' = Try[<<t, retry[t] + 1>>] /\ Attempt(t) = Try[<<t, retry[t]>>] /\ pc' = pc
      BY <1>1, <2>2 DEF Attempt
    <3>2. ASSUME NEW n \in Times
          PROVE  /\ n < retry'[t] => pc'[Try[<<t, n>>]] = "failed"
                 /\ n > retry'[t] => pc'[Try[<<t, n>>]] = "idle"
      <4>1. n < retry[t] + 1 => n < retry[t] \/ n = retry[t]
        BY <1>0
      <4>2. n > retry[t] + 1 => n > retry[t]
        BY <1>0
      <4> QED
        BY <1>0, <1>1, <2>2, <3>1, <4>1, <4>2 DEF TaskInv
    <3>3. pc'[Attempt(t)'] = "idle"
      <4>1. retry[t] + 1 \in Times /\ retry[t] + 1 > retry[t]
        BY <1>0, <1>2, <2>2
      <4> QED
        BY <1>0, <3>1, <4>1 DEF TaskInv
    <3>4. status = "InProgress"
      BY <1>0, <2>2 DEF TaskInv
    <3> HIDE DEF Times
    <3> QED
      BY <1>1, <2>2, <3>2, <3>3, <3>4 DEF TaskInv
  <2> QED
    BY <1>0, <2>1, <2>2
<1> QED
  BY <1>3, <1>4, <1>5 DEF ProvInv

LEMMA ProvInvDies ==
    ASSUME TypeInv, ProvInv, ServerDies
    PROVE  ProvInv'
<1>1. /\ \A r \in Runs : pc'[r] = IF pc[r] \in Over \cup {"idle"} THEN pc[r] ELSE "failed"
      /\ task' = [t \in Orders |-> IF task[t] = "none" THEN "none" ELSE "gone"]
      /\ loop' = [t \in Orders |-> IF loop[t] = "idle" THEN "idle" ELSE "dead"]
      /\ retry' = retry /\ config' = config /\ up' = FALSE
      /\ deaths < MaxDeaths /\ deaths' = deaths + 1
  BY DEF ServerDies
<1>2. \A t \in Orders : TaskInv(t) /\ retry[t] \in Times
  BY DEF ProvInv, ProvisioningTypeOK, Times
<1>3. ProvisioningTypeOK'
  <2>1. deaths' \in 0..MaxDeaths
    BY <1>1, ProvisioningAssumption DEF ProvInv, ProvisioningTypeOK
  <2>2. \A t \in Orders : task'[t] = "gone" <=> loop'[t] = "dead"
    BY <1>1, <1>2 DEF TaskInv
  <2> QED
    BY <1>1, <2>1, <2>2 DEF ProvInv, ProvisioningTypeOK
<1>4. ASSUME NEW t \in Orders PROVE TaskInv(t)'
  <2>1. /\ task'[t] = IF task[t] = "none" THEN "none" ELSE "gone"
        /\ loop'[t] = IF loop[t] = "idle" THEN "idle" ELSE "dead"
        /\ TaskInv(t) /\ Attempt(t)' = Attempt(t) /\ Attempt(t) \in Runs
    BY <1>1, <1>2, TryRuns DEF Attempt
  <2>2. ASSUME NEW n \in Times
        PROVE  /\ n < retry'[t] => pc'[Try[<<t, n>>]] = "failed"
               /\ n > retry'[t] => pc'[Try[<<t, n>>]] = "idle"
    <3>1. Try[<<t, n>>] \in Runs
      BY TryRuns
    <3> QED
      BY <1>1, <2>1, <3>1 DEF TaskInv, Over
  <2>3. loop'[t] = "idle" => pc'[Attempt(t)] = "idle"
    BY <1>1, <2>1 DEF TaskInv
  <2> QED
    BY <2>1, <2>2, <2>3 DEF TaskInv
<1> QED
  BY <1>3, <1>4 DEF ProvInv

LEMMA ProvInvStep ==
    ASSUME TypeInv, ProvInv, [ApiNext]_serverState
    PROVE  ProvInv'
<1>0. up \in BOOLEAN /\ deaths \in 0..MaxDeaths
  BY DEF ProvInv, ProvisioningTypeOK
<1>1. ASSUME NEW t \in Orders, Execute(t)
      PROVE  ProvInv'
  <2>0. /\ task = [task EXCEPT ![t] = task[t]] /\ retry = [retry EXCEPT ![t] = retry[t]]
        /\ retry[t] \in 0..MaxRetries
    BY DEF ProvInv, ProvisioningTypeOK
  <2>1. CASE Start(t)
    BY <2>1, ProvInvAttempt DEF Start, Begin, Goto
  <2>2. CASE Misconfigured(t)
    BY <2>2, ProvInvAttempt DEF Misconfigured, Goto, provVars, processVars
  <2>3. CASE Provision(t)
    BY <2>3, ProvInvCall DEF Provision, Times
  <2>4. CASE AttemptOk(t)
    <3>1. retry' = [retry EXCEPT ![t] = retry[t]] /\ UNCHANGED <<pc, processVars>>
      BY <2>0, <2>4 DEF AttemptOk, issuanceVars
    <3> QED
      BY <2>4, <3>1, ProvInvTask DEF AttemptOk
  <2>5. CASE AttemptFailed(t) /\ retry[t] < MaxRetries
    <3>1. /\ task' = [task EXCEPT ![t] = task[t]] /\ UNCHANGED <<pc, processVars>>
          /\ retry' = [retry EXCEPT ![t] = retry[t] + 1]
          /\ loop[t] = "await" /\ pc[Attempt(t)] = "failed" /\ loop' = [loop EXCEPT ![t] = "sleep"]
      BY <2>0, <2>5 DEF AttemptFailed, issuanceVars
    <3> QED
      BY <2>5, <3>1, ProvInvTask
  <2>6. CASE AttemptFailed(t) /\ ~(retry[t] < MaxRetries)
    <3>1. /\ task' = [task EXCEPT ![t] = "Failed"] /\ UNCHANGED <<pc, processVars>>
          /\ retry' = [retry EXCEPT ![t] = retry[t]]
          /\ loop[t] = "await" /\ pc[Attempt(t)] = "failed"
          /\ loop' = [loop EXCEPT ![t] = "returned"]
      BY <2>0, <2>6 DEF AttemptFailed, issuanceVars
    <3>2. retry[t] = MaxRetries
      BY <2>0, <2>6, LastTry DEF Times
    <3> QED
      BY <3>1, <3>2, ProvInvTask
  <2>7. CASE Wake(t)
    <3>1. /\ task' = [task EXCEPT ![t] = task[t]] /\ UNCHANGED <<pc, processVars>>
          /\ retry' = [retry EXCEPT ![t] = retry[t]]
          /\ loop[t] = "sleep" /\ loop' = [loop EXCEPT ![t] = "start"]
      BY <2>0, <2>7 DEF Wake, issuanceVars
    <3> QED
      BY <3>1, ProvInvTask
  <2> QED
    BY <1>1, <2>1, <2>2, <2>3, <2>4, <2>5, <2>6, <2>7 DEF Execute
<1>2. ASSUME NEW t \in Orders, CreateOrder(t)
      PROVE  ProvInv'
  <2>1. loop[t] = "idle"
    BY <1>2 DEF CreateOrder, ProvInv, TaskInv
  <2>2. retry' = [retry EXCEPT ![t] = retry[t]] /\ UNCHANGED <<pc, processVars>>
    BY <1>2 DEF CreateOrder, issuanceVars, ProvInv, ProvisioningTypeOK
  <2> QED
    BY <1>2, <2>1, <2>2, ProvInvTask DEF CreateOrder
<1>3. UNCHANGED <<pc, provVars>> => ProvInv'
  BY <1>0, ProvInvIdle DEF provVars
<1>4. UNCHANGED allVars => UNCHANGED <<pc, provVars>>
  BY DEF allVars, provVars
<1>5. ASSUME NEW r \in Runs, CA(r), UNCHANGED provVars
      PROVE  ProvInv'
  BY <1>3, <1>5, CAEffect DEF clientVars
<1>6. CASE ServerStarts
  BY <1>0, <1>6, ProvInvIdle DEF ServerStarts, issuanceVars
<1>7. ASSUME NEW n \in Renewals, PostRenew(n) \/ Job(n)
      PROVE  ProvInv'
  BY <1>3, <1>4, <1>7 DEF PostRenew, Job, JobStarts, JobEnds
<1>8. ASSUME NEW x \in Requests, GetOrder(x)
      PROVE  ProvInv'
  BY <1>3, <1>4, <1>8 DEF GetOrder
<1>9. ASSUME NEW t \in Orders, ListOrders(t)
      PROVE  ProvInv'
  BY <1>3, <1>4, <1>9 DEF ListOrders
<1>10. CASE UNCHANGED serverState
  BY <1>3, <1>4, <1>10 DEF serverState
<1> QED
  BY <1>1, <1>2, <1>5, <1>6, <1>7, <1>8, <1>9, <1>10, ProvInvDies
     DEF ApiNext, Background, PostOrder, Dies

-----------------------------------------------------------------------------
(* What the API reports *)

ServerInv == RunInv /\ ProvInv

LEMMA ServerInvInit == ApiInit => ServerInv
BY TypeInvInit, OrderInvInit, ProvInvInit DEF ApiInit, Init, ServerInv, RunInv

LEMMA ServerInvStep == ServerInv /\ [ApiNext]_serverState => ServerInv'
BY RunInvStep, ProvInvStep DEF ServerInv, RunInv, ProvInv

(* Completed is reported only when the CA has issued the certificate of    *)
(* the last attempt, Failed only when each of the MaxRetries + 1 attempts  *)
(* was made and failed.                                                    *)
THEOREM StatusTrue == ApiSpec => []StatusIsTrue
<1>1. ServerInv => StatusIsTrue
  <2> SUFFICES ASSUME ServerInv, NEW t \in Orders
               PROVE  /\ task[t] = "Completed" => order[Attempt(t)] = "valid"
                      /\ task[t] = "Failed" => \A n \in Times : pc[Try[<<t, n>>]] = "failed"
    BY DEF StatusIsTrue, Times
  <2>1. TaskInv(t) /\ Attempt(t) \in Runs /\ OrderInv
    BY TryRuns DEF ServerInv, RunInv, ProvInv, ProvisioningTypeOK, Times, Attempt
  <2>2. ASSUME task[t] = "Failed", NEW n \in Times PROVE pc[Try[<<t, n>>]] = "failed"
    <3>1. n < MaxRetries \/ n = MaxRetries
      BY LastTry
    <3> QED
      BY <2>1, <2>2, <3>1 DEF TaskInv, Attempt
  <2> QED
    BY <2>1, <2>2 DEF TaskInv, OrderInv
<1> QED
  BY ServerInvInit, ServerInvStep, <1>1, PTL DEF ApiSpec

(* Only an attempt that runs can order something. *)
LEMMA OrdersAreOfAttempts ==
    ASSUME ServerInv, ApiNext, NEW t \in Orders, NEW n \in Times,
           order[Try[<<t, n>>]] = "none", order'[Try[<<t, n>>]] # "none"
    PROVE  loop[t] \notin {"idle", "dead"} /\ pc[Try[<<t, n>>]] = "order"
<1> DEFINE r == Try[<<t, n>>]
<1>0. r \in Runs /\ order' # order /\ TypeInv
  BY TryRuns DEF ServerInv, RunInv
<1> HIDE DEF r
<1>1. ASSUME NEW q \in Runs, CA(q) PROVE q # r
  <2>1. CA(r) => FALSE
    BY <1>0, CAEffect DEF r
  <2> QED
    BY <1>1, <2>1
<1>2. \A q \in Runs : Begin(q) \/ Client(q) \/ CA(q) => q = r
  BY <1>0, OthersStay DEF r
<1>3. ~\E q \in Runs : CA(q)
  BY <1>1, <1>2
<1>4. ASSUME NEW s \in Orders, Execute(s)
      PROVE  Provision(s)
  <2>1. ~Start(s) /\ ~Misconfigured(s) /\ ~AttemptOk(s) /\ ~AttemptFailed(s) /\ ~Wake(s)
    BY <1>0 DEF Start, Begin, Misconfigured, AttemptOk, AttemptFailed, Wake, issuanceVars, serverVars
  <2> QED
    BY <1>4, <2>1 DEF Execute
<1>5. PICK s \in Orders : Provision(s)
  <2>1. ~(UNCHANGED allVars) /\ ~(UNCHANGED issuanceVars)
    BY <1>0 DEF allVars, issuanceVars
  <2>2. ~ServerDies
    BY <1>0 DEF ServerDies, serverVars
  <2> QED
    BY <1>3, <1>4, <2>1, <2>2 DEF ApiNext, Background, PostOrder, ListOrders, CreateOrder,
       PostRenew, Job, JobStarts, JobEnds, GetOrder, Dies, ServerStarts
<1>6. PICK m \in Times : Client(Try[<<s, m>>])
  BY <1>5 DEF Provision, Times
<1>7. s = t /\ m = n
  BY <1>2, <1>6, TryRuns DEF r
<1>8. Client(r) /\ loop[t] \notin {"idle", "dead"}
  BY <1>5, <1>6, <1>7 DEF Provision, r
<1>9. NewOrder(r)
  <2>1. ~FinalizeOrder(r)
    <3>1. ASSUME FinalizeOrder(r) PROVE order[r] = "ready"
      BY <1>0, <3>1, FinalizeEffect DEF ServerInv, RunInv, OrderInv
    <3> QED
      BY <3>1 DEF r
  <2>2. ~RespondToChallenge(r)
    BY <1>0 DEF RespondToChallenge
  <2> QED
    BY <1>0, <1>8, <2>1, <2>2, OrderStays DEF Client, serverVars
<1> QED
  BY <1>8, <1>9 DEF NewOrder, r

(* A certificate is ordered once: when an attempt has succeeded, or the    *)
(* task was reported, or its process has ended, no further order is        *)
(* created for it; and its reported status stays for as long as the        *)
(* process lives.                                                          *)
THEOREM OrderedOnce == ApiSpec => EndsOnce
<1> DEFINE Once(t) ==
             /\ task[t] \in Finished => task'[t] \in {task[t], "gone"}
             /\ task[t] \in Finished \cup {"gone"} \/ (\E n \in 0..MaxRetries : pc[Try[<<t, n>>]] = "ok") =>
                   \A n \in 0..MaxRetries :
                      order[Try[<<t, n>>]] = "none" => order'[Try[<<t, n>>]] = "none"
<1>1. ServerInv /\ [ApiNext]_serverState => [\A t \in Orders : Once(t)]_allVars
  <2> SUFFICES ASSUME ServerInv, ApiNext, NEW t \in Orders PROVE Once(t)
    BY DEF serverState
  <2>0. TaskInv(t) /\ retry[t] \in Times /\ ProvInv /\ task \in [Orders -> {"none", "gone", "InProgress"} \cup Finished]
    BY DEF ServerInv, ProvInv, ProvisioningTypeOK, Times
  <2>1. ASSUME task[t] \in Finished PROVE task'[t] \in {task[t], "gone"}
    <3>1. loop[t] \notin {"idle", "start", "await", "sleep"}
      BY <2>0, <2>1 DEF TaskInv, Finished
    <3>2. ASSUME NEW s \in Orders, s = t
          PROVE  ~AttemptOk(s) /\ ~AttemptFailed(s) /\ ~CreateOrder(s)
      BY <2>0, <2>1, <3>1, <3>2 DEF AttemptOk, AttemptFailed, CreateOrder, Finished
    <3>3. ASSUME NEW s \in Orders, AttemptOk(s) \/ AttemptFailed(s) \/ CreateOrder(s)
          PROVE  task'[t] = task[t]
      <4>1. s # t
        BY <3>2, <3>3
      <4> QED
        BY <2>0, <3>3, <4>1 DEF AttemptOk, AttemptFailed, CreateOrder
    <3>4. ASSUME NEW s \in Orders, Execute(s) PROVE task'[t] = task[t]
      BY <3>3, <3>4 DEF Execute, Start, Misconfigured, Provision, Wake, provVars
    <3>5. ServerDies => task'[t] = "gone"
      BY <2>0, <2>1 DEF ServerDies, Finished
    <3> QED
      BY <3>3, <3>4, <3>5 DEF ApiNext, Background, PostOrder, ListOrders, PostRenew, Job, JobStarts,
         JobEnds, GetOrder, Dies, ServerStarts, allVars, provVars
  <2>2. ASSUME NEW n \in Times, pc[Try[<<t, n>>]] = "order", loop[t] \notin {"idle", "dead"}
        PROVE  /\ task[t] \notin Finished \cup {"gone"}
               /\ ~\E m \in Times : pc[Try[<<t, m>>]] = "ok"
    <3>1. n = retry[t] /\ Attempt(t) = Try[<<t, n>>]
      BY <2>0, <2>2, TheOneThatRuns DEF Attempt
    <3>2. task[t] \notin Finished
      BY <2>0, <2>2, <3>1 DEF TaskInv, Finished
    <3>3. task[t] # "gone"
      BY <2>0, <2>2 DEF ProvInv, ProvisioningTypeOK
    <3>4. ASSUME NEW m \in Times, pc[Try[<<t, m>>]] = "ok" PROVE FALSE
      <4>1. m = retry[t]
        BY <2>0, <3>4, TheOneThatRuns
      <4> QED
        BY <2>2, <3>1, <3>4, <4>1
    <3> QED
      BY <3>2, <3>3, <3>4
  <2>3. ASSUME NEW n \in Times, order[Try[<<t, n>>]] = "none", order'[Try[<<t, n>>]] # "none"
        PROVE  /\ task[t] \notin Finished \cup {"gone"}
               /\ ~\E m \in Times : pc[Try[<<t, m>>]] = "ok"
    BY <2>2, <2>3, OrdersAreOfAttempts
  <2> QED
    BY <2>1, <2>3 DEF Times
<1> QED
  BY ServerInvInit, ServerInvStep, <1>1, PTL DEF ApiSpec, EndsOnce

-----------------------------------------------------------------------------
(* What the clients see *)

(* A client that has an id has it of something that was spawned, and is    *)
(* told a status only when the job of a renewal has recorded it.           *)
RenewalInv(n) ==
    /\ job[n] = "none" <=> seen[n] \in Unsent \cup {"refused"}
    /\ seen[n] \in Statuses => job[n] \notin {"none", "spawned"}
    /\ renewal[n] \in {"none", "InProgress", "Completed", "gone"}
    /\ renewal[n] = "InProgress" <=> job[n] = "sleeping"
    /\ renewal[n] = "Completed" <=> job[n] = "ended"
    /\ renewal[n] = "gone" <=> job[n] = "dead"

ClientInv ==
    /\ configured \in BOOLEAN
    /\ job \in [Renewals -> {"none", "spawned", "sleeping", "ended", "dead"}]
    /\ renewal \in [Renewals -> {"none", "gone"} \cup Statuses]
    /\ seen \in [Requests -> Unsent \cup Statuses \cup
                    {"left", "unanswered", "refused", "accepted", "NotFound"}]
    /\ \A n \in Renewals : RenewalInv(n)
    /\ \A t \in Orders : seen[t] \in Unsent <=> task[t] = "none"

LEMMA RequestKinds ==
    /\ Orders \subseteq Requests /\ Renewals \subseteq Requests
    /\ \A n \in Renewals : n \notin Orders
BY ApiAssumption DEF Requests

LEMMA ClientInvInit == ApiInit => ClientInv
<1> SUFFICES ASSUME ApiInit PROVE ClientInv
  OBVIOUS
<1>1. seen \in [Requests -> Unsent] /\ \A t \in Orders : task[t] = "none"
  BY ApiAssumption DEF ApiInit, Init, Requests
<1>2. ASSUME NEW n \in Renewals PROVE RenewalInv(n)
  BY <1>1, RequestKinds DEF ApiInit, RenewalInv, Unsent, Statuses, Finished
<1>3. seen \in [Requests -> Unsent \cup Statuses \cup
                    {"left", "unanswered", "refused", "accepted", "NotFound"}]
  BY <1>1
<1> QED
  BY <1>1, <1>2, <1>3, RequestKinds DEF ApiInit, ClientInv

(* What a step tells a client. *)
LEMMA ClientInvSees ==
    ASSUME ClientInv, NEW x \in Requests, NEW what, Sees(x, what),
           \/ seen[x] \in Unsent /\ what \in {"left", "accepted", "unanswered", "refused"}
           \/ seen[x] \notin Unsent \cup {"refused"} /\ what = Told(x),
           \A t \in Orders : task'[t] = IF t = x /\ seen[x] \in Unsent THEN "InProgress" ELSE task[t],
           x \in Orders \/ seen[x] \notin Unsent => job' = job,
           x \in Renewals /\ seen[x] \in Unsent =>
              job' = IF what = "refused" THEN job ELSE [job EXCEPT ![x] = "spawned"],
           UNCHANGED <<configured, renewal>>
    PROVE  ClientInv'
<1>0. /\ DOMAIN seen = Requests /\ DOMAIN job = Renewals
      /\ seen'[x] = what /\ \A y \in Requests : y # x => seen'[y] = seen[y]
  BY DEF ClientInv, Sees
<1>1. Told(x) \in Statuses \cup {"NotFound"}
  BY DEF Told
<1>2. /\ what \in Statuses \cup {"left", "unanswered", "refused", "accepted", "NotFound"}
      /\ what \notin Unsent
  BY <1>1 DEF Unsent, Statuses, Finished
<1>3. seen' \in [Requests -> Unsent \cup Statuses \cup
                    {"left", "unanswered", "refused", "accepted", "NotFound"}]
  BY <1>2 DEF ClientInv, Sees
<1>4. x \in Orders \/ x \in Renewals
  BY DEF Requests
<1>5. job' \in [Renewals -> {"none", "spawned", "sleeping", "ended", "dead"}]
  BY <1>4 DEF ClientInv
<1>6. \A t \in Orders : seen'[t] \in Unsent <=> task'[t] = "none"
  BY <1>0, <1>2, RequestKinds DEF ClientInv
<1>7. ASSUME NEW n \in Renewals, n # x PROVE RenewalInv(n)'
  <2>1. job'[n] = job[n] /\ seen'[n] = seen[n] /\ renewal'[n] = renewal[n]
    BY <1>0, <1>4, <1>7, RequestKinds
  <2> QED
    BY <2>1 DEF ClientInv, RenewalInv
<1>8. ASSUME x \in Renewals PROVE RenewalInv(x)'
  <2>0. RenewalInv(x) /\ x \notin Orders
    BY <1>8, RequestKinds DEF ClientInv
  <2>1. CASE seen[x] \in Unsent
    <3>1. job[x] = "none" /\ renewal[x] = "none" /\ what \in {"left", "accepted", "unanswered", "refused"}
      BY <2>0, <2>1 DEF RenewalInv
    <3>2. job'[x] = IF what = "refused" THEN "none" ELSE "spawned"
      BY <1>0, <1>8, <2>1, <3>1
    <3>3. renewal'[x] = "none" /\ seen'[x] = what
      BY <1>0, <3>1
    <3> QED
      BY <3>1, <3>2, <3>3 DEF RenewalInv, Unsent, Statuses, Finished
  <2>2. CASE seen[x] \notin Unsent
    <3>1. what = Told(x) /\ job'[x] = job[x] /\ seen'[x] = what /\ renewal'[x] = renewal[x]
          /\ seen[x] \notin Unsent \cup {"refused"}
      BY <1>0, <2>2
    <3>2. Told(x) \in Statuses => renewal[x] \in Statuses
      BY <2>0 DEF Told, StatusOf, Statuses, Finished
    <3>3. renewal[x] \in Statuses => job[x] \notin {"none", "spawned"}
      BY <2>0 DEF RenewalInv, Statuses, Finished
    <3>4. what \notin Unsent \cup {"refused"}
      BY <1>1, <3>1 DEF Unsent, Statuses, Finished
    <3> QED
      BY <2>0, <3>1, <3>2, <3>3, <3>4 DEF RenewalInv
  <2> QED
    BY <2>1, <2>2
<1> QED
  BY <1>3, <1>5, <1>6, <1>7, <1>8 DEF ClientInv

(* A step that tells the clients nothing, and spawns nothing. *)
LEMMA ClientInvQuiet ==
    ASSUME ClientInv, UNCHANGED apiVars, \A t \in Orders : task'[t] = "none" <=> task[t] = "none"
    PROVE  ClientInv'
<1>1. \A n \in Renewals : RenewalInv(n)'
  BY DEF ClientInv, RenewalInv, apiVars
<1> QED
  BY <1>1 DEF ClientInv, apiVars

(* A step of the spawned renewals. *)
LEMMA ClientInvJobs ==
    ASSUME ClientInv, UNCHANGED <<configured, seen>>,
           \A t \in Orders : task'[t] = "none" <=> task[t] = "none",
           job' \in [Renewals -> {"none", "spawned", "sleeping", "ended", "dead"}],
           renewal' \in [Renewals -> {"none", "gone"} \cup Statuses],
           \A n \in Renewals :
              \/ job'[n] = job[n] /\ renewal'[n] = renewal[n]
              \/ job[n] = "spawned" /\ job'[n] = "sleeping" /\ renewal'[n] = "InProgress"
              \/ job[n] = "sleeping" /\ job'[n] = "ended" /\ renewal'[n] = "Completed"
              \/ job[n] # "none" /\ job'[n] = "dead" /\ renewal'[n] = "gone"
    PROVE  ClientInv'
<1>1. ASSUME NEW n \in Renewals PROVE RenewalInv(n)'
  <2>1. RenewalInv(n) /\ seen'[n] = seen[n]
    BY DEF ClientInv
  <2>2. CASE job'[n] = job[n] /\ renewal'[n] = renewal[n]
    BY <2>1, <2>2 DEF RenewalInv
  <2>3. CASE job[n] = "spawned" /\ job'[n] = "sleeping" /\ renewal'[n] = "InProgress"
    BY <2>1, <2>3 DEF RenewalInv
  <2>4. CASE job[n] = "sleeping" /\ job'[n] = "ended" /\ renewal'[n] = "Completed"
    BY <2>1, <2>4 DEF RenewalInv
  <2>5. CASE job[n] # "none" /\ job'[n] = "dead" /\ renewal'[n] = "gone"
    BY <2>1, <2>5 DEF RenewalInv
  <2> QED
    BY <2>2, <2>3, <2>4, <2>5
<1> QED
  BY <1>1 DEF ClientInv

LEMMA ClientInvStep ==
    ASSUME ServerInv, ClientInv, [ApiNext]_serverState
    PROVE  ClientInv'
<1>0. /\ task \in [Orders -> {"none", "gone", "InProgress"} \cup Finished]
      /\ job \in [Renewals -> {"none", "spawned", "sleeping", "ended", "dead"}]
      /\ renewal \in [Renewals -> {"none", "gone"} \cup Statuses]
      /\ \A n \in Renewals : RenewalInv(n)
  BY DEF ServerInv, ProvInv, ProvisioningTypeOK, ClientInv
<1>1. ASSUME NEW t \in Orders, PostOrder(t)
      PROVE  ClientInv'
  <2>1. PICK what \in {"left", "accepted", "unanswered"} : Sees(t, what)
    BY <1>1 DEF PostOrder, Answered202
  <2>2. seen[t] \in Unsent /\ t \notin Renewals /\ UNCHANGED <<configured, job, renewal>>
    BY <1>1, RequestKinds DEF PostOrder, Unsent
  <2>3. \A s \in Orders : task'[s] = IF s = t /\ seen[t] \in Unsent THEN "InProgress" ELSE task[s]
    BY <1>0, <1>1, <2>2 DEF PostOrder, CreateOrder
  <2> QED
    BY <2>1, <2>2, <2>3, RequestKinds, ClientInvSees
<1>2. ASSUME NEW n \in Renewals, PostRenew(n)
      PROVE  ClientInv'
  <2>1. seen[n] \in Unsent /\ n \notin Orders /\ UNCHANGED <<configured, renewal, task>>
    BY <1>2, RequestKinds DEF PostRenew, Unsent, allVars
  <2>2. PICK what \in {"left", "accepted", "unanswered", "refused"} :
           Sees(n, what) /\ job' = IF what = "refused" THEN job ELSE [job EXCEPT ![n] = "spawned"]
    BY <1>2 DEF PostRenew, Answered202
  <2> QED
    BY <2>1, <2>2, RequestKinds, ClientInvSees
<1>3. ASSUME NEW x \in Requests, GetOrder(x) \/ (x \in Orders /\ ListOrders(x))
      PROVE  ClientInv'
  <2>1. /\ seen[x] \notin Unsent \cup {"refused"} /\ Sees(x, Told(x))
        /\ UNCHANGED <<configured, job, renewal, task>>
    BY <1>3 DEF GetOrder, ListOrders, Unsent, Statuses, Finished, allVars
  <2> QED
    BY <2>1, ClientInvSees
<1>4. ASSUME NEW n \in Renewals, Job(n)
      PROVE  ClientInv'
  <2>1. UNCHANGED <<configured, seen, task>>
    BY <1>4 DEF Job, JobStarts, JobEnds, allVars
  <2>2. CASE JobStarts(n)
    BY <1>0, <2>1, <2>2, ClientInvJobs DEF JobStarts, Statuses
  <2>3. CASE JobEnds(n)
    BY <1>0, <2>1, <2>3, ClientInvJobs DEF JobEnds, Statuses, Finished
  <2> QED
    BY <1>4, <2>2, <2>3 DEF Job
<1>5. CASE Dies
  <2>1. /\ UNCHANGED <<configured, seen>>
        /\ job' = [n \in Renewals |-> IF job[n] = "none" THEN "none" ELSE "dead"]
        /\ renewal' = [n \in Renewals |-> IF job[n] = "none" THEN "none" ELSE "gone"]
        /\ \A t \in Orders : task'[t] = IF task[t] = "none" THEN "none" ELSE "gone"
    BY <1>5 DEF Dies, ServerDies
  <2>2. \A n \in Renewals : job[n] = "none" => renewal[n] = "none"
    BY <1>0 DEF RenewalInv
  <2>3. \A n \in Renewals : \/ job'[n] = job[n] /\ renewal'[n] = renewal[n]
                            \/ job[n] # "none" /\ job'[n] = "dead" /\ renewal'[n] = "gone"
    BY <2>1, <2>2
  <2>4. /\ job' \in [Renewals -> {"none", "spawned", "sleeping", "ended", "dead"}]
        /\ renewal' \in [Renewals -> {"none", "gone"} \cup Statuses]
    BY <2>1
  <2> QED
    BY <2>1, <2>3, <2>4, ClientInvJobs
<1>6. ASSUME NEW t \in Orders, Background(t)
      PROVE  ClientInv'
  <2>1. \A s \in Orders : task'[s] = "none" <=> task[s] = "none"
    <3>1. CASE task' = task
      BY <3>1
    <3>2. CASE AttemptOk(t) \/ AttemptFailed(t)
      <4>1. loop[t] = "await" /\ \A s \in Orders : s # t => task'[s] = task[s]
        BY <1>0, <3>2 DEF AttemptOk, AttemptFailed
      <4>2. task[t] # "none" /\ task'[t] # "none"
        BY <1>0, <3>2, <4>1 DEF ServerInv, ProvInv, TaskInv, AttemptOk, AttemptFailed
      <4> QED
        BY <4>1, <4>2
    <3> QED
      BY <1>6, <3>1, <3>2 DEF Background, Execute, Start, Misconfigured, Provision, Wake, provVars
  <2> QED
    BY <1>6, <2>1, ClientInvQuiet DEF Background
<1>7. CASE (\E r \in Runs : CA(r) /\ UNCHANGED <<provVars, apiVars>>)
           \/ (ServerStarts /\ UNCHANGED apiVars) \/ UNCHANGED serverState
  <2>1. task' = task /\ UNCHANGED apiVars
    BY <1>7 DEF provVars, ServerStarts, serverState, allVars
  <2> QED
    BY <2>1, ClientInvQuiet
<1> QED
  BY <1>1, <1>2, <1>3, <1>4, <1>5, <1>6, <1>7, RequestKinds DEF ApiNext

(* The state of the server is well formed. *)
THEOREM ApiTypeCorrect == ApiSpec => [](ApiTypeOK /\ TypeOK)
<1>1. ServerInv /\ ClientInv => ApiTypeOK /\ TypeOK
  BY DEF ServerInv, RunInv, TypeInv, ProvInv, ClientInv, RenewalInv, ApiTypeOK
<1>2. ServerInv /\ ClientInv /\ [ApiNext]_serverState => ClientInv'
  BY ClientInvStep
<1> QED
  BY ServerInvInit, ServerInvStep, ClientInvInit, <1>1, <1>2, PTL DEF ApiSpec

(* 404 for an id that was announced means that the process has ended since *)
(* or that the job of a renewal has not begun, and never for what was      *)
(* found before.                                                           *)
THEOREM FoundUnlessRestarted == ApiSpec => FoundUntilRestart
<1> DEFINE Found == \A x \in Requests :
                       seen'[x] = "NotFound" /\ seen[x] # "NotFound" =>
                          \/ StatusOf(x) = "gone"
                          \/ x \in Renewals /\ seen[x] = "accepted" /\ job[x] = "spawned"
<1>1. ServerInv /\ ClientInv /\ [ApiNext]_serverState => [Found]_serverState
  <2> SUFFICES ASSUME ServerInv, ClientInv, ApiNext, NEW x \in Requests,
                      seen'[x] = "NotFound", seen[x] # "NotFound"
               PROVE  \/ StatusOf(x) = "gone"
                      \/ x \in Renewals /\ seen[x] = "accepted" /\ job[x] = "spawned"
    OBVIOUS
  <2>1. GetOrder(x) \/ (x \in Orders /\ ListOrders(x))
    <3>0. DOMAIN seen = Requests /\ seen' # seen
      BY DEF ClientInv
    <3>1. ASSUME NEW y \in Requests, NEW what, Sees(y, what) PROVE y = x /\ what = "NotFound"
      BY <3>0, <3>1 DEF Sees
    <3>2. ASSUME NEW t \in Orders, PostOrder(t) PROVE FALSE
      <4>1. \E what \in {"left", "accepted", "unanswered"} : Sees(t, what)
        BY <3>2 DEF PostOrder, Answered202
      <4> QED
        BY <3>1, <4>1, RequestKinds
    <3>3. ASSUME NEW n \in Renewals, PostRenew(n) PROVE FALSE
      <4>1. \E what \in {"left", "accepted", "unanswered", "refused"} : Sees(n, what)
        BY <3>3 DEF PostRenew, Answered202
      <4> QED
        BY <3>1, <4>1, RequestKinds
    <3>4. ASSUME NEW y \in Requests, GetOrder(y) \/ (y \in Orders /\ ListOrders(y)) PROVE y = x
      BY <3>1, <3>4 DEF GetOrder, ListOrders
    <3> QED
      BY <3>0, <3>2, <3>3, <3>4, RequestKinds
         DEF ApiNext, Background, apiVars, Job, JobStarts, JobEnds, Dies
  <2>2. Sees(x, Told(x)) /\ seen[x] \notin Unsent \cup {"refused"}
    BY <2>1 DEF GetOrder, ListOrders, Unsent, Statuses, Finished
  <2>3. StatusOf(x) \notin Statuses
    BY <2>2 DEF Sees, Told, ClientInv, Statuses, Finished
  <2>4. CASE x \in Orders
    <3>1. task[x] # "none" /\ task[x] \in {"none", "gone", "InProgress"} \cup Finished
      BY <2>2, <2>4 DEF ClientInv, ServerInv, ProvInv, ProvisioningTypeOK
    <3> QED
      BY <2>3, <2>4, <3>1 DEF StatusOf, Statuses
  <2>5. CASE x \in Renewals
    <3>1. x \notin Orders /\ RenewalInv(x) /\ job[x] \in {"none", "spawned", "sleeping", "ended", "dead"}
      BY <2>5, RequestKinds DEF ClientInv
    <3>2. renewal[x] \in {"none", "gone"} /\ job[x] # "none"
      BY <2>2, <2>3, <3>1 DEF StatusOf, RenewalInv, Statuses, Finished
    <3>3. CASE renewal[x] = "gone"
      BY <3>1, <3>3 DEF StatusOf
    <3>4. CASE renewal[x] = "none"
      <4>1. job[x] = "spawned"
        BY <3>1, <3>2, <3>4 DEF RenewalInv
      <4>2. seen[x] = "accepted"
        BY <2>1, <2>2, <3>1, <4>1 DEF RenewalInv, GetOrder
      <4> QED
        BY <2>5, <4>1, <4>2
    <3> QED
      BY <3>2, <3>3, <3>4
  <2> QED
    BY <2>4, <2>5 DEF Requests
<1>2. ServerInv /\ ClientInv /\ [ApiNext]_serverState => ClientInv'
  BY ClientInvStep
<1> QED
  BY ServerInvInit, ServerInvStep, ClientInvInit, <1>1, <1>2, PTL DEF ApiSpec, FoundUntilRestart

-----------------------------------------------------------------------------
(* The attempts are issuances *)

LEMMA GivenUpSolver ==
    ASSUME TypeInv, SolverInv, NEW r \in Runs, pc[r] \in {"order", "authz"},
           pc' = [pc EXCEPT ![r] = "failed"],
           UNCHANGED <<account, idx, polls, solverVars, serverVars, faults>>
    PROVE  SolverInv'
<1>1. \A q \in Runs : pc'[q] = IF q = r THEN "failed" ELSE pc[q]
  BY DEF TypeInv, TypeOK
<1>2. UNCHANGED <<port, solver, keyAuth, provider, records, recordId, cleaned, order, authz>>
  BY DEF solverVars, serverVars
<1>3. PortsAreOfServers' /\ RecordsAreOfDns' /\ RecordsAreRemembered' /\ AddressesGivenBack'
  BY <1>2 DEF SolverInv, PortsAreOfServers, RecordsAreOfDns, RecordsAreRemembered,
      AddressesGivenBack
<1>4. ServersKeepPorts'
  BY <1>1, <1>2 DEF SolverInv, ServersKeepPorts, Prepared
<1>5. InTurn'
  BY <1>1, <1>2 DEF SolverInv, InTurn, Over
<1>6. AskedIsServed'
  BY <1>1, <1>2 DEF SolverInv, AskedIsServed, Asked, Undisturbed, Served
<1> QED
  BY <1>3, <1>4, <1>5, <1>6 DEF SolverInv

(* Only the end of the process takes away what an attempt serves. *)
LEMMA AttemptsKeepSolver ==
    ASSUME ServerInv, deaths = 0 => SolverInv, [ApiNext]_serverState, deaths' = 0
    PROVE  SolverInv'
<1>1. ~ServerDies
  BY DEF ServerInv, ProvInv, ProvisioningTypeOK, ServerDies
<1>2. deaths' = deaths
  <2>1. ASSUME NEW t \in Orders, Execute(t) PROVE deaths' = deaths
    BY <2>1 DEF Execute, Start, Provision, Misconfigured, AttemptOk, AttemptFailed, Wake,
        provVars, processVars
  <2>2. ASSUME NEW t \in Orders, PostOrder(t) PROVE deaths' = deaths
    BY <2>2 DEF PostOrder, CreateOrder, allVars, processVars
  <2>3. ASSUME NEW x \in Requests, GetOrder(x) \/ ListOrders(x) PROVE deaths' = deaths
    BY <2>3 DEF GetOrder, ListOrders, allVars
  <2>4. ASSUME NEW n \in Renewals, PostRenew(n) \/ Job(n) PROVE deaths' = deaths
    BY <2>4 DEF PostRenew, Job, JobStarts, JobEnds, allVars
  <2>5. ServerStarts \/ UNCHANGED provVars \/ UNCHANGED serverState => deaths' = deaths
    BY DEF ServerStarts, provVars, serverState, allVars
  <2> QED
    BY <1>1, <2>1, <2>2, <2>3, <2>4, <2>5, RequestKinds DEF ApiNext, Background, Dies
<1>3. SolverInv /\ TypeInv /\ ProvisioningTypeOK
  BY <1>2 DEF ServerInv, RunInv, ProvInv
<1>4. CASE RunsGoOn
  BY <1>3, <1>4, SolverInvStep DEF RunsGoOn
<1>5. ASSUME NEW t \in Orders, Misconfigured(t) PROVE SolverInv'
  <2>1. Attempt(t) \in Runs
    BY <1>3, TryRuns DEF Attempt, ProvisioningTypeOK, Times
  <2> QED
    BY <1>3, <1>5, <2>1, GivenUpSolver DEF Misconfigured, Goto
<1> QED
  BY <1>1, <1>3, <1>4, <1>5, StepOfRuns

(* The attempts of the API's tasks keep what a call of issue_certificate   *)
(* keeps: an attempt is Ok only when the CA has issued its certificate.    *)
THEOREM AttemptsOkWhenIssued == ApiSpec => []OkIsIssued
<1>1. ServerInv => OkIsIssued
  BY DEF ServerInv, RunInv, OrderInv, OkIsIssued
<1> QED
  BY ServerInvInit, ServerInvStep, <1>1, PTL DEF ApiSpec

(* As long as the server's process has not ended, an attempt that has      *)
(* failed serves what the CA may still fetch, beside those that follow it. *)
THEOREM AttemptsServeUntilRestart == ApiSpec => [](deaths = 0 => ServedWhileChecked)
<1> DEFINE Kept == deaths = 0 => SolverInv
<1>1. ApiInit => Kept
  BY SolverInvInit DEF ApiInit, Init
<1>2. ServerInv /\ Kept /\ [ApiNext]_serverState => Kept'
  BY AttemptsKeepSolver
<1>3. Kept => (deaths = 0 => ServedWhileChecked)
  BY DEF SolverInv, AskedIsServed, Asked, ServedWhileChecked
<1> QED
  BY ServerInvInit, ServerInvStep, <1>1, <1>2, <1>3, PTL DEF ApiSpec
=============================================================================
