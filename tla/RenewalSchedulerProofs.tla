----------------------- MODULE RenewalSchedulerProofs -----------------------
(***************************************************************************)
(* Theorems about RenewalScheduler, for every set of jobs and callers,     *)
(* every concurrency, channel capacity and number of retries.              *)
(***************************************************************************)
EXTENDS RenewalScheduler, FiniteSetTheorems, TLAPS

(* The next attempt at a job whose retries are not used up is a task.      *)
LEMMA NextTask ==
    ASSUME NEW t \in Tasks, t.retry < MaxRetries
    PROVE  NextTry(t) \in Tasks
BY ConstantsAssumption DEF Tasks, NextTry

(* A worker that retries still has a retry left; with the types, this is   *)
(* inductive.                                                              *)
RetryLeft == \A t \in Tasks : pcWorker[t] = "retrying" => t.retry < MaxRetries

TypeInv == TypeOK /\ RetryLeft

LEMMA TypeInvInit == Init => TypeInv
BY ConstantsAssumption, NoTaskAssumption DEF Init, TypeInv, TypeOK, RetryLeft

LEMMA TypeInvStep == TypeInv /\ [Next]_vars => TypeInv'
<1> SUFFICES ASSUME TypeInv, [Next]_vars
             PROVE  TypeInv'
    OBVIOUS
<1> USE ConstantsAssumption, NoTaskAssumption DEF TypeInv, TypeOK, RetryLeft
<1>1. ASSUME NEW c \in Callers, ListAll(c)
      PROVE  TypeInv'
  BY <1>1 DEF ListAll, bridgeVars, hookVars
<1>2. ASSUME NEW c \in Callers, SendTask(c)
      PROVE  TypeInv'
  <2>1. PICK j \in todo[c] :
            /\ chan' = Append(chan, [job |-> j, retry |-> 0])
            /\ todo' = [todo EXCEPT ![c] = @ \ {j}]
    BY <1>2 DEF SendTask
  <2>2. [job |-> j, retry |-> 0] \in Tasks
    BY <1>2 DEF Tasks
  <2> QED
    BY <1>2, <2>1, <2>2 DEF SendTask, bridgeVars, hookVars
<1>3. ASSUME NEW c \in Callers, Return(c)
      PROVE  TypeInv'
  BY <1>3 DEF Return, bridgeVars, hookVars
<1>4. CASE BridgeRecv
  <2>1. /\ Head(chan) \in Tasks
        /\ Tail(chan) \in Seq(Tasks)
        /\ Len(Tail(chan)) <= ChanCap
    BY <1>4 DEF BridgeRecv
  <2> QED
    BY <1>4, <2>1 DEF BridgeRecv, callerVars, hookVars
<1>5. CASE BridgePush
  BY <1>5 DEF BridgePush, callerVars, hookVars
<1>6. CASE BridgeNotify
  BY <1>6 DEF BridgeNotify, callerVars, hookVars
<1>7. CASE LoopCheck
  BY <1>7 DEF LoopCheck, callerVars, bridgeVars, hookVars
<1>8. CASE LoopWait
  BY <1>8 DEF LoopWait, callerVars, bridgeVars, hookVars
<1>9. CASE LoopAcquire
  BY <1>9 DEF LoopAcquire, callerVars, bridgeVars, hookVars
<1>10. CASE LoopPop
  BY <1>10 DEF LoopPop, Highest, callerVars, bridgeVars, hookVars
<1>11. ASSUME NEW t \in Tasks, WorkerBegin(t)
       PROVE  TypeInv'
  BY <1>11 DEF WorkerBegin, callerVars, bridgeVars, Tasks
<1>12. ASSUME NEW t \in Tasks, WorkerSucceed(t)
       PROVE  TypeInv'
  BY <1>12 DEF WorkerSucceed, callerVars, bridgeVars, Tasks
<1>13. ASSUME NEW t \in Tasks, WorkerFail(t)
       PROVE  TypeInv'
  BY <1>13 DEF WorkerFail, callerVars, bridgeVars, Tasks
<1>14. ASSUME NEW t \in Tasks, WorkerRetry(t)
       PROVE  TypeInv'
  <2>1. NextTry(t) \in Tasks
    BY <1>14, NextTask DEF WorkerRetry
  <2> QED
    BY <1>14, <2>1 DEF WorkerRetry, callerVars, bridgeVars, hookVars
<1>15. ASSUME NEW t \in Tasks, WorkerLeave(t)
       PROVE  TypeInv'
  BY <1>15 DEF WorkerLeave, callerVars, bridgeVars, hookVars
<1>16. CASE UNCHANGED vars
  BY <1>16 DEF vars
<1> QED
  BY <1>1, <1>2, <1>3, <1>4, <1>5, <1>6, <1>7, <1>8, <1>9, <1>10, <1>11,
     <1>12, <1>13, <1>14, <1>15, <1>16
     DEF Next, Caller, Bridge, Loop, Worker

(* The types are right in every reachable state. *)
THEOREM TypeCorrect == Spec => []TypeOK
<1>1. TypeInv => TypeOK
  BY DEF TypeInv
<1> QED
  BY TypeInvInit, TypeInvStep, <1>1, PTL DEF Spec

-----------------------------------------------------------------------------
(* Where tasks are *)

InChan(t) == \E i \in DOMAIN chan : chan[i] = t

(* Task t was sent at some time. *)
Known(t) ==
    \/ pcWorker[t] # "none"
    \/ InChan(t)
    \/ t = bridgeTask
    \/ t \in heap

Past(t) == pcWorker[t] \in {"leaving", "gone"}

(* A task on its way to a worker is in one place only, and no worker was   *)
(* spawned for it yet.                                                     *)
OnTheWay ==
    /\ \A i, k \in DOMAIN chan : chan[i] = chan[k] => i = k
    /\ \A i \in DOMAIN chan :
          chan[i] # bridgeTask /\ chan[i] \notin heap /\ pcWorker[chan[i]] = "none"
    /\ bridgeTask \in Tasks => bridgeTask \notin heap /\ pcWorker[bridgeTask] = "none"
    /\ \A t \in heap : pcWorker[t] = "none"

First(j) == [job |-> j, retry |-> 0]

(* Nothing was sent yet for a job that its caller still has to list or to  *)
(* send.                                                                   *)
Unsent ==
    /\ \A c \in Callers : \A j \in todo[c] : CallerOf[j] = c
    /\ \A c \in Callers : pcCaller[c] = "new" => todo[c] = {}
    /\ \A j \in Jobs : \A t \in Tasks :
          /\ t.job = j
          /\ pcCaller[CallerOf[j]] = "new" \/ j \in todo[CallerOf[j]]
          => ~Known(t)

(* Once an attempt at a job is known, the earlier ones are over. *)
InTurn ==
    \A t, u \in Tasks : t.job = u.job /\ t.retry < u.retry /\ Known(u) => Past(t)

TaskInv == TypeInv /\ OnTheWay /\ Unsent /\ InTurn

LEMMA TaskInvInit == Init => TaskInv
<1> SUFFICES ASSUME Init PROVE TaskInv
  OBVIOUS
<1>1. \A t \in Tasks : ~Known(t)
  BY NoTaskAssumption DEF Init, Known, InChan
<1>2. OnTheWay
  BY NoTaskAssumption DEF Init, OnTheWay
<1> QED
  BY <1>1, <1>2, TypeInvInit DEF Init, TaskInv, Unsent, InTurn

(* What a send does to the channel. *)
LEMMA SendElements ==
    ASSUME chan \in Seq(Tasks), NEW x \in Tasks, chan' = Append(chan, x)
    PROVE  /\ DOMAIN chan = 1..Len(chan)
           /\ DOMAIN chan' = 1..(Len(chan) + 1)
           /\ \A i \in 1..Len(chan) : chan'[i] = chan[i] /\ chan[i] \in Tasks
           /\ chan'[Len(chan) + 1] = x
           /\ \A t : InChan(t)' <=> InChan(t) \/ t = x
<1>1. /\ DOMAIN chan = 1..Len(chan)
      /\ DOMAIN chan' = 1..(Len(chan) + 1)
      /\ \A i \in 1..Len(chan) : chan'[i] = chan[i] /\ chan[i] \in Tasks
      /\ chan'[Len(chan) + 1] = x
      /\ Len(chan) \in Nat
  OBVIOUS
<1>2. ASSUME NEW t PROVE InChan(t)' <=> InChan(t) \/ t = x
  BY <1>1 DEF InChan
<1> QED
  BY <1>1, <1>2

(* What the bridge's recv does to the channel. *)
LEMMA RecvElements ==
    ASSUME chan \in Seq(Tasks), chan # <<>>, chan' = Tail(chan)
    PROVE  /\ DOMAIN chan = 1..Len(chan)
           /\ DOMAIN chan' = 1..(Len(chan) - 1)
           /\ Len(chan) \in Nat \ {0}
           /\ \A i \in DOMAIN chan' : chan'[i] = chan[i + 1]
           /\ Head(chan) = chan[1]
           /\ Head(chan) \in Tasks
           /\ \A t : InChan(t) <=> InChan(t)' \/ t = Head(chan)
<1>1. /\ DOMAIN chan = 1..Len(chan)
      /\ DOMAIN chan' = 1..(Len(chan) - 1)
      /\ Len(chan) \in Nat \ {0}
      /\ \A i \in DOMAIN chan' : chan'[i] = chan[i + 1]
      /\ Head(chan) = chan[1]
      /\ Head(chan) \in Tasks
  OBVIOUS
<1>2. ASSUME NEW t PROVE InChan(t) => InChan(t)' \/ t = Head(chan)
  <2> SUFFICES ASSUME NEW i \in DOMAIN chan, chan[i] = t, i # 1
               PROVE  InChan(t)'
    BY <1>1 DEF InChan
  <2> i - 1 \in DOMAIN chan' /\ chan'[i - 1] = t
    BY <1>1
  <2> QED
    BY DEF InChan
<1>3. ASSUME NEW t PROVE InChan(t)' \/ t = Head(chan) => InChan(t)
  BY <1>1 DEF InChan
<1> QED
  BY <1>1, <1>2, <1>3

(* A task sent to the channel that was not known before. *)
LEMMA SendStep ==
    ASSUME TaskInv, TypeInv', NEW x \in Tasks, ~Known(x),
           chan' = Append(chan, x),
           UNCHANGED <<bridgeTask, heap>>,
           \A t \in Tasks : \/ pcWorker'[t] = pcWorker[t]
                            \/ Past(t)' /\ pcWorker[t] # "none"
    PROVE  /\ OnTheWay'
           /\ \A t \in Tasks : Known(t)' <=> Known(t) \/ t = x
<1> USE DEF TaskInv, TypeInv, TypeOK
<1>1. \A t : InChan(t)' <=> InChan(t) \/ t = x
  BY SendElements
<1>2. \A t \in Tasks : pcWorker'[t] = "none" <=> pcWorker[t] = "none"
  BY DEF Past
<1>3. \A t \in Tasks : Known(t)' <=> Known(t) \/ t = x
  BY <1>1, <1>2 DEF Known
<1>4. OnTheWay'
  <2>1. \A i, k \in DOMAIN chan' : chan'[i] = chan'[k] => i = k
    BY SendElements DEF OnTheWay, Known, InChan
  <2>2. \A i \in DOMAIN chan' : /\ chan'[i] # bridgeTask'
                                /\ chan'[i] \notin heap'
                                /\ pcWorker'[chan'[i]] = "none"
    BY SendElements, <1>2 DEF OnTheWay, Known, InChan
  <2> QED
    BY <2>1, <2>2, <1>2 DEF OnTheWay
<1> QED
  BY <1>3, <1>4

(* A step that leaves the places of tasks alone. *)
LEMMA PlacesUnchanged ==
    ASSUME TaskInv, TypeInv', UNCHANGED <<callerVars, chan, bridgeTask, heap>>,
           \A t \in Tasks : \/ pcWorker'[t] = pcWorker[t]
                            \/ (pcWorker[t] # "none" /\ ~Past(t) /\ pcWorker'[t] # "none")
                            \/ (Past(t) /\ Past(t)')
    PROVE  TaskInv'
<1> USE DEF TaskInv, TypeInv, TypeOK
<1>1. \A t \in Tasks : /\ Known(t)' <=> Known(t)
                       /\ Past(t) => Past(t)'
                       /\ pcWorker[t] = "none" <=> pcWorker'[t] = "none"
  BY DEF Known, InChan, Past
<1>2. OnTheWay'
  <2>1. \A i \in DOMAIN chan : chan[i] \in Tasks
    OBVIOUS
  <2> QED
    BY <1>1, <2>1 DEF OnTheWay
<1>3. Unsent'
  BY <1>1 DEF Unsent, callerVars
<1>4. InTurn'
  BY <1>1 DEF InTurn
<1> QED
  BY <1>2, <1>3, <1>4

LEMMA TaskInvStep == TaskInv /\ [Next]_vars => TaskInv'
<1> SUFFICES ASSUME TaskInv, [Next]_vars
             PROVE  TaskInv'
  OBVIOUS
<1> USE DEF TaskInv
<1>0. TypeInv /\ TypeInv'
  BY TypeInvStep
<1>1. ASSUME NEW c \in Callers, ListAll(c)
      PROVE  TaskInv'
  <2>1. \A t \in Tasks : (Known(t)' <=> Known(t)) /\ (Past(t)' <=> Past(t))
    BY <1>1 DEF ListAll, Known, InChan, Past, bridgeVars
  <2>2. OnTheWay' /\ InTurn'
    BY <1>1, <2>1 DEF ListAll, OnTheWay, InTurn, bridgeVars
  <2>3. PICK found \in SUBSET {j \in Jobs : CallerOf[j] = c} :
            todo' = [todo EXCEPT ![c] = found]
    BY <1>1 DEF ListAll
  <2>4. Unsent'
    <3>1. \A d \in Callers : \A j \in todo'[d] : CallerOf[j] = d
      BY <1>0, <2>3 DEF Unsent, TypeInv, TypeOK
    <3>2. \A d \in Callers : pcCaller'[d] = "new" => todo'[d] = {}
      BY <1>0, <1>1, <2>3 DEF ListAll, Unsent, TypeInv, TypeOK
    <3>3. \A j \in Jobs : \A t \in Tasks :
             /\ t.job = j
             /\ pcCaller'[CallerOf[j]] = "new" \/ j \in todo'[CallerOf[j]]
             => ~Known(t)'
      BY <1>0, <1>1, <2>1, <2>3, ConstantsAssumption DEF ListAll, Unsent, TypeInv, TypeOK
    <3> QED
      BY <3>1, <3>2, <3>3 DEF Unsent
  <2> QED
    BY <1>0, <2>2, <2>4
<1>2. ASSUME NEW c \in Callers, SendTask(c)
      PROVE  TaskInv'
  <2>1. PICK j \in todo[c] : /\ chan' = Append(chan, First(j))
                            /\ todo' = [todo EXCEPT ![c] = @ \ {j}]
    BY <1>2 DEF SendTask, First
  <2>2. /\ j \in Jobs
        /\ CallerOf[j] = c
        /\ First(j) \in Tasks
        /\ First(j).job = j
        /\ First(j).retry = 0
    BY <1>0, ConstantsAssumption DEF TypeInv, TypeOK, Unsent, First, Tasks
  <2>3. \A t \in Tasks : t.job = j => ~Known(t)
    BY <2>1, <2>2 DEF Unsent
  <2>4. UNCHANGED <<bridgeTask, heap, pcWorker>>
    BY <1>2 DEF SendTask, bridgeVars
  <2>5. /\ OnTheWay'
        /\ \A t \in Tasks : Known(t)' <=> Known(t) \/ t = First(j)
    BY <1>0, <2>1, <2>2, <2>3, <2>4, SendStep
  <2>6. Unsent'
    <3>1. \A d \in Callers : todo'[d] \subseteq todo[d]
      BY <1>0, <2>1 DEF TypeInv, TypeOK
    <3>2. pcCaller' = pcCaller
      BY <1>2 DEF SendTask
    <3>3. j \notin todo'[c] /\ pcCaller[c] # "new"
      BY <1>0, <1>2, <2>1 DEF SendTask, TypeInv, TypeOK
    <3> QED
      BY <2>2, <2>5, <3>1, <3>2, <3>3, ConstantsAssumption DEF Unsent
  <2>7. InTurn'
    <3> SUFFICES ASSUME NEW t \in Tasks, NEW u \in Tasks, t.job = u.job,
                        t.retry < u.retry, Known(u)'
                 PROVE  Past(t)'
      BY DEF InTurn
    <3>1. u # First(j)
      BY <2>2, ConstantsAssumption DEF Tasks
    <3> QED
      BY <2>4, <2>5, <3>1 DEF InTurn, Past
  <2> QED
    BY <1>0, <2>5, <2>6, <2>7
<1>3. ASSUME NEW c \in Callers, Return(c)
      PROVE  TaskInv'
  <2>1. \A t \in Tasks : (Known(t)' <=> Known(t)) /\ (Past(t)' <=> Past(t))
    BY <1>3 DEF Return, Known, InChan, Past, bridgeVars
  <2>2. OnTheWay' /\ InTurn'
    BY <1>3, <2>1 DEF Return, OnTheWay, InTurn, bridgeVars
  <2>3. Unsent'
    BY <1>0, <1>3, <2>1, ConstantsAssumption DEF Return, Unsent, TypeInv, TypeOK
  <2> QED
    BY <1>0, <2>2, <2>3
<1>4. CASE BridgeRecv
  <2>0. /\ chan # <<>>
        /\ chan \in Seq(Tasks)
        /\ chan' = Tail(chan)
        /\ bridgeTask' = Head(chan)
        /\ bridgeTask = NoTask
        /\ UNCHANGED <<callerVars, heap, pcWorker>>
    BY <1>0, <1>4 DEF BridgeRecv, TypeInv, TypeOK
  <2>1. \A t \in Tasks : (Known(t)' <=> Known(t)) /\ (Past(t)' <=> Past(t))
    BY <2>0, RecvElements, NoTaskAssumption DEF Known, Past
  <2>2. \A i \in DOMAIN chan' : i + 1 \in DOMAIN chan /\ 1 \in DOMAIN chan /\ i # 0
    BY <2>0, RecvElements
  <2>3. OnTheWay'
    BY <2>0, <2>2, RecvElements DEF OnTheWay
  <2>4. Unsent' /\ InTurn'
    BY <2>0, <2>1 DEF Unsent, InTurn, callerVars
  <2> QED
    BY <1>0, <2>3, <2>4
<1>5. CASE BridgePush
  <2>0. /\ heap' = heap \cup {bridgeTask}
        /\ bridgeTask \in Tasks
        /\ bridgeTask' = NoTask
        /\ chan \in Seq(Tasks)
        /\ UNCHANGED <<callerVars, chan, pcWorker>>
    BY <1>0, <1>5 DEF BridgePush, TypeInv, TypeOK
  <2>1. \A t \in Tasks : (Known(t)' <=> Known(t)) /\ (Past(t)' <=> Past(t))
    BY <2>0, NoTaskAssumption DEF Known, Past, InChan
  <2>2. \A i \in DOMAIN chan : chan[i] \in Tasks
    BY <2>0
  <2>3. OnTheWay'
    BY <2>0, <2>2, NoTaskAssumption DEF OnTheWay
  <2>4. Unsent' /\ InTurn'
    BY <2>0, <2>1 DEF Unsent, InTurn, callerVars
  <2> QED
    BY <1>0, <2>3, <2>4
<1>6. CASE BridgeNotify \/ LoopCheck \/ LoopWait \/ LoopAcquire
  <2>1. UNCHANGED <<callerVars, chan, bridgeTask, heap, pcWorker>>
    BY <1>6 DEF BridgeNotify, LoopCheck, LoopWait, LoopAcquire, bridgeVars
  <2> QED
    BY <1>0, <2>1, PlacesUnchanged DEF Past
<1>10. CASE LoopPop
  <2>1. PICK t \in heap : /\ heap' = heap \ {t}
                         /\ pcWorker' = [pcWorker EXCEPT ![t] = "spawned"]
    BY <1>10 DEF LoopPop, Highest
  <2>0. /\ UNCHANGED <<callerVars, chan, bridgeTask>>
        /\ chan \in Seq(Tasks)
        /\ t \in Tasks
        /\ pcWorker[t] = "none"
        /\ pcWorker'[t] = "spawned"
        /\ \A u \in Tasks : u # t => pcWorker'[u] = pcWorker[u]
    BY <1>0, <1>10, <2>1 DEF LoopPop, bridgeVars, TypeInv, TypeOK, OnTheWay
  <2>2. \A u \in Tasks : (Known(u)' <=> Known(u)) /\ (Past(u)' <=> Past(u))
    BY <2>0, <2>1 DEF Known, InChan, Past
  <2>3. \A i \in DOMAIN chan : chan[i] \in Tasks
    BY <2>0
  <2>4. OnTheWay'
    BY <1>0, <2>0, <2>1, <2>3 DEF OnTheWay, TypeInv, TypeOK
  <2>5. Unsent' /\ InTurn'
    BY <2>0, <2>2 DEF Unsent, InTurn, callerVars
  <2> QED
    BY <1>0, <2>4, <2>5
<1>11. ASSUME NEW t \in Tasks,
              WorkerBegin(t) \/ WorkerSucceed(t) \/ WorkerFail(t) \/ WorkerLeave(t)
       PROVE  TaskInv'
  <2>1. UNCHANGED <<callerVars, chan, bridgeTask, heap>>
    BY <1>11 DEF WorkerBegin, WorkerSucceed, WorkerFail, WorkerLeave, bridgeVars
  <2>2. \A u \in Tasks : \/ pcWorker'[u] = pcWorker[u]
                         \/ (pcWorker[u] # "none" /\ ~Past(u) /\ pcWorker'[u] # "none")
                         \/ (Past(u) /\ Past(u)')
    BY <1>0, <1>11 DEF WorkerBegin, WorkerSucceed, WorkerFail, WorkerLeave, Past,
                       TypeInv, TypeOK
  <2> QED
    BY <1>0, <2>1, <2>2, PlacesUnchanged DEF Past
<1>14. ASSUME NEW t \in Tasks, WorkerRetry(t)
       PROVE  TaskInv'
  <2>1. /\ NextTry(t) \in Tasks
        /\ NextTry(t).job = t.job
        /\ NextTry(t).retry = t.retry + 1
    BY <1>0, <1>14, NextTask DEF WorkerRetry, TypeInv, RetryLeft, NextTry
  <2>2. /\ pcWorker[t] = "retrying"
        /\ pcWorker'[t] = "leaving"
        /\ \A u \in Tasks : u # t => pcWorker'[u] = pcWorker[u]
        /\ chan' = Append(chan, NextTry(t))
        /\ UNCHANGED <<callerVars, bridgeTask, heap>>
    BY <1>0, <1>14 DEF WorkerRetry, TypeInv, TypeOK, bridgeVars
  <2>3. ~Known(NextTry(t))
    BY <2>1, <2>2 DEF InTurn, Past, Tasks
  <2>4. \A u \in Tasks : pcWorker'[u] = pcWorker[u]
                        \/ (Past(u)' /\ pcWorker[u] # "none")
    BY <2>2 DEF Past
  <2>5. /\ OnTheWay'
        /\ \A u \in Tasks : Known(u)' <=> Known(u) \/ u = NextTry(t)
    BY <1>0, <2>1, <2>2, <2>3, <2>4, SendStep
  <2>6. Known(t)
    BY <2>2 DEF Known
  <2>7. Unsent'
    BY <2>1, <2>2, <2>5, <2>6 DEF Unsent, callerVars, Tasks
  <2>8. InTurn'
    <3> SUFFICES ASSUME NEW s \in Tasks, NEW u \in Tasks, s.job = u.job,
                        s.retry < u.retry, Known(u)'
                 PROVE  Past(s)'
      BY DEF InTurn
    <3>1. CASE u = NextTry(t)
      <4>1. s = t \/ (s.retry < t.retry /\ s.job = t.job)
        BY <2>1, <3>1, ConstantsAssumption DEF Tasks
      <4> QED
        BY <2>2, <2>6, <4>1 DEF InTurn, Past
    <3>2. CASE u # NextTry(t)
      BY <2>2, <2>5, <3>2 DEF InTurn, Past
    <3> QED
      BY <3>1, <3>2
  <2> QED
    BY <1>0, <2>5, <2>7, <2>8
<1>16. CASE UNCHANGED vars
  <2>1. UNCHANGED <<callerVars, chan, bridgeTask, heap, pcWorker>>
    BY <1>16 DEF vars, callerVars
  <2> QED
    BY <1>0, <2>1, PlacesUnchanged DEF Past
<1> QED
  BY <1>1, <1>2, <1>3, <1>4, <1>5, <1>6, <1>10, <1>11, <1>14, <1>16
     DEF Next, Caller, Bridge, Loop, Worker

LEMMA TaskInvariant == Spec => []TaskInv
BY TaskInvInit, TaskInvStep, PTL DEF Spec

-----------------------------------------------------------------------------
(* Permits *)

PermitInv == IsFiniteSet(Holding) /\ PermitsConserved

LEMMA PermitInvInit == Init => PermitInv
<1> SUFFICES ASSUME Init PROVE PermitInv
  OBVIOUS
<1>1. Holding = {}
  BY DEF Init, Holding
<1> QED
  BY <1>1, FS_EmptySet, ConstantsAssumption DEF Init, PermitInv, PermitsConserved

(* A pop adds one holder, who takes over the permit of the loop; the end   *)
(* of a worker removes one and frees a permit; any other step leaves the   *)
(* set of holders alone.                                                   *)
LEMMA PermitInvStep == TaskInv /\ PermitInv /\ [Next]_vars => PermitInv'
<1> SUFFICES ASSUME TaskInv, PermitInv, [Next]_vars
             PROVE  PermitInv'
  OBVIOUS
<1> USE DEF PermitInv
<1>0. /\ TypeOK
      /\ Cardinality(Holding) \in Nat
      /\ Concurrency \in Nat
  BY FS_CardinalityType, ConstantsAssumption DEF TaskInv, TypeInv
<1>1. CASE LoopPop
  <2>1. PICK t \in heap : pcWorker' = [pcWorker EXCEPT ![t] = "spawned"]
    BY <1>1 DEF LoopPop, Highest
  <2>2. t \in Tasks /\ t \notin Holding
    BY <1>0, <2>1 DEF TaskInv, OnTheWay, TypeOK, Holding
  <2>3. Holding' = Holding \cup {t}
    BY <1>0, <2>1, <2>2 DEF Holding, TypeOK
  <2>4. IsFiniteSet(Holding') /\ Cardinality(Holding') = Cardinality(Holding) + 1
    BY <2>2, <2>3, FS_AddElement
  <2>5. pcLoop = "pop" /\ pcLoop' = "check" /\ permits' = permits
    BY <1>1 DEF LoopPop
  <2> QED
    BY <1>0, <2>4, <2>5 DEF PermitsConserved, TypeOK
<1>2. ASSUME NEW t \in Tasks, WorkerLeave(t)
      PROVE  PermitInv'
  <2>1. t \in Holding /\ Holding' = Holding \ {t}
    BY <1>0, <1>2 DEF WorkerLeave, Holding, TypeOK
  <2>2. IsFiniteSet(Holding') /\ Cardinality(Holding') = Cardinality(Holding) - 1
    BY <2>1, FS_RemoveElement
  <2>3. permits' = permits + 1 /\ pcLoop' = pcLoop
    BY <1>2 DEF WorkerLeave
  <2>4. CASE pcLoop = "pop"
    BY <1>0, <2>2, <2>3, <2>4 DEF PermitsConserved, TypeOK
  <2>5. CASE pcLoop # "pop"
    BY <1>0, <2>2, <2>3, <2>5 DEF PermitsConserved, TypeOK
  <2> QED
    BY <2>4, <2>5
<1>3. CASE LoopAcquire
  <2>1. Holding' = Holding
    BY <1>3 DEF LoopAcquire, Holding
  <2>2. pcLoop = "acquire" /\ pcLoop' = "pop" /\ permits' = permits - 1
    BY <1>3 DEF LoopAcquire
  <2> QED
    BY <1>0, <2>1, <2>2 DEF PermitsConserved, TypeOK
<1>4. ASSUME Holding' = Holding, permits' = permits,
             pcLoop' = "pop" <=> pcLoop = "pop"
      PROVE  PermitInv'
  BY <1>4 DEF PermitsConserved
<1>5. CASE LoopCheck \/ LoopWait \/ BridgeNotify
  <2>1. Holding' = Holding
    BY <1>5 DEF LoopCheck, LoopWait, BridgeNotify, Holding
  <2>2. permits' = permits /\ (pcLoop' = "pop" <=> pcLoop = "pop")
    BY <1>5 DEF LoopCheck, LoopWait, BridgeNotify
  <2> QED
    BY <1>4, <2>1, <2>2
<1>6. ASSUME NEW t \in Tasks,
             WorkerBegin(t) \/ WorkerSucceed(t) \/ WorkerFail(t) \/ WorkerRetry(t)
      PROVE  PermitInv'
  <2>1. Holding' = Holding
    BY <1>0, <1>6 DEF WorkerBegin, WorkerSucceed, WorkerFail, WorkerRetry, Holding, TypeOK
  <2>2. permits' = permits /\ pcLoop' = pcLoop
    BY <1>6 DEF WorkerBegin, WorkerSucceed, WorkerFail, WorkerRetry
  <2> QED
    BY <1>4, <2>1, <2>2
<1>7. CASE BridgeRecv \/ BridgePush \/ UNCHANGED vars
  BY <1>4, <1>7 DEF BridgeRecv, BridgePush, vars, Holding
<1>8. ASSUME NEW c \in Callers, Caller(c)
      PROVE  PermitInv'
  BY <1>4, <1>8 DEF Caller, ListAll, SendTask, Return, Holding
<1> QED
  BY <1>1, <1>2, <1>3, <1>5, <1>6, <1>7, <1>8 DEF Next, Bridge, Loop, Worker

LEMMA PermitInvariant == Spec => [](TaskInv /\ PermitInv)
BY TaskInvInit, TaskInvStep, PermitInvInit, PermitInvStep, PTL DEF Spec

(* The permits of the semaphore are conserved: no worker, retry or pop     *)
(* loses or forges one.                                                    *)
THEOREM PermitsAreConserved == Spec => []PermitsConserved
<1>1. PermitInv => PermitsConserved
  BY DEF PermitInv
<1> QED
  BY PermitInvariant, <1>1, PTL

(* At most Concurrency spawned workers exist at any time, so at most       *)
(* Concurrency renewals run.                                               *)
THEOREM ConcurrencyLimited == Spec => [](Cardinality(Holding) <= Concurrency)
<1>1. TaskInv /\ PermitInv => Cardinality(Holding) <= Concurrency
  BY FS_CardinalityType, ConstantsAssumption
     DEF TaskInv, TypeInv, TypeOK, PermitInv, PermitsConserved
<1> QED
  BY PermitInvariant, <1>1, PTL

-----------------------------------------------------------------------------
(* The heap at pop() *)

(* Between the look at the heap and the pop only the bridge touches the    *)
(* heap, and it adds: the unwrap of pop() does not panic.                  *)
THEOREM PopIsSafe == Spec => []PopNeverEmpty
<1>1. Init => PopNeverEmpty
  BY DEF Init, PopNeverEmpty
<1>2. PopNeverEmpty /\ [Next]_vars => PopNeverEmpty'
  BY DEF PopNeverEmpty, Next, Caller, ListAll, SendTask, Return, Bridge, BridgeRecv,
         BridgePush, BridgeNotify, Loop, LoopCheck, LoopWait, LoopAcquire, LoopPop,
         Worker, WorkerBegin, WorkerSucceed, WorkerFail, WorkerRetry, WorkerLeave, vars
<1> QED
  BY <1>1, <1>2, PTL DEF Spec

-----------------------------------------------------------------------------
(* RenewalScheduler implements RenewalPool, for every set of jobs and      *)
(* callers, every concurrency, channel capacity and number of retries; and *)
(* what the implementation rests on: a job has one carrier, and the hooks  *)
(* tell how far it is.                                                     *)

(* A task that is on its way to its worker or in its hands. *)
Live(t) == Known(t) /\ ~Past(t)

(* What the hooks were told of a job with a live task, ... *)
LiveStory ==
    \A t \in Tasks : Live(t) =>
        /\ after[t.job] = 0
        /\ onError[t.job] = t.retry + (IF pcWorker[t] = "retrying" THEN 1 ELSE 0)
        /\ before[t.job] =
              t.retry + (IF pcWorker[t] \in {"renewing", "retrying"} THEN 1 ELSE 0)

(* ... of a job that was not submitted, ... *)
NoStory ==
    \A j \in Jobs : (\A t \in Tasks : t.job = j => ~Known(t)) =>
        before[j] = 0 /\ after[j] = 0 /\ onError[j] = 0

(* ... and of one whose tasks are all past. *)
WholeStory ==
    \A j \in Jobs :
        /\ \E t \in Tasks : t.job = j /\ Known(t)
        /\ \A t \in Tasks : t.job = j => ~Live(t)
        => /\ before[j] = after[j] + onError[j]
           /\ \/ after[j] = 1 /\ onError[j] <= MaxRetries
              \/ after[j] = 0 /\ onError[j] = MaxRetries + 1

HookInv == LiveStory /\ NoStory /\ WholeStory

(* A job has one live task at most: its attempts come in turn. *)
LEMMA OneLive ==
    ASSUME TaskInv, NEW t \in Tasks, NEW u \in Tasks, Live(t), Live(u), t.job = u.job
    PROVE  t = u
<1>1. ~(t.retry < u.retry) /\ ~(u.retry < t.retry)
  BY DEF TaskInv, InTurn, Live
<1>2. t.retry \in Nat /\ u.retry \in Nat
  BY ConstantsAssumption DEF Tasks
<1>3. t.retry = u.retry
  BY <1>1, <1>2
<1> QED
  BY <1>3 DEF Tasks

LEMMA HookInvInit == Init => HookInv
<1> SUFFICES ASSUME Init PROVE HookInv
  OBVIOUS
<1>1. \A t \in Tasks : ~Known(t)
  BY NoTaskAssumption DEF Init, Known, InChan
<1> QED
  BY <1>1 DEF Init, HookInv, LiveStory, NoStory, WholeStory, Live

(* A step that tells the hooks nothing of a job and leaves its tasks where *)
(* a worker has them.                                                      *)
SameJob(j) ==
    /\ before'[j] = before[j] /\ after'[j] = after[j] /\ onError'[j] = onError[j]
    /\ \A t \in Tasks : t.job = j =>
          (Known(t)' <=> Known(t)) /\ pcWorker'[t] = pcWorker[t]

(* HookInv, job by job. *)
Story(j) ==
    /\ \A t \in Tasks : t.job = j /\ Live(t) =>
          /\ after[j] = 0
          /\ onError[j] = t.retry + (IF pcWorker[t] = "retrying" THEN 1 ELSE 0)
          /\ before[j] =
                t.retry + (IF pcWorker[t] \in {"renewing", "retrying"} THEN 1 ELSE 0)
    /\ (\A t \in Tasks : t.job = j => ~Known(t)) =>
          before[j] = 0 /\ after[j] = 0 /\ onError[j] = 0
    /\ (\E t \in Tasks : t.job = j /\ Known(t)) /\ (\A t \in Tasks : t.job = j => ~Live(t))
       => /\ before[j] = after[j] + onError[j]
          /\ \/ after[j] = 1 /\ onError[j] <= MaxRetries
             \/ after[j] = 0 /\ onError[j] = MaxRetries + 1

LEMMA HookInvByJob ==
    /\ HookInv <=> \A j \in Jobs : Story(j)
    /\ HookInv' <=> \A j \in Jobs : Story(j)'
<1>1. \A t \in Tasks : t.job \in Jobs
  BY DEF Tasks
<1> QED
  BY <1>1 DEF HookInv, LiveStory, NoStory, WholeStory, Story

LEMMA SameStory ==
    ASSUME NEW j \in Jobs, Story(j), SameJob(j)
    PROVE  Story(j)'
<1>1. \A t \in Tasks : t.job = j => (Live(t)' <=> Live(t))
  BY DEF SameJob, Live, Past
<1> QED
  BY <1>1 DEF Story, SameJob

-----------------------------------------------------------------------------
(* What a step does to the tasks of each job *)

(* The steps that move tasks on their way, or none at all. *)
Quiet ==
    \/ \E c \in Callers : ListAll(c) \/ Return(c)
    \/ BridgeRecv \/ BridgePush \/ BridgeNotify
    \/ LoopCheck \/ LoopWait \/ LoopAcquire
    \/ UNCHANGED vars

LEMMA QuietStep ==
    ASSUME TaskInv, Quiet, NEW j \in Jobs
    PROVE  SameJob(j)
<1> USE DEF TaskInv, TypeInv, TypeOK
<1>1. UNCHANGED <<pcWorker, hookVars>>
  BY DEF Quiet, ListAll, Return, BridgeRecv, BridgePush, BridgeNotify,
         LoopCheck, LoopWait, LoopAcquire, vars, hookVars
<1>2. ASSUME NEW t \in Tasks
      PROVE  Known(t)' <=> Known(t)
  <2>1. CASE BridgeRecv
    <3>1. chan # <<>> /\ chan' = Tail(chan) /\ bridgeTask' = Head(chan) /\ heap' = heap
      BY <2>1 DEF BridgeRecv
    <3>2. bridgeTask = NoTask
      BY <2>1 DEF BridgeRecv
    <3> QED
      BY <1>1, <3>1, <3>2, RecvElements, NoTaskAssumption DEF Known
  <2>2. CASE BridgePush
    <3>1. chan' = chan /\ bridgeTask' = NoTask /\ heap' = heap \cup {bridgeTask}
      BY <2>2 DEF BridgePush
    <3> QED
      BY <1>1, <3>1, NoTaskAssumption DEF Known, InChan
  <2>3. CASE ~BridgeRecv /\ ~BridgePush
    <3>1. UNCHANGED <<chan, bridgeTask, heap>>
      BY <2>3 DEF Quiet, ListAll, Return, BridgeNotify, LoopCheck, LoopWait,
                  LoopAcquire, vars, bridgeVars
    <3> QED
      BY <1>1, <3>1 DEF Known, InChan
  <2> QED
    BY <2>1, <2>2, <2>3
<1> QED
  BY <1>1, <1>2 DEF SameJob, hookVars

(* A job is sent for the first time. *)
LEMMA SendTaskStep ==
    ASSUME TaskInv, NEW c \in Callers, SendTask(c)
    PROVE  \E j \in Jobs :
              /\ First(j) \in Tasks /\ pcWorker'[First(j)] = "none"
              /\ \A t \in Tasks : t.job = j => ~Known(t) /\ (Known(t)' <=> t = First(j))
              /\ before' = before /\ after' = after /\ onError' = onError
              /\ \A k \in Jobs : k # j => SameJob(k)
<1> USE DEF TaskInv, TypeInv, TypeOK
<1>1. PICK j \in todo[c] : chan' = Append(chan, First(j))
  BY DEF SendTask, First
<1>2. /\ j \in Jobs /\ CallerOf[j] = c
      /\ First(j) \in Tasks /\ First(j).job = j
  BY ConstantsAssumption DEF Unsent, First, Tasks
<1>3. UNCHANGED <<bridgeTask, heap, pcWorker, hookVars>>
  BY DEF SendTask, bridgeVars
<1>4. \A t \in Tasks : t.job = j => ~Known(t)
  BY <1>2 DEF Unsent
<1>5. \A t \in Tasks : Known(t)' <=> Known(t) \/ t = First(j)
  BY <1>1, <1>2, <1>3, SendElements DEF Known
<1>6. pcWorker'[First(j)] = "none"
  BY <1>2, <1>3, <1>4 DEF Known
<1>7. \A k \in Jobs : k # j => SameJob(k)
  BY <1>2, <1>3, <1>5 DEF SameJob, hookVars
<1> QED
  BY <1>2, <1>3, <1>4, <1>5, <1>6, <1>7 DEF hookVars

(* The steps of the loop and of the worker for task t. *)
LEMMA TaskStep ==
    ASSUME TaskInv, NEW t \in Tasks,
           pcWorker' = [pcWorker EXCEPT ![t] = pcWorker'[t]],
           \A u \in Tasks : Known(u)' <=> Known(u),
           \A j \in Jobs : j # t.job =>
              before'[j] = before[j] /\ after'[j] = after[j] /\ onError'[j] = onError[j]
    PROVE  \A j \in Jobs : j # t.job => SameJob(j)
BY DEF SameJob, TaskInv, TypeInv, TypeOK

LEMMA PopStep ==
    ASSUME TaskInv, LoopPop
    PROVE  \E t \in heap :
              /\ t \in Tasks /\ t.job \in Jobs
              /\ pcWorker[t] = "none" /\ pcWorker'[t] = "spawned"
              /\ Known(t)
              /\ \A u \in Tasks : (Known(u)' <=> Known(u)) /\ (u # t => pcWorker'[u] = pcWorker[u])
              /\ before' = before /\ after' = after /\ onError' = onError
              /\ \A j \in Jobs : j # t.job => SameJob(j)
<1> USE DEF TaskInv, TypeInv, TypeOK
<1>1. PICK t \in heap : /\ heap' = heap \ {t}
                        /\ pcWorker' = [pcWorker EXCEPT ![t] = "spawned"]
  BY DEF LoopPop, Highest
<1>2. /\ t \in Tasks /\ t.job \in Jobs
      /\ pcWorker[t] = "none" /\ pcWorker'[t] = "spawned"
      /\ UNCHANGED <<chan, bridgeTask, hookVars>>
  BY <1>1 DEF LoopPop, bridgeVars, OnTheWay, Tasks
<1>3. \A u \in Tasks : (Known(u)' <=> Known(u)) /\ (u # t => pcWorker'[u] = pcWorker[u])
  BY <1>1, <1>2 DEF Known, InChan
<1> QED
  BY <1>1, <1>2, <1>3, TaskStep DEF hookVars, Known

LEMMA WorkStep ==
    ASSUME TaskInv, NEW t \in Tasks,
           WorkerBegin(t) \/ WorkerSucceed(t) \/ WorkerFail(t) \/ WorkerLeave(t)
    PROVE  /\ t.job \in Jobs /\ t.retry \in 0..MaxRetries
           /\ Known(t)
           /\ \A u \in Tasks : (Known(u)' <=> Known(u)) /\ (u # t => pcWorker'[u] = pcWorker[u])
           /\ \A j \in Jobs : j # t.job => SameJob(j)
<1> USE DEF TaskInv, TypeInv, TypeOK
<1>1. t.job \in Jobs /\ t.retry \in 0..MaxRetries
  BY DEF Tasks
<1>2. /\ pcWorker[t] # "none" /\ pcWorker'[t] # "none"
      /\ \A u \in Tasks : u # t => pcWorker'[u] = pcWorker[u]
      /\ UNCHANGED <<chan, bridgeTask, heap>>
  BY DEF WorkerBegin, WorkerSucceed, WorkerFail, WorkerLeave, bridgeVars
<1>3. \A u \in Tasks : Known(u)' <=> Known(u)
  BY <1>2 DEF Known, InChan
<1>4. \A j \in Jobs : j # t.job =>
         before'[j] = before[j] /\ after'[j] = after[j] /\ onError'[j] = onError[j]
  BY DEF WorkerBegin, WorkerSucceed, WorkerFail, WorkerLeave, hookVars
<1> QED
  BY <1>1, <1>2, <1>3, <1>4 DEF SameJob, Known

(* A retry is a task of the same job, which was not known before. *)
LEMMA RetryStep ==
    ASSUME TaskInv, NEW t \in Tasks, WorkerRetry(t)
    PROVE  /\ t.job \in Jobs /\ Known(t)
           /\ NextTry(t) \in Tasks /\ NextTry(t).job = t.job
           /\ NextTry(t).retry = t.retry + 1 /\ t.retry + 1 \in 1..MaxRetries
           /\ ~Known(NextTry(t)) /\ pcWorker'[NextTry(t)] = "none"
           /\ pcWorker[t] = "retrying" /\ pcWorker'[t] = "leaving"
           /\ \A u \in Tasks : /\ Known(u)' <=> Known(u) \/ u = NextTry(t)
                               /\ u # t => pcWorker'[u] = pcWorker[u]
           /\ before' = before /\ after' = after /\ onError' = onError
           /\ \A j \in Jobs : j # t.job => SameJob(j)
<1> USE DEF TaskInv, TypeInv, TypeOK
<1>1. /\ NextTry(t) \in Tasks /\ NextTry(t).job = t.job
      /\ NextTry(t).retry = t.retry + 1
      /\ t.retry \in Nat /\ t.retry < MaxRetries /\ t.job \in Jobs
  BY NextTask, ConstantsAssumption DEF WorkerRetry, RetryLeft, NextTry, Tasks
<1>2. /\ pcWorker[t] = "retrying" /\ pcWorker'[t] = "leaving"
      /\ \A u \in Tasks : u # t => pcWorker'[u] = pcWorker[u]
      /\ chan' = Append(chan, NextTry(t))
      /\ UNCHANGED <<bridgeTask, heap, hookVars>>
  BY DEF WorkerRetry, bridgeVars
<1>3. ~Known(NextTry(t))
  <2>1. t.job = NextTry(t).job /\ t.retry < NextTry(t).retry
    BY <1>1
  <2>2. ~Past(t)
    BY <1>2 DEF Past
  <2> QED
    BY <1>1, <2>1, <2>2 DEF InTurn
<1>4. NextTry(t) # t /\ pcWorker[NextTry(t)] = "none"
  BY <1>1, <1>3 DEF Known
<1>5. \A u \in Tasks : Known(u)' <=> Known(u) \/ u = NextTry(t)
  BY <1>1, <1>2, SendElements DEF Known
<1>6. \A j \in Jobs : j # t.job => SameJob(j)
  BY <1>1, <1>2, <1>5 DEF SameJob, hookVars
<1>7. t.retry + 1 \in 1..MaxRetries
  BY <1>1, ConstantsAssumption
<1>8. Known(t) /\ pcWorker'[NextTry(t)] = "none"
  BY <1>1, <1>2, <1>4 DEF Known
<1>9. before' = before /\ after' = after /\ onError' = onError
  BY <1>2 DEF hookVars
<1> QED
  BY <1>1, <1>2, <1>3, <1>5, <1>6, <1>7, <1>8, <1>9

-----------------------------------------------------------------------------
(* The hooks *)

LEMMA HookInvStep == TaskInv /\ HookInv /\ [Next]_vars => HookInv'
<1> SUFFICES ASSUME TaskInv, \A j \in Jobs : Story(j), [Next]_vars, NEW k \in Jobs
             PROVE  Story(k)'
  BY HookInvByJob
<1>0. /\ TypeOK /\ MaxRetries \in Nat /\ Story(k)
      /\ \A t \in Tasks : t.job \in Jobs /\ t.retry \in 0..MaxRetries
  BY ConstantsAssumption DEF TaskInv, TypeInv, Tasks
<1>1. CASE SameJob(k)
  BY <1>0, <1>1, SameStory
<1>2. CASE Quiet
  BY <1>1, <1>2, QuietStep
<1>3. ASSUME NEW c \in Callers, SendTask(c)
      PROVE  Story(k)'
  <2>1. PICK j \in Jobs :
           /\ First(j) \in Tasks /\ pcWorker'[First(j)] = "none"
           /\ \A t \in Tasks : t.job = j => ~Known(t) /\ (Known(t)' <=> t = First(j))
           /\ before' = before /\ after' = after /\ onError' = onError
           /\ \A i \in Jobs : i # j => SameJob(i)
    BY <1>3, SendTaskStep
  <2>2. CASE k = j
    <3>1. before[k] = 0 /\ after[k] = 0 /\ onError[k] = 0
      BY <1>0, <2>1, <2>2 DEF Story
    <3>2. First(k).retry = 0 /\ First(k).job = k
      BY DEF First
    <3>3. Live(First(k))'
      BY <2>1, <2>2, <3>2 DEF Live, Past
    <3> QED
      BY <2>1, <2>2, <3>1, <3>2, <3>3 DEF Story, Live
  <2> QED
    BY <1>1, <2>1, <2>2
<1>4. CASE LoopPop
  <2>1. PICK t \in heap :
           /\ t \in Tasks /\ pcWorker[t] = "none" /\ pcWorker'[t] = "spawned" /\ Known(t)
           /\ \A u \in Tasks : (Known(u)' <=> Known(u)) /\ (u # t => pcWorker'[u] = pcWorker[u])
           /\ before' = before /\ after' = after /\ onError' = onError
           /\ \A j \in Jobs : j # t.job => SameJob(j)
    BY <1>4, PopStep
  <2>2. \A u \in Tasks : (Live(u)' <=> Live(u))
    BY <2>1 DEF Live, Past
  <2>3. CASE k = t.job
    BY <1>0, <2>1, <2>2, <2>3 DEF Story
  <2> QED
    BY <1>1, <2>1, <2>3
<1>5. ASSUME NEW t \in Tasks, WorkerRetry(t)
      PROVE  Story(k)'
  <2> DEFINE x == NextTry(t)
  <2>1. /\ x \in Tasks /\ x.job = t.job /\ x.retry = t.retry + 1
        /\ Known(t) /\ ~Known(x) /\ pcWorker'[x] = "none"
        /\ pcWorker[t] = "retrying" /\ pcWorker'[t] = "leaving"
        /\ \A u \in Tasks : /\ Known(u)' <=> Known(u) \/ u = x
                            /\ u # t => pcWorker'[u] = pcWorker[u]
        /\ before' = before /\ after' = after /\ onError' = onError
        /\ \A j \in Jobs : j # t.job => SameJob(j)
    BY <1>5, RetryStep
  <2>2. CASE k = t.job
    <3>1. Live(t) /\ \A u \in Tasks : u.job = k /\ Live(u) => u = t
      BY <2>1, <2>2, OneLive DEF Live, Past
    <3>2. Live(x)' /\ \A u \in Tasks : u.job = k /\ Live(u)' => u = x
      BY <2>1, <2>2, <3>1 DEF Live, Past
    <3>3. after[k] = 0 /\ onError[k] = t.retry + 1 /\ before[k] = t.retry + 1
      BY <1>0, <2>1, <2>2, <3>1 DEF Story
    <3>4. t.retry \in Nat
      BY <1>0
    <3> HIDE DEF x
    <3> QED
      BY <2>1, <2>2, <3>2, <3>3, <3>4 DEF Story, Live
  <2> QED
    BY <1>1, <2>1, <2>2
<1>6. ASSUME NEW t \in Tasks,
             WorkerBegin(t) \/ WorkerSucceed(t) \/ WorkerFail(t) \/ WorkerLeave(t)
      PROVE  Story(k)'
  <2>1. /\ Known(t)
        /\ \A u \in Tasks : (Known(u)' <=> Known(u)) /\ (u # t => pcWorker'[u] = pcWorker[u])
        /\ \A j \in Jobs : j # t.job => SameJob(j)
    BY <1>6, WorkStep
  <2>2. \A u \in Tasks : u # t => (Live(u)' <=> Live(u))
    BY <2>1 DEF Live, Past
  <2>3. Known(t)'
    BY <2>1
  <2>4. CASE k = t.job /\ WorkerLeave(t)
    <3>1. /\ \A u \in Tasks : Live(u)' <=> Live(u)
          /\ ~Live(t)
          /\ before' = before /\ after' = after /\ onError' = onError
      BY <1>0, <2>1, <2>2, <2>4 DEF WorkerLeave, hookVars, Live, Past, TypeOK
    <3> QED
      BY <1>0, <2>1, <3>1 DEF Story
  <2>5. CASE k = t.job /\ ~WorkerLeave(t)
    <3>1. /\ pcWorker[t] \in {"spawned", "renewing"}
          /\ Live(t) /\ \A u \in Tasks : u.job = k /\ Live(u) => u = t
      BY <1>6, <2>1, <2>5, OneLive DEF WorkerBegin, WorkerSucceed, WorkerFail, Live, Past
    <3>2. \A u \in Tasks : u.job = k /\ Live(u)' => u = t
      BY <2>2, <3>1
    <3>3. /\ after[k] = 0 /\ onError[k] = t.retry /\ t.retry \in 0..MaxRetries
          /\ before[k] = t.retry + (IF pcWorker[t] = "renewing" THEN 1 ELSE 0)
      BY <1>0, <2>5, <3>1 DEF Story
    <3>4. CASE WorkerBegin(t)
      <4>1. /\ pcWorker[t] = "spawned" /\ pcWorker'[t] = "renewing"
            /\ before'[k] = before[k] + 1 /\ after' = after /\ onError' = onError
        BY <1>0, <2>5, <3>4 DEF WorkerBegin, TypeOK
      <4>2. Live(t)'
        BY <2>3, <4>1 DEF Live, Past
      <4> QED
        BY <1>0, <2>3, <2>5, <3>2, <3>3, <4>1, <4>2 DEF Story
    <3>5. CASE WorkerSucceed(t)
      <4>1. /\ pcWorker[t] = "renewing" /\ pcWorker'[t] = "leaving"
            /\ before' = before /\ after'[k] = after[k] + 1 /\ onError' = onError
        BY <1>0, <2>5, <3>5 DEF WorkerSucceed, TypeOK
      <4>2. ~Live(t)'
        BY <4>1 DEF Live, Past
      <4> QED
        BY <1>0, <2>3, <2>5, <3>2, <3>3, <4>1, <4>2 DEF Story
    <3>6. CASE WorkerFail(t)
      <4>1. /\ pcWorker[t] = "renewing"
            /\ pcWorker'[t] = IF t.retry < MaxRetries THEN "retrying" ELSE "leaving"
            /\ before' = before /\ after' = after /\ onError'[k] = onError[k] + 1
        BY <1>0, <2>5, <3>6 DEF WorkerFail, TypeOK
      <4>2. Live(t)' <=> t.retry < MaxRetries
        BY <2>3, <4>1 DEF Live, Past
      <4> QED
        BY <1>0, <2>3, <2>5, <3>2, <3>3, <4>1, <4>2 DEF Story
    <3> QED
      BY <1>6, <2>5, <3>4, <3>5, <3>6
  <2> QED
    BY <1>1, <2>1, <2>4, <2>5
<1> QED
  BY <1>2, <1>3, <1>4, <1>5, <1>6 DEF Quiet, Next, Caller, Bridge, Loop, Worker

LEMMA HookInvariant == Spec => [](TaskInv /\ HookInv)
BY TaskInvInit, TaskInvStep, HookInvInit, HookInvStep, PTL DEF Spec

(* The running worker of a job is the one of its live task. *)
LEMMA RunningOfLive ==
    ASSUME TaskInv, NEW j \in Jobs
    PROVE  /\ (\A t \in Tasks : t.job = j => ~Live(t)) => Running(j) = {} /\ Spawned(j) = {}
           /\ \A t \in Tasks : t.job = j /\ Live(t) =>
                 /\ Running(j) = IF pcWorker[t] = "renewing" THEN {t} ELSE {}
                 /\ Spawned(j) = IF pcWorker[t] = "spawned" THEN {t} ELSE {}
<1>1. \A t \in Running(j) \cup Spawned(j) : t \in Tasks /\ t.job = j /\ Live(t)
  BY DEF Running, Spawned, Live, Known, Past
<1>2. ASSUME NEW t \in Tasks, t.job = j, Live(t)
      PROVE  /\ Running(j) = IF pcWorker[t] = "renewing" THEN {t} ELSE {}
             /\ Spawned(j) = IF pcWorker[t] = "spawned" THEN {t} ELSE {}
  <2>1. \A u \in Running(j) \cup Spawned(j) : u = t
    BY <1>1, <1>2, OneLive
  <2> QED
    BY <1>2, <2>1 DEF Running, Spawned
<1> QED
  BY <1>1, <1>2

(* before_renewal is answered once, by after_renewal or by on_error; a     *)
(* success is the last word, and so is the failure of the last retry.      *)
THEOREM HooksAreBalanced == Spec => []HooksBalanced
<1>1. TaskInv /\ HookInv => HooksBalanced
  <2> SUFFICES ASSUME TaskInv, HookInv, NEW j \in Jobs
               PROVE  /\ before[j] = after[j] + onError[j] + Cardinality(Running(j))
                      /\ after[j] <= 1
                      /\ onError[j] + after[j] <= MaxRetries + 1
    BY DEF HooksBalanced
  <2>0. /\ Story(j) /\ MaxRetries \in Nat
        /\ \A t \in Tasks : t.retry \in 0..MaxRetries
        /\ \A t \in Tasks : pcWorker[t] = "retrying" => t.retry < MaxRetries
        /\ before[j] \in Nat /\ after[j] \in Nat /\ onError[j] \in Nat
    BY HookInvByJob, ConstantsAssumption DEF TaskInv, TypeInv, TypeOK, RetryLeft, Tasks
  <2>1. ASSUME NEW t \in Tasks, t.job = j, Live(t)
        PROVE  /\ before[j] = after[j] + onError[j] + Cardinality(Running(j))
               /\ after[j] <= 1
               /\ onError[j] + after[j] <= MaxRetries + 1
    <3>1. Cardinality(Running(j)) = IF pcWorker[t] = "renewing" THEN 1 ELSE 0
      BY <2>1, RunningOfLive, FS_EmptySet, FS_Singleton
    <3> QED
      BY <2>0, <2>1, <3>1 DEF Story
  <2>2. CASE \A t \in Tasks : t.job = j => ~Live(t)
    <3>1. Cardinality(Running(j)) = 0
      BY <2>2, RunningOfLive, FS_EmptySet
    <3>2. \/ before[j] = 0 /\ after[j] = 0 /\ onError[j] = 0
          \/ /\ before[j] = after[j] + onError[j]
             /\ \/ after[j] = 1 /\ onError[j] <= MaxRetries
                \/ after[j] = 0 /\ onError[j] = MaxRetries + 1
      BY <2>0, <2>2 DEF Story
    <3> QED
      BY <2>0, <3>1, <3>2
  <2> QED
    BY <2>1, <2>2
<1> QED
  BY HookInvariant, <1>1, PTL

-----------------------------------------------------------------------------
(* Carriers *)

(* Whatever carries a job carries its live task. *)
LEMMA CarriersAreLive ==
    ASSUME TaskInv, NEW j \in Jobs
    PROVE  /\ \A i \in DOMAIN chan : chan[i].job = j => Live(chan[i])
           /\ bridgeTask \in Tasks /\ bridgeTask.job = j => Live(bridgeTask)
           /\ \A t \in heap : t.job = j => Live(t)
           /\ \A t \in Tasks :
                 t.job = j /\ pcWorker[t] \in {"spawned", "renewing", "retrying"} => Live(t)
<1>1. \A i \in DOMAIN chan : chan[i] \in Tasks
  BY DEF TaskInv, TypeInv, TypeOK
<1> QED
  BY <1>1 DEF TaskInv, OnTheWay, Live, Known, InChan, Past

LEMMA NoCarrier ==
    ASSUME TaskInv, NEW j \in Jobs, \A t \in Tasks : t.job = j => ~Live(t)
    PROVE  Carriers(j) = {}
<1>1. (\A i \in DOMAIN chan : chan[i] \in Tasks) /\ heap \subseteq Tasks
  BY DEF TaskInv, TypeInv, TypeOK
<1> QED
  BY <1>1, CarriersAreLive DEF Carriers

(* A live task is in one place. *)
LEMMA OneCarrierOfLive ==
    ASSUME TaskInv, NEW t \in Tasks, Live(t)
    PROVE  \E c : Carriers(t.job) = {c}
<1> DEFINE j == t.job
           Mine(u) == u \in Tasks /\ u.job = j
           InHands(u) == pcWorker[u] \in {"spawned", "renewing", "retrying"}
<1>0. j \in Jobs /\ (\A i \in DOMAIN chan : chan[i] \in Tasks) /\ heap \subseteq Tasks
  <2>1. t.job \in Jobs
    BY DEF Tasks
  <2>2. (\A i \in DOMAIN chan : chan[i] \in Tasks) /\ heap \subseteq Tasks
    BY DEF TaskInv, TypeInv, TypeOK
  <2> QED
    BY <2>1, <2>2
<1>1. /\ {k \in DOMAIN chan : Mine(chan[k])} = {k \in DOMAIN chan : chan[k] = t}
      /\ {u \in {bridgeTask} : Mine(u)} = {u \in {bridgeTask} : u = t}
      /\ {u \in heap : Mine(u)} = {u \in heap : u = t}
      /\ {u \in Tasks : Mine(u) /\ InHands(u)} = {u \in Tasks : u = t /\ InHands(u)}
  BY <1>0, CarriersAreLive, OneLive
<1>2. Carriers(j) = {<<"chan", i>> : i \in {k \in DOMAIN chan : chan[k] = t}}
                    \cup {<<"bridge", u>> : u \in {v \in {bridgeTask} : v = t}}
                    \cup {<<"heap", u>> : u \in {v \in heap : v = t}}
                    \cup {<<"worker", u>> : u \in {v \in Tasks : v = t /\ InHands(v)}}
  <2> HIDE DEF j
  <2> QED
    BY <1>1 DEF Carriers
<1>3. CASE InChan(t)
  <2>1. PICK i \in DOMAIN chan : chan[i] = t
    BY <1>3 DEF InChan
  <2>2. /\ {k \in DOMAIN chan : chan[k] = t} = {i}
        /\ t # bridgeTask /\ t \notin heap /\ pcWorker[t] = "none"
    BY <2>1 DEF TaskInv, OnTheWay
  <2>3. Carriers(j) = {<<"chan", i>>}
    BY <1>2, <2>2
  <2> QED
    BY <2>3
<1>4. CASE t = bridgeTask
  <2>1. /\ {k \in DOMAIN chan : chan[k] = t} = {}
        /\ t \notin heap /\ pcWorker[t] = "none"
    BY <1>4 DEF TaskInv, OnTheWay
  <2>2. Carriers(j) = {<<"bridge", t>>}
    BY <1>2, <1>4, <2>1
  <2> QED
    BY <2>2
<1>5. CASE t \in heap
  <2>1. /\ {k \in DOMAIN chan : chan[k] = t} = {}
        /\ t # bridgeTask /\ pcWorker[t] = "none"
    BY <1>5 DEF TaskInv, OnTheWay
  <2>2. Carriers(j) = {<<"heap", t>>}
    BY <1>2, <1>5, <2>1
  <2> QED
    BY <2>2
<1>6. CASE pcWorker[t] # "none"
  <2>1. /\ {k \in DOMAIN chan : chan[k] = t} = {}
        /\ t # bridgeTask /\ t \notin heap
    BY <1>6 DEF TaskInv, OnTheWay
  <2>2. InHands(t)
    BY <1>6 DEF Live, Past, TaskInv, TypeInv, TypeOK
  <2>3. Carriers(j) = {<<"worker", t>>}
    BY <1>2, <2>1, <2>2
  <2> QED
    BY <2>3
<1> QED
  BY <1>3, <1>4, <1>5, <1>6 DEF Live, Known

(* No retry, push or pop copies a task, and a job that has ended has none. *)
THEOREM JobsHaveOneCarrier == Spec => []OneCarrier
<1>1. TaskInv /\ HookInv => OneCarrier
  <2> SUFFICES ASSUME TaskInv, HookInv, NEW j \in Jobs
               PROVE  /\ Cardinality(Carriers(j)) <= 1
                      /\ Ended(j) => Carriers(j) = {}
    BY DEF OneCarrier
  <2>1. ASSUME NEW t \in Tasks, t.job = j, Live(t)
        PROVE  Cardinality(Carriers(j)) <= 1 /\ ~Ended(j)
    <3>1. Cardinality(Carriers(j)) = 1
      BY <2>1, OneCarrierOfLive, FS_Singleton
    <3>2. /\ t.retry \in 0..MaxRetries /\ MaxRetries \in Nat
          /\ pcWorker[t] = "retrying" => t.retry < MaxRetries
      BY ConstantsAssumption DEF TaskInv, TypeInv, RetryLeft, Tasks
    <3>3. after[j] = 0 /\ onError[j] # MaxRetries + 1
      BY <2>1, <3>2 DEF HookInv, LiveStory
    <3> QED
      BY <3>1, <3>3 DEF Ended
  <2>2. CASE \A t \in Tasks : t.job = j => ~Live(t)
    BY <2>2, NoCarrier, FS_EmptySet
  <2> QED
    BY <2>1, <2>2
<1> QED
  BY HookInvariant, <1>1, PTL

-----------------------------------------------------------------------------
(* The pool *)

(* How the pool sees a job, from its live task or from how it ended. *)
View ==
    /\ \A t \in Tasks : Live(t) =>
          /\ PoolStatus[t.job] =
                IF pcWorker[t] \in {"spawned", "renewing"} THEN "active" ELSE "pending"
          /\ PoolTries[t.job] = t.retry + (IF pcWorker[t] = "none" THEN 0 ELSE 1)
    /\ \A j \in Jobs : (\A t \in Tasks : t.job = j => ~Known(t)) =>
          PoolStatus[j] = "unknown" /\ PoolTries[j] = 0
    /\ \A j \in Jobs :
          /\ \E t \in Tasks : t.job = j /\ Known(t)
          /\ \A t \in Tasks : t.job = j => ~Live(t)
          => /\ PoolStatus[j] = IF after[j] = 1 THEN "renewed" ELSE "abandoned"
             /\ PoolTries[j] = before[j]

LEMMA PoolView == TaskInv /\ HookInv => View
<1> SUFFICES ASSUME TaskInv, HookInv PROVE View
  OBVIOUS
<1>0. /\ MaxRetries \in Nat
      /\ \A t \in Tasks : t.job \in Jobs /\ t.retry \in 0..MaxRetries
      /\ \A t \in Tasks : pcWorker[t] = "retrying" => t.retry < MaxRetries
      /\ \A j \in Jobs : before[j] \in Nat /\ after[j] \in Nat /\ onError[j] \in Nat
  BY ConstantsAssumption DEF TaskInv, TypeInv, TypeOK, RetryLeft, Tasks
<1>1. ASSUME NEW t \in Tasks, Live(t)
      PROVE  /\ PoolStatus[t.job] =
                   IF pcWorker[t] \in {"spawned", "renewing"} THEN "active" ELSE "pending"
             /\ PoolTries[t.job] = t.retry + (IF pcWorker[t] = "none" THEN 0 ELSE 1)
  <2>1. /\ after[t.job] = 0 /\ onError[t.job] # MaxRetries + 1
        /\ before[t.job] = t.retry + (IF pcWorker[t] \in {"renewing", "retrying"} THEN 1 ELSE 0)
    BY <1>0, <1>1 DEF HookInv, LiveStory
  <2>2. Carriers(t.job) # {}
    BY <1>1, OneCarrierOfLive
  <2>3. Running(t.job) \cup Spawned(t.job) # {} <=> pcWorker[t] \in {"spawned", "renewing"}
    BY <1>0, <1>1, RunningOfLive
  <2>4. Cardinality(Spawned(t.job)) = IF pcWorker[t] = "spawned" THEN 1 ELSE 0
    BY <1>0, <1>1, RunningOfLive, FS_EmptySet, FS_Singleton
  <2>5. pcWorker[t] \in {"none", "spawned", "renewing", "retrying"}
    BY <1>1 DEF Live, Past, TaskInv, TypeInv, TypeOK
  <2>6. PoolStatus[t.job] =
           IF pcWorker[t] \in {"spawned", "renewing"} THEN "active" ELSE "pending"
    <3>1. ~(after[t.job] > 0)
      BY <2>1
    <3>2. CASE pcWorker[t] \in {"spawned", "renewing"}
      BY <1>0, <2>1, <2>3, <3>1, <3>2 DEF PoolStatus
    <3>3. CASE pcWorker[t] \notin {"spawned", "renewing"}
      BY <1>0, <2>1, <2>2, <2>3, <3>1, <3>3 DEF PoolStatus
    <3> QED
      BY <3>2, <3>3
  <2>7. PoolTries[t.job] = before[t.job] + Cardinality(Spawned(t.job))
    BY <1>0 DEF PoolTries
  <2> QED
    BY <1>0, <2>1, <2>4, <2>5, <2>6, <2>7
<1>2. ASSUME NEW j \in Jobs, \A t \in Tasks : t.job = j => ~Live(t)
      PROVE  /\ PoolTries[j] = before[j]
             /\ PoolStatus[j] = IF after[j] > 0 THEN "renewed"
                                ELSE IF onError[j] = MaxRetries + 1 THEN "abandoned"
                                ELSE "unknown"
  <2>1. Running(j) = {} /\ Spawned(j) = {} /\ Carriers(j) = {}
    BY <1>2, RunningOfLive, NoCarrier
  <2>2. PoolTries[j] = before[j]
    BY <1>0, <2>1, FS_EmptySet DEF PoolTries
  <2>3. PoolStatus[j] = IF after[j] > 0 THEN "renewed"
                        ELSE IF onError[j] = MaxRetries + 1 THEN "abandoned"
                        ELSE "unknown"
    BY <2>1 DEF PoolStatus
  <2> QED
    BY <2>2, <2>3
<1>3. ASSUME NEW j \in Jobs, \A t \in Tasks : t.job = j => ~Known(t)
      PROVE  PoolStatus[j] = "unknown" /\ PoolTries[j] = 0
  <2>1. before[j] = 0 /\ after[j] = 0 /\ onError[j] = 0
    BY <1>3 DEF HookInv, NoStory
  <2> QED
    BY <1>0, <1>2, <1>3, <2>1 DEF Live
<1>4. ASSUME NEW j \in Jobs, \E t \in Tasks : t.job = j /\ Known(t),
             \A t \in Tasks : t.job = j => ~Live(t)
      PROVE  /\ PoolStatus[j] = IF after[j] = 1 THEN "renewed" ELSE "abandoned"
             /\ PoolTries[j] = before[j]
  <2>1. \/ after[j] = 1 /\ onError[j] <= MaxRetries
        \/ after[j] = 0 /\ onError[j] = MaxRetries + 1
    BY <1>4 DEF HookInv, WholeStory
  <2> QED
    BY <1>0, <1>2, <1>4, <2>1
<1> QED
  BY <1>1, <1>3, <1>4 DEF View

LEMMA ViewInit == Init => Pool!PoolInit
<1> SUFFICES ASSUME Init PROVE Pool!PoolInit
  OBVIOUS
<1>1. \A t \in Tasks : ~Known(t)
  BY NoTaskAssumption DEF Init, Known, InChan
<1>2. View
  BY TaskInvInit, HookInvInit, PoolView
<1>3. \A j \in Jobs : PoolStatus[j] = "unknown" /\ PoolTries[j] = 0
  BY <1>1, <1>2 DEF View
<1>4. /\ PoolStatus = [j \in Jobs |-> PoolStatus[j]]
      /\ PoolTries = [j \in Jobs |-> PoolTries[j]]
  BY DEF PoolStatus, PoolTries
<1> QED
  BY <1>3, <1>4 DEF Pool!PoolInit

(* A step that concerns job j only changes the pool there only. *)
LEMMA PoolMoves ==
    ASSUME NEW j \in Jobs, NEW s, NEW n, PoolStatus'[j] = s, PoolTries'[j] = n,
           \A k \in Jobs : k # j => PoolStatus'[k] = PoolStatus[k] /\ PoolTries'[k] = PoolTries[k]
    PROVE  /\ PoolStatus' = [PoolStatus EXCEPT ![j] = s]
           /\ PoolTries' = [PoolTries EXCEPT ![j] = n]
<1>1. /\ PoolStatus = [k \in Jobs |-> PoolStatus[k]]
      /\ PoolTries = [k \in Jobs |-> PoolTries[k]]
      /\ PoolStatus' = [k \in Jobs |-> PoolStatus'[k]]
      /\ PoolTries' = [k \in Jobs |-> PoolTries'[k]]
  BY DEF PoolStatus, PoolTries
<1> QED
  BY <1>1

LEMMA PoolStays ==
    ASSUME \A k \in Jobs : PoolStatus'[k] = PoolStatus[k] /\ PoolTries'[k] = PoolTries[k]
    PROVE  UNCHANGED Pool!poolVars
<1>1. /\ PoolStatus = [k \in Jobs |-> PoolStatus[k]]
      /\ PoolTries = [k \in Jobs |-> PoolTries[k]]
      /\ PoolStatus' = [k \in Jobs |-> PoolStatus'[k]]
      /\ PoolTries' = [k \in Jobs |-> PoolTries'[k]]
  BY DEF PoolStatus, PoolTries
<1> QED
  BY <1>1 DEF Pool!poolVars

LEMMA SameView ==
    ASSUME View, View', NEW j \in Jobs, SameJob(j)
    PROVE  PoolStatus'[j] = PoolStatus[j] /\ PoolTries'[j] = PoolTries[j]
<1>1. \A t \in Tasks : t.job = j => (Live(t)' <=> Live(t))
  BY DEF SameJob, Live, Past
<1>2. CASE \E t \in Tasks : t.job = j /\ Live(t)
  <2>1. PICK t \in Tasks : t.job = j /\ Live(t)
    BY <1>2
  <2>2. Live(t)' /\ pcWorker'[t] = pcWorker[t]
    BY <1>1, <2>1 DEF SameJob
  <2> QED
    BY <2>1, <2>2 DEF View
<1>3. CASE \A t \in Tasks : t.job = j => ~Known(t)
  BY <1>3 DEF View, SameJob
<1>4. CASE /\ \E t \in Tasks : t.job = j /\ Known(t)
           /\ \A t \in Tasks : t.job = j => ~Live(t)
  <2>1. /\ \E t \in Tasks : t.job = j /\ Known(t)'
        /\ \A t \in Tasks : t.job = j => ~Live(t)'
    BY <1>1, <1>4 DEF SameJob
  <2> QED
    BY <1>4, <2>1 DEF View, SameJob
<1> QED
  BY <1>2, <1>3, <1>4

(* The jobs in workers' hands are no more than the permits handed out. *)
LEMMA ActiveHold ==
    ASSUME TaskInv, View, IsFiniteSet(Holding)
    PROVE  IsFiniteSet(Pool!Active) /\ Cardinality(Pool!Active) <= Cardinality(Holding)
<1> DEFINE S == {t \in Holding : pcWorker[t] \in {"spawned", "renewing"}}
           f == [t \in S |-> t.job]
<1>1. IsFiniteSet(S) /\ Cardinality(S) <= Cardinality(Holding)
  BY FS_Subset
<1>2. \A t \in S : t \in Tasks /\ t.job \in Jobs /\ Live(t)
  BY DEF Holding, Live, Known, Past, Tasks
<1>3. \A t \in S : t.job \in Pool!Active
  BY <1>2 DEF View, Pool!Active
<1>4. ASSUME NEW j \in Pool!Active
      PROVE  \E t \in S : t.job = j
  <2>1. j \in Jobs /\ PoolStatus[j] = "active"
    BY <1>4 DEF Pool!Active
  <2>2. PICK t \in Tasks : t.job = j /\ Live(t)
    BY <2>1 DEF View
  <2>3. pcWorker[t] \in {"spawned", "renewing"}
    BY <2>1, <2>2 DEF View
  <2> QED
    BY <2>2, <2>3 DEF Holding
<1>5. f \in Surjection(S, Pool!Active)
  BY <1>3, <1>4 DEF Surjection
<1>6. IsFiniteSet(Pool!Active) /\ Cardinality(Pool!Active) <= Cardinality(S)
  BY <1>1, <1>5, FS_Surjection
<1>7. Cardinality(S) \in Nat /\ Cardinality(Holding) \in Nat /\ Cardinality(Pool!Active) \in Nat
  BY <1>1, <1>6, FS_CardinalityType
<1> QED
  BY <1>1, <1>6, <1>7

(* The pool counts with the same operator. *)
LEMMA SameCount == \A S : Pool!Cardinality(S) = Cardinality(S)
BY DEF Pool!Cardinality, Cardinality

PoolInv == TaskInv /\ HookInv /\ PermitInv /\ View

LEMMA PoolStep ==
    PoolInv /\ PoolInv' /\ [Next]_vars => [Pool!PoolNext]_(Pool!poolVars)
<1> SUFFICES ASSUME PoolInv, PoolInv', [Next]_vars
             PROVE  \/ \E j \in Jobs : Pool!Submit(j) \/ Pool!Start(j) \/ Pool!Renew(j) \/ Pool!Fail(j)
                    \/ UNCHANGED Pool!poolVars
  BY DEF Pool!PoolNext
<1> USE DEF PoolInv
<1>0. /\ MaxRetries \in Nat /\ Concurrency \in Nat
      /\ \A t \in Tasks : t.job \in Jobs /\ t.retry \in 0..MaxRetries
      /\ TypeOK
  BY ConstantsAssumption DEF TaskInv, TypeInv, Tasks
<1>1. CASE Quiet
  BY <1>1, QuietStep, SameView, PoolStays
<1>2. ASSUME NEW c \in Callers, SendTask(c)
      PROVE  \E j \in Jobs : Pool!Submit(j)
  <2>1. PICK j \in Jobs :
           /\ First(j) \in Tasks /\ pcWorker'[First(j)] = "none"
           /\ \A t \in Tasks : t.job = j => ~Known(t) /\ (Known(t)' <=> t = First(j))
           /\ \A k \in Jobs : k # j => SameJob(k)
    BY <1>2, SendTaskStep
  <2>2. PoolStatus[j] = "unknown" /\ PoolTries[j] = 0
    BY <2>1 DEF View
  <2>3. First(j).job = j /\ First(j).retry = 0
    BY DEF First
  <2>4. Live(First(j))'
    BY <2>1, <2>3 DEF Live, Past
  <2>5. PoolStatus'[j] = "pending" /\ PoolTries'[j] = 0
    BY <2>1, <2>3, <2>4 DEF View
  <2>6. /\ PoolStatus' = [PoolStatus EXCEPT ![j] = "pending"]
        /\ PoolTries' = [PoolTries EXCEPT ![j] = 0]
    BY <2>1, <2>5, SameView, PoolMoves
  <2>7. PoolTries' = PoolTries
    BY <2>2, <2>6 DEF PoolTries
  <2> QED
    BY <2>2, <2>6, <2>7 DEF Pool!Submit
<1>3. CASE LoopPop
  <2>1. PICK t \in heap :
           /\ t \in Tasks /\ t.job \in Jobs
           /\ pcWorker[t] = "none" /\ pcWorker'[t] = "spawned" /\ Known(t)
           /\ \A u \in Tasks : (Known(u)' <=> Known(u)) /\ (u # t => pcWorker'[u] = pcWorker[u])
           /\ \A j \in Jobs : j # t.job => SameJob(j)
    BY <1>3, PopStep
  <2>2. Live(t) /\ Live(t)'
    BY <2>1 DEF Live, Past
  <2>3. /\ PoolStatus[t.job] = "pending" /\ PoolTries[t.job] = t.retry
        /\ PoolStatus'[t.job] = "active" /\ PoolTries'[t.job] = t.retry + 1
    BY <1>0, <2>1, <2>2 DEF View
  <2>4. Cardinality(Pool!Active) < Concurrency
    <3>1. /\ IsFiniteSet(Pool!Active)
          /\ Cardinality(Pool!Active) <= Cardinality(Holding)
      BY ActiveHold DEF PermitInv
    <3>2. pcLoop = "pop"
      BY <1>3 DEF LoopPop
    <3>3. permits + 1 + Cardinality(Holding) = Concurrency
      BY <3>2 DEF PermitInv, PermitsConserved
    <3>4. /\ Cardinality(Holding) \in Nat /\ Cardinality(Pool!Active) \in Nat
          /\ permits \in Nat
      BY <1>0, <3>1, FS_CardinalityType DEF PermitInv, TypeOK
    <3> QED
      BY <1>0, <3>1, <3>3, <3>4
  <2>5. /\ PoolStatus' = [PoolStatus EXCEPT ![t.job] = "active"]
        /\ PoolTries' = [PoolTries EXCEPT ![t.job] = PoolTries[t.job] + 1]
    <3>1. PoolTries'[t.job] = PoolTries[t.job] + 1
      BY <2>3
    <3> QED
      BY <2>1, <2>3, <3>1, SameView, PoolMoves
  <2>6. Pool!Start(t.job)
    <3>1. Pool!Cardinality(Pool!Active) < Concurrency
      BY <2>4, SameCount
    <3> QED
      BY <2>3, <2>5, <3>1 DEF Pool!Start
  <2> QED
    BY <2>1, <2>6
<1>4. ASSUME NEW t \in Tasks, WorkerRetry(t)
      PROVE  UNCHANGED Pool!poolVars
  <2> DEFINE x == NextTry(t)
  <2>1. /\ x \in Tasks /\ x.job = t.job /\ x.retry = t.retry + 1
        /\ Known(t) /\ ~Known(x) /\ pcWorker'[x] = "none" /\ pcWorker[t] = "retrying"
        /\ \A u \in Tasks : Known(u)' <=> Known(u) \/ u = x
        /\ \A j \in Jobs : j # t.job => SameJob(j)
    BY <1>4, RetryStep
  <2> HIDE DEF x
  <2>2. Live(t) /\ Live(x)'
    BY <2>1 DEF Live, Past
  <2>3. PoolStatus[t.job] = "pending" /\ PoolTries[t.job] = t.retry + 1
    BY <2>1, <2>2 DEF View
  <2>4. PoolStatus'[t.job] = "pending" /\ PoolTries'[t.job] = t.retry + 1
    BY <1>0, <2>1, <2>2 DEF View
  <2> QED
    BY <2>1, <2>3, <2>4, SameView, PoolStays
<1>5. ASSUME NEW t \in Tasks,
             WorkerBegin(t) \/ WorkerSucceed(t) \/ WorkerFail(t) \/ WorkerLeave(t)
      PROVE  \/ \E j \in Jobs : Pool!Renew(j) \/ Pool!Fail(j)
             \/ UNCHANGED Pool!poolVars
  <2>1. /\ t.job \in Jobs /\ t.retry \in 0..MaxRetries
        /\ Known(t)
        /\ \A u \in Tasks : (Known(u)' <=> Known(u)) /\ (u # t => pcWorker'[u] = pcWorker[u])
        /\ \A j \in Jobs : j # t.job => SameJob(j)
    BY <1>5, WorkStep
  <2>2. CASE WorkerBegin(t)
    <3>1. pcWorker[t] = "spawned" /\ pcWorker'[t] = "renewing"
      BY <1>0, <2>2 DEF WorkerBegin, TypeOK
    <3>2. Live(t) /\ Live(t)'
      BY <2>1, <3>1 DEF Live, Past
    <3>3. PoolStatus[t.job] = PoolStatus'[t.job] /\ PoolTries[t.job] = PoolTries'[t.job]
      BY <3>1, <3>2 DEF View
    <3> QED
      BY <2>1, <3>3, SameView, PoolStays
  <2>3. CASE WorkerSucceed(t)
    <3>1. /\ pcWorker[t] = "renewing" /\ pcWorker'[t] = "leaving"
          /\ after'[t.job] = after[t.job] + 1 /\ before' = before
      BY <1>0, <2>3 DEF WorkerSucceed, TypeOK
    <3>2. Live(t) /\ ~Live(t)' /\ \A u \in Tasks : u.job = t.job /\ Live(u) => u = t
      BY <2>1, <3>1, OneLive DEF Live, Past
    <3>3. \A u \in Tasks : u.job = t.job => ~Live(u)'
      BY <2>1, <3>2 DEF Live, Past
    <3>4. after[t.job] = 0 /\ before[t.job] = t.retry + 1
      BY <3>1, <3>2 DEF HookInv, LiveStory
    <3>5. /\ PoolStatus[t.job] = "active" /\ PoolTries[t.job] = t.retry + 1
          /\ PoolStatus'[t.job] = "renewed" /\ PoolTries'[t.job] = t.retry + 1
      BY <2>1, <3>1, <3>2, <3>3, <3>4 DEF View
    <3>6. /\ PoolStatus' = [PoolStatus EXCEPT ![t.job] = "renewed"]
          /\ PoolTries' = [PoolTries EXCEPT ![t.job] = t.retry + 1]
      BY <2>1, <3>5, SameView, PoolMoves
    <3>7. PoolTries' = PoolTries
      BY <3>5, <3>6 DEF PoolTries
    <3> QED
      BY <2>1, <3>5, <3>6, <3>7 DEF Pool!Renew
  <2>4. CASE WorkerFail(t)
    <3>1. /\ pcWorker[t] = "renewing" /\ before' = before /\ after' = after
          /\ pcWorker'[t] = IF t.retry < MaxRetries THEN "retrying" ELSE "leaving"
      BY <1>0, <2>4 DEF WorkerFail, TypeOK
    <3>2. Live(t) /\ \A u \in Tasks : u.job = t.job /\ Live(u) => u = t
      BY <2>1, <3>1, OneLive DEF Live, Past
    <3>3. \A u \in Tasks : u.job = t.job /\ u # t => ~Live(u)'
      BY <2>1, <3>2 DEF Live, Past
    <3>4. after[t.job] = 0 /\ before[t.job] = t.retry + 1
      BY <3>1, <3>2 DEF HookInv, LiveStory
    <3>5. PoolStatus[t.job] = "active" /\ PoolTries[t.job] = t.retry + 1
      BY <3>1, <3>2 DEF View
    <3>6. CASE t.retry < MaxRetries
      <4>1. Live(t)' /\ pcWorker'[t] = "retrying"
        BY <2>1, <3>1, <3>6 DEF Live, Past
      <4> QED
        <5>1. PoolStatus'[t.job] = "pending" /\ PoolTries'[t.job] = t.retry + 1
          BY <4>1 DEF View
        <5>2. /\ PoolStatus' = [PoolStatus EXCEPT ![t.job] = "pending"]
              /\ PoolTries' = [PoolTries EXCEPT ![t.job] = t.retry + 1]
          BY <2>1, <5>1, SameView, PoolMoves
        <5>3. PoolTries' = PoolTries
          BY <3>5, <5>2 DEF PoolTries
        <5>4. PoolTries[t.job] <= MaxRetries
          BY <1>0, <2>1, <3>5, <3>6
        <5> QED
          BY <2>1, <3>5, <5>2, <5>3, <5>4 DEF Pool!Fail
    <3>7. CASE ~(t.retry < MaxRetries)
      <4>1. ~Live(t)' /\ Known(t)'
        BY <2>1, <3>1, <3>7 DEF Live, Past
      <4>2. PoolStatus'[t.job] = "abandoned" /\ PoolTries'[t.job] = t.retry + 1
        BY <2>1, <3>1, <3>3, <3>4, <4>1 DEF View
      <4>3. /\ PoolStatus' = [PoolStatus EXCEPT ![t.job] = "abandoned"]
            /\ PoolTries' = [PoolTries EXCEPT ![t.job] = t.retry + 1]
        BY <2>1, <4>2, SameView, PoolMoves
      <4>4. PoolTries' = PoolTries
        BY <3>5, <4>3 DEF PoolTries
      <4>5. ~(PoolTries[t.job] <= MaxRetries)
        BY <1>0, <2>1, <3>5, <3>7
      <4> QED
        BY <2>1, <3>5, <4>3, <4>4, <4>5 DEF Pool!Fail
    <3> QED
      BY <3>6, <3>7
  <2>5. CASE WorkerLeave(t)
    <3>1. /\ pcWorker[t] = "leaving" /\ pcWorker'[t] = "gone"
          /\ before' = before /\ after' = after /\ onError' = onError
      BY <1>0, <2>5 DEF WorkerLeave, TypeOK, hookVars
    <3>2. \A u \in Tasks : Live(u)' <=> Live(u)
      BY <2>1, <3>1 DEF Live, Past
    <3>3. PoolStatus'[t.job] = PoolStatus[t.job] /\ PoolTries'[t.job] = PoolTries[t.job]
      <4>1. CASE \E u \in Tasks : u.job = t.job /\ Live(u)
        <5>1. PICK u \in Tasks : u.job = t.job /\ Live(u)
          BY <4>1
        <5>2. u # t /\ pcWorker'[u] = pcWorker[u]
          BY <2>1, <3>1, <5>1 DEF Live, Past
        <5> QED
          BY <3>2, <5>1, <5>2 DEF View
      <4>2. CASE \A u \in Tasks : u.job = t.job => ~Live(u)
        BY <2>1, <3>1, <3>2, <4>2 DEF View
      <4> QED
        BY <4>1, <4>2
    <3> QED
      BY <2>1, <3>3, SameView, PoolStays
  <2> QED
    BY <1>5, <2>2, <2>3, <2>4, <2>5
<1> QED
  BY <1>1, <1>2, <1>3, <1>4, <1>5 DEF Quiet, Next, Caller, Bridge, Loop, Worker

(* The scheduler implements the pool: what it does to a job is to submit   *)
(* it, to start it within the limit, to renew it, or to put it back or     *)
(* abandon it, and all its other steps leave the pool as it is.            *)
THEOREM SchedulerImplementsPool == Spec => ImplementsPool
<1>1. Spec => []PoolInv
  BY HookInvariant, PermitInvariant, PoolView, PTL DEF PoolInv
<1> QED
  BY <1>1, ViewInit, PoolStep, PTL DEF Spec, ImplementsPool, Pool!PoolSpec

=============================================================================
