-------------------------- MODULE RenewalScheduler --------------------------
(***************************************************************************)
(* AdvancedRenewalScheduler (src/scheduler/renewal_scheduler.rs).          *)
(*                                                                         *)
(*   callers --send--> chan --bridge--> heap --run loop--> workers         *)
(*                      ^                                    |             *)
(*                      +-------------- retry ---------------+             *)
(*                                                                         *)
(* Callers are run_once_internal, which sends one task for every           *)
(* certificate the store lists, and holders of a TaskSender.  The bridge   *)
(* is the task spawned by new(): it moves tasks from the bounded channel   *)
(* to the heap and then calls notify_waiters(), which wakes only a loop    *)
(* that is already waiting.  The run loop looks at the heap, takes a       *)
(* semaphore permit, pops a task and spawns a worker that owns the permit. *)
(* Every await, and every point at which another thread of the runtime may *)
(* run between two accesses to shared state, separates two actions.        *)
(***************************************************************************)
EXTENDS Naturals, Sequences, FiniteSets

CONSTANTS
    Jobs,         \* renewal requests: one per certificate of a scan, or one
                  \* per task sent through a TaskSender
    Callers,      \* the run_once_internal calls and the TaskSender users
    CallerOf,     \* CallerOf[j]: the caller that submits j
    PriorityOf,   \* PriorityOf[j]: the priority of j's task (a retry keeps it)
    Concurrency,  \* permits of the semaphore of run()
    ChanCap,      \* capacity of the mpsc channel, 100 in the code
    MaxRetries,   \* 3 in the code
    NoTask        \* the bridge or the loop holds no task

ASSUME ConstantsAssumption ==
    /\ CallerOf \in [Jobs -> Callers]
    /\ PriorityOf \in [Jobs -> 0..3]
    /\ Concurrency \in Nat
    /\ ChanCap \in Nat \ {0}
    /\ MaxRetries \in Nat

Tasks == [job : Jobs, retry : 0..MaxRetries]

ASSUME NoTaskAssumption == NoTask \notin Tasks

VARIABLES
    pcCaller,     \* "new", "sending" or "returned"
    todo,         \* todo[c]: jobs that caller c has still to send
    chan,         \* the mpsc channel
    pcBridge,     \* "recv", "push" or "notify"
    bridgeTask,   \* the task received and not yet pushed
    heap,         \* tasks in the BinaryHeap; no task is ever in it twice
    pcLoop,       \* "check", "empty" (heap seen empty, lock released),
                  \* "waiting" (registered with the notifier), "acquire", "pop"
    permits,      \* free permits of the semaphore
    pcWorker,     \* pcWorker[t]: where the worker spawned for task t is
    before, after, onError   \* calls of the three hooks, per job

callerVars == <<pcCaller, todo>>
bridgeVars == <<pcBridge, bridgeTask>>
hookVars   == <<before, after, onError>>
vars == <<pcCaller, todo, chan, pcBridge, bridgeTask, heap, pcLoop, permits,
          pcWorker, before, after, onError>>

Init ==
    /\ pcCaller = [c \in Callers |-> "new"]
    /\ todo = [c \in Callers |-> {}]
    /\ chan = <<>>
    /\ pcBridge = "recv"
    /\ bridgeTask = NoTask
    /\ heap = {}
    /\ pcLoop = "check"
    /\ permits = Concurrency
    /\ pcWorker = [t \in Tasks |-> "none"]
    /\ before = [j \in Jobs |-> 0]
    /\ after = [j \in Jobs |-> 0]
    /\ onError = [j \in Jobs |-> 0]

-----------------------------------------------------------------------------
(* Callers *)

(* run_once_internal: list_all() returns what the store holds at this      *)
(* moment (nothing, if it fails).  A TaskSender user has one job.          *)
ListAll(c) ==
    /\ pcCaller[c] = "new"
    /\ \E found \in SUBSET {j \in Jobs : CallerOf[j] = c} :
          todo' = [todo EXCEPT ![c] = found]
    /\ pcCaller' = [pcCaller EXCEPT ![c] = "sending"]
    /\ UNCHANGED <<chan, bridgeVars, heap, pcLoop, permits, pcWorker, hookVars>>

(* task_tx.send(task).await: waits while the channel is full. *)
SendTask(c) ==
    /\ pcCaller[c] = "sending"
    /\ Len(chan) < ChanCap
    /\ \E j \in todo[c] :
          /\ chan' = Append(chan, [job |-> j, retry |-> 0])
          /\ todo' = [todo EXCEPT ![c] = @ \ {j}]
    /\ UNCHANGED <<pcCaller, bridgeVars, heap, pcLoop, permits, pcWorker, hookVars>>

Return(c) ==
    /\ pcCaller[c] = "sending"
    /\ todo[c] = {}
    /\ pcCaller' = [pcCaller EXCEPT ![c] = "returned"]
    /\ UNCHANGED <<todo, chan, bridgeVars, heap, pcLoop, permits, pcWorker, hookVars>>

-----------------------------------------------------------------------------
(* The bridge from the channel to the heap *)

BridgeRecv ==
    /\ pcBridge = "recv"
    /\ chan # <<>>
    /\ bridgeTask' = Head(chan)
    /\ chan' = Tail(chan)
    /\ pcBridge' = "push"
    /\ UNCHANGED <<callerVars, heap, pcLoop, permits, pcWorker, hookVars>>

BridgePush ==
    /\ pcBridge = "push"
    /\ heap' = heap \cup {bridgeTask}
    /\ bridgeTask' = NoTask
    /\ pcBridge' = "notify"
    /\ UNCHANGED <<callerVars, chan, pcLoop, permits, pcWorker, hookVars>>

(* Faulty variant: the woken loop does not look at the heap again. *)
BridgeNotifyTrusted ==
    /\ pcBridge = "notify"
    /\ pcLoop' = IF pcLoop = "waiting" THEN "acquire" ELSE pcLoop
    /\ pcBridge' = "recv"
    /\ UNCHANGED <<callerVars, chan, bridgeTask, heap, permits, pcWorker, hookVars>>

(* notify_waiters() wakes a loop that waits and leaves nothing behind for  *)
(* a loop that has not registered yet.                                     *)
BridgeNotify ==
    /\ pcBridge = "notify"
    /\ pcLoop' = IF pcLoop = "waiting" THEN "check" ELSE pcLoop
    /\ pcBridge' = "recv"
    /\ UNCHANGED <<callerVars, chan, bridgeTask, heap, permits, pcWorker, hookVars>>

-----------------------------------------------------------------------------
(* The loop of run() *)

(* Under the lock: is the heap empty?  The lock is released either way. *)
LoopCheck ==
    /\ pcLoop = "check"
    /\ pcLoop' = IF heap = {} THEN "empty" ELSE "acquire"
    /\ UNCHANGED <<callerVars, chan, bridgeVars, heap, permits, pcWorker, hookVars>>

(* notified() is created only now, after drop(q). *)
LoopWait ==
    /\ pcLoop = "empty"
    /\ pcLoop' = "waiting"
    /\ UNCHANGED <<callerVars, chan, bridgeVars, heap, permits, pcWorker, hookVars>>

LoopAcquire ==
    /\ pcLoop = "acquire"
    /\ permits > 0
    /\ permits' = permits - 1
    /\ pcLoop' = "pop"
    /\ UNCHANGED <<callerVars, chan, bridgeVars, heap, pcWorker, hookVars>>

(* RenewalTask::cmp compares priorities only, so pop() may return any task *)
(* of the highest priority present.                                        *)
Highest(tasks) ==
    {t \in tasks : \A u \in tasks : PriorityOf[u.job] <= PriorityOf[t.job]}

(* Faulty variant: peek() instead of pop(). *)
LoopPeek ==
    /\ pcLoop = "pop"
    /\ \E t \in Highest(heap) : pcWorker' = [pcWorker EXCEPT ![t] = "spawned"]
    /\ pcLoop' = "check"
    /\ UNCHANGED <<callerVars, chan, bridgeVars, heap, permits, hookVars>>

(* pop().unwrap(), and the spawn of the worker that owns the permit. *)
LoopPop ==
    /\ pcLoop = "pop"
    /\ \E t \in Highest(heap) :
          /\ heap' = heap \ {t}
          /\ pcWorker' = [pcWorker EXCEPT ![t] = "spawned"]
    /\ pcLoop' = "check"
    /\ UNCHANGED <<callerVars, chan, bridgeVars, permits, hookVars>>

-----------------------------------------------------------------------------
(* Workers *)

WorkerBegin(t) ==
    /\ pcWorker[t] = "spawned"
    /\ before' = [before EXCEPT ![t.job] = @ + 1]
    /\ pcWorker' = [pcWorker EXCEPT ![t] = "renewing"]
    /\ UNCHANGED <<callerVars, chan, bridgeVars, heap, pcLoop, permits, after, onError>>

WorkerSucceed(t) ==
    /\ pcWorker[t] = "renewing"
    /\ after' = [after EXCEPT ![t.job] = @ + 1]
    /\ pcWorker' = [pcWorker EXCEPT ![t] = "leaving"]
    /\ UNCHANGED <<callerVars, chan, bridgeVars, heap, pcLoop, permits, before, onError>>

WorkerFail(t) ==
    /\ pcWorker[t] = "renewing"
    /\ onError' = [onError EXCEPT ![t.job] = @ + 1]
    /\ pcWorker' = [pcWorker EXCEPT
                      ![t] = IF t.retry < MaxRetries THEN "retrying" ELSE "leaving"]
    /\ UNCHANGED <<callerVars, chan, bridgeVars, heap, pcLoop, permits, before, after>>

(* next_task: the same request with its retry count advanced. *)
NextTry(t) == [job |-> t.job, retry |-> t.retry + 1]

(* Faulty variant: the permit is dropped before the retry is sent, and     *)
(* again when the worker ends.                                             *)
WorkerRetryReleasing(t) ==
    /\ pcWorker[t] = "retrying"
    /\ Len(chan) < ChanCap
    /\ chan' = Append(chan, NextTry(t))
    /\ permits' = permits + 1
    /\ pcWorker' = [pcWorker EXCEPT ![t] = "leaving"]
    /\ UNCHANGED <<callerVars, bridgeVars, heap, pcLoop, hookVars>>

(* Faulty variant: the retry count of the next task is not advanced. *)
WorkerRetryUncounted(t) ==
    /\ pcWorker[t] = "retrying"
    /\ Len(chan) < ChanCap
    /\ chan' = Append(chan, t)
    /\ pcWorker' = [pcWorker EXCEPT ![t] = "leaving"]
    /\ UNCHANGED <<callerVars, bridgeVars, heap, pcLoop, permits, hookVars>>

(* Faulty variant: try_send instead of send, with its result ignored. *)
WorkerRetryTry(t) ==
    /\ pcWorker[t] = "retrying"
    /\ chan' = IF Len(chan) < ChanCap THEN Append(chan, NextTry(t))
                                      ELSE chan
    /\ pcWorker' = [pcWorker EXCEPT ![t] = "leaving"]
    /\ UNCHANGED <<callerVars, bridgeVars, heap, pcLoop, permits, hookVars>>

(* Faulty variant: a second permit is awaited for sending the retry. *)
WorkerRetryNested(t) ==
    /\ pcWorker[t] = "retrying"
    /\ Len(chan) < ChanCap /\ permits > 0
    /\ chan' = Append(chan, NextTry(t))
    /\ pcWorker' = [pcWorker EXCEPT ![t] = "leaving"]
    /\ UNCHANGED <<callerVars, bridgeVars, heap, pcLoop, permits, hookVars>>

(* The retry goes through the same channel while the permit is still held. *)
WorkerRetry(t) ==
    /\ pcWorker[t] = "retrying"
    /\ Len(chan) < ChanCap
    /\ chan' = Append(chan, NextTry(t))
    /\ pcWorker' = [pcWorker EXCEPT ![t] = "leaving"]
    /\ UNCHANGED <<callerVars, bridgeVars, heap, pcLoop, permits, hookVars>>

(* Faulty variant: the permit is forgotten when the worker ends. *)
WorkerLeaveLeaking(t) ==
    /\ pcWorker[t] = "leaving"
    /\ pcWorker' = [pcWorker EXCEPT ![t] = "gone"]
    /\ UNCHANGED <<callerVars, chan, bridgeVars, heap, pcLoop, permits, hookVars>>

(* The end of the spawned task drops its permit. *)
WorkerLeave(t) ==
    /\ pcWorker[t] = "leaving"
    /\ permits' = permits + 1
    /\ pcWorker' = [pcWorker EXCEPT ![t] = "gone"]
    /\ UNCHANGED <<callerVars, chan, bridgeVars, heap, pcLoop, hookVars>>

-----------------------------------------------------------------------------
Caller(c) == ListAll(c) \/ SendTask(c) \/ Return(c)
Bridge == BridgeRecv \/ BridgePush \/ BridgeNotify
Loop == LoopCheck \/ LoopWait \/ LoopAcquire \/ LoopPop
Worker(t) ==
    \/ WorkerBegin(t) \/ WorkerSucceed(t) \/ WorkerFail(t)
    \/ WorkerRetry(t) \/ WorkerLeave(t)

Next ==
    \/ \E c \in Callers : Caller(c)
    \/ Bridge
    \/ Loop
    \/ \E t \in Tasks : Worker(t)

Spec == Init /\ [][Next]_vars

(* The runtime polls every spawned task that can move.  Every renewal is   *)
(* assumed to end: the loops of issue_certificate are bounded, but the     *)
(* client sets no timeout, and a CA that never answers a request would     *)
(* keep the worker and its permit for good.  Weak fairness is enough: a    *)
(* run submits finitely many jobs, so a sender cannot be overtaken for     *)
(* ever (and mpsc serves waiting senders in turn anyway).                  *)
Fairness ==
    /\ WF_vars(Bridge)
    /\ WF_vars(Loop)
    /\ \A c \in Callers : WF_vars(Caller(c))
    /\ \A t \in Tasks : WF_vars(Worker(t))

FairSpec == Spec /\ Fairness

-----------------------------------------------------------------------------
(* Properties *)

Holding == {t \in Tasks : pcWorker[t] \in {"spawned", "renewing", "retrying", "leaving"}}

(* Where a job is carried: each element is one copy of its task. *)
Carriers(j) ==
    LET Mine(t) == t \in Tasks /\ t.job = j
    IN  {<<"chan", i>> : i \in {k \in DOMAIN chan : Mine(chan[k])}}
        \cup {<<"bridge", t>> : t \in {u \in {bridgeTask} : Mine(u)}}
        \cup {<<"heap", t>> : t \in {u \in heap : Mine(u)}}
        \cup {<<"worker", t>> : t \in {u \in Tasks :
                Mine(u) /\ pcWorker[u] \in {"spawned", "renewing", "retrying"}}}

Running(j) == {t \in Tasks : t.job = j /\ pcWorker[t] = "renewing"}
Spawned(j) == {t \in Tasks : t.job = j /\ pcWorker[t] = "spawned"}

Ended(j) == after[j] = 1 \/ onError[j] = MaxRetries + 1

(* Type invariant. *)
TypeOK ==
    /\ pcCaller \in [Callers -> {"new", "sending", "returned"}]
    /\ todo \in [Callers -> SUBSET Jobs]
    /\ chan \in Seq(Tasks)
    /\ Len(chan) <= ChanCap
    /\ pcBridge \in {"recv", "push", "notify"}
    /\ bridgeTask \in Tasks \cup {NoTask}
    /\ pcBridge = "push" <=> bridgeTask # NoTask
    /\ heap \in SUBSET Tasks
    /\ pcLoop \in {"check", "empty", "waiting", "acquire", "pop"}
    /\ permits \in Nat
    /\ pcWorker \in [Tasks -> {"none", "spawned", "renewing", "retrying", "leaving", "gone"}]
    /\ before \in [Jobs -> Nat]
    /\ after \in [Jobs -> Nat]
    /\ onError \in [Jobs -> Nat]

(* The semaphore's permits are neither lost nor forged: the free ones, the *)
(* one the loop took and the ones the workers own always add up to         *)
(* Concurrency, so no more than Concurrency renewals ever run together.    *)
PermitsConserved ==
    permits + (IF pcLoop = "pop" THEN 1 ELSE 0) + Cardinality(Holding) = Concurrency

(* q.pop().unwrap() never meets an empty heap: once the loop has seen a    *)
(* task, one is still there when the permit arrives, however long that     *)
(* takes and whatever is pushed or notified meanwhile.                     *)
PopNeverEmpty == pcLoop \in {"acquire", "pop"} => heap # {}

(* A job is carried by at most one task, in the channel, the bridge, the   *)
(* heap or a worker: no retry, push or pop copies it, and after the job    *)
(* was renewed or given up nothing carries it any more.                    *)
OneCarrier ==
    \A j \in Jobs : /\ Cardinality(Carriers(j)) <= 1
                    /\ Ended(j) => Carriers(j) = {}

(* The hooks tell the true story: every before_renewal is answered by one  *)
(* after_renewal or one on_error once the renewal ends, success is         *)
(* reported at most once and is final, and failures are at most            *)
(* MaxRetries + 1.                                                         *)
HooksBalanced ==
    \A j \in Jobs :
        /\ before[j] = after[j] + onError[j] + Cardinality(Running(j))
        /\ after[j] <= 1
        /\ onError[j] + after[j] <= MaxRetries + 1

(* Where the pool sees job j: in the hands of a worker while it is being   *)
(* renewed, and pending on its way there.                                  *)
PoolStatus ==
    [j \in Jobs |->
       IF after[j] > 0 THEN "renewed"
       ELSE IF onError[j] = MaxRetries + 1 THEN "abandoned"
       ELSE IF Running(j) \cup Spawned(j) # {} THEN "active"
       ELSE IF Carriers(j) # {} THEN "pending" ELSE "unknown"]

PoolTries == [j \in Jobs |-> before[j] + Cardinality(Spawned(j))]

(* The scheduler implements the pool. *)
Pool == INSTANCE RenewalPool WITH status <- PoolStatus, tries <- PoolTries

(* What callers rely on: jobs are not lost, not repeated, not tried more   *)
(* than MaxRetries + 1 times, and never more than Concurrency at once.     *)
ImplementsPool == Pool!PoolSpec

(* Backpressure blocks nobody for good, although a worker that retries     *)
(* waits for room in the channel with a permit in its hands, and the loop  *)
(* for that permit: the bridge alone keeps the channel moving.  Permits    *)
(* come back and run_once_internal returns to its caller, provided that    *)
(* each renewal ends.                                                      *)
NobodyIsStuck ==
    /\ []<>(Holding = {})
    /\ \A c \in Callers : pcCaller[c] = "sending" ~> pcCaller[c] = "returned"

(* What was submitted does not stay in the channel, the heap or a worker   *)
(* for ever (and ImplementsPool lets it leave them only renewed or given   *)
(* up), unless the loop sleeps for ever beside a heap that is not empty:   *)
(* as long as renewals end, missed notifications are the only way to       *)
(* forget a job.                                                           *)
ForgottenOnlyAsleep ==
    <>[](\/ pcLoop = "waiting" /\ heap # {}
        \/ \A j \in Jobs : Carriers(j) = {})

(* The notifier wakes the scheduler when tasks are added (comment of the   *)
(* notifier field), so that every submitted job is renewed or given up.    *)
EveryJobEnds == \A j \in Jobs : Carriers(j) # {} ~> Ended(j)
=============================================================================
