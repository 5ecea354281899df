# AcmeX in TLA+

This directory holds a TLA+ model of AcmeX, the ACME (RFC 8555) client, renewal
scheduler and API server in `src/`, the TLC configurations that check it on small
instances, and theorems about it that TLAPS checks for every instance. `PROJECT.json`
lists the runs, the lines each definition translates, the hazards and the theorems.

    tlc -config MCRenewalScheduler.cfg MCRenewalScheduler
    tlapm RenewalSchedulerProofs.tla

Paths below are relative to `src/src/`. In the modules an action commented "Faulty
variant" is a plausible bug of the action that follows it: no specification uses it;
replacing the real action by it makes the property named in `PROJECT.json` fail.

## 1. The system

| component | state | operations | hard behaviour | what makes it correct |
|---|---|---|---|---|
| Renewal scheduler, `scheduler/renewal_scheduler.rs` | mpsc channel (100), `BinaryHeap` behind a mutex, `Notify`, semaphore, workers, hooks | `new` (spawns the bridge), `run`, `run_once_internal`, `perform_renewal`, retry through the channel | callers, bridge, loop and workers interleave at every await; lost notification; a full channel while permits are held | permits conserved; a job is carried once; hooks tell the truth; callers return; every job ends |
| Issuance, `client.rs`, `order/manager.rs` | the client's account id and key; order and authorizations at the CA | `issue_certificate` (register, new order, authorizations, prepare, present, respond, poll, finalize, poll, download) | lost answers, a CA that refuses, lets the order wait or never answers, addresses and names shared by calls | `Ok` only for an issued order; a challenge is answered only while it is served; every call ends, unless a request is never answered |
| Solvers, `challenge/http01.rs`, `tls_alpn01.rs`, `dns01.rs` with `dns/providers/*` | bound address, key authorization, detached server; TXT records at the provider, the record id remembered | `prepare`, `present`, `cleanup` | the server outlives its solver; the id is overwritten by a second `prepare` and taken before the delete; providers that replace or delete all records of a name | what is served stays served while the CA looks; cleanup gives back what was taken |
| Provisioning, `orchestrator/provisioner.rs`, `server/order.rs` | task table, retry count | `POST /orders`, `execute` with retries | background task that nobody awaits; retries after half an issuance | the status is true, attempts do not overlap, a task is InProgress for ever only if a request is never answered |
| Nonces, `protocol/nonce.rs`, `nonce_pool.rs` | stack of nonces, queue of prefetched nonces, two mutexes | `get_nonce`, `cache_nonce`, `refill` | a lock held across requests; refills spawned by readers | a nonce is sent once; the pool is bounded and refilled; nobody waits for ever if requests end |
| Rate limiter, `transport/rate_limit.rs` | tokens, last update (wall clock) | `acquire`, `wait_for_token`, `refill` | concurrent callers; the clock is set back | the rate is kept in every window |
| Request limiter, same file | atomic counter, guards | `can_request`, `start_request`, guard drop | check-then-act on several threads | the counter is the guards; the limit is exceeded by racing threads only |
| Storage, `storage/*.rs` | files, a map, or Redis keys; encrypted or not | `save`, `load`, `delete`, `list_all`, `migrate`, `perform_cleanup`, `cert list`, the renewer's pass | non-atomic writes; crash between open and write; passes racing with saves; a wrong key | loads tell the truth; passes are complete |
| Simple renewal loop, `renewal/mod.rs` | none of its own (reads the store) | `run`, `needs_renewal`, `renew` | one failure among many domains; records that cannot be read; a save that fails after the issuance; a listener that is left bound; a request that is never answered | a certificate expires only for a cause that is named; no issued certificate is lost unreported |
| Certificate files, `client.rs` (save_to_files), `cli/commands/obtain.rs`, `renew.rs`, `daemon.rs` | `certificate.pem`, `private_key.pem`, backups | save, obtain, renew, the daemon's rounds | two files that belong together and are written one after the other; checks at intervals | the pair matches; a backup is the pair that was judged; no due certificate is missed |
| Accounts and keys, `account/*.rs`, `cli/commands/account.rs` | account at the CA, key file | `register`, `update_contacts`, `deactivate`, key rollover | a crash between the CA's change and the saved key | the saved key is the account's key |
| API server, `server/*.rs` | task table in memory, shared client | order and certificate handlers, background jobs | a task recorded after the answer; a restart | what was announced is found until the restart; the status is true; clients learn how it ended |
| Notifications, `notifications/mod.rs` | none but the attempts under way | `send`, `send_event` | lost and late answers, sequential delivery, swallowed errors | `Ok` means delivered; copies bounded; order kept; every webhook tried |
| Directory, `protocol/directory.rs`, and DNS cache, `challenge/dns_cache.rs` | a cached directory; cached answers with expiry | `get`, `fetch`, `clear_cache`; `resolve_*`, `cleanup` | callers that miss together; late answers; a fetch across a clear | answers never go back, and are no staler than promised |
| Transport retries, `transport/retry.rs`, `middleware.rs`, `http_client.rs` | none | `delay`, `should_retry` | - | nothing in the crate calls them |
| Certificates, CSR, OCSP, JWS, crypto | none | parsing, building, signing | - | pure functions over bytes |
| rest of the CLI, configuration, metrics | none | wiring, printing | - | - |

How they interact: the API server's handlers record a task and spawn the provisioner,
which builds a client and a solver and calls `issue_certificate`. The client owns a nonce
manager and runs requests through the account and order managers. The schedulers read
certificates from the store and call `issue_certificate` for those they renew, and the
cleanup scheduler and the migrator walk the same store. All of this runs as tokio tasks of one process:
they share listening addresses, stores, nonces and the task table, and another task
can run at every `.await`. Only the store survives a restart.

## 2. Modules

A step of a model is what happens between two awaits, or between two accesses to state
that another thread may touch. The variables carry the names of the code's fields where
it has them; variables marked *observer* are not in the code.

**RenewalPool** (abstract) says what the renewal scheduler promises: submitted jobs are
renewed or abandoned, each tried at most `MaxRetries + 1` times, at most `Concurrency` at once.

**RenewalScheduler** models `AdvancedRenewalScheduler`: `ListAll`, `SendTask`, `Return` are
`run_once_internal` and the users of a `TaskSender`; `BridgeRecv/Push/Notify` the task
spawned by `new`; `LoopCheck/Wait/Acquire/Pop` the loop of `run`, where the emptiness check,
the registration with the notifier and the permit are separate steps; `WorkerBegin/Succeed/
Fail/Retry/Leave` the spawned renewal with its hooks. The heap is a set, because no task is
ever in it twice (OneCarrier), and `pop` returns any task of the highest priority, because
`RenewalTask::cmp` compares priorities only. It implements RenewalPool (`ImplementsPool`).

**Solvers** holds what the challenge solvers share: the listening addresses of the process and the
TXT records at the DNS provider. `PrepareServer`/`CleanupServer`/`ServerDropped` are the HTTP-01 and
TLS-ALPN-01 solvers, whose `abort()` returns before the listener is dropped; `PrepareDns`/`CleanupDns`
are `Dns01Solver`, with the id it remembers. The twelve providers differ in three traits read off
their code: what creating a record does to other values of the name, what deleting removes, and
whether an error in the answer goes unnoticed.

**Issuance** extends Solvers and models `issue_certificate`. A run has a program counter, its place in the list
of authorizations, its poll count and its solver; the order and authorizations at the CA, the
addresses and the records are shared state. Each request is a step that can be refused, take effect
and lose its answer, or never be answered: the client is built without a timeout, and the run is then "stalled" for good (`NoAnswer`). The CA validates a challenge by looking where the run has put it. `cleanup()` is
not part of `issue_certificate`: `Cleanup` is a caller that calls it, or does not, when the call has returned.

**IssueCall** (abstract) is what a caller of `issue_certificate` sees: a call that is made, takes or
leaves an address, a name or a key authorization, and returns with a certificate or an error. Issuance
implements it (`ImplementsCall`), so SimpleRenewal can use it in the place of Issuance.

**Provisioning** extends Issuance: `Try[t, n]`, the `n`-th attempt of API task `t`, is a run of it.
`CreateOrder` records the task and spawns the job, `Start`, `Provision`, `AttemptOk`, `AttemptFailed`,
`Wake` are the loop of `execute`. `config` is the challenge configuration; `Misconfigured` is how an attempt ends
that has no solver: at once for a configuration that is rejected, after the order was created for dns-01,
for which `provision` registers none. `ServerDies` and `ServerStarts` lose the task table and all jobs.

**ApiServer** extends Provisioning with the clients: `PostOrder` is answered after the task was recorded,
`PostRenew` before, since there the spawned job records it (`JobStarts`); `GetOrder` and `ListOrders` read the table.
A renewal job issues nothing: it reports Completed because the code calls its renewal a placeholder.

**NonceSupply** models the nonce manager's stack, the signed requests that pop it and push
what the answer brings, and the prefetching pool whose `refill` holds the pool's lock until it is full; it looks at
the stack (`RefillPop`, `RefillMiss`) and asks the server (`RefillFetch`) in separate steps.
**Lookups** models the two caches that are filled by whoever misses: the directory and DNS answers.
**Protocol** puts them side by side; they share no state, so a behaviour is one of the two.

**TokenBucket** keeps the difference between the wall clock and `last_update`, which may be
negative after the clock was set back, and an observer's window. **RequestLimiter** has the counter's
check and increment as two steps of a thread, and the guards that tasks hold. **Limits** puts them side by side.

**CertStore** models `CertificateStore` over either kind of backend (`kind`). A name is a key with a
number of ".bin" suffixes, since `FileStorage` adds one on each access and lists names with it.
`fs::write` is an open that empties the file, followed by a write; a pass (list_all, migrate, cert list, renewer,
cleanup) lists names and visits each of them. A load may have another encryption key than the saves.

**SimpleRenewal** models the loop of `renewal/mod.rs` over IssueCall and a store, for each domain set the check
(missing, unreadable, due, expired), the issuance, the save and the hooks, in two processes that share the store and may die.
A call fails (`CallFails`), finds its address taken by the listener of an earlier renewal (`AddressTaken`), or waits for an
answer that never comes, and the loop with it (`CallStalls`). `newest` is what the CA has issued last for a set; the observers
say what became of its bundle (`excuse`) and which intervals of its window a set has lost, and to what (`missed`, `shut`).

**CertFiles** models the two PEM files and who works on them. `OpenCert`, `WriteCert`, `OpenKey`, `WriteKey` are the
two `fs::write` of `save_to_files` and of `obtain`, which writes a placeholder; `RenewCheck`, `CopyCert`,
`CopyKey` the renew command, which replaces nothing; `Wake`, `CheckDomain`, `CheckEnds` a round of the daemon.
Lifetimes are counted down, so that time needs no bound. A file is what its first PEM block is, which is all that the
readers parse; the end of a longer text may stay behind it.

**Webhooks** models `send_event` and the attempts of each webhook's `send`. A request that times out may still be
delivered, later than what is sent after it.

**AccountKeys** models the four account commands of the command line tool as processes that share
key files and the CA's accounts, each of which may die at any step. No command knows its account's
URL: it registers the key it has loaded and takes the account the CA answers with. `SaveOpen` and
`SaveWrite` are the two halves of `fs::write`. **CommandLine** puts them beside CertFiles; they share no state, so a behaviour is one of the two.

The MC modules give the constants of one module each their values. A proof module extends what it
is about: RenewalSchedulerProofs (with the refinement of RenewalPool), ApiServerProofs (Issuance, Provisioning and
ApiServer, which extend each other), SimpleRenewalProofs, CertStoreProofs, FilesProofs (AccountKeys, CertFiles and CommandLine, the
files of the command line), ProtocolProofs (NonceSupply, Lookups and Protocol), LimitsProofs (TokenBucket,
RequestLimiter and Limits), WebhooksProofs.

## 3. Runs

Passing runs.

| run | question | instance |
|---|---|---|
| scheduler | Do permits, tasks and hooks stay consistent in every interleaving, is the pool implemented, is nobody stuck, and is a job forgotten only by a loop that sleeps? | 3 jobs of 2 priorities, 2 callers, 2 permits, channel of 1, 1 retry |
| issuance | Does a call succeed only for an issued order, answer only what it serves, give back what it took, return unless a request is never answered, and implement IssueCall? | 2 calls (one for two domains), every mix of solvers, one address and name, every provider, 1 failure, 2 polls |
| api_server | Is what the API says of a task found until a restart, of an order true and final, and learnt by the client? | 2 orders, or an order and a renewal; 1 retry, one address, 1 failed, lost or unanswered request, 1 death of the process |
| renewal | To what can a certificate lose its renewal? Is a lost one reported? Does every round end? | 2 processes, 2 domain sets, one store; window of 2 intervals, 2 failures, 1 crash |
| command_line | Do overlapping or dying account commands save or lose the wrong key? When may a certificate and its key not match, what does a backup hold, does the daemon see every due certificate? | 4 commands, 2 key files, 2 failures; or 2 writers and renew, or 1 writer, renew and the daemon; 2 bundles, 1 failure, 2 domains |
| webhooks | Does `Ok` mean delivered, in order, to everybody, with a bounded number of copies? | 2 tasks, 3 events, 3 webhooks |
| protocol | Is a nonce ever sent twice, is the pool bounded and refilled, does a caller get an answer? How stale may a cached directory or DNS answer be? | 2 callers and 2 requests, sizes 2 and 3, 5 nonces, 2 failures; or 2 callers of a cache, 2 versions, time to live 1 |
| limits | Is the rate kept in every window, and the limit of concurrent requests but for races? | 2 callers of 1 and 3 tokens, capacity 5, rate 2, windows to 6 ticks; 4 tasks on 2 threads |
| store | Does a load tell the truth, and is a pass complete? | files or atomic backend, 2 keys, 2 savers, 1 loader, 3 versions, 1 failure |

Runs that end in a violation, each of one property that the documentation or a comment states:

| run | what it shows |
|---|---|
| scheduler_wakeup | a notification sent between the loop's check and its registration is lost, and a queued job sleeps until another arrives |
| renewal_listener | the first renewal of a process leaves its listener on port 80, every later one of the process fails, and certificates expire though nothing else fails |
| store_migrate | over files, `migrate` finds nothing under the names it has listed and reports success |

What the properties leave out, because the code does not do it, is stated in their conditions, and these are
findings of a kind too. `Undisturbed`: with a provider that replaces or deletes all records
of a name, another order takes a run's record away. `ServedWhileChecked` and `CleanupIsComplete` exclude orders
with several authorizations on one HTTP-01 solver (the second `prepare` replaces the key authorization) or one
DNS-01 solver (the second `prepare` overwrites the id, and the first record stays for good).
`AtomicPassIsComplete` excludes files, on which `list_all` and `migrate` find nothing. `LossesHaveCauses` allows one lost
account for each command that died or lost an answer and for each account created by mistake (a command that is given a
key that was rotated away registers a new one). `ExpiryHasCause` names what costs a renewal in the simple loop, interval by interval:
a failure of the set's own renewal (a record that cannot be read fails in every round), no loop running, or the address taken
by the listener that an earlier renewal of the process, for whichever domain set, has left. The last is counted apart (`shut`), and without
it the documented promise would hold but for failures: that it does not is what `renewal_listener` shows. For the same reason a provisioning attempt
after one that reached `prepare` fails at its own address. `LossIsReported` names what may become of an issued certificate besides being
stored: `on_error` was called, the process died with it, which nothing reports, or two processes wrote to its file together.
`StatusIsTrue` is about orders only: a renewal is reported Completed although the code renews nothing (it calls that a placeholder). `PairMatches` and `BackupIsThePair` exclude saves that
failed or overlapped; `DueIsCounted` says what the daemon does, which is to count: neither it nor the renew
command replaces a certificate, and a certificate that has expired between two checks is never counted. `NeverBack` excludes callers that asked
the source together and a fetch under way at a `clear_cache`. `OkMeansDelivered` needs `max_retries > 0`: with 0 nothing is sent
and `Ok` returned; otherwise `max_retries` is the number of attempts, not of retries. `cli/commands/serve.rs` configures its webhook with no events,
so it is never called.

Bounds and why they are enough. The channel holds 1 task instead of 100: what matters is
that it can be full, and then senders, the bridge, the retrying worker and the loop all wait for
one another. `MaxRetries = 1` instead of 3 has a first, a middle and a last try between
two failures; `MaxPolls = 2` instead of 30 has a poll that goes on and one that gives up.
In `renewal` the two failures and the crash are spent on either process, so that in the two intervals of the window each set can lose
its chances to one cause or to both, while the other set is renewed.
Two calls that share an address or a name are all that one call can meet there; two authorizations
show what a second `prepare` does to the first. In `api_server` the workloads are run one at a time, and one death of the
process may come at any point of them; in `command_line` the accounts and the crews are, and the clock is followed while the daemon runs, with lifetimes,
windows and intervals of a few units that keep the order of the real ones (the window is longer than two intervals,
the lifetime longer than the window). In `protocol` a behaviour is of one side. Four account commands are
one that registers, two rotations that overlap and one more to use what they leave. The nonces and versions are
numbered, so a bound on them bounds the length of a behaviour: the bounds let every cache
and pool be filled, emptied and filled again. The cache of Lookups sees two versions and a time longer
than its time to live, so that each answer can become stale. The token bucket's clock and window are bounded
beyond the time in which the bucket is filled from empty. Runs leave deadlock unchecked where the bounds, or the
end of all work, stop the system. Commands and key files are interchangeable, but symmetry
gains nothing beside the certificates, which have none.

## 4. Fairness

An HTTP request may never be answered. `AcmeClient` builds its HTTP client without a timeout (`client.rs:80`, `client.rs:95`), so
nothing in the code ends such a request. Issuance, ApiServer and SimpleRenewal have it as a step, to "stalled", from which there is no way on, and EveryRunEnds,
ClientsLearn and RoundsEnd say what still ends: a call returns unless one of its requests is never answered, and likewise a
task and a round. Their fairness assumes that the executor runs the calls, jobs and loops and that the clients of the API go on; the CA
need not validate or sign (an order may stay pending for ever), nobody need call `cleanup`, and nothing restarts a process.

Two modules assume that requests end. `FairSpec` of RenewalScheduler is weak fairness of each task of the runtime: tokio polls a task that has been
woken. A renewal is one step there that is assumed to come, because the loops of `issue_certificate` are
bounded (EveryRunEnds) and its requests are assumed to be answered: a CA that never answers keeps the permit, which NobodyIsStuck and
ForgottenOnlyAsleep do not cover. The channel and the semaphore serve waiters in turn, which is
more than is used. NonceSupply assumes it of the requests for nonces: one that is never answered keeps `refill`'s lock, and GetReturns does not cover it.

Webhooks assumes that a request ends, with an answer or the timeout that the code sets there. CertFiles assumes nothing; that the checks of its daemon take no time is a bound. NonceSupply needs strong
fairness of taking the pool's lock, since others may take and release it again and
again: tokio's `Mutex` is a fair queue.

## 5. Proofs

Every invariant, every action property and every refinement that a passing run checks is a theorem as well:
the run shows it on an instance, the proof for all constants.

| theorem | what it says, for all constants |
|---|---|
| **RenewalSchedulerProofs** | |
| PermitsAreConserved | free permits, the loop's and the workers' add up to the concurrency |
| ConcurrencyLimited | at most `Concurrency` renewals run at once |
| PopIsSafe | the popped heap is never empty |
| JobsHaveOneCarrier | a job that has not ended is in one of channel, bridge, heap and workers, once; one that has ended is in none |
| HooksAreBalanced | before_renewal is answered once, and what the hooks are told last is true |
| SchedulerImplementsPool | the scheduler implements RenewalPool: every step is a step of the pool or leaves it as it is |
| **ApiServerProofs** | *of SpecIssuance:* |
| OkOnlyWhenIssued | Ok is returned only for an order that is issued, every authorization of which is valid |
| AnsweredOnlyWhenServed | the CA is told to validate only at a moment at which the run serves its key authorization |
| ServedUntilCleanup | what a run serves stays served until its own cleanup, while the CA may fetch it |
| CleanupComplete | a cleanup that returned Ok gives back what the only prepare() took |
| CallImplemented | issue_certificate with its solvers implements IssueCall |
| | *of ApiSpec:* |
| StatusTrue | Completed and Failed are reported of an order only when they are so |
| OrderedOnce | no order is created for a task that has succeeded, was reported or has lost its process |
| FoundUnlessRestarted | an announced id is not found only after a restart, or before a renewal job has begun |
| AttemptsOkWhenIssued | OkOnlyWhenIssued for the attempts of the provisioner, which are given up and die besides |
| AttemptsServeUntilRestart | ServedUntilCleanup for them, as long as the process has not ended |
| **SimpleRenewalProofs** | |
| NothingExpiresUnnoticed | a certificate expires only if its own renewal failed, nobody was up, or its address was taken, in each interval of its window |
| NoLossUnreported | the last certificate issued for a domain set is stored or in hand, or since its issuance on_error was called, a process died with it, or two wrote its file together |
| CallsAreUsedRight | the loop implements IssueCall too: it uses its calls only in steps of that module |
| **CertStoreProofs** | |
| LoadIsTrue | no load returns an older bundle than was stored when it began, or denies one that stays |
| AtomicPassComplete | over an atomic backend a pass that succeeds has taken every key stored all along |
| **FilesProofs** | *of Spec (AccountKeys):* |
| SavedKeyStaysCurrent | no command replaces a key that another has had accepted and is about to save |
| LossesArePaid | accounts out of reach are no more than the failures and the overtaken registrations |
| | *of SpecFiles (CertFiles):* |
| PairsMatch | certificate and key belong together when nobody saves, unless the last save failed or overlapped |
| BackupsAreWhole | a renew command that succeeds has backed up the pair it judged |
| TheDueAreCounted | a running daemon counts every certificate that stays due for longer than its interval |
| CommandLineKeepsBoth | the theorems on keys and pairs hold of the composition |
| WindowsAgree | the renew command does not put off what the daemon has counted, if `Window \div Day <= RenewDays` |
| **ProtocolProofs** | |
| NoncesAreUsedOnce | no nonce is in two hands, and none the server has seen is in any |
| PoolStaysBounded | no number of refills fills the pool beyond `max_size` |
| ShortPoolIsRefilled | until a request fails, a short pool is being refilled or about to be |
| AnswersDoNotGoBack | no caller is told less than was known before it asked, unless two asked the source at once |
| AnswersGoStaleInTime | a DNS answer has been out of date for at most the time to live and its own delay |
| PoolHoldsBesideCaches | the theorems on nonces hold of the composition |
| **LimitsProofs** | |
| RateIsKept | a window grants at most a full bucket and its own credit |
| GuardsAreCounted | the counter is the number of guards not yet dropped |
| LimitIsNearlyKept | the limit is exceeded by at most the threads between check and increment |
| LimitsAreKept | all three hold of the composition |
| **WebhooksProofs** | |
| OkIsTrue | Ok means that the endpoint has accepted the event |
| CopiesAreBounded | an event reaches an endpoint at most once per attempt |
| OrderIsKept | the endpoint has accepted an event before it sees the next of the task, if it was reported delivered |

Besides, the state is well formed: TypeCorrect in each module, LookupsTypeCorrect, ApiTypeCorrect, FilesTypeCorrect,
and KeysInvariant for the inductive invariant of AccountKeys.

The assumptions are those that the modules name (`ConstantsAssumption`, `NoTaskAssumption`, `SolversAssumption`,
`ProvidersAssumption`, `IssuanceAssumption`, `ProvisioningAssumption`, `ApiAssumption`, `CallAssumption`, `RenewalAssumption`,
`StoreAssumption`, `AccountKeysAssumption`, `FilesAssumption`, `NonceAssumption`, `LookupsAssumption`, `BucketAssumption`, the one of
RequestLimiter, `WebhooksAssumption`): bounds are numbers, lists are lists, and special values are none of the ordinary ones.
TLC evaluates them on each run. WindowsAgree alone has a hypothesis of its own, since the two windows are set apart
from each other; TLC's instance satisfies it.

*Scheduler.* TypeOK alone is not inductive: a retrying worker's next task must be a task, so
`TypeInv` adds that a worker retries only below the limit. Permits are counted with the
cardinality of the set of holders, and that count moves by one only if the popped task had no worker
yet. `TaskInv` says why: no retry number is used before its predecessor has failed
(`InTurn`), a task in the channel, bridge or heap has no worker (`OnTheWay`), and what a
caller has still to send is nowhere (`Unsent`). `PermitInv` adds that the set of holders is
finite, which the cardinality lemmas ask for, and the sum itself.

*The pool.* The abstract status of a job is read off where its tasks are and what the hooks were told of it. It changes as
RenewalPool says because of what `HookInv` adds to `TaskInv`: a job has one live task at most, since its
attempts come in turn (OneLive), and the number of the live task's retry is the number of times on_error was called (`LiveStory`); a
job without a live task was never submitted, has succeeded once, or has failed `MaxRetries + 1` times (`WholeStory`). `View` restates
the refinement mapping in these terms, and each step of the scheduler moves the view of one job (PoolMoves) or of none
(PoolStays). That the pool's limit on active jobs is kept follows from PermitInv, since an active job's worker holds a permit
and no worker is active for two jobs (ActiveHold).

*Nonces.* UsedOnce speaks of a cardinality; `OnePlace` says the same place by place, for a task's hands,
the manager's stack and the pool, and is inductive because the server's next nonce is nowhere yet (NextIsNew).
PoolBounded is inductive together with the types. RefillPending is not: when a refill ends, the pool must not be short, which
is so because a refill that has the lock fills the pool, nobody else taking from it in the meantime (`FillsUp`).

*Token bucket.* The bound on `granted` is not inductive, because credit that is in the bucket
has still to be granted: `BucketInv` counts what could be granted at once as granted.
`Credit` is kept unexpanded, so that the provers see a linear problem.

*Request limiter.* The counter is compared with the cardinality of the set of guards, which the lemmas on
adding and removing one member move by one; that bound and the set of threads between check and increment give the overshoot.

*Account keys.* SavedKeyIsCurrent is not inductive: a step of another command could replace the key
or create the account anew. `KeyInv` adds why it cannot: a key is in a file, or in another command's hands,
only when the command that made it has ended (`KeysTravelInFiles`), so whoever is about to save has the only
copy; each step has what it needs (`InHand`); and the account named after a command does not exist
before that command has registered (`NotYetThere`), so registering overwrites no other account.

*Lost account keys.* LossesHaveCauses compares two cardinalities that no step moves together. `Paid` is the inequality that is inductive:
the accounts that were asked for are no more than their homes (the files that their present keys were made for), the failures and the deactivated strays. A
new account comes with a new home, since its file was not in use (NewOrReplaced), and a new key goes where the old one was, or is a stray;
`HomeInv` says besides that each key is in the file it was made for (KeyInItsFile).

*Issuance.* OkIsIssued follows from `OrderInv`: what a run believes of its order, having polled it, is so, and an order moves on only by the
run's own finalization or the CA's signature. The properties of the solvers are parts of one invariant, `SolverInv`:
a server's address is taken only by its run (PortsAreOfServers) and kept from its prepare() on (ServersKeepPorts); cleanup comes
after the call, and validation after the answer (InTurn); hence what was asked, or is about to be, is served (AskedIsServed). A record
is remembered until it is cleaned up (RecordsAreRemembered). The refinement of IssueCall is shown per step, the mapped steps being
the solver's (a port or a record taken or given back) and the ends of the call.

*API.* The attempts take steps of Issuance, are given up, or end together (StepOfRuns), so `TypeInv` and `OrderInv` hold of them. `TaskInv` adds that
the attempts before the present one have failed and the later ones have not begun, and what each state of the loop says of the present one;
StatusIsTrue, and that only a running attempt can order something, follow. For the clients, `ClientInv` relates
what each was told to the table of tasks. SolverInv does not survive the end of the process, which takes its listeners with it.

*Simple renewal.* `ExpiryInv`: a running process has tried what is due up to its place in the list (Tried), so that when an interval ends whatever is due
has failed, or found its address taken, or nobody was up; a certificate in its window has lost a chance for each interval it has lost (Windows). That
nothing becomes due in the middle of a round is where the window being shorter than the lifetime is used. LossIsReported is inductive together with
`NewInHand`, that a bundle in hand is as new as the last one issued: a round takes no interval, so whoever of two processes saves last stores what the CA issued last.

*Store.* `StoreInv` relates what a file holds to the last version that is known to be stored (StoredInv), and each load to what was
stored when it began (LoadInv). `PassInv`, over an atomic backend, where nothing is ever half written: what a pass has to find is still stored, as new,
and each name is either still to be visited or was found.

*Files.* `PairInv`: who saves alone finds in the files what it left there, and there is one such at most; all others mark the pair as hurt when they
end. `BackupInv` follows the renewal from its check. `DueInv` is about time: what has waited for longer than the daemon has
slept was due at its last check, and was counted; waiting and remaining time never exceed the window together.

*Lookups.* NeverBack is inductive with `NewestInv`: without a race only one caller asks, and entry and answer are at least what has been
told (OneAsks, EntryNewest, AnswerNewest). StaleBounded needs `StaleInv`, which bounds the age of answers, entries and what was told in turn.

*Webhooks.* `SendInv` says for each sender which attempts have been made of which event (InTurn): a request under way or in the inbox is of
an attempt that was made, and of each attempt there is one at most (ArrivesOnce). The order in the inbox follows because a later event has no attempt
before the earlier one is done.

Only model-checked is what the prover cannot reach: liveness under fairness (NobodyIsStuck, ForgottenOnlyAsleep, EveryRunEnds, RoundsEnd, ClientsLearn,
EveryWebhookTried, GetReturns), and ENABLED, and the three violated properties (EveryJobEnds, MigratesEverything, ExpiresOnlyByFailure), which are false. There is no recursive
definition in the project, so no induction over data is needed. The proofs assume nothing of fairness.

## 6. Plan

Done: all modules of section 2, and the proofs listed above. Left, in this order:

1. Proofs: the abstract specifications that Webhooks and CertStore could be shown to implement.
2. A composition of RenewalScheduler with IssueCall and CertStore, in which a renewal is a real
   issuance and its loss on a restart can be seen. Today the scheduler hands the renewed bundle to its hook and drops it.
3. The cluster of `docs/STORAGE_ZH.md`, where several servers share a Redis backend.

Parts that share state with a module above are composed into it and extend its run, rather than
being checked alone.

## 7. What is not modelled, and why

Parsing, formatting and cryptography (JWS, JWK, CSR, X.509, OCSP, DNS provider signatures) are functions
over bytes without state; their results appear as success or failure. Metrics, logging and configuration parsing
have no property of interest here. `transport/retry.rs`, `middleware.rs` and `http_client.rs` are exported but composed with
nothing: no request of the crate goes through them. `cli/commands/serve.rs` puts the parts together and does nothing else.
`orchestrator/validator.rs` looks names up before an issuance and keeps no state.
The client's verification of the chain does not change its outcome. `verify()` of the solvers and
`verify_record` of the providers change nothing, and the second has no caller. Route 53 is modelled as with its feature
enabled. The account handlers of the API server register anew or answer with constants; authentication, health and revocation are single
requests. In AccountKeys, `register` is given a file that is not in use; a user who overwrites a key file
loses that key. In CertStore, the name mangling of `FileStorage` (`/` becomes `_`) is data: two keys
that differ in this character only would share a file. In CertFiles a copy of a file is one step, and each backup has a name
of its own, although two renewals in one second would share it. The rounding of `f64` in the rate limiter is left out.
The providers that replace or delete all records of a name make concurrent orders lose theirs; the model has them, and the properties
say where the loss cannot happen.
