------------------------------- MODULE Lookups -------------------------------
(***************************************************************************)
(* The two caches that are filled by whoever misses: DirectoryManager      *)
(* (src/protocol/directory.rs), which keeps the directory until it is      *)
(* cleared, and CachingDnsResolver over DnsCache (challenge/dns_cache.rs), *)
(* which keeps an answer for default_ttl.  Neither holds its lock across   *)
(* the request, and neither joins requests for the same name, so one name  *)
(* stands for all: callers that miss together all ask and all store.       *)
(*                                                                         *)
(* The source publishes versions 1, 2, ... of its answer.                  *)
(***************************************************************************)
EXTENDS Naturals

CONSTANTS
    Askers,       \* callers
    Ttl,          \* default_ttl
    MaxTime,      \* bound: units of time
    MaxVersions,  \* bound: versions of the answer
    NoEntry       \* nothing is cached

ASSUME LookupsAssumption == {Ttl, MaxTime} \subseteq Nat /\ MaxVersions \in Nat \ {0}

VARIABLES
    cached,   \* "directory" or "dns"
    clock,
    truth,    \* the version that the source would answer with now
    since,    \* observer: since[v], when v was published
    entry,    \* what is cached: NoEntry or a version and its expires_at
    asker,    \* asker[a]: where the call is, its value, and when that was answered
    seen,     \* observer: seen[a], greatest version known to be cached when a asked
    told,     \* observer: greatest version that a call has returned
    raced,    \* observer: two calls have asked the source at once
    floor,    \* observer: the version that was true at the last undisturbed clear
    delay     \* observer: longest time between an answer and its storing

lookupVars == <<cached, clock, truth, since, entry, asker, seen, told, raced, floor, delay>>
observers == <<told, floor, delay>>
world == <<cached, clock, truth, since>>

Version == 1..MaxVersions
AtRest == [pc |-> "rest", value |-> 0, at |-> 0]
Asking == {a \in Askers : asker[a].pc \in {"ask", "store"}}

LookupsInit ==
    /\ cached \in {"directory", "dns"}
    /\ clock = 0 /\ truth = 1
    /\ since = [v \in Version |-> 0]
    /\ entry = NoEntry
    /\ asker = [a \in Askers |-> AtRest]
    /\ seen = [a \in Askers |-> 0]
    /\ told = 0 /\ raced = FALSE /\ floor = 0 /\ delay = 0

-----------------------------------------------------------------------------
(* Faulty variant: the time to live is not looked at. *)
UsableForEver == entry # NoEntry

(* is_expired; the directory never expires. *)
Usable == entry # NoEntry /\ (cached = "dns" => clock <= entry.expires)

(* Where a call of get, fetch, resolve_a or resolve_txt is, and its value. *)
Move(a, pc, value, at) == asker' = [asker EXCEPT ![a] = [pc |-> pc, value |-> value, at |-> at]]

(* The call misses, and asks. *)
AskNext(a) ==
    /\ Move(a, "ask", 0, 0)
    /\ raced' = (raced \/ Asking # {})

(* get and resolve_a, resolve_txt: under the read lock. *)
LookUp(a) ==
    /\ asker[a].pc = "rest"
    /\ seen' = [seen EXCEPT ![a] = IF cached = "directory" /\ floor > told THEN floor ELSE told]
    /\ IF Usable THEN Move(a, "done", entry.value, clock) /\ UNCHANGED raced
                 ELSE AskNext(a)
    /\ UNCHANGED <<world, entry, observers>>

(* fetch: the cache is not asked. *)
FetchDirectory(a) ==
    /\ cached = "directory" /\ asker[a].pc = "rest"
    /\ seen' = [seen EXCEPT ![a] = IF floor > told THEN floor ELSE told]
    /\ AskNext(a)
    /\ UNCHANGED <<world, entry, observers>>

(* The source answers, or the request fails, which stores nothing. *)
Answer(a) ==
    /\ asker[a].pc = "ask"
    /\ \/ Move(a, "store", truth, clock)
       \/ asker' = [asker EXCEPT ![a] = AtRest]
    /\ UNCHANGED <<world, entry, seen, raced, observers>>

(* The write lock: whatever is there is replaced, and kept from now on for *)
(* the time to live.                                                       *)
Store(a) ==
    /\ asker[a].pc = "store"
    /\ entry' = [value |-> asker[a].value, expires |-> clock + Ttl]
    /\ delay' = IF clock - asker[a].at > delay THEN clock - asker[a].at ELSE delay
    /\ Move(a, "done", asker[a].value, clock)
    /\ UNCHANGED <<world, seen, raced, told, floor>>

Return(a) ==
    /\ asker[a].pc = "done"
    /\ told' = IF asker[a].value > told THEN asker[a].value ELSE told
    /\ asker' = [asker EXCEPT ![a] = AtRest]
    /\ seen' = [seen EXCEPT ![a] = 0]
    /\ UNCHANGED <<world, entry, raced, floor, delay>>

-----------------------------------------------------------------------------
(* Faulty variant: only the time of the entry is reset. *)
ClearKeeping ==
    /\ cached = "directory"
    /\ UNCHANGED entry
    /\ floor' = IF Asking = {} THEN truth ELSE floor
    /\ UNCHANGED <<world, asker, seen, raced, told, delay>>

(* clear_cache *)
Clear ==
    /\ cached = "directory"
    /\ entry' = NoEntry
    /\ floor' = IF Asking = {} THEN truth ELSE floor
    /\ UNCHANGED <<world, asker, seen, raced, told, delay>>

(* cleanup *)
Cleanup ==
    /\ cached = "dns" /\ entry # NoEntry /\ ~Usable
    /\ entry' = NoEntry
    /\ UNCHANGED <<world, asker, seen, raced, observers>>

-----------------------------------------------------------------------------
(* The source publishes another answer. *)
Publish ==
    /\ truth < MaxVersions
    /\ truth' = truth + 1
    /\ since' = [since EXCEPT ![truth'] = clock]
    /\ UNCHANGED <<cached, clock, entry, asker, seen, raced, observers>>

Pass ==
    /\ clock < MaxTime
    /\ clock' = clock + 1
    /\ UNCHANGED <<cached, truth, since, entry, asker, seen, raced, observers>>

LookupsNext ==
    \/ \E a \in Askers :
          LookUp(a) \/ FetchDirectory(a) \/ Answer(a) \/ Store(a) \/ Return(a)
    \/ Clear \/ Cleanup \/ Publish \/ Pass

-----------------------------------------------------------------------------
(* Properties *)

(* Type invariant: what is cached is always an answer that was given. *)
LookupsTypeOK ==
    /\ cached \in {"directory", "dns"}
    /\ clock \in 0..MaxTime /\ truth \in Version
    /\ since \in [Version -> 0..MaxTime]
    /\ entry = NoEntry \/ entry \in [value : 1..truth, expires : 0..(MaxTime + Ttl)]
    /\ asker \in [Askers -> [pc : {"rest", "ask", "store", "done"},
                             value : 0..truth, at : 0..clock]]
    /\ seen \in [Askers -> 0..truth]
    /\ told \in 0..truth /\ floor \in 0..truth
    /\ raced \in BOOLEAN
    /\ delay \in 0..MaxTime

(* A caller is not told an older answer than was returned before it asked, *)
(* and not one from before a clear_cache, as long as no two calls have     *)
(* asked the source at once and none was asking at the clear.              *)
NeverBack ==
    \A a \in Askers : asker[a].pc = "done" /\ ~raced => asker[a].value >= seen[a]

(* A DNS answer that is returned has been out of date for at most the time *)
(* to live and the time it took to be stored, even when late answers       *)
(* replace newer ones.                                                     *)
StaleBounded ==
    cached = "dns" => \A a \in Askers :
        LET next == asker[a].value + 1 IN
        asker[a].pc = "done" /\ next <= truth =>
            asker[a].at - since[next] <= Ttl + delay
=============================================================================
