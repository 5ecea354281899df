------------------------------ MODULE CertStore ------------------------------
(***************************************************************************)
(* CertificateStore (src/storage/cert_store.rs) over a storage backend,    *)
(* FileStorage (file.rs) or one whose operations are atomic (memory.rs;    *)
(* redis.rs), with what runs over it: saves, loads and deletes of          *)
(* certificate bundles, and a pass that lists the keys and loads each of   *)
(* them: list_all, StorageMigrator::migrate (migration.rs), the command    *)
(* `cert list` (cli/commands/cert.rs), CertificateRenewer::execute         *)
(* (orchestrator/renewer.rs) or CleanupScheduler::perform_cleanup          *)
(* (scheduler/cleanup_scheduler.rs).                                       *)
(* Passes change nothing in the store they walk, so one stands for all.    *)
(* EncryptedStorage (encrypted.rs) may lie between: what it stores is read *)
(* back by who has the key and is an error to anybody else.                *)
(*                                                                         *)
(* A name is <<k, n>>: the key of the domain set k with n suffixes ".bin". *)
(* FileStorage adds one to the name it is given and lists the names of its *)
(* files as they are.                                                      *)
(*                                                                         *)
(* The versions of the bundles are numbered in the order in which their    *)
(* writes end.  A file is emptied when it is opened for writing and then   *)
(* written at its start: two writers can leave the tail of the longer      *)
(* bundle behind the shorter one.                                          *)
(***************************************************************************)
EXTENDS Naturals, FiniteSets

CONSTANTS
    Keys,         \* domain sets
    Savers,       \* callers of save
    Loaders,      \* callers of load
    MaxVersions,  \* bound: bundles written
    MaxFaults,    \* bound: failing requests and writes
    Nothing,      \* no such name
    Empty,        \* a file that was opened and not written
    Mixed,        \* a file with parts of two bundles
    Error,        \* a failed load
    Idle          \* a saver that saves nothing

ASSUME StoreAssumption ==
    /\ MaxVersions \in Nat /\ MaxFaults \in Nat
    /\ \A x \in {Nothing, Empty, Mixed, Error} : x \notin Nat
    /\ Nothing \notin {Empty, Mixed, Error} /\ Error \notin {Empty, Mixed}
    /\ Idle \notin [key : Keys, linked : BOOLEAN]

VARIABLES
    kind,     \* the backend: "file", or "atomic" (memory, Redis)
    content,  \* content[x]: what is stored under the name x
    version,  \* bundles written so far
    saving,   \* saving[s]: the key s has opened, and whether its file is still linked
    loading,  \* loading[l]: where l is, the key it asks for, and its result
    committed,\* observer: committed[k], last version saved and not deleted, or 0
    floor,    \* observer: the version l has to find, 0 if none
    work,     \* which of the Passes it is
    pass,     \* "idle", "running", "failing", "ok" or "error"
    todo,     \* names that the pass has listed and not loaded
    before,   \* observer: before[k], version stored all through the pass, or 0
    found,    \* found[x]: version the pass took from name x: returned, or migrated
    faults

vars == <<kind, content, version, saving, loading, committed, floor,
          work, pass, todo, before, found, faults>>
storeVars == <<kind, content, version, saving, loading, committed, floor>>
passVars == <<work, pass, todo, before, found>>

(* Passes that return or copy what they load; the other two ask whether it *)
(* is a DER certificate that expires, and change nothing, since a bundle   *)
(* is stored as JSON.                                                      *)
Takers == {"list_all", "cert_list", "migrate"}
Passes == Takers \cup {"cleanup", "renewer"}
Names == Keys \X (0..2)
Versions == 1..MaxVersions

(* key_path *)
Place(x) == IF kind = "file" THEN <<x[1], x[2] + 1>> ELSE x
(* key_for_domains *)
KeyOf(k) == <<k, 0>>
Stored(k) == content[Place(KeyOf(k))]

Fault == faults < MaxFaults /\ faults' = faults + 1

Init ==
    /\ kind \in {"file", "atomic"}
    /\ content = [x \in Names |-> Nothing]
    /\ version = 0
    /\ saving = [s \in Savers |-> Idle]
    /\ loading = [l \in Loaders |-> [pc |-> "idle"]]
    /\ committed = [k \in Keys |-> 0]
    /\ floor = [l \in Loaders |-> 0]
    /\ work \in Passes
    /\ work = "cert_list" => kind = "file"
    /\ pass = "idle"
    /\ todo = {}
    /\ before = [k \in Keys |-> 0]
    /\ found = [x \in Names |-> 0]
    /\ faults = 0

Put(k, value) == content' = [content EXCEPT ![Place(KeyOf(k))] = value]

-----------------------------------------------------------------------------
(* save *)

(* fs::write opens and truncates ... *)
SaveOpen(s) ==
    /\ kind = "file" /\ saving[s] = Idle
    /\ version < MaxVersions
    /\ \E k \in Keys :
          /\ Put(k, Empty)
          /\ saving' = [saving EXCEPT ![s] = [key |-> k, linked |-> TRUE]]
    /\ UNCHANGED <<kind, version, committed, loading, floor, passVars, faults>>

(* ... and writes, to a file that may have been removed by now. *)
SaveWrite(s) ==
    /\ saving[s] # Idle
    /\ version < MaxVersions
    /\ version' = version + 1
    /\ IF ~saving[s].linked
         THEN UNCHANGED content
         ELSE \/ Put(saving[s].key, version')
              \/ Stored(saving[s].key) # Empty /\ Put(saving[s].key, Mixed)
    /\ saving' = [saving EXCEPT ![s] = Idle]
    /\ committed' = IF saving[s].linked
                      THEN [committed EXCEPT ![saving[s].key] = version'] ELSE committed
    /\ UNCHANGED <<kind, loading, floor, passVars, faults>>

(* The write fails (the disk is full) or the process dies. *)
SaveAbort(s) ==
    /\ saving[s] # Idle
    /\ Fault
    /\ saving' = [saving EXCEPT ![s] = Idle]
    /\ UNCHANGED <<kind, content, version, committed, loading, floor, passVars>>

SaveAtomic(s) ==
    /\ kind = "atomic"
    /\ version < MaxVersions
    /\ version' = version + 1
    /\ \E k \in Keys : Put(k, version') /\ committed' = [committed EXCEPT ![k] = version']
    /\ UNCHANGED <<kind, saving, loading, floor, passVars, faults>>

-----------------------------------------------------------------------------
(* delete: the file is unlinked from writers that have it open.  Between   *)
(* `exists` and `remove_file` only the result of the call can change.      *)
Delete(k) ==
    /\ Stored(k) # Nothing
    /\ Put(k, Nothing)
    /\ committed' = [committed EXCEPT ![k] = 0]
    /\ saving' = [s \in Savers |-> IF saving[s] # Idle /\ saving[s].key = k
                                     THEN [saving[s] EXCEPT !.linked = FALSE]
                                     ELSE saving[s]]
    /\ floor' = [l \in Loaders |-> IF loading[l].pc = "read" /\ loading[l].key = k
                                     THEN 0 ELSE floor[l]]
    /\ before' = [before EXCEPT ![k] = 0]
    /\ UNCHANGED <<kind, version, loading, work, pass, todo, found, faults>>

-----------------------------------------------------------------------------
(* load *)

Done(k, result) == [pc |-> "done", key |-> k, result |-> result]

(* Faulty variant: what cannot be decrypted is taken for a missing key. *)
DecryptedOrNone(secret, value) ==
    IF secret = "right" THEN value ELSE Nothing

(* decrypt: a key other than the writer's does not authenticate. *)
Decrypted(secret, value) ==
    IF secret = "right" \/ value = Nothing THEN value ELSE Error

(* What from_slice makes of it: a bundle or an error. *)
Parsed(value) == IF value \in Versions \cup {Nothing} THEN value ELSE Error

LoadCheck(l) ==
    /\ loading[l].pc = "idle"
    /\ \E k \in Keys, secret \in {"right", "wrong"} :
          /\ floor' = [floor EXCEPT ![l] = committed[k]]
          /\ loading' = [loading EXCEPT ![l] =
                IF Stored(k) = Nothing THEN Done(k, Nothing)
                ELSE IF kind = "atomic" THEN Done(k, Parsed(Decrypted(secret, Stored(k))))
                ELSE [pc |-> "read", key |-> k, secret |-> secret]]
    /\ UNCHANGED <<kind, content, version, saving, committed, passVars, faults>>

(* The file may have been rewritten since `exists`, or removed, which is   *)
(* then an error.                                                          *)
LoadRead(l) ==
    LET k == loading[l].key IN
    /\ loading[l].pc = "read"
    /\ loading' = [loading EXCEPT ![l] =
          Done(k, IF Stored(k) = Nothing THEN Error ELSE Parsed(Decrypted(loading[l].secret, Stored(k))))]
    /\ UNCHANGED <<kind, content, version, saving, committed, floor, passVars, faults>>

LoadReturn(l) ==
    /\ loading[l].pc = "done"
    /\ loading' = [loading EXCEPT ![l] = [pc |-> "idle"]]
    /\ floor' = [floor EXCEPT ![l] = 0]
    /\ UNCHANGED <<kind, content, version, saving, committed, passVars, faults>>

-----------------------------------------------------------------------------
(* The pass *)

(* list: every prefix used ("cert:" or "") is that of every name here. *)
List ==
    /\ pass = "idle"
    /\ \/ /\ pass' = "running"
          /\ todo' = {x \in Names : content[x] # Nothing}
          /\ before' = committed
          /\ UNCHANGED faults
       \/ /\ pass' = "error"
          /\ Fault
          /\ UNCHANGED <<todo, before>>
    /\ UNCHANGED <<storeVars, work, found>>

(* One key of the pass.  A name that holds nothing is passed over, and so  *)
(* is what is not a bundle.                                                *)
Visit(x) ==
    LET value == content[Place(x)] IN
    /\ pass \in {"running", "failing"} /\ x \in todo
    /\ todo' = todo \ {x}
    /\ found' = IF work \in Takers /\ value \in Versions
                  THEN [found EXCEPT ![x] = value] ELSE found
    /\ UNCHANGED <<storeVars, work, pass, before, faults>>

(* Faulty variant: the migration forgets that a store failed. *)
VisitFailsForgotten(x) ==
    /\ pass \in {"running", "failing"} /\ x \in todo
    /\ Fault
    /\ todo' = todo \ {x}
    /\ UNCHANGED <<storeVars, work, pass, before, found>>

(* A backend error ends the other passes; the migration counts it, or      *)
(* a failed store at the destination, and goes on.                         *)
VisitFails(x) ==
    /\ pass \in {"running", "failing"} /\ x \in todo
    /\ Fault
    /\ IF work = "migrate" THEN todo' = todo \ {x} /\ pass' = "failing"
                           ELSE todo' = {} /\ pass' = "error"
    /\ UNCHANGED <<storeVars, work, before, found>>

Finish ==
    /\ pass \in {"running", "failing"} /\ todo = {}
    /\ pass' = IF pass = "running" THEN "ok" ELSE "error"
    /\ UNCHANGED <<storeVars, work, todo, before, found, faults>>

-----------------------------------------------------------------------------
Next ==
    \/ \E s \in Savers : SaveOpen(s) \/ SaveWrite(s) \/ SaveAbort(s) \/ SaveAtomic(s)
    \/ \E k \in Keys : Delete(k)
    \/ \E l \in Loaders : LoadCheck(l) \/ LoadRead(l) \/ LoadReturn(l)
    \/ List \/ Finish
    \/ \E x \in Names : Visit(x) \/ VisitFails(x)

Spec == Init /\ [][Next]_vars

-----------------------------------------------------------------------------
(* Properties *)

(* Type invariant. *)
TypeOK ==
    /\ kind \in {"file", "atomic"}
    /\ content \in [Names -> Versions \cup {Nothing, Empty, Mixed}]
    /\ version \in 0..MaxVersions
    /\ saving \in [Savers -> {Idle} \cup [key : Keys, linked : BOOLEAN]]
    /\ loading \in [Loaders -> [pc : {"idle"}] \cup [pc : {"read"}, key : Keys, secret : {"right", "wrong"}]
                     \cup [pc : {"done"}, key : Keys, result : Versions \cup {Nothing, Error}]]
    /\ committed \in [Keys -> 0..MaxVersions]
    /\ floor \in [Loaders -> 0..MaxVersions]
    /\ work \in Passes
    /\ pass \in {"idle", "running", "failing", "ok", "error"}
    /\ todo \in SUBSET Names
    /\ before \in [Keys -> 0..MaxVersions]
    /\ found \in [Names -> 0..MaxVersions]
    /\ faults \in 0..MaxFaults

(* load does not lie: it returns no bundle older than the one stored when  *)
(* it began, and says that there is none only if none was there or it was  *)
(* deleted meanwhile.  In the middle of a save, or with a wrong encryption *)
(* key, it fails.                                                          *)
LoadTellsTruth ==
    \A l \in Loaders : loading[l].pc = "done" =>
        /\ loading[l].result \in Versions => loading[l].result >= floor[l]
        /\ loading[l].result = Nothing => floor[l] = 0

(* A pass that reports success has taken, for every key that was stored    *)
(* all along, a bundle as new as the one that was there when it began.     *)
PassIsComplete ==
    pass = "ok" /\ work \in Takers =>
        \A k \in Keys : found[KeyOf(k)] >= before[k]

(* Over a backend with atomic operations list_all and migrate are          *)
(* complete, whatever is saved and deleted meanwhile.                      *)
AtomicPassIsComplete == kind = "atomic" => PassIsComplete

(* migrate ("Migrate all data from source to destination") does not report *)
(* success unless every key stored all along has reached the destination.  *)
MigratesEverything == work = "migrate" => PassIsComplete
=============================================================================
