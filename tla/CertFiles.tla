------------------------------ MODULE CertFiles ------------------------------
(***************************************************************************)
(* The certificate and its private key as two files beside each other, and *)
(* who works on them: CertificateBundle::save_to_files (src/client.rs) and *)
(* the obtain command write them, the renew command judges and backs them  *)
(* up, the daemon judges them at every interval (cli/commands/obtain.rs,   *)
(* renew.rs, daemon.rs).  Neither renew nor the daemon replaces them.      *)
(*                                                                         *)
(* A bundle is a number; its certificate and its key carry that number.    *)
(* Time is counted down: left[n] units until bundle n expires, negative    *)
(* afterwards and stopping at Floor.  Checks take no time and the daemon's *)
(* timer fires when it is due.  A copy of a file is one step.              *)
(***************************************************************************)
EXTENDS Integers

CONSTANTS
    Savers,      \* callers of save_to_files and of obtain
    Crews,       \* bound: who may work at a time, some savers, and the daemon or not
    MaxBundles,  \* bound: bundles issued
    MaxFailures, \* bound: writes that fail
    Life,        \* units for which a new certificate is valid
    Day,         \* units of a day
    RenewDays,   \* renew_before_days of the renew command
    Window,      \* renew_before_secs of the daemon, in units
    Interval,    \* check_interval of the daemon
    Domains,     \* number of domains the daemon was given
    Placeholder, \* what obtain writes
    Nothing,     \* no such file
    Empty        \* a file that was opened and not written

ASSUME FilesAssumption ==
    /\ {MaxBundles, MaxFailures, Window} \subseteq Nat
    /\ Crews \subseteq [savers : SUBSET Savers, daemon : BOOLEAN]
    /\ {Life, Day, RenewDays, Interval, Domains} \subseteq Nat \ {0}
    /\ {Placeholder, Nothing, Empty} \cap 0..MaxBundles = {}

VARIABLES
    crew,      \* which of the Crews it is
    pem,       \* pem[f]: what the file f holds
    saving,    \* saving[s]: how far s is, and the bundle it saves
    issued,    \* bundles issued so far
    left,      \* left[n]: units until n expires
    renew,     \* the renew command: how far it is, and its result
    backup,    \* backup[f]: the copy that this renewal made of f
    daemon,    \* the daemon: what it does, its timer, domains to check
    counted,   \* bundles that the daemon counted as renewed
    hurt,      \* observer: since the last undisturbed save a save overlapped or failed
    disturbed, \* observer: the renewal met a save under way, or what a bad one left
    waiting,   \* observer: units for which a certificate in the file has been due
    failures

filesVars == <<crew, pem, saving, issued, left, renew, backup, daemon, counted,
               hurt, disturbed, waiting, failures>>
saveVars == <<saving, issued, hurt, failures>>
daemonVars == <<crew, daemon, counted>>

Files == {"cert", "key"}
Bundles == 1..MaxBundles
Floor == -Day

Idle == [pc |-> "idle", bundle |-> 0, alone |-> TRUE]

Present(f) == pem[f] # Nothing
(* parse_x509_pem and parse_x509_certificate take its first PEM block.     *)
(* That of the placeholder holds no certificate.                           *)
Parses(value) == value \in Bundles

-----------------------------------------------------------------------------
(* check_certificate_expiry *)

(* Faulty variant: the window of the daemon taken in days. *)
NeedsRenewalInDays(n) == left[n] > 0 /\ left[n] <= Window \div Day

Expired(n) == left[n] <= 0
NeedsRenewal(n) == ~Expired(n) /\ left[n] <= Window

(* days_until_expiry: the division drops the fraction, towards zero. *)
DaysUntil(units) == IF units >= 0 THEN units \div Day ELSE -((-units) \div Day)

(* Faulty variant: the last day is not in the window. *)
InWindowStrict(units) == DaysUntil(units) < RenewDays

InWindow(units) == DaysUntil(units) <= RenewDays

-----------------------------------------------------------------------------
InitFiles ==
    /\ crew \in Crews
    /\ pem = [f \in Files |-> Nothing]
    /\ saving = [s \in Savers |-> Idle]
    /\ issued = 0
    /\ left = [n \in Bundles |-> Life]
    /\ renew = [pc |-> "idle", result |-> "none", read |-> 0]
    /\ backup = [f \in Files |-> Nothing]
    /\ daemon = [pc |-> IF crew.daemon THEN "sleep" ELSE "stopped",
                  timer |-> Interval, todo |-> 0, count |-> 0]
    /\ counted = {}
    /\ hurt = FALSE
    /\ disturbed = FALSE
    /\ waiting = 0
    /\ failures = 0

-----------------------------------------------------------------------------
(* save_to_files, and the end of handle_obtain: the certificate, then the  *)
(* key; each file is emptied and then written.                             *)

Busy == {s \in Savers : saving[s].pc # "idle"}

(* A bundle was issued, or obtain accepted its arguments and found the CA: *)
(* a call that fails before this changes no file.                          *)
Begin(s) ==
    /\ s \in crew.savers /\ saving[s].pc = "idle"
    /\ \/ issued < MaxBundles /\ issued' = issued + 1
       \/ UNCHANGED issued
    /\ saving' = [t \in Savers |->
          IF t = s THEN [pc |-> "open_cert",
                         bundle |-> IF issued' > issued THEN issued' ELSE Placeholder,
                         alone |-> Busy = {}]
          ELSE [saving[t] EXCEPT !.alone = saving[t].pc = "idle"]]
    /\ UNCHANGED <<pem, left, renew, backup, daemonVars, hurt, disturbed, waiting, failures>>

(* A step of s on the file f, after which it is at `to`. *)
SaveStep(s, f, from, to) ==
    /\ saving[s].pc = from
    /\ saving' = [saving EXCEPT ![s] = to]
    /\ disturbed' = (disturbed \/ renew.pc \in {"copy_cert", "copy_key"})
    /\ waiting' = IF f = "cert" THEN 0 ELSE waiting
    /\ UNCHANGED <<issued, left, renew, backup, daemonVars, failures>>

At(s, pc) == [saving[s] EXCEPT !.pc = pc]

(* fs::write opens and truncates ... *)
Truncate(f) == pem' = [pem EXCEPT ![f] = Empty]

(* ... and writes from the start of the file.  The end of a longer text    *)
(* that another writer put there since then stays behind it, but whoever   *)
(* reads the file takes the first PEM block, which is this one.            *)
Fill(f, text) == pem' = [pem EXCEPT ![f] = text]

OpenCert(s) ==
    SaveStep(s, "cert", "open_cert", At(s, "write_cert")) /\ Truncate("cert") /\ UNCHANGED hurt
WriteCert(s) ==
    /\ SaveStep(s, "cert", "write_cert", At(s, "open_key"))
    /\ Fill("cert", saving[s].bundle)
    /\ UNCHANGED hurt

(* Faulty variant: a key that exists is kept. *)
OpenKeyKeeping(s) ==
    IF Present("key")
      THEN SaveStep(s, "key", "open_key", Idle) /\ hurt' = ~saving[s].alone /\ UNCHANGED pem
      ELSE SaveStep(s, "key", "open_key", At(s, "write_key")) /\ Truncate("key") /\ UNCHANGED hurt

OpenKey(s) ==
    SaveStep(s, "key", "open_key", At(s, "write_key")) /\ Truncate("key") /\ UNCHANGED hurt
WriteKey(s) ==
    /\ SaveStep(s, "key", "write_key", Idle)
    /\ Fill("key", saving[s].bundle)
    /\ hurt' = ~saving[s].alone

(* A write fails, with `?`, or the process dies. *)
SaveFails(s) ==
    /\ s \in Busy
    /\ failures < MaxFailures
    /\ failures' = failures + 1
    /\ saving' = [saving EXCEPT ![s] = Idle]
    /\ hurt' = TRUE
    /\ UNCHANGED <<pem, issued, left, renew, backup, daemonVars, disturbed, waiting>>

-----------------------------------------------------------------------------
(* handle_renew *)

RenewUnchanged == UNCHANGED <<pem, saveVars, left, daemonVars, waiting>>

(* Steps 1 to 4: find, parse and judge the certificate. *)
RenewCheck(force) ==
    /\ renew.pc = "idle"
    /\ LET n == pem["cert"]
           ends(result) == renew' = [pc |-> "done", result |-> result, read |-> n] IN
       IF ~Parses(n) THEN ends("error")
       ELSE IF DaysUntil(left[n]) < 0 THEN ends("expired")
       ELSE IF ~InWindow(left[n]) /\ ~force THEN ends("not_due")
       ELSE renew' = [pc |-> "copy_cert", result |-> "none", read |-> n]
    /\ disturbed' = (Busy # {} \/ hurt)
    /\ UNCHANGED backup
    /\ RenewUnchanged

(* Step 5. *)
CopyCert ==
    /\ renew.pc = "copy_cert"
    /\ backup' = [cert |-> pem["cert"], key |-> Nothing]
    /\ renew' = [renew EXCEPT !.pc = "copy_key"]
    /\ UNCHANGED disturbed
    /\ RenewUnchanged

(* Faulty variant: the key is not backed up. *)
CopyKeyForgotten ==
    /\ renew.pc = "copy_key"
    /\ UNCHANGED backup
    /\ renew' = [renew EXCEPT !.pc = "done", !.result = "ok"]
    /\ UNCHANGED disturbed
    /\ RenewUnchanged

(* ... if there is a key.  Steps 6 to 9 change no file. *)
CopyKey ==
    /\ renew.pc = "copy_key"
    /\ backup' = [backup EXCEPT !["key"] = pem["key"]]
    /\ renew' = [renew EXCEPT !.pc = "done", !.result = "ok"]
    /\ UNCHANGED disturbed
    /\ RenewUnchanged

RenewReturn ==
    /\ renew.pc = "done"
    /\ renew' = [pc |-> "idle", result |-> "none", read |-> 0]
    /\ disturbed' = FALSE
    /\ backup' = [f \in Files |-> Nothing]
    /\ RenewUnchanged

-----------------------------------------------------------------------------
(* handle_daemon *)

DaemonUnchanged == UNCHANGED <<crew, pem, saveVars, left, renew, backup, disturbed, waiting>>

(* SIGTERM or SIGINT, which select! sees only between two checks. *)
Signal ==
    /\ daemon.pc = "sleep"
    /\ daemon' = [daemon EXCEPT !.pc = "stopped", !.timer = 0]
    /\ UNCHANGED counted
    /\ DaemonUnchanged

Wake ==
    /\ daemon.pc = "sleep" /\ daemon.timer = 0
    /\ daemon' = [daemon EXCEPT !.pc = "check", !.todo = Domains]
    /\ UNCHANGED counted
    /\ DaemonUnchanged

(* check_and_renew_certificates, one domain: the same file for all.  What  *)
(* is missing, unreadable or expired is passed over with a warning.        *)
CheckDomain ==
    LET n == pem["cert"] IN
    /\ daemon.pc = "check" /\ daemon.todo > 0
    /\ IF Parses(n) /\ NeedsRenewal(n)
         THEN /\ daemon' = [daemon EXCEPT !.todo = @ - 1, !.count = @ + 1]
              /\ counted' = counted \cup {n}
         ELSE /\ daemon' = [daemon EXCEPT !.todo = @ - 1]
              /\ UNCHANGED counted
    /\ DaemonUnchanged

(* A count above zero is logged and mailed; then the next sleep. *)
CheckEnds ==
    /\ daemon.pc = "check" /\ daemon.todo = 0
    /\ daemon' = [pc |-> "sleep", timer |-> Interval, todo |-> 0, count |-> 0]
    /\ UNCHANGED counted
    /\ DaemonUnchanged

-----------------------------------------------------------------------------
(* What the daemon is told to renew; stated apart from what it does. *)
Due(n) == Parses(n) /\ left[n] \in 1..Window

(* Time, which is followed as long as the daemon runs. *)
Tick ==
    /\ daemon.pc = "sleep" /\ daemon.timer > 0
    /\ left' = [n \in Bundles |->
                  IF n <= issued /\ left[n] > Floor THEN left[n] - 1 ELSE left[n]]
    /\ daemon' = [daemon EXCEPT !.timer = @ - 1]
    /\ waiting' = IF Due(pem["cert"]) /\ left'[pem["cert"]] > 0
                    THEN waiting + 1 ELSE 0
    /\ UNCHANGED <<crew, pem, saveVars, renew, backup, counted, disturbed>>

-----------------------------------------------------------------------------
Save(s) ==
    \/ Begin(s) \/ OpenCert(s) \/ WriteCert(s) \/ OpenKey(s) \/ WriteKey(s)
    \/ SaveFails(s)
Renew ==
    \/ \E force \in BOOLEAN : RenewCheck(force)
    \/ CopyCert \/ CopyKey \/ RenewReturn
Check == Wake \/ CheckDomain \/ CheckEnds

NextFiles == (\E s \in Savers : Save(s)) \/ Renew \/ Signal \/ Check \/ Tick

SpecFiles == InitFiles /\ [][NextFiles]_filesVars

-----------------------------------------------------------------------------
(* Properties *)

(* Type invariant. *)
FilesTypeOK ==
    LET Texts == Bundles \cup {Placeholder} IN
    /\ crew \in Crews
    /\ pem \in [Files -> Texts \cup {Nothing, Empty}]
    /\ backup \in [Files -> Texts \cup {Nothing, Empty}]
    /\ saving \in [Savers -> {Idle} \cup
          [pc : {"open_cert", "write_cert", "open_key", "write_key"},
           bundle : Texts, alone : BOOLEAN]]
    /\ issued \in 0..MaxBundles
    /\ left \in [Bundles -> Floor..Life]
    /\ renew.pc \in {"idle", "copy_cert", "copy_key", "done"}
    /\ renew.result \in {"none", "error", "expired", "not_due", "ok"}
    /\ daemon \in [pc : {"sleep", "check", "stopped"}, timer : 0..Interval,
                   todo : 0..Domains, count : 0..Domains]
    /\ counted \subseteq 1..issued
    /\ waiting \in 0..Window
    /\ {hurt, disturbed} \subseteq BOOLEAN
    /\ failures \in 0..MaxFailures

(* The certificate and the key belong together whenever nobody is saving,  *)
(* unless the last save failed half way or overlapped with another one.    *)
PairMatches == Busy = {} /\ ~hurt => pem["cert"] = pem["key"]

(* A renewal that reports success has backed up the certificate that it    *)
(* judged, with the key that belongs to it, unless a save was under way    *)
(* or had left a pair that does not match.                                 *)
BackupIsThePair ==
    renew.pc = "done" /\ renew.result = "ok" /\ ~disturbed =>
        \A f \in Files : backup[f] = renew.read

(* A certificate that stays due in its file for longer than the interval   *)
(* is counted by a running daemon, before it expires.                      *)
DueIsCounted == waiting > Interval => pem["cert"] \in counted

(* What the daemon counts as renewable the renew command does not put off, *)
(* when their windows are the same.                                        *)
RenewAgreesWithDaemon ==
    [][renew.pc = "idle" /\ renew'.result = "not_due" => renew'.read \notin counted]_filesVars

=============================================================================
