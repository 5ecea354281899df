----------------------------- MODULE AccountKeys -----------------------------
(***************************************************************************)
(* The account commands (src/cli/commands/account.rs) with AccountManager  *)
(* and KeyRollover (src/account/): processes that create, use and replace  *)
(* account keys, which are kept in files and known to the CA.  Any number  *)
(* of them may run at the same time, and each may die at any point.        *)
(*                                                                         *)
(* No command knows its account's URL: it registers the key it has loaded, *)
(* and the CA answers with the account of that key or creates one.         *)
(*                                                                         *)
(* A command creates at most one key and one account, so both are named by *)
(* the command that created them.  Contacts are data and left out: an      *)
(* update changes nothing else.                                            *)
(***************************************************************************)
EXTENDS Naturals, FiniteSets

CONSTANTS
    Commands,   \* processes of the command line tool
    Paths,      \* key files
    MaxFaults   \* bound: processes that die, requests and answers that are lost

ASSUME AccountKeysAssumption ==
    /\ MaxFaults \in Nat
    /\ IsFiniteSet(Commands)
    /\ Commands \cap {"none", "empty"} = {} /\ "none" \notin Paths

VARIABLES
    op,      \* op[c]: what c was asked to do, or "none"
    pc,      \* pc[c]: where c is
    to,      \* to[c]: the file that c writes a key to, or "none"
    key,     \* key[c]: the key that c signs with
    acct,    \* acct[c]: the account that the CA named to c
    file,    \* file[p]: a key, "none", or "empty" while it is rewritten
    holder,  \* at the CA: holder[a], the key of account a, or "none"
    dead,    \* at the CA: the deactivated accounts
    faults   \* failures so far

caVars == <<holder, dead>>
vars == <<op, pc, to, key, acct, file, holder, dead, faults>>

Over == {"ok", "failed"}

Goto(c, label) == pc' = [pc EXCEPT ![c] = label]

(* A file that nobody has written or is about to write. *)
Unused(p) == file[p] = "none" /\ \A c \in Commands : to[c] # p

Init ==
    /\ op = [c \in Commands |-> "none"]
    /\ pc = [c \in Commands |-> "idle"]
    /\ to = [c \in Commands |-> "none"]
    /\ key = [c \in Commands |-> "none"]
    /\ acct = [c \in Commands |-> "none"]
    /\ file = [p \in Paths |-> "none"]
    /\ holder = [a \in Commands |-> "none"]
    /\ dead = {}
    /\ faults = 0

-----------------------------------------------------------------------------
(* handle_register: a new key, which is saved when it is registered.  The  *)
(* user names a file that is not in use.                                   *)
StartRegister(c) ==
    /\ pc[c] = "idle"
    /\ \E p \in Paths : Unused(p) /\ to' = [to EXCEPT ![c] = p]
    /\ op' = [op EXCEPT ![c] = "register"]
    /\ key' = [key EXCEPT ![c] = c]
    /\ Goto(c, "register")
    /\ UNCHANGED <<acct, file, caVars, faults>>

(* load_from_file: a file that holds no key ends the command. *)
Load(c, p) ==
    IF file[p] \in Commands
      THEN key' = [key EXCEPT ![c] = file[p]] /\ Goto(c, "register")
      ELSE UNCHANGED key /\ Goto(c, "failed")

StartUpdate(c) ==
    /\ pc[c] = "idle"
    /\ \E p \in Paths : Load(c, p)
    /\ op' = [op EXCEPT ![c] = "update"]
    /\ UNCHANGED <<to, acct, file, caVars, faults>>

StartDeactivate(c) ==
    /\ pc[c] = "idle"
    /\ \E p \in Paths : Load(c, p)
    /\ op' = [op EXCEPT ![c] = "deactivate"]
    /\ UNCHANGED <<to, acct, file, caVars, faults>>

(* handle_rotate_key: the new key is to replace the old file, or to go to  *)
(* a file that is not in use.                                              *)
StartRotate(c) ==
    /\ pc[c] = "idle"
    /\ \E p, q \in Paths :
          /\ q = p \/ Unused(q)
          /\ Load(c, p)
          /\ to' = [to EXCEPT ![c] = q]
    /\ op' = [op EXCEPT ![c] = "rotate"]
    /\ UNCHANGED <<acct, file, caVars, faults>>

-----------------------------------------------------------------------------
(* AccountManager::register.  The CA knows accounts by their present keys; *)
(* it refuses the key of a deactivated account.                            *)
Register(c) ==
    /\ pc[c] = "register"
    /\ \/ /\ \E a \in dead : holder[a] = key[c]
          /\ Goto(c, "failed")
          /\ UNCHANGED <<acct, holder>>
       \/ /\ \E a \in Commands \ dead :
                /\ holder[a] = key[c]
                /\ acct' = [acct EXCEPT ![c] = a]
          /\ Goto(c, IF op[c] = "register" THEN "open" ELSE "request")
          /\ UNCHANGED holder
       \/ /\ \A a \in Commands : holder[a] # key[c]
          /\ acct' = [acct EXCEPT ![c] = c]
          /\ holder' = [holder EXCEPT ![c] = key[c]]
          /\ Goto(c, IF op[c] = "register" THEN "open" ELSE "request")
    /\ UNCHANGED <<op, to, key, file, dead, faults>>

(* A request for an account must be signed with its present key. *)
Accepted(c) == acct[c] \notin dead /\ holder[acct[c]] = key[c]

Refused(c) ==
    /\ pc[c] = "request"
    /\ ~Accepted(c)
    /\ Goto(c, "failed")
    /\ UNCHANGED <<op, to, key, acct, file, caVars, faults>>

(* update_contacts *)
Update(c) ==
    /\ pc[c] = "request" /\ op[c] = "update"
    /\ Accepted(c)
    /\ Goto(c, "ok")
    /\ UNCHANGED <<op, to, key, acct, file, caVars, faults>>

(* deactivate *)
Deactivate(c) ==
    /\ pc[c] = "request" /\ op[c] = "deactivate"
    /\ Accepted(c)
    /\ dead' = dead \cup {acct[c]}
    /\ Goto(c, "ok")
    /\ UNCHANGED <<op, to, key, acct, file, holder, faults>>

(* Faulty variant: the status of the answer is not looked at. *)
RolloverUnchecked(c) ==
    /\ pc[c] = "request" /\ op[c] = "rotate"
    /\ holder' = IF Accepted(c) THEN [holder EXCEPT ![acct[c]] = c] ELSE holder
    /\ Goto(c, "open")
    /\ UNCHANGED <<op, to, key, acct, file, dead, faults>>

(* KeyRollover::execute *)
Rollover(c) ==
    /\ pc[c] = "request" /\ op[c] = "rotate"
    /\ Accepted(c)
    /\ holder' = [holder EXCEPT ![acct[c]] = c]
    /\ Goto(c, "open")
    /\ UNCHANGED <<op, to, key, acct, file, dead, faults>>

(* save_to_file: fs::write empties the file ... *)
SaveOpen(c) ==
    /\ pc[c] = "open"
    /\ file' = [file EXCEPT ![to[c]] = "empty"]
    /\ Goto(c, "write")
    /\ UNCHANGED <<op, to, key, acct, caVars, faults>>

(* Faulty variant: the key that signed the request is saved. *)
SaveWriteSigner(c) ==
    /\ pc[c] = "write"
    /\ file' = [file EXCEPT ![to[c]] = key[c]]
    /\ Goto(c, "ok")
    /\ UNCHANGED <<op, to, key, acct, caVars, faults>>

(* ... and then writes the new key. *)
SaveWrite(c) ==
    /\ pc[c] = "write"
    /\ file' = [file EXCEPT ![to[c]] = c]
    /\ Goto(c, "ok")
    /\ UNCHANGED <<op, to, key, acct, caVars, faults>>

(* The process dies, or a request or its answer is lost, which ends it:    *)
(* either way what it had in memory is gone.                               *)
Dies(c) ==
    /\ pc[c] \notin {"idle"} \cup Over
    /\ faults < MaxFaults
    /\ faults' = faults + 1
    /\ Goto(c, "failed")
    /\ UNCHANGED <<op, to, key, acct, file, caVars>>

-----------------------------------------------------------------------------
Next ==
    \E c \in Commands :
        \/ StartRegister(c) \/ StartUpdate(c) \/ StartDeactivate(c) \/ StartRotate(c)
        \/ Register(c) \/ Refused(c) \/ Update(c) \/ Deactivate(c) \/ Rollover(c)
        \/ SaveOpen(c) \/ SaveWrite(c) \/ Dies(c)

Spec == Init /\ [][Next]_vars

-----------------------------------------------------------------------------
(* Properties *)

(* Type invariant. *)
TypeOK ==
    /\ op \in [Commands -> {"none", "register", "update", "deactivate", "rotate"}]
    /\ pc \in [Commands -> {"idle", "register", "request", "open", "write"} \cup Over]
    /\ to \in [Commands -> Paths \cup {"none"}]
    /\ key \in [Commands -> Commands \cup {"none"}]
    /\ acct \in [Commands -> Commands \cup {"none"}]
    /\ file \in [Paths -> Commands \cup {"none", "empty"}]
    /\ holder \in [Commands -> Commands \cup {"none"}]
    /\ dead \subseteq Commands
    /\ faults \in 0..MaxFaults

Accounts == {a \in Commands : holder[a] # "none"}

(* Accounts that a command created which was to use an existing one. *)
Strays == {a \in Accounts : op[a] # "register"}

(* The keys that a running command has in memory. *)
InMemory == UNION {{c, key[c]} : c \in {d \in Commands : pc[d] \notin {"idle"} \cup Over}}

(* Live accounts whose key is in no file and in no command's memory. *)
Lost == {a \in Accounts \ dead :
            holder[a] \notin InMemory /\ \A p \in Paths : file[p] # holder[a]}

(* Account keys are not lost by commands overtaking each other: every      *)
(* account out of reach is paid for by a failure of its own, or by a       *)
(* command that registered a key which another one had just replaced.      *)
LossesHaveCauses == Cardinality(Lost) <= faults + Cardinality(Strays)

(* What a command is about to save, in place of the old key perhaps, is    *)
(* the present key of its account: the CA has accepted it and no other     *)
(* command has replaced it since.                                          *)
SavedKeyIsCurrent ==
    \A c \in Commands : pc[c] \in {"open", "write"} => holder[acct[c]] = c
=============================================================================
