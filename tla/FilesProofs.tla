---------------------------- MODULE FilesProofs -----------------------------
(***************************************************************************)
(* Theorems about the files of the command line: the key files and their   *)
(* accounts (AccountKeys), and the certificate beside its key (CertFiles), *)
(* for any number of commands, files, savers, bundles and failures.        *)
(*                                                                         *)
(* SavedKeyIsCurrent could be broken by a command that has the new key and *)
(* replaces it before it is saved, or by one that creates an account in    *)
(* the place of another.  KeyInv says why neither happens: a key reaches   *)
(* other commands through the file it is saved in, and so only when the    *)
(* command that made it has ended; and an account appears only once.       *)
(* LossesHaveCauses counts: every account that was asked for has a file    *)
(* that is to hold its key, or a failure or a deactivated account stands   *)
(* for it (HomeInv, Paid).                                                 *)
(*                                                                         *)
(* A pair matches because who saves alone finds in the files what it left  *)
(* there, and who does not marks the pair as hurt (PairInv); the daemon    *)
(* misses nothing because what has waited since before its last check was  *)
(* due in that check (DueInv).                                             *)
(***************************************************************************)
EXTENDS CommandLine, FiniteSetTheorems, TLAPS

-----------------------------------------------------------------------------
(* AccountKeys: the keys and their files *)

(* A key is in a file, or in use by another command, only when the command *)
(* that made it has ended.                                                 *)
KeysTravelInFiles ==
    /\ \A p \in Paths : file[p] \in Commands => pc[file[p]] = "ok"
    /\ \A c \in Commands : key[c] \in Commands /\ key[c] # c => pc[key[c]] = "ok"

(* What a command has in hand at each of its steps. *)
InHand ==
    \A c \in Commands :
        /\ pc[c] \in {"register", "request"} => key[c] \in Commands
        /\ pc[c] = "register" /\ op[c] = "register" => key[c] = c
        /\ pc[c] \in {"request", "open", "write"} => acct[c] \in Commands

(* The account named after a command exists only once it has registered. *)
NotYetThere == \A c \in Commands : pc[c] \in {"idle", "register"} => holder[c] = "none"

KeyInv == TypeOK /\ KeysTravelInFiles /\ InHand /\ NotYetThere /\ SavedKeyIsCurrent

(* Initially no command has begun and no key exists. *)
LEMMA KeyInvInit == Init => KeyInv
  BY AccountKeysAssumption, SMT
  DEF Init, KeyInv, TypeOK, KeysTravelInFiles, InHand, NotYetThere, SavedKeyIsCurrent, Over

(* Loading a key keeps the types, and what it yields is the key of a       *)
(* command that has ended.                                                 *)
LEMMA LoadedKey ==
    ASSUME KeyInv, NEW c \in Commands, NEW p \in Paths, pc[c] = "idle", Load(c, p)
    PROVE  /\ key' \in [Commands -> Commands \cup {"none"}]
           /\ pc' \in [Commands -> {"idle", "register", "request", "open", "write"} \cup Over]
           /\ \A d \in Commands \ {c} : key'[d] = key[d] /\ pc'[d] = pc[d]
           /\ pc'[c] = "register" => /\ key'[c] \in Commands /\ key'[c] # c
                                     /\ pc[key'[c]] = "ok"
           /\ pc'[c] = "failed" => key'[c] = key[c]
           /\ pc'[c] \in {"register", "failed"}
  BY AccountKeysAssumption, SMT
  DEF KeyInv, TypeOK, KeysTravelInFiles, Load, Goto, Over

(* Every step keeps KeyInv. *)
LEMMA KeyInvStep == KeyInv /\ [Next]_vars => KeyInv'
  <1> SUFFICES ASSUME KeyInv, [Next]_vars PROVE KeyInv'
    OBVIOUS
  <1> USE AccountKeysAssumption DEF KeyInv
  <1>a. ASSUME NEW c \in Commands, StartRegister(c) PROVE KeyInv'
    BY <1>a, SMT
    DEF StartRegister, Goto, caVars, TypeOK, KeysTravelInFiles, InHand, NotYetThere,
        SavedKeyIsCurrent, Over
  <1>b. ASSUME NEW c \in Commands, NEW p \in Paths, pc[c] = "idle", Load(c, p),
               NEW what \in {"update", "deactivate", "rotate"},
               op' = [op EXCEPT ![c] = what],
               to' \in [Commands -> Paths \cup {"none"}],
               UNCHANGED <<acct, file, caVars, faults>>
        PROVE  KeyInv'
    <2>1. TypeOK'
      BY <1>b, LoadedKey, SMT DEF TypeOK, caVars, Over
    <2>2. KeysTravelInFiles'
      BY <1>b, LoadedKey, SMT DEF TypeOK, KeysTravelInFiles
    <2>3. InHand'
      BY <1>b, LoadedKey, SMT DEF TypeOK, InHand
    <2>4. NotYetThere'
      BY <1>b, LoadedKey, SMT DEF NotYetThere, caVars
    <2>5. SavedKeyIsCurrent'
      BY <1>b, LoadedKey, SMT DEF SavedKeyIsCurrent, caVars
    <2> QED
      BY <2>1, <2>2, <2>3, <2>4, <2>5
  <1>c. ASSUME NEW c \in Commands, StartUpdate(c) PROVE KeyInv'
    <2>1. to' \in [Commands -> Paths \cup {"none"}]
      BY <1>c DEF StartUpdate, TypeOK
    <2> QED
      BY <1>b, <1>c, <2>1 DEF StartUpdate
  <1>d. ASSUME NEW c \in Commands, StartDeactivate(c) PROVE KeyInv'
    <2>1. to' \in [Commands -> Paths \cup {"none"}]
      BY <1>d DEF StartDeactivate, TypeOK
    <2> QED
      BY <1>b, <1>d, <2>1 DEF StartDeactivate
  <1>e. ASSUME NEW c \in Commands, StartRotate(c) PROVE KeyInv'
    <2>1. PICK p \in Paths, q \in Paths : Load(c, p) /\ to' = [to EXCEPT ![c] = q]
      BY <1>e DEF StartRotate
    <2>2. to' \in [Commands -> Paths \cup {"none"}]
      BY <2>1 DEF TypeOK
    <2> QED
      BY <1>b, <1>e, <2>1, <2>2 DEF StartRotate
  <1>f. ASSUME NEW c \in Commands, Register(c) PROVE KeyInv'
    <2>1. TypeOK'
      BY <1>f, SMT DEF Register, Goto, TypeOK, InHand, Over
    <2>2. KeysTravelInFiles'
      BY <1>f, SMT DEF Register, Goto, TypeOK, KeysTravelInFiles
    <2>3. InHand'
      BY <1>f, SMT DEF Register, Goto, TypeOK, InHand
    <2>4. NotYetThere'
      BY <1>f, SMT DEF Register, Goto, TypeOK, NotYetThere
    <2>5. SavedKeyIsCurrent'
      BY <1>f, SMT DEF Register, Goto, TypeOK, InHand, NotYetThere, SavedKeyIsCurrent
    <2> QED
      BY <2>1, <2>2, <2>3, <2>4, <2>5
  <1>g. ASSUME NEW c \in Commands, Refused(c) \/ Update(c) \/ Deactivate(c) \/ Dies(c)
        PROVE  KeyInv'
    BY <1>g, SMT
    DEF Refused, Update, Deactivate, Dies, Goto, caVars, TypeOK, KeysTravelInFiles,
        InHand, NotYetThere, SavedKeyIsCurrent, Over
  <1>h. ASSUME NEW c \in Commands, Rollover(c) PROVE KeyInv'
    (* The account exists, and so do the steps of the command it is named after. *)
    <2>1. acct[c] \in Commands /\ holder[acct[c]] = key[c] /\ key[c] \in Commands
      BY <1>h DEF Rollover, Accepted, InHand
    <2>2. TypeOK'
      BY <1>h, <2>1, SMT DEF Rollover, Goto, TypeOK, Over
    <2>3. KeysTravelInFiles'
      BY <1>h, SMT DEF Rollover, Goto, TypeOK, KeysTravelInFiles
    <2>4. InHand'
      BY <1>h, <2>1, SMT DEF Rollover, Goto, TypeOK, InHand
    <2>5. NotYetThere'
      BY <1>h, <2>1, SMT DEF Rollover, Goto, TypeOK, NotYetThere
    (* The key that signed it is another command's only if that has ended. *)
    <2>6. SavedKeyIsCurrent'
      BY <1>h, <2>1, SMT DEF Rollover, Goto, TypeOK, KeysTravelInFiles, SavedKeyIsCurrent
    <2> QED
      BY <2>2, <2>3, <2>4, <2>5, <2>6
  <1>i. ASSUME NEW c \in Commands, SaveOpen(c) \/ SaveWrite(c) PROVE KeyInv'
    BY <1>i, SMT
    DEF SaveOpen, SaveWrite, Goto, caVars, TypeOK, KeysTravelInFiles, InHand,
        NotYetThere, SavedKeyIsCurrent, Over
  <1>j. CASE UNCHANGED vars
    BY <1>j, SMT
    DEF vars, TypeOK, KeysTravelInFiles, InHand, NotYetThere, SavedKeyIsCurrent
  <1> QED
    BY <1>a, <1>c, <1>d, <1>e, <1>f, <1>g, <1>h, <1>i, <1>j DEF Next

(* KeyInv holds throughout. *)
THEOREM KeysInvariant == Spec => []KeyInv
  BY KeyInvInit, KeyInvStep, PTL DEF Spec

(* The state of the account commands is well formed. *)
THEOREM TypeCorrect == Spec => []TypeOK
  BY KeysInvariant, PTL DEF KeyInv

(* From the moment the CA has accepted a command's new key until that key  *)
(* is in its file, no other command replaces it at the CA (handle_register *)
(* and handle_rotate_key, src/cli/commands/account.rs).                    *)
THEOREM SavedKeyStaysCurrent == Spec => []SavedKeyIsCurrent
  BY KeysInvariant, PTL DEF KeyInv

-----------------------------------------------------------------------------
(* LossesHaveCauses *)

(* The accounts that a command was asked to create, the accounts whose     *)
(* present key is in the file it was made for, or about to be written to   *)
(* it, and these files.  A file that one such account leaves, because      *)
(* another key is written to it, is the home of the account of that key.   *)
Owned == {a \in Accounts \ dead : op[a] = "register"}
Saving(k) == pc[k] \in {"open", "write"}
InFile(k) == file[to[k]] = k
Kept == {a \in Accounts \ dead : Saving(holder[a]) \/ InFile(holder[a])}
Homes == {to[holder[a]] : a \in Kept}
Retired == Strays \cap dead

(* Each account that was asked for has a home, or a failure or a stray     *)
(* that was deactivated stands for it.                                     *)
Paid == Cardinality(Owned) <= Cardinality(Homes) + faults + Cardinality(Retired)

(* A key is in the file it was made for, and known to the CA when its      *)
(* command has registered it or put it in the place of another.            *)
Made(k) == op[k] \in {"register", "rotate"} /\ to[k] \in Paths
KeyInItsFile ==
    /\ \A p \in Paths : file[p] \in Commands => Made(file[p]) /\ to[file[p]] = p
    /\ \A c \in Commands : key[c] \in Commands /\ key[c] # c => Made(key[c])
Known ==
    /\ \A a, k \in Commands :
          holder[a] = k => Made(k) /\ pc[k] \in {"open", "write"} \cup Over
    /\ \A a \in dead : holder[a] # "none"

(* A key replaces the one in its file, or its file is not in use.          *)
NotInUse(c) ==
    /\ to[c] \in Paths /\ file[to[c]] = "none"
    /\ \A d \in Commands : to[d] = to[c] /\ d # c => pc[d] = "failed" /\ \A a \in Commands : holder[a] # d
NewOrReplaced ==
    \A c \in Commands : pc[c] \in {"register", "request"} =>
        /\ op[c] = "register" => NotInUse(c)
        /\ op[c] = "rotate" => to[c] \in Paths /\ (NotInUse(c) \/ to[key[c]] = to[c])

(* What a command is to save, and the key it signs with. *)
OpInv ==
    \A c \in Commands :
        /\ pc[c] = "idle" => to[c] = "none"
        /\ pc[c] = "request" => op[c] # "register"
        /\ pc[c] \in {"register", "request"} /\ op[c] # "register" => key[c] # c
        /\ Saving(c) => Made(c) /\ acct[c] \notin dead

HomeInv == KeyInItsFile /\ Known /\ NewOrReplaced /\ OpInv

LEMMA HomeInvInit == Init => HomeInv
BY AccountKeysAssumption
   DEF Made, Init, HomeInv, KeyInItsFile, Known, NewOrReplaced, OpInv, Saving, Over

(* A command begins. *)
LEMMA HomeInvStart ==
    ASSUME KeyInv, HomeInv, NEW c \in Commands, pc[c] = "idle",
           NEW what \in {"register", "update", "deactivate", "rotate"},
           op' = [op EXCEPT ![c] = what],
           UNCHANGED <<acct, file, caVars, faults>>,
           \A d \in Commands : d # c => to'[d] = to[d] /\ key'[d] = key[d] /\ pc'[d] = pc[d],
           pc'[c] \in {"register", "failed"},
           pc'[c] = "register" /\ what # "register" => key'[c] # c,
           \/ to'[c] = to[c] \/ Unused(to'[c])
           \/ /\ what = "rotate"
              /\ \/ file[to'[c]] \in Commands /\ key'[c] = file[to'[c]]
                 \/ pc'[c] = "failed",
           \/ key'[c] = key[c] \/ key'[c] = c
           \/ Made(key'[c]) /\ pc[key'[c]] = "ok",
           what \in {"register", "rotate"} => to'[c] \in Paths
    PROVE  HomeInv'
<1> USE AccountKeysAssumption
<1>i. KeyInItsFile /\ Known /\ NewOrReplaced /\ OpInv /\ KeysTravelInFiles
  BY DEF HomeInv, KeyInv
<1>o. op'[c] = what /\ \A d \in Commands : d # c => op'[d] = op[d]
  BY DEF KeyInv, TypeOK
<1>1. KeyInItsFile'
  BY <1>i DEF Made, KeyInItsFile, KeysTravelInFiles
<1>2. Known'
  BY <1>i, <1>o DEF Made, Known, caVars, Over
<1>3. NewOrReplaced'
  <2> SUFFICES ASSUME NEW d \in Commands, pc'[d] \in {"register", "request"}
               PROVE  /\ op'[d] = "register" => NotInUse(d)'
                      /\ op'[d] = "rotate" =>
                            to'[d] \in Paths /\ (NotInUse(d)' \/ to'[key'[d]] = to'[d])
    BY DEF NewOrReplaced
  <2>1. CASE d = c
    <3>1. CASE Unused(to'[c])
      <4>1. what \in {"register", "rotate"} => NotInUse(c)'
        BY <3>1 DEF NotInUse, Unused
      <4> QED BY <1>o, <2>1, <4>1
    <3>2. CASE ~Unused(to'[c])
      <4>0. what \in {"register", "rotate"} => to'[c] # to[c]
        BY <1>i, AccountKeysAssumption DEF Made, OpInv
      <4>1. what = "rotate" => /\ file[to'[c]] \in Commands /\ key'[c] = file[to'[c]]
                               /\ to'[c] \in Paths
        BY <2>1, <3>2, <4>0
      <4>2. what # "register"
        BY <3>2, <4>0
      <4>3. what = "rotate" => to'[key'[c]] = to'[c]
        BY <1>i, <4>1 DEF Made, KeyInItsFile, KeysTravelInFiles
      <4> QED BY <1>o, <2>1, <4>1, <4>2, <4>3
    <3> QED BY <3>1, <3>2
  <2>2. CASE d # c
    <3>1. op'[d] = op[d] /\ pc'[d] = pc[d] /\ to'[d] = to[d] /\ key'[d] = key[d]
      BY <1>o, <2>2
    <3>2. NotInUse(d) => NotInUse(d)'
      BY <1>i, <1>o, <2>2, <3>1 DEF Made, NotInUse, caVars, Unused, Known, Over
    <3>3. to[key[d]] = to[d] /\ to[d] \in Paths => to'[key[d]] = to[d]
      BY <1>i, <2>2, <3>1 DEF KeysTravelInFiles, KeyInv, InHand
    <3> QED BY <1>i, <2>2, <3>1, <3>2, <3>3 DEF NewOrReplaced
  <2> QED BY <2>1, <2>2
<1>4. OpInv'
  BY <1>i, <1>o DEF Made, OpInv, Saving, caVars
<1> QED BY <1>1, <1>2, <1>3, <1>4 DEF HomeInv

LEMMA HomeInvStep == KeyInv /\ HomeInv /\ [Next]_vars => HomeInv'
<1> SUFFICES ASSUME KeyInv, HomeInv, [Next]_vars PROVE HomeInv'
  OBVIOUS
<1> USE AccountKeysAssumption
<1>i. /\ KeyInItsFile /\ Known /\ NewOrReplaced /\ OpInv
      /\ TypeOK /\ KeysTravelInFiles /\ InHand /\ NotYetThere /\ SavedKeyIsCurrent
  BY DEF HomeInv, KeyInv
<1>1. ASSUME NEW c \in Commands, StartRegister(c) PROVE HomeInv'
  <2>1. PICK p \in Paths : Unused(p) /\ to' = [to EXCEPT ![c] = p]
    BY <1>1 DEF StartRegister
  <2>2. /\ pc[c] = "idle" /\ pc'[c] = "register" /\ to'[c] = p /\ key'[c] = c
        /\ \A d \in Commands : d # c => to'[d] = to[d] /\ key'[d] = key[d] /\ pc'[d] = pc[d]
    BY <1>1, <1>i, <2>1 DEF StartRegister, Goto, TypeOK
  <2>3. op' = [op EXCEPT ![c] = "register"] /\ UNCHANGED <<acct, file, caVars, faults>>
    BY <1>1 DEF StartRegister
  <2> QED BY <2>1, <2>2, <2>3, HomeInvStart
<1>l. ASSUME NEW c \in Commands, NEW p \in Paths, pc[c] = "idle", Load(c, p),
             NEW what \in {"update", "deactivate", "rotate"},
             op' = [op EXCEPT ![c] = what],
             UNCHANGED <<acct, file, caVars, faults>>,
             \/ what # "rotate" /\ to' = to
             \/ /\ what = "rotate"
                /\ \E q \in Paths : (q = p \/ Unused(q)) /\ to' = [to EXCEPT ![c] = q]
      PROVE  HomeInv'
  <2>1. /\ \A d \in Commands : d # c => key'[d] = key[d] /\ pc'[d] = pc[d]
        /\ pc'[c] = "register" => key'[c] # c
        /\ pc'[c] \in {"register", "failed"}
    BY <1>l, LoadedKey
  <2>2. /\ pc'[c] = "register" => file[p] \in Commands /\ key'[c] = file[p]
        /\ pc'[c] = "failed" => key'[c] = key[c]
    BY <1>l, <1>i DEF Load, Goto, TypeOK
  <2>5. \/ key'[c] = key[c] \/ key'[c] = c
        \/ Made(key'[c]) /\ pc[key'[c]] = "ok"
    BY <1>i, <2>1, <2>2 DEF KeyInItsFile, KeysTravelInFiles
  <2>3. CASE what # "rotate" /\ to' = to
    BY <1>l, <2>1, <2>3, <2>5, HomeInvStart
  <2>4. CASE what = "rotate"
    <3>1. PICK q \in Paths : (q = p \/ Unused(q)) /\ to' = [to EXCEPT ![c] = q]
      BY <1>l, <2>4
    <3>2. to'[c] = q /\ \A d \in Commands : d # c => to'[d] = to[d]
      BY <1>i, <3>1 DEF TypeOK
    <3>3. \/ Unused(to'[c])
          \/ file[to'[c]] \in Commands /\ key'[c] = file[to'[c]]
          \/ pc'[c] = "failed"
      BY <2>1, <2>2, <3>1, <3>2
    <3> QED BY <1>l, <2>1, <2>4, <2>5, <3>2, <3>3, HomeInvStart
  <2> QED BY <1>l, <2>3, <2>4
<1>2. ASSUME NEW c \in Commands, StartUpdate(c) \/ StartDeactivate(c) \/ StartRotate(c)
      PROVE  HomeInv'
  <2>1. CASE StartUpdate(c)
    <3>1. PICK p \in Paths : Load(c, p)
      BY <2>1 DEF StartUpdate
    <3> QED BY <1>l, <2>1, <3>1 DEF StartUpdate
  <2>2. CASE StartDeactivate(c)
    <3>1. PICK p \in Paths : Load(c, p)
      BY <2>2 DEF StartDeactivate
    <3> QED BY <1>l, <2>2, <3>1 DEF StartDeactivate
  <2>3. CASE StartRotate(c)
    <3>1. PICK p \in Paths :
            Load(c, p) /\ \E q \in Paths : (q = p \/ Unused(q)) /\ to' = [to EXCEPT ![c] = q]
      BY <2>3 DEF StartRotate
    <3> QED BY <1>l, <2>3, <3>1 DEF StartRotate
  <2> QED BY <1>2, <2>1, <2>2, <2>3
<1>3. ASSUME NEW c \in Commands, Register(c) PROVE HomeInv'
  <2>1. KeyInItsFile'
    BY <1>3, <1>i DEF Made, Register, KeyInItsFile
  <2>2. Known'
    BY <1>3, <1>i, SMTT(30)
       DEF Made, Register, Goto, TypeOK, Known, InHand, KeysTravelInFiles, KeyInItsFile, OpInv,
           NewOrReplaced, NotInUse, Over
  <2>3. NewOrReplaced'
    BY <1>3, <1>i, SMTT(30) DEF Register, Goto, TypeOK, NewOrReplaced, NotInUse, InHand, KeysTravelInFiles
  <2>4. OpInv'
    BY <1>3, <1>i, SMTT(30) DEF Made, Register, Goto, TypeOK, OpInv, Saving, NewOrReplaced, NotInUse,
       Known, NotYetThere
  <2> QED BY <2>1, <2>2, <2>3, <2>4 DEF HomeInv
<1>4. ASSUME NEW c \in Commands, Refused(c) \/ Update(c) \/ Dies(c)
      PROVE  HomeInv'
  <2>1. KeyInItsFile' /\ Known'
    BY <1>4, <1>i DEF Made, Refused, Update, Dies, Goto, caVars, TypeOK, KeyInItsFile, Known, Over
  <2>2. NewOrReplaced'
    BY <1>4, <1>i DEF Refused, Update, Dies, Goto, caVars, TypeOK, NewOrReplaced, NotInUse, Over
  <2>3. OpInv'
    BY <1>4, <1>i DEF Made, Refused, Update, Dies, Goto, caVars, TypeOK, OpInv, Saving, Over
  <2> QED BY <2>1, <2>2, <2>3 DEF HomeInv
<1>5. ASSUME NEW c \in Commands, Deactivate(c) PROVE HomeInv'
  <2>1. KeyInItsFile' /\ Known'
    BY <1>5, <1>i DEF Made, Deactivate, Accepted, InHand, Goto, TypeOK, KeyInItsFile, Known, Over
  <2>2. NewOrReplaced'
    BY <1>5, <1>i DEF Deactivate, Goto, TypeOK, NewOrReplaced, NotInUse, Over
  <2>3. OpInv'
    <3>1. \A d \in Commands : Saving(d) => acct[d] # acct[c]
      BY <1>5, <1>i DEF Deactivate, Accepted, SavedKeyIsCurrent, Saving, KeysTravelInFiles, InHand
    <3> QED BY <1>5, <1>i, <3>1 DEF Made, Deactivate, Goto, TypeOK, OpInv, Saving, Over
  <2> QED BY <2>1, <2>2, <2>3 DEF HomeInv
<1>6. ASSUME NEW c \in Commands, Rollover(c) PROVE HomeInv'
  <2>1. acct[c] \in Commands /\ holder[acct[c]] = key[c] /\ key[c] \in Commands /\ acct[c] \notin dead
    BY <1>6, <1>i DEF Rollover, Accepted, InHand
  <2>2. KeyInItsFile'
    BY <1>6, <1>i DEF Made, Rollover, KeyInItsFile
  <2>3. Known'
    BY <1>6, <1>i, <2>1 DEF Made, Rollover, Goto, TypeOK, Known, NewOrReplaced, NotInUse, Over
  <2>4. NewOrReplaced'
    BY <1>6, <1>i, <2>1 DEF Rollover, Goto, TypeOK, NewOrReplaced, NotInUse
  <2>5. OpInv'
    BY <1>6, <1>i, <2>1 DEF Made, Rollover, Goto, TypeOK, OpInv, Saving, NewOrReplaced
  <2> QED BY <2>2, <2>3, <2>4, <2>5 DEF HomeInv
<1>7. ASSUME NEW c \in Commands, SaveOpen(c) \/ SaveWrite(c) PROVE HomeInv'
  <2>1. KeyInItsFile'
    BY <1>7, <1>i DEF Made, SaveOpen, SaveWrite, Goto, caVars, TypeOK, KeyInItsFile, OpInv, Saving
  <2>2. Known'
    BY <1>7, <1>i DEF Made, SaveOpen, SaveWrite, Goto, caVars, TypeOK, Known, Over
  <2>3. NewOrReplaced'
    BY <1>7, <1>i DEF SaveOpen, SaveWrite, Goto, caVars, TypeOK, NewOrReplaced, NotInUse
  <2>4. OpInv'
    BY <1>7, <1>i DEF Made, SaveOpen, SaveWrite, Goto, caVars, TypeOK, OpInv, Saving
  <2> QED BY <2>1, <2>2, <2>3, <2>4 DEF HomeInv
<1>8. CASE UNCHANGED vars
  BY <1>8, <1>i DEF Made, vars, HomeInv, KeyInItsFile, Known, NewOrReplaced, NotInUse, OpInv, Saving
<1> QED BY <1>1, <1>2, <1>3, <1>4, <1>5, <1>6, <1>7, <1>8 DEF Next

LEMMA HomeInvariant == Spec => [](KeyInv /\ HomeInv)
  BY KeyInvInit, KeyInvStep, HomeInvInit, HomeInvStep, PTL DEF Spec

(* What is counted is finite. *)
LEMMA CountedFinite ==
    /\ IsFiniteSet(Accounts) /\ IsFiniteSet(Owned) /\ IsFiniteSet(Kept)
    /\ IsFiniteSet(Strays) /\ IsFiniteSet(Retired)
    /\ IsFiniteSet(Homes) /\ Cardinality(Homes) <= Cardinality(Kept)
<1>1. /\ Accounts \in SUBSET Commands /\ Owned \in SUBSET Commands /\ Kept \in SUBSET Commands
      /\ Strays \in SUBSET Commands /\ Retired \in SUBSET Commands
  BY DEF Accounts, Owned, Kept, Strays, Retired
<1>2. /\ IsFiniteSet(Accounts) /\ IsFiniteSet(Owned) /\ IsFiniteSet(Kept)
      /\ IsFiniteSet(Strays) /\ IsFiniteSet(Retired)
  BY <1>1, AccountKeysAssumption, FS_Subset
<1> DEFINE f == [a \in Kept |-> to[holder[a]]]
<1>3. f \in Surjection(Kept, Homes)
  BY DEF Surjection, Homes
<1> HIDE DEF f
<1>4. IsFiniteSet(Homes) /\ Cardinality(Homes) <= Cardinality(Kept)
  BY <1>2, <1>3, FS_Surjection
<1> QED BY <1>2, <1>4

LEMMA CountedFiniteNext ==
    IsFiniteSet(Owned') /\ IsFiniteSet(Retired') /\ IsFiniteSet(Homes')
<1>1. Owned' \in SUBSET Commands /\ Retired' \in SUBSET Commands /\ Kept' \in SUBSET Commands
  BY DEF Accounts, Owned, Strays, Retired, Kept
<1>2. IsFiniteSet(Owned') /\ IsFiniteSet(Retired') /\ IsFiniteSet(Kept')
  BY <1>1, AccountKeysAssumption, FS_Subset
<1> DEFINE f == [a \in Kept' |-> to'[holder'[a]]]
<1>3. f \in Surjection(Kept', Homes')
  BY DEF Surjection, Homes
<1> HIDE DEF f
<1> QED BY <1>2, <1>3, FS_Surjection

(* How two sets compare when one has an element in the place of another. *)
LEMMA RemovedOne ==
    ASSUME NEW S, NEW x, IsFiniteSet(S)
    PROVE  IsFiniteSet(S \ {x}) /\ Cardinality(S \ {x}) + 1 >= Cardinality(S)
<1>1. Cardinality(S) \in Nat
  BY FS_CardinalityType
<1>2. /\ IsFiniteSet(S \ {x})
      /\ Cardinality(S \ {x}) = IF x \in S THEN Cardinality(S) - 1 ELSE Cardinality(S)
  BY FS_RemoveElement
<1> QED BY <1>1, <1>2

LEMMA OneLess ==
    ASSUME NEW S, NEW T, NEW x, IsFiniteSet(S), IsFiniteSet(T), S \ {x} \subseteq T
    PROVE  Cardinality(S) \in Nat /\ Cardinality(T) \in Nat /\ Cardinality(T) + 1 >= Cardinality(S)
<1>1. IsFiniteSet(S \ {x}) /\ Cardinality(S \ {x}) + 1 >= Cardinality(S)
  BY RemovedOne
<1>2. Cardinality(S \ {x}) <= Cardinality(T)
  BY FS_Subset
<1> QED BY <1>1, <1>2, FS_CardinalityType

LEMMA Replaced ==
    ASSUME NEW S, NEW T, NEW x, NEW y, IsFiniteSet(S), IsFiniteSet(T),
           (S \ {x}) \cup {y} \subseteq T, y \notin S \/ y = x
    PROVE  Cardinality(S) <= Cardinality(T)
<1>1. CASE y = x
  <2>1. S \in SUBSET T
    BY <1>1
  <2> QED BY <2>1, FS_Subset
<1>2. CASE y \notin S
  <2>1. IsFiniteSet(S \ {x}) /\ Cardinality(S \ {x}) + 1 >= Cardinality(S)
    BY RemovedOne
  <2>2. Cardinality((S \ {x}) \cup {y}) = Cardinality(S \ {x}) + 1
    BY <1>2, <2>1, FS_AddElement
  <2>3. Cardinality((S \ {x}) \cup {y}) <= Cardinality(T)
    BY FS_Subset
  <2> QED BY <2>1, <2>2, <2>3, FS_CardinalityType
<1> QED BY <1>1, <1>2

LEMMA OneMore ==
    ASSUME NEW S, NEW T, NEW x, IsFiniteSet(S), S \subseteq T, x \in T \ S, IsFiniteSet(T)
    PROVE  Cardinality(S) \in Nat /\ Cardinality(T) \in Nat /\ Cardinality(S) + 1 <= Cardinality(T)
<1>1. Cardinality(S \cup {x}) = Cardinality(S) + 1
  BY FS_AddElement
<1>2. Cardinality(S \cup {x}) <= Cardinality(T)
  BY FS_Subset
<1> QED BY <1>1, <1>2, FS_CardinalityType

(* The ways in which a step keeps what is paid. *)
LEMMA PaidByNone ==
    ASSUME Paid, faults \in Nat, faults' = faults,
           Owned' \subseteq Owned, Retired \subseteq Retired',
           Cardinality(Homes) <= Cardinality(Homes')
    PROVE  Paid'
<1>1. /\ Cardinality(Owned') <= Cardinality(Owned)
      /\ Cardinality(Retired) <= Cardinality(Retired')
  BY CountedFinite, CountedFiniteNext, FS_Subset
<1>2. /\ Cardinality(Owned') \in Nat /\ Cardinality(Owned) \in Nat
      /\ Cardinality(Retired) \in Nat /\ Cardinality(Retired') \in Nat
      /\ Cardinality(Homes) \in Nat /\ Cardinality(Homes') \in Nat
  BY CountedFinite, CountedFiniteNext, FS_CardinalityType
<1> QED BY <1>1, <1>2 DEF Paid

LEMMA PaidByHome ==
    ASSUME Paid, faults \in Nat, faults' = faults, NEW c, NEW q,
           Owned' \ {c} \subseteq Owned, Retired \subseteq Retired',
           Homes \subseteq Homes', q \in Homes' \ Homes
    PROVE  Paid'
<1>1. /\ Cardinality(Owned') <= Cardinality(Owned) + 1
      /\ Cardinality(Retired) <= Cardinality(Retired')
      /\ Cardinality(Homes) + 1 <= Cardinality(Homes')
  BY CountedFinite, CountedFiniteNext, FS_Subset, OneLess, OneMore
<1>2. /\ Cardinality(Owned') \in Nat /\ Cardinality(Owned) \in Nat
      /\ Cardinality(Retired) \in Nat /\ Cardinality(Retired') \in Nat
      /\ Cardinality(Homes) \in Nat /\ Cardinality(Homes') \in Nat
  BY CountedFinite, CountedFiniteNext, FS_CardinalityType
<1> QED BY <1>1, <1>2 DEF Paid

LEMMA PaidByFault ==
    ASSUME Paid, faults \in Nat, faults' = faults + 1, NEW q,
           Owned' \subseteq Owned, Retired \subseteq Retired', Homes \ {q} \subseteq Homes'
    PROVE  Paid'
<1>1. /\ Cardinality(Owned') <= Cardinality(Owned)
      /\ Cardinality(Retired) <= Cardinality(Retired')
      /\ Cardinality(Homes) <= Cardinality(Homes') + 1
  BY CountedFinite, CountedFiniteNext, FS_Subset, OneLess
<1>2. /\ Cardinality(Owned') \in Nat /\ Cardinality(Owned) \in Nat
      /\ Cardinality(Retired) \in Nat /\ Cardinality(Retired') \in Nat
      /\ Cardinality(Homes) \in Nat /\ Cardinality(Homes') \in Nat
  BY CountedFinite, CountedFiniteNext, FS_CardinalityType
<1> QED BY <1>1, <1>2 DEF Paid

LEMMA PaidByEnd ==
    ASSUME Paid, faults \in Nat, faults' = faults, NEW a, NEW q,
           Owned' \subseteq Owned, Retired \subseteq Retired', Homes \ {q} \subseteq Homes',
           a \in Owned \ Owned' \/ a \in Retired' \ Retired
    PROVE  Paid'
<1>1. /\ Cardinality(Owned') <= Cardinality(Owned)
      /\ Cardinality(Retired) <= Cardinality(Retired')
      /\ Cardinality(Homes) <= Cardinality(Homes') + 1
  BY CountedFinite, CountedFiniteNext, FS_Subset, OneLess
<1>2. /\ a \in Owned \ Owned' => Cardinality(Owned') + 1 <= Cardinality(Owned)
      /\ a \in Retired' \ Retired => Cardinality(Retired) + 1 <= Cardinality(Retired')
  BY CountedFinite, CountedFiniteNext, OneMore
<1>3. /\ Cardinality(Owned') \in Nat /\ Cardinality(Owned) \in Nat
      /\ Cardinality(Retired) \in Nat /\ Cardinality(Retired') \in Nat
      /\ Cardinality(Homes) \in Nat /\ Cardinality(Homes') \in Nat
  BY CountedFinite, CountedFiniteNext, FS_CardinalityType
<1> QED BY <1>1, <1>2, <1>3 DEF Paid

-----------------------------------------------------------------------------
(* An account is counted as before when neither it nor its key is touched. *)
SameAccounts == holder' = holder /\ dead' = dead /\ \A a \in Accounts : op'[a] = op[a]
SameKeys ==
    \A k \in Commands : (\E a \in Commands : holder[a] = k) =>
        to'[k] = to[k] /\ Saving(k)' = Saving(k)

LEMMA CountedSame ==
    ASSUME SameAccounts
    PROVE  /\ Accounts' = Accounts /\ Owned' = Owned /\ Retired' = Retired
BY DEF SameAccounts, Accounts, Owned, Strays, Retired

LEMMA HomesSame ==
    ASSUME KeyInv, SameAccounts, SameKeys, file' = file
    PROVE  Homes' = Homes
<1>1. Accounts' = Accounts
  BY CountedSame
<1>2. \A a \in Accounts : /\ holder[a] \in Commands /\ holder'[a] = holder[a]
                          /\ to'[holder[a]] = to[holder[a]]
                          /\ Saving(holder[a])' <=> Saving(holder[a])
  BY DEF SameKeys, SameAccounts, Accounts, KeyInv, TypeOK, Saving
<1>3. \A a \in Accounts : InFile(holder[a])' <=> InFile(holder[a])
  BY <1>2 DEF InFile
<1>4. Kept' = Kept
  BY <1>1, <1>2, <1>3 DEF Kept, SameAccounts
<1> QED BY <1>2, <1>4 DEF Homes, Kept

(* A command that is not saving yet has no key at the CA. *)
LEMMA KeyNotYetThere ==
    ASSUME HomeInv, NEW c \in Commands, pc[c] \in {"idle", "register", "request"}
    PROVE  \A a \in Commands : holder[a] # c
BY DEF HomeInv, Known, Over

LEMMA QuietPaid ==
    ASSUME KeyInv, Paid, SameAccounts, SameKeys, file' = file, faults' = faults
    PROVE  Paid'
<1>1. faults \in Nat
  BY AccountKeysAssumption DEF KeyInv, TypeOK
<1>2. Cardinality(Homes) \in Nat
  BY CountedFinite, FS_CardinalityType
<1>3. Cardinality(Homes) <= Cardinality(Homes')
  BY <1>2, HomesSame
<1> QED BY <1>1, <1>3, CountedSame, PaidByNone

(* The file of a new key is no account's home. *)
LEMMA NewHome ==
    ASSUME KeyInv, HomeInv, NEW c \in Commands, pc[c] \in {"register", "request"}, NotInUse(c)
    PROVE  to[c] \notin Homes
<1> SUFFICES ASSUME NEW a \in Kept, to[holder[a]] = to[c] PROVE FALSE
  BY DEF Homes
<1>1. a \in Commands /\ holder[a] \in Commands /\ holder[a] # c
  BY KeyNotYetThere DEF Kept, Accounts, KeyInv, TypeOK
<1> QED BY <1>1 DEF NotInUse

LEMMA PaidStep == KeyInv /\ HomeInv /\ Paid /\ [Next]_vars => Paid'
<1> SUFFICES ASSUME KeyInv, HomeInv, Paid, [Next]_vars PROVE Paid'
  OBVIOUS
<1>i. /\ KeyInItsFile /\ Known /\ NewOrReplaced /\ OpInv
      /\ TypeOK /\ KeysTravelInFiles /\ InHand /\ NotYetThere /\ SavedKeyIsCurrent
  BY DEF HomeInv, KeyInv
<1>n. faults \in Nat
  BY <1>i, AccountKeysAssumption DEF TypeOK
(* A command begins, or ends or waits with nothing to save. *)
<1>1. ASSUME NEW c \in Commands, pc[c] \in {"idle", "register", "request"},
             UNCHANGED <<file, caVars>>,
             \A d \in Commands : d # c => to'[d] = to[d] /\ pc'[d] = pc[d] /\ op'[d] = op[d],
             pc[c] # "idle" => op'[c] = op[c]
      PROVE  Owned' = Owned /\ Retired' = Retired /\ Homes' = Homes
  <2>1. SameAccounts
    BY <1>1, <1>i DEF SameAccounts, caVars, Accounts, NotYetThere
  <2>2. SameKeys
    BY <1>1, KeyNotYetThere DEF SameKeys, Saving
  <2> QED BY <1>1, <2>1, <2>2, CountedSame, HomesSame
<1>2. ASSUME NEW c \in Commands,
             StartRegister(c) \/ StartUpdate(c) \/ StartDeactivate(c) \/ StartRotate(c)
      PROVE  Paid'
  <2>1. /\ pc[c] = "idle" /\ UNCHANGED <<file, caVars>> /\ faults' = faults
        /\ \A d \in Commands : d # c => to'[d] = to[d] /\ pc'[d] = pc[d] /\ op'[d] = op[d]
    BY <1>2, <1>i DEF StartRegister, StartUpdate, StartDeactivate, StartRotate, Load, Goto, TypeOK
  <2> QED BY <1>1, <1>n, <2>1, PaidByNone, CountedFinite, FS_CardinalityType
<1>3. ASSUME NEW c \in Commands, Refused(c) \/ Update(c) PROVE Paid'
  <2>1. /\ pc[c] = "request" /\ UNCHANGED <<file, caVars>> /\ faults' = faults
        /\ \A d \in Commands : d # c => to'[d] = to[d] /\ pc'[d] = pc[d] /\ op'[d] = op[d]
        /\ op'[c] = op[c]
    BY <1>3, <1>i DEF Refused, Update, Goto, TypeOK
  <2> QED BY <1>1, <1>n, <2>1, PaidByNone, CountedFinite, FS_CardinalityType
<1>4. ASSUME NEW c \in Commands, Register(c) PROVE Paid'
  <2>0. /\ pc[c] = "register" /\ op' = op /\ to' = to /\ file' = file /\ dead' = dead
        /\ faults' = faults /\ key' = key
        /\ \A d \in Commands : d # c => pc'[d] = pc[d]
    BY <1>4, <1>i DEF Register, Goto, TypeOK
  <2>1. CASE holder' = holder
    BY <1>1, <1>n, <2>0, <2>1, PaidByNone, CountedFinite, FS_CardinalityType DEF caVars
  <2>2. CASE holder' # holder
    <3>1. /\ \A a \in Commands : holder[a] # key[c]
          /\ holder' = [holder EXCEPT ![c] = key[c]]
          /\ pc'[c] = IF op[c] = "register" THEN "open" ELSE "request"
      BY <1>4, <1>i, <2>2 DEF Register, Goto, TypeOK
    <3>2. /\ holder[c] = "none" /\ holder'[c] = key[c] /\ key[c] \in Commands
          /\ \A a \in Commands : a # c => holder'[a] = holder[a]
      BY <1>i, <2>0, <3>1 DEF NotYetThere, InHand, TypeOK
    <3>3. c \notin Accounts /\ Accounts' = Accounts \cup {c} /\ c \notin dead
      BY <1>i, <3>2, AccountKeysAssumption DEF Accounts, Known
    <3>4. /\ Owned' \ {c} \subseteq Owned /\ Retired \subseteq Retired'
          /\ op[c] # "register" => Owned' \subseteq Owned
      BY <2>0, <3>3 DEF Owned, Retired, Strays
    <3>5. \A a \in Kept : /\ a \in Kept' /\ holder'[a] = holder[a] /\ to'[holder'[a]] = to[holder[a]]
      <4> SUFFICES ASSUME NEW a \in Kept
                   PROVE  /\ a \in Kept' /\ holder'[a] = holder[a]
                          /\ to'[holder'[a]] = to[holder[a]]
        OBVIOUS
      <4>1. a \in Accounts /\ a \notin dead /\ a # c /\ holder'[a] = holder[a]
        BY <3>2, <3>3 DEF Kept, Accounts
      <4>2. holder[a] \in Commands /\ holder[a] # c
        BY <1>i, <2>0, <4>1, KeyNotYetThere DEF Accounts, TypeOK
      <4> QED BY <2>0, <3>3, <4>1, <4>2 DEF Kept, Saving, InFile
    <3>6. Homes \subseteq Homes'
      BY <3>5 DEF Homes
    <3>7. CASE op[c] = "register"
      <4>1. NotInUse(c) /\ key[c] = c
        BY <1>i, <2>0, <3>7 DEF NewOrReplaced, InHand
      <4>2. c \in Kept'
        BY <2>0, <3>1, <3>2, <3>3, <3>7, <4>1 DEF Kept, Saving
      <4>3. to[c] \in Homes'
        BY <2>0, <3>2, <4>1, <4>2 DEF Homes
      <4>4. to[c] \notin Homes
        BY <2>0, <4>1, NewHome
      <4> QED BY <1>n, <2>0, <3>4, <3>6, <4>3, <4>4, PaidByHome
    <3>8. CASE op[c] # "register"
      <4>1. Cardinality(Homes) <= Cardinality(Homes')
        BY <3>6, CountedFinite, CountedFiniteNext, FS_Subset
      <4> QED BY <1>n, <2>0, <3>4, <3>8, <4>1, PaidByNone
    <3> QED BY <3>7, <3>8
  <2> QED BY <2>1, <2>2
<1>5. ASSUME NEW c \in Commands, Dies(c) PROVE Paid'
  <2>0. /\ op' = op /\ to' = to /\ file' = file /\ dead' = dead /\ holder' = holder
        /\ faults' = faults + 1
        /\ \A d \in Commands : d # c => pc'[d] = pc[d]
    BY <1>5, <1>i DEF Dies, Goto, TypeOK, caVars
  <2>1. SameAccounts
    BY <2>0 DEF SameAccounts
  <2>2. Homes \ {to[c]} \subseteq Homes'
    <3> SUFFICES ASSUME NEW a \in Kept, to[holder[a]] # to[c] PROVE to[holder[a]] \in Homes'
      BY DEF Homes
    <3>1. a \in Accounts /\ a \notin dead /\ holder[a] \in Commands /\ holder[a] # c
      BY <1>i DEF Kept, Accounts, TypeOK
    <3>2. a \in Kept'
      BY <2>0, <2>1, <3>1, CountedSame DEF Kept, Saving, InFile
    <3> QED BY <2>0, <3>2 DEF Homes
  <2> QED BY <1>n, <2>0, <2>1, <2>2, CountedSame, PaidByFault
<1>6. ASSUME NEW c \in Commands, Deactivate(c) PROVE Paid'
  <2>0. /\ op' = op /\ to' = to /\ file' = file /\ dead' = dead \cup {acct[c]} /\ holder' = holder
        /\ faults' = faults /\ pc[c] = "request" /\ pc'[c] = "ok"
        /\ \A d \in Commands : d # c => pc'[d] = pc[d]
    BY <1>6, <1>i DEF Deactivate, Goto, TypeOK
  <2>1. acct[c] \in Accounts /\ acct[c] \notin dead
    BY <1>6, <1>i, <2>0, AccountKeysAssumption DEF Deactivate, Accepted, InHand, Accounts
  <2>2. Accounts' = Accounts
    BY <2>0 DEF Accounts
  <2>3. Owned' \subseteq Owned /\ Retired \subseteq Retired'
    BY <2>0, <2>2 DEF Owned, Retired, Strays
  <2>4. acct[c] \in Owned \ Owned' \/ acct[c] \in Retired' \ Retired
    BY <2>0, <2>1, <2>2 DEF Owned, Retired, Strays
  <2>5. Homes \ {to[holder[acct[c]]]} \subseteq Homes'
    <3> SUFFICES ASSUME NEW a \in Kept, a # acct[c] PROVE to[holder[a]] \in Homes'
      BY DEF Homes
    <3>1. a \in Accounts /\ a \notin dead /\ holder[a] \in Commands /\ holder[a] # c
      BY <1>i, <2>0, KeyNotYetThere DEF Kept, Accounts, TypeOK
    <3>2. a \in Kept'
      BY <2>0, <2>2, <3>1 DEF Kept, Saving, InFile
    <3> QED BY <2>0, <3>2 DEF Homes
  <2> QED BY <1>n, <2>0, <2>3, <2>4, <2>5, PaidByEnd
<1>7. ASSUME NEW c \in Commands, Rollover(c) PROVE Paid'
  <2>0. /\ op' = op /\ to' = to /\ file' = file /\ dead' = dead
        /\ holder' = [holder EXCEPT ![acct[c]] = c]
        /\ faults' = faults /\ pc[c] = "request" /\ pc'[c] = "open" /\ op[c] = "rotate"
        /\ \A d \in Commands : d # c => pc'[d] = pc[d]
    BY <1>7, <1>i DEF Rollover, Goto, TypeOK
  <2>1. /\ acct[c] \in Accounts /\ acct[c] \notin dead /\ acct[c] \in Commands
        /\ holder[acct[c]] = key[c] /\ key[c] \in Commands
    BY <1>7, <1>i, <2>0, AccountKeysAssumption DEF Rollover, Accepted, InHand, Accounts
  <2>2. holder'[acct[c]] = c /\ \A a \in Commands : a # acct[c] => holder'[a] = holder[a]
    BY <1>i, <2>0, <2>1 DEF TypeOK
  <2>3. Accounts' = Accounts
    BY <2>1, <2>2, AccountKeysAssumption DEF Accounts
  <2>4. Owned' = Owned /\ Retired' = Retired
    BY <2>0, <2>3 DEF Owned, Retired, Strays
  <2>5. to[c] \in Homes'
    <3>1. acct[c] \in Kept'
      BY <2>0, <2>1, <2>2, <2>3 DEF Kept, Saving
    <3> QED BY <2>0, <2>2, <3>1 DEF Homes
  <2>6. Homes \ {to[key[c]]} \subseteq Homes'
    <3> SUFFICES ASSUME NEW a \in Kept, a # acct[c] PROVE to[holder[a]] \in Homes'
      BY <2>1 DEF Homes
    <3>1. a \in Accounts /\ a \notin dead /\ holder[a] \in Commands /\ holder[a] # c
      BY <1>i, <2>0, KeyNotYetThere DEF Kept, Accounts, TypeOK
    <3>2. holder'[a] = holder[a]
      BY <2>2, <3>1 DEF Accounts
    <3>3. a \in Kept'
      BY <2>0, <2>3, <3>1, <3>2 DEF Kept, Saving, InFile
    <3> QED BY <2>0, <3>2, <3>3 DEF Homes
  <2>7. to[c] \notin Homes \/ to[c] = to[key[c]]
    BY <1>i, <2>0, NewHome DEF NewOrReplaced
  <2>8. (Homes \ {to[key[c]]}) \cup {to[c]} \subseteq Homes'
    BY <2>5, <2>6
  <2>9. Cardinality(Homes) <= Cardinality(Homes')
    BY <2>7, <2>8, CountedFinite, CountedFiniteNext, Replaced
  <2> QED BY <1>n, <2>0, <2>4, <2>9, PaidByNone
<1>8. ASSUME NEW c \in Commands, SaveOpen(c) \/ SaveWrite(c) PROVE Paid'
  <2>0. /\ op' = op /\ to' = to /\ dead' = dead /\ holder' = holder /\ faults' = faults
        /\ Saving(c) /\ (pc'[c] = "write" \/ (pc'[c] = "ok" /\ file'[to[c]] = c))
        /\ \A d \in Commands : d # c => pc'[d] = pc[d]
        /\ \A p \in Paths : p # to[c] => file'[p] = file[p]
    BY <1>8, <1>i DEF SaveOpen, SaveWrite, Goto, TypeOK, caVars, Saving, OpInv, Made
  <2>1. SameAccounts
    BY <2>0 DEF SameAccounts
  <2>2. to[c] \in Homes'
    <3>1. acct[c] \in Commands /\ holder[acct[c]] = c /\ acct[c] \notin dead
      BY <1>i, <2>0 DEF InHand, SavedKeyIsCurrent, OpInv, Saving
    <3>2. acct[c] \in Accounts
      BY <3>1, AccountKeysAssumption DEF Accounts
    <3>3. acct[c] \in Kept'
      BY <2>0, <2>1, <3>1, <3>2, CountedSame DEF Kept, Saving, InFile
    <3> QED BY <2>0, <3>1, <3>3 DEF Homes
  <2>3. Homes \subseteq Homes'
    <3> SUFFICES ASSUME NEW a \in Kept, to[holder[a]] # to[c] PROVE to[holder[a]] \in Homes'
      BY <2>2 DEF Homes
    <3>1. a \in Accounts /\ a \notin dead /\ holder[a] \in Commands /\ holder[a] # c
      BY <1>i DEF Kept, Accounts, TypeOK
    <3>2. to[holder[a]] \in Paths
      BY <1>i, <3>1 DEF Known, Made, Accounts
    <3>3. a \in Kept'
      BY <2>0, <2>1, <3>1, <3>2, CountedSame DEF Kept, Saving, InFile
    <3> QED BY <2>0, <3>3 DEF Homes
  <2>4. Cardinality(Homes) <= Cardinality(Homes')
    BY <2>3, CountedFinite, CountedFiniteNext, FS_Subset
  <2> QED BY <1>n, <2>0, <2>1, <2>4, CountedSame, PaidByNone
<1>9. CASE UNCHANGED vars
  <2>1. SameAccounts /\ SameKeys /\ file' = file /\ faults' = faults
    BY <1>9 DEF vars, SameAccounts, SameKeys, Saving
  <2> QED BY <2>1, QuietPaid
<1> QED BY <1>2, <1>3, <1>4, <1>5, <1>6, <1>7, <1>8, <1>9 DEF Next

LEMMA PaidInvariant == Spec => [](KeyInv /\ HomeInv /\ Paid)
<1>1. Init => Paid
  <2> SUFFICES ASSUME Init PROVE Paid
    OBVIOUS
  <2>1. Accounts = {}
    BY DEF Init, Accounts
  <2>2. Owned = {} /\ Kept = {} /\ Retired = {}
    BY <2>1 DEF Owned, Kept, Retired, Strays
  <2>3. Homes = {}
    BY <2>2 DEF Homes
  <2> QED BY <2>2, <2>3, FS_EmptySet DEF Paid, Init
<1> QED BY <1>1, KeyInvInit, KeyInvStep, HomeInvInit, HomeInvStep, PaidStep, PTL DEF Spec

(* The sizes of two parts that do not meet. *)
LEMMA Parts ==
    ASSUME NEW S, NEW T, IsFiniteSet(S), IsFiniteSet(T), S \cap T = {}
    PROVE  Cardinality(S \cup T) = Cardinality(S) + Cardinality(T)
<1>1. Cardinality(S \cap T) = 0
  BY FS_EmptySet
<1>2. Cardinality(S \cup T) = Cardinality(S) + Cardinality(T) - Cardinality(S \cap T)
  BY FS_Union
<1>3. Cardinality(S) \in Nat /\ Cardinality(T) \in Nat
  BY FS_CardinalityType
<1> QED BY <1>1, <1>2, <1>3

(* An account that is kept is not lost. *)
LEMMA KeptIsNotLost ==
    ASSUME KeyInv, HomeInv
    PROVE  Kept \cap Lost = {}
<1> SUFFICES ASSUME NEW a \in Kept, a \in Lost PROVE FALSE
  OBVIOUS
<1>1. a \in Commands /\ holder[a] \in Commands
  BY DEF Kept, Accounts, KeyInv, TypeOK
<1>2. CASE Saving(holder[a])
  <2>1. holder[a] \in InMemory
    BY <1>1, <1>2 DEF InMemory, Saving, Over
  <2> QED BY <2>1 DEF Lost
<1>3. CASE InFile(holder[a])
  <2>1. to[holder[a]] \in Paths
    BY <1>1 DEF HomeInv, Known, Made
  <2> QED BY <1>3, <2>1 DEF InFile, Lost
<1> QED BY <1>2, <1>3 DEF Kept

(* Account keys are not lost by commands that overtake each other          *)
(* (src/cli/commands/account.rs): an account that is out of reach is paid  *)
(* for by a failure, or by a command that registered a replaced key.       *)
THEOREM LossesArePaid == Spec => []LossesHaveCauses
<1>1. KeyInv /\ HomeInv /\ Paid => LossesHaveCauses
  <2> SUFFICES ASSUME KeyInv, HomeInv, Paid PROVE LossesHaveCauses
    OBVIOUS
  <2> DEFINE Live == Accounts \ dead
  <2>1. /\ IsFiniteSet(Live) /\ IsFiniteSet(Lost) /\ Lost \subseteq Live /\ Kept \subseteq Live
        /\ Owned \subseteq Live
    <3>1. Live \in SUBSET Accounts /\ Lost \in SUBSET Accounts
      BY DEF Lost
    <3> QED BY <3>1, CountedFinite, FS_Subset DEF Lost, Kept, Owned
  <2>2. Cardinality(Lost) + Cardinality(Kept) <= Cardinality(Live)
    <3>1. Lost \cap Kept = {}
      BY KeptIsNotLost
    <3>2. Cardinality(Lost \cup Kept) = Cardinality(Lost) + Cardinality(Kept)
      BY <2>1, <3>1, CountedFinite, Parts
    <3>3. Lost \cup Kept \in SUBSET Live
      BY <2>1
    <3> QED BY <2>1, <3>2, <3>3, FS_Subset
  <2>3. Cardinality(Live) <= Cardinality(Owned) + Cardinality(Strays \ dead)
    <3>1. Live = Owned \cup (Strays \ dead) /\ Owned \cap (Strays \ dead) = {}
      BY DEF Owned, Strays
    <3>2. IsFiniteSet(Strays \ dead)
      BY CountedFinite, FS_Difference
    <3>3. Cardinality(Live) = Cardinality(Owned) + Cardinality(Strays \ dead)
      BY <3>1, <3>2, CountedFinite, Parts
    <3>4. Cardinality(Live) \in Nat
      BY <2>1, FS_CardinalityType
    <3> QED BY <3>3, <3>4
  <2>4. Cardinality(Strays) = Cardinality(Strays \ dead) + Cardinality(Retired)
    <3>1. Strays = (Strays \ dead) \cup Retired /\ (Strays \ dead) \cap Retired = {}
      BY DEF Retired
    <3>2. IsFiniteSet(Strays \ dead)
      BY CountedFinite, FS_Difference
    <3> QED BY <3>1, <3>2, CountedFinite, Parts
  <2>5. faults \in Nat
    BY AccountKeysAssumption DEF KeyInv, TypeOK
  <2>6. /\ Cardinality(Lost) \in Nat /\ Cardinality(Kept) \in Nat /\ Cardinality(Live) \in Nat
        /\ Cardinality(Owned) \in Nat /\ Cardinality(Strays \ dead) \in Nat
        /\ Cardinality(Strays) \in Nat /\ Cardinality(Retired) \in Nat
        /\ Cardinality(Homes) \in Nat /\ Cardinality(Homes) <= Cardinality(Kept)
    BY <2>1, CountedFinite, FS_CardinalityType, FS_Difference
  <2> QED BY <2>2, <2>3, <2>4, <2>5, <2>6 DEF Paid, LossesHaveCauses
<1> QED BY <1>1, PaidInvariant, PTL

-----------------------------------------------------------------------------
(* CertFiles: what the files can hold *)

Placeholders == {Placeholder, Nothing, Empty}

(* Bundles up to the last that was issued, and what is not a bundle. *)
Texts == 1..issued \cup {Placeholder}
Contents == 1..issued \cup Placeholders

Phases == {"open_cert", "write_cert", "open_key", "write_key"}

FilesInv ==
    /\ issued \in 0..MaxBundles
    /\ failures \in 0..MaxFailures
    /\ hurt \in BOOLEAN
    /\ pem \in [Files -> Contents]
    /\ saving \in [Savers -> {Idle} \cup [pc : Phases, bundle : Texts, alone : BOOLEAN]]

LEMMA SavingIs ==
    ASSUME FilesInv, NEW s \in Savers
    PROVE  /\ saving[s].pc \in Phases \cup {"idle"} /\ saving[s].alone \in BOOLEAN
           /\ saving[s].pc # "idle" =>
                 saving[s] \in [pc : Phases, bundle : Texts, alone : BOOLEAN]
           /\ saving[s].pc = "idle" <=> saving[s] = Idle
<1>1. saving[s] \in {Idle} \cup [pc : Phases, bundle : Texts, alone : BOOLEAN]
  BY DEF FilesInv
<1>2. CASE saving[s] = Idle
  BY <1>2 DEF Idle, Phases
<1>3. CASE saving[s] \in [pc : Phases, bundle : Texts, alone : BOOLEAN]
  <2>1. saving[s].pc \in Phases /\ saving[s].alone \in BOOLEAN
    BY <1>3
  <2> QED
    BY <1>3, <2>1 DEF Idle, Phases
<1> QED
  BY <1>1, <1>2, <1>3

LEMMA FilesInvInit == InitFiles => FilesInv
<1>1. 0 \in 0..MaxBundles /\ 0 \in 0..MaxFailures
  BY FilesAssumption
<1> QED
  BY <1>1 DEF InitFiles, FilesInv, Contents, Placeholders

(* The steps of s, by what they do to the two files. *)
LEMMA SaveStepIs ==
    ASSUME FilesInv, NEW s \in Savers,
           OpenCert(s) \/ WriteCert(s) \/ OpenKey(s) \/ WriteKey(s)
    PROVE  /\ saving[s].pc # "idle"
           /\ \E after \in {Idle} \cup [pc : Phases, bundle : Texts, alone : BOOLEAN] :
                 saving' = [saving EXCEPT ![s] = after]
           /\ \E f \in Files, text \in Contents : pem' = [pem EXCEPT ![f] = text]
           /\ hurt' \in BOOLEAN
           /\ UNCHANGED <<issued, left, renew, backup, daemonVars, failures>>
           /\ pem'["cert"] # pem["cert"] => waiting' = 0
           /\ waiting' = waiting \/ waiting' = 0
           /\ disturbed' = (disturbed \/ renew.pc \in {"copy_cert", "copy_key"})
<1>1. saving[s].bundle \in Texts /\ saving[s].pc # "idle"
  BY SavingIs DEF OpenCert, WriteCert, OpenKey, WriteKey, SaveStep, Phases
<1>2. \A phase \in Phases : At(s, phase) \in [pc : Phases, bundle : Texts, alone : BOOLEAN]
  BY <1>1, SavingIs DEF At
<1>3. "cert" \in Files /\ "key" \in Files /\ {Empty, saving[s].bundle} \subseteq Contents
  BY <1>1 DEF Files, Contents, Placeholders, Texts
<1>4. CASE OpenCert(s)
  BY <1>1, <1>2, <1>3, <1>4 DEF OpenCert, SaveStep, Truncate, Phases, FilesInv
<1>5. CASE WriteCert(s)
  BY <1>1, <1>2, <1>3, <1>5 DEF WriteCert, SaveStep, Fill, Phases, FilesInv
<1>6. CASE OpenKey(s)
  BY <1>1, <1>2, <1>3, <1>6 DEF OpenKey, SaveStep, Truncate, Phases, FilesInv
<1>7. CASE WriteKey(s)
  BY <1>1, <1>2, <1>3, <1>7, SavingIs DEF WriteKey, SaveStep, Fill, FilesInv
<1> QED
  BY <1>4, <1>5, <1>6, <1>7

LEMMA FilesInvStep ==
    ASSUME FilesInv, [NextFiles]_filesVars
    PROVE  FilesInv'
<1>1. ASSUME UNCHANGED <<pem, saving, issued, hurt, failures>> PROVE FilesInv'
  BY <1>1 DEF FilesInv, Texts, Contents
<1>2. CASE UNCHANGED filesVars
  BY <1>1, <1>2 DEF filesVars
<1>3. ASSUME NEW s \in Savers, Begin(s) PROVE FilesInv'
  <2>1. issued' \in 0..MaxBundles /\ issued <= issued'
    BY <1>3, FilesAssumption DEF FilesInv, Begin
  <2>2. 1..issued \subseteq 1..issued'
    BY <2>1 DEF FilesInv
  <2>3. pem' \in [Files -> Contents']
    BY <1>3, <2>2 DEF FilesInv, Begin, Contents
  <2>4. (IF issued' > issued THEN issued' ELSE Placeholder) \in Texts'
    BY <2>1 DEF FilesInv, Texts
  <2>5. ASSUME NEW t \in Savers
        PROVE  saving'[t] \in {Idle} \cup [pc : Phases, bundle : Texts', alone : BOOLEAN]
    <3>1. CASE t = s
      BY <1>3, <2>4, <3>1 DEF Begin, Phases
    <3>2. CASE t # s
      <4>1. saving'[t] = [saving[t] EXCEPT !.alone = saving[t].pc = "idle"]
        BY <1>3, <3>2 DEF Begin
      <4>2. CASE saving[t].pc = "idle"
        BY <4>1, <4>2, SavingIs DEF Idle
      <4>3. CASE saving[t].pc # "idle"
        <5>1. saving[t] \in [pc : Phases, bundle : Texts, alone : BOOLEAN] /\ Texts \subseteq Texts'
          BY <2>2, <4>3, SavingIs DEF Texts
        <5> QED
          BY <4>1, <5>1
      <4> QED
        BY <4>2, <4>3
    <3> QED
      BY <3>1, <3>2
  <2>6. saving' \in [Savers -> {Idle} \cup [pc : Phases, bundle : Texts', alone : BOOLEAN]]
    BY <1>3, <2>5 DEF Begin
  <2> QED
    BY <1>3, <2>1, <2>3, <2>6 DEF FilesInv, Begin
<1>4. ASSUME NEW s \in Savers, OpenCert(s) \/ WriteCert(s) \/ OpenKey(s) \/ WriteKey(s)
      PROVE  FilesInv'
  BY <1>4, SaveStepIs DEF FilesInv, Texts, Contents
<1>5. ASSUME NEW s \in Savers, SaveFails(s) PROVE FilesInv'
  <2>1. failures' \in 0..MaxFailures
    BY <1>5, FilesAssumption DEF FilesInv, SaveFails
  <2> QED
    BY <1>5, <2>1 DEF FilesInv, SaveFails, Texts, Contents
<1>6. CASE Renew
  BY <1>1, <1>6 DEF Renew, RenewCheck, CopyCert, CopyKey, RenewReturn, RenewUnchanged, saveVars
<1>7. CASE Signal \/ Check \/ Tick
  BY <1>1, <1>7 DEF Signal, Check, Wake, CheckDomain, CheckEnds, Tick, DaemonUnchanged, saveVars
<1> QED
  BY <1>2, <1>3, <1>4, <1>5, <1>6, <1>7 DEF NextFiles, Save

-----------------------------------------------------------------------------
(* The pair *)

(* Who is alone is the only one; alone, it finds in the files what it has  *)
(* left there.                                                             *)
Alone ==
    \A s \in Savers : saving[s].pc # "idle" /\ saving[s].alone => Busy = {s}
Written ==
    \A s \in Savers : saving[s].alone =>
        /\ saving[s].pc = "write_cert" => pem["cert"] = Empty
        /\ saving[s].pc = "open_key" => pem["cert"] = saving[s].bundle
        /\ saving[s].pc = "write_key" =>
              pem["cert"] = saving[s].bundle /\ pem["key"] = Empty

PairInv == Alone /\ Written /\ PairMatches

(* The renewal that nobody has disturbed finds the pair it has judged.     *)
BackupInv ==
    ~disturbed =>
        /\ renew.pc = "copy_cert" => pem["cert"] = renew.read /\ pem["key"] = renew.read
        /\ renew.pc = "copy_key" => backup["cert"] = renew.read /\ pem["key"] = renew.read
        /\ renew.pc = "done" /\ renew.result = "ok" =>
              \A f \in Files : backup[f] = renew.read

RenewInv ==
    /\ renew \in [pc : {"idle", "copy_cert", "copy_key", "done"},
                  result : {"none", "error", "expired", "not_due", "ok"},
                  read : Contents \cup {0}]
    /\ renew.pc = "idle" => renew.result = "none"
    /\ backup \in [Files -> Contents]
    /\ disturbed \in BOOLEAN

LEMMA PairInvInit == InitFiles => PairInv
<1> SUFFICES ASSUME InitFiles PROVE PairInv
  OBVIOUS
<1>1. \A s \in Savers : saving[s].pc = "idle"
  BY DEF InitFiles, Idle
<1> QED
  BY <1>1 DEF InitFiles, PairInv, Alone, Written, PairMatches, Files

(* A save that begins leaves the files, and alone only itself. *)
LEMMA BeginPair ==
    ASSUME FilesInv, PairInv, NEW s \in Savers, Begin(s)
    PROVE  PairInv'
<1>1. /\ saving'[s].pc = "open_cert" /\ saving'[s].alone = (Busy = {})
      /\ saving[s].pc = "idle"
  BY DEF Begin
<1>2. ASSUME NEW t \in Savers, t # s
      PROVE  saving'[t].pc = saving[t].pc /\ saving'[t].alone = (saving[t].pc = "idle")
  <2>1. saving'[t] = [saving[t] EXCEPT !.alone = saving[t].pc = "idle"]
    BY <1>2 DEF Begin
  <2>2. saving[t] = Idle \/ saving[t] \in [pc : Phases, bundle : Texts, alone : BOOLEAN]
    BY SavingIs
  <2> QED
    BY <2>1, <2>2 DEF Idle
<1>3. Busy' = Busy \cup {s}
  BY <1>1, <1>2 DEF Busy
<1>4. Alone'
  BY <1>1, <1>2, <1>3 DEF Alone
<1>5. Written'
  BY <1>1, <1>2 DEF Written
<1>6. PairMatches'
  BY <1>3 DEF PairMatches
<1> QED
  BY <1>4, <1>5, <1>6 DEF PairInv

(* A step of s on the files, for what holds after it. *)
LEMMA SavePair ==
    ASSUME FilesInv, PairInv, NEW s \in Savers,
           NEW after \in {Idle} \cup [pc : Phases, bundle : Texts, alone : BOOLEAN],
           saving' = [saving EXCEPT ![s] = after],
           saving[s].pc # "idle",
           after.pc # "idle" => after.alone = saving[s].alone,
           saving[s].alone /\ after.pc = "write_cert" => pem'["cert"] = Empty,
           saving[s].alone /\ after.pc = "open_key" => pem'["cert"] = after.bundle,
           saving[s].alone /\ after.pc = "write_key" =>
              pem'["cert"] = after.bundle /\ pem'["key"] = Empty,
           after.pc = "idle" => IF saving[s].alone THEN hurt' \/ pem'["cert"] = pem'["key"] ELSE hurt'
    PROVE  PairInv'
<1>1. \A t \in Savers : saving'[t] = IF t = s THEN after ELSE saving[t]
  BY DEF FilesInv
<1>2. ASSUME NEW t \in Savers, t # s PROVE saving[t].pc # "idle" => ~saving[t].alone
  BY <1>2 DEF PairInv, Alone, Busy
<1>3. Alone'
  <2> SUFFICES ASSUME NEW t \in Savers, saving'[t].pc # "idle", saving'[t].alone
               PROVE  Busy' = {t}
    BY DEF Alone
  <2>1. t = s
    BY <1>1, <1>2
  <2>2. Busy = {s}
    BY <1>1, <2>1 DEF PairInv, Alone
  <2> QED
    BY <1>1, <2>1, <2>2 DEF Busy
<1>4. Written'
  <2> SUFFICES ASSUME NEW t \in Savers, saving'[t].alone, saving'[t].pc # "idle"
               PROVE  /\ saving'[t].pc = "write_cert" => pem'["cert"] = Empty
                      /\ saving'[t].pc = "open_key" => pem'["cert"] = saving'[t].bundle
                      /\ saving'[t].pc = "write_key" =>
                            pem'["cert"] = saving'[t].bundle /\ pem'["key"] = Empty
    BY DEF Written
  <2>1. t = s
    BY <1>1, <1>2
  <2> QED
    BY <1>1, <2>1
<1>5. PairMatches'
  <2> SUFFICES ASSUME Busy' = {}, ~hurt' PROVE pem'["cert"] = pem'["key"]
    BY DEF PairMatches
  <2>1. after.pc = "idle"
    BY <1>1 DEF Busy
  <2> QED
    BY <2>1
<1> QED
  BY <1>3, <1>4, <1>5 DEF PairInv

LEMMA PairInvStep ==
    ASSUME FilesInv, PairInv, [NextFiles]_filesVars
    PROVE  PairInv'
<1>1. ASSUME UNCHANGED <<pem, saving, hurt>> PROVE PairInv'
  BY <1>1 DEF PairInv, Alone, Written, PairMatches, Busy
<1>2. CASE UNCHANGED filesVars
  BY <1>1, <1>2 DEF filesVars
<1>3. ASSUME NEW s \in Savers, Begin(s) PROVE PairInv'
  BY <1>3, BeginPair
<1>4. ASSUME NEW s \in Savers, saving[s].pc # "idle", NEW phase \in Phases
      PROVE  /\ At(s, phase) \in [pc : Phases, bundle : Texts, alone : BOOLEAN]
             /\ At(s, phase).pc = phase /\ At(s, phase).alone = saving[s].alone
             /\ At(s, phase).bundle = saving[s].bundle
  BY <1>4, SavingIs DEF At
<1> DEFINE Step(s, after) ==
      /\ after \in {Idle} \cup [pc : Phases, bundle : Texts, alone : BOOLEAN]
      /\ saving' = [saving EXCEPT ![s] = after] /\ saving[s].pc # "idle"
<1>5. ASSUME NEW s \in Savers, OpenCert(s) PROVE PairInv'
  <2>1. Step(s, At(s, "write_cert")) /\ pem'["cert"] = Empty
    BY <1>4, <1>5 DEF OpenCert, SaveStep, Truncate, FilesInv, Phases, Files
  <2> QED
    BY <1>4, <2>1, SavePair DEF Phases
<1>6. ASSUME NEW s \in Savers, WriteCert(s) PROVE PairInv'
  <2>1. Step(s, At(s, "open_key"))
    BY <1>4, <1>6 DEF WriteCert, SaveStep, Phases
  <2>2. saving[s].alone => pem["cert"] = Empty
    BY <1>6 DEF WriteCert, SaveStep, PairInv, Written
  <2>3. saving[s].alone => pem'["cert"] = saving[s].bundle
    BY <1>6, <2>2 DEF WriteCert, Fill, FilesInv, Files
  <2>4. /\ At(s, "open_key").pc = "open_key" /\ At(s, "open_key").alone = saving[s].alone
         /\ At(s, "open_key").bundle = saving[s].bundle
    BY <1>4, <2>1 DEF Phases
  <2> QED
    BY <2>1, <2>3, <2>4, SavePair
<1>7. ASSUME NEW s \in Savers, OpenKey(s) PROVE PairInv'
  <2>1. Step(s, At(s, "write_key")) /\ pem'["key"] = Empty /\ pem'["cert"] = pem["cert"]
    BY <1>4, <1>7 DEF OpenKey, SaveStep, Truncate, FilesInv, Phases, Files
  <2>2. saving[s].alone => pem["cert"] = saving[s].bundle
    BY <1>7 DEF OpenKey, SaveStep, PairInv, Written
  <2>3. /\ At(s, "write_key").pc = "write_key" /\ At(s, "write_key").alone = saving[s].alone
         /\ At(s, "write_key").bundle = saving[s].bundle
    BY <1>4, <2>1 DEF Phases
  <2> QED
    BY <2>1, <2>2, <2>3, SavePair
<1>8. ASSUME NEW s \in Savers, WriteKey(s) PROVE PairInv'
  <2>1. Step(s, Idle) /\ hurt' = ~saving[s].alone
    BY <1>8 DEF WriteKey, SaveStep
  <2>2. saving[s].alone => pem["cert"] = saving[s].bundle /\ pem["key"] = Empty
    BY <1>8 DEF WriteKey, SaveStep, PairInv, Written
  <2>3. saving[s].alone => pem'["cert"] = pem'["key"]
    BY <1>8, <2>2 DEF WriteKey, Fill, FilesInv, Files
  <2> QED
    BY <2>1, <2>3, SavePair DEF Idle
<1>9. ASSUME NEW s \in Savers, SaveFails(s) PROVE PairInv'
  <2>1. Step(s, Idle) /\ hurt'
    BY <1>9 DEF SaveFails, Busy
  <2> QED
    BY <2>1, SavePair DEF Idle
<1>10. CASE Renew
  BY <1>1, <1>10 DEF Renew, RenewCheck, CopyCert, CopyKey, RenewReturn, RenewUnchanged, saveVars
<1>11. CASE Signal \/ Check \/ Tick
  BY <1>1, <1>11 DEF Signal, Check, Wake, CheckDomain, CheckEnds, Tick, DaemonUnchanged, saveVars
<1> QED
  BY <1>2, <1>3, <1>5, <1>6, <1>7, <1>8, <1>9, <1>10, <1>11 DEF NextFiles, Save

-----------------------------------------------------------------------------
(* The backup *)

LEMMA RenewInvStep ==
    ASSUME FilesInv, RenewInv, [NextFiles]_filesVars
    PROVE  RenewInv'
<1>1. ASSUME Contents \subseteq Contents', UNCHANGED <<renew, backup>>, disturbed' \in BOOLEAN
      PROVE  RenewInv'
  BY <1>1 DEF RenewInv
<1>2. CASE UNCHANGED filesVars
  BY <1>1, <1>2 DEF filesVars, RenewInv, Contents
<1>3. ASSUME NEW s \in Savers, Begin(s) PROVE RenewInv'
  <2>1. issued' \in Nat /\ issued <= issued'
    BY <1>3, FilesAssumption DEF FilesInv, Begin
  <2>2. Contents \subseteq Contents'
    BY <2>1 DEF FilesInv, Contents
  <2> QED
    BY <1>1, <1>3, <2>2 DEF Begin, RenewInv
<1>4. ASSUME NEW s \in Savers, OpenCert(s) \/ WriteCert(s) \/ OpenKey(s) \/ WriteKey(s)
      PROVE  RenewInv'
  BY <1>1, <1>4, SaveStepIs DEF RenewInv, Contents
<1>5. ASSUME NEW s \in Savers, SaveFails(s) PROVE RenewInv'
  BY <1>1, <1>5 DEF SaveFails, RenewInv, Contents
<1>6. ASSUME NEW force \in BOOLEAN, RenewCheck(force) PROVE RenewInv'
  <2>1. Contents' = Contents
    BY <1>6 DEF RenewCheck, RenewUnchanged, saveVars, Contents
  <2>2. pem["cert"] \in Contents
    BY DEF FilesInv, Files
  <2>3. disturbed' \in BOOLEAN /\ backup' = backup
    BY <1>6 DEF RenewCheck
  <2>4. renew' \in [pc : {"copy_cert", "done"},
                    result : {"none", "error", "expired", "not_due"}, read : Contents]
    BY <1>6, <2>2 DEF RenewCheck
  <2> QED
    BY <2>1, <2>3, <2>4 DEF RenewInv
<1>7. CASE CopyCert \/ CopyKey \/ RenewReturn
  <2>1. Contents' = Contents
    BY <1>7 DEF CopyCert, CopyKey, RenewReturn, RenewUnchanged, saveVars, Contents
  <2>2. pem["cert"] \in Contents /\ pem["key"] \in Contents /\ Nothing \in Contents
    BY DEF FilesInv, Files, Contents, Placeholders
  <2>3. CASE CopyCert
    <3>1. backup' \in [Files -> Contents]
      BY <2>2, <2>3 DEF CopyCert, Files
    <3> QED
      BY <2>1, <2>3, <3>1 DEF RenewInv, CopyCert
  <2>4. CASE CopyKey
    BY <2>1, <2>2, <2>4 DEF RenewInv, CopyKey
  <2>5. CASE RenewReturn
    BY <2>1, <2>2, <2>5 DEF RenewInv, RenewReturn
  <2> QED
    BY <1>7, <2>3, <2>4, <2>5
<1>8. CASE Signal \/ Check \/ Tick
  BY <1>1, <1>8 DEF Signal, Check, Wake, CheckDomain, CheckEnds, Tick, DaemonUnchanged,
      saveVars, RenewInv, Contents
<1> QED
  BY <1>2, <1>3, <1>4, <1>5, <1>6, <1>7, <1>8 DEF NextFiles, Save, Renew

LEMMA BackupInvStep ==
    ASSUME FilesInv, RenewInv, PairInv, BackupInv, [NextFiles]_filesVars
    PROVE  BackupInv'
<1>1. ASSUME UNCHANGED <<pem, renew, backup, disturbed>> PROVE BackupInv'
  BY <1>1 DEF BackupInv
<1>2. CASE UNCHANGED filesVars
  BY <1>1, <1>2 DEF filesVars
<1>3. ASSUME NEW s \in Savers, Begin(s) \/ SaveFails(s) PROVE BackupInv'
  BY <1>1, <1>3 DEF Begin, SaveFails
<1>4. ASSUME NEW s \in Savers, OpenCert(s) \/ WriteCert(s) \/ OpenKey(s) \/ WriteKey(s)
      PROVE  BackupInv'
  BY <1>4, SaveStepIs DEF BackupInv
<1>5. ASSUME NEW force \in BOOLEAN, RenewCheck(force) PROVE BackupInv'
  <2>1. ~disturbed' => pem["cert"] = pem["key"] /\ pem' = pem
    BY <1>5 DEF RenewCheck, RenewUnchanged, PairInv, PairMatches
  <2>2. \/ renew'.pc = "done" /\ renew'.result # "ok"
        \/ renew'.pc = "copy_cert" /\ renew'.read = pem["cert"]
    BY <1>5 DEF RenewCheck
  <2> QED
    BY <2>1, <2>2 DEF BackupInv
<1>6. CASE CopyCert
  BY <1>6 DEF BackupInv, RenewInv, CopyCert, RenewUnchanged, Files
<1>7. CASE CopyKey
  BY <1>7 DEF BackupInv, RenewInv, CopyKey, RenewUnchanged, Files
<1>8. CASE RenewReturn
  BY <1>8 DEF BackupInv, RenewReturn
<1>9. CASE Signal \/ Check \/ Tick
  BY <1>1, <1>9 DEF Signal, Check, Wake, CheckDomain, CheckEnds, Tick, DaemonUnchanged
<1> QED
  BY <1>2, <1>3, <1>4, <1>5, <1>6, <1>7, <1>8, <1>9 DEF NextFiles, Save, Renew

-----------------------------------------------------------------------------
(* The daemon *)

DaemonInv ==
    /\ crew \in Crews
    /\ daemon \in [pc : {"sleep", "check", "stopped"}, timer : 0..Interval,
                   todo : 0..Domains, count : 0..Domains]
    /\ daemon.todo + daemon.count <= Domains
    /\ daemon.pc = "sleep" => daemon.todo = 0 /\ daemon.count = 0
    /\ left \in [Bundles -> Floor..Life]
    /\ counted \subseteq 1..issued
    /\ waiting \in Nat

(* What waits is due, and has waited in its window. *)
InTime == waiting > 0 => Due(pem["cert"]) /\ waiting + left[pem["cert"]] <= Window

(* What the daemon counted was due, and so it is now or it has expired. *)
CountedWasDue == \A n \in counted : left[n] <= Window

(* What has waited since before the last check, or since before this one   *)
(* has come to a domain, is counted.                                       *)
Counted ==
    /\ daemon.pc = "sleep" /\ waiting > Interval - daemon.timer => pem["cert"] \in counted
    /\ daemon.pc = "check" /\ waiting > 0 /\ daemon.todo < Domains => pem["cert"] \in counted

DueInv == InTime /\ CountedWasDue /\ Counted /\ DueIsCounted

LEMMA CountsAre ==
    /\ Window \in Nat /\ Interval \in Nat /\ Domains \in Nat /\ Day \in Nat
    /\ Life \in Nat /\ RenewDays \in Nat
    /\ 0 < Interval /\ 0 < Domains /\ 0 < Day /\ 0 < Life
    /\ Floor \in Int /\ Floor <= Life
  BY FilesAssumption DEF Floor

LEMMA ParsedIsIssued ==
    ASSUME FilesInv, NEW f \in Files, Parses(pem[f])
    PROVE  pem[f] \in 1..issued /\ pem[f] \in Bundles
<1>1. pem[f] \in 1..issued \cup Placeholders
  BY DEF FilesInv, Contents
<1>2. pem[f] \in Bundles /\ Bundles \subseteq 0..MaxBundles
  BY FilesAssumption DEF Parses, Bundles
<1> QED
  BY <1>1, <1>2, FilesAssumption DEF Placeholders

LEMMA DaemonInit == InitFiles => DaemonInv /\ DueInv
<1> SUFFICES ASSUME InitFiles PROVE DaemonInv /\ DueInv
  OBVIOUS
<1>1. left \in [Bundles -> Floor..Life]
  BY CountsAre DEF InitFiles
<1>2. DaemonInv
  BY <1>1, CountsAre DEF InitFiles, DaemonInv
<1>3. DueInv
  BY CountsAre DEF InitFiles, DueInv, InTime, CountedWasDue, Counted, DueIsCounted
<1> QED
  BY <1>2, <1>3

(* A step that is not of the daemon: bundles are issued, and the           *)
(* certificate is replaced only together with the clock of its waiting.    *)
LEMMA DaemonApart ==
    ASSUME DaemonInv, DueInv,
           UNCHANGED <<crew, daemon, counted, left>>, 1..issued \subseteq 1..issued',
           waiting' = waiting \/ waiting' = 0,
           pem'["cert"] # pem["cert"] => waiting' = 0
    PROVE  DaemonInv' /\ DueInv'
<1>1. DaemonInv'
  BY DEF DaemonInv
<1>2. daemon.timer \in 0..Interval
  BY DEF DaemonInv
<1>3. CASE waiting' = 0
  <2>1. ~(waiting' > 0) /\ ~(waiting' > Interval) /\ ~(waiting' > Interval - daemon.timer)
    BY <1>2, <1>3, CountsAre
  <2>2. InTime' /\ DueIsCounted'
    BY <2>1 DEF InTime, DueIsCounted
  <2>3. CountedWasDue'
    BY DEF DueInv, CountedWasDue
  <2>4. Counted'
    BY <2>1 DEF Counted
  <2> QED
    BY <1>1, <2>2, <2>3, <2>4 DEF DueInv
<1>4. CASE waiting' # 0
  <2>1. waiting' = waiting /\ pem'["cert"] = pem["cert"]
    BY <1>4
  <2> QED
    BY <1>1, <2>1 DEF DueInv, InTime, CountedWasDue, Counted, DueIsCounted, Due, Parses
<1> QED
  BY <1>1, <1>3, <1>4

LEMMA DaemonChecks ==
    ASSUME FilesInv, DaemonInv, DueInv, Signal \/ Check
    PROVE  DaemonInv' /\ DueInv'
<1>1. UNCHANGED <<crew, pem, issued, left, waiting>>
  BY DEF Signal, Check, Wake, CheckDomain, CheckEnds, DaemonUnchanged, saveVars
<1>2. /\ daemon.timer \in 0..Interval /\ daemon.todo \in 0..Domains /\ daemon.count \in 0..Domains
      /\ daemon.todo + daemon.count <= Domains /\ waiting \in Nat
      /\ daemon.pc = "sleep" => daemon.todo = 0 /\ daemon.count = 0
  BY DEF DaemonInv
<1> DEFINE Records == [pc : {"sleep", "check", "stopped"}, timer : 0..Interval,
                       todo : 0..Domains, count : 0..Domains]
(* Enough to show of a step of the daemon. *)
<1>3. ASSUME daemon' \in Records, daemon'.todo + daemon'.count <= Domains,
             daemon'.pc = "sleep" => daemon'.todo = 0 /\ daemon'.count = 0,
             counted' \subseteq 1..issued
      PROVE  DaemonInv'
  BY <1>1, <1>3 DEF DaemonInv
<1>4. ASSUME counted \subseteq counted', Counted', CountedWasDue'
      PROVE  DueInv'
  BY <1>1, <1>4 DEF DueInv, InTime, DueIsCounted, Due
<1>5. ASSUME counted' = counted PROVE CountedWasDue' /\ counted' \subseteq 1..issued
  BY <1>1, <1>5 DEF DueInv, CountedWasDue, DaemonInv
<1>6. CASE Signal
  <2>1. /\ daemon' = [daemon EXCEPT !.pc = "stopped", !.timer = 0] /\ counted' = counted
        /\ daemon.pc = "sleep" /\ daemon \in Records /\ 0 \in 0..Interval
    BY <1>6, CountsAre DEF Signal, DaemonInv
  <2>2. /\ daemon' \in Records /\ daemon'.pc = "stopped"
        /\ daemon'.todo = daemon.todo /\ daemon'.count = daemon.count
    BY <2>1
  <2>3. Counted'
    BY <2>2 DEF Counted
  <2> QED
    BY <1>2, <1>3, <1>4, <1>5, <2>1, <2>2, <2>3
<1>7. CASE Wake
  <2>1. /\ daemon' = [daemon EXCEPT !.pc = "check", !.todo = Domains] /\ counted' = counted
        /\ daemon.pc = "sleep" /\ daemon \in Records /\ Domains \in 0..Domains
    BY <1>7, CountsAre DEF Wake, DaemonInv
  <2>2. /\ daemon' \in Records /\ daemon'.pc = "check"
        /\ daemon'.todo = Domains /\ daemon'.count = 0
    BY <1>2, <2>1
  <2>3. Counted'
    BY <2>2, CountsAre DEF Counted
  <2> QED
    BY <1>3, <1>4, <1>5, <2>1, <2>2, <2>3, CountsAre
<1>8. CASE CheckEnds
  <2>1. /\ daemon' = [pc |-> "sleep", timer |-> Interval, todo |-> 0, count |-> 0]
        /\ counted' = counted /\ daemon.pc = "check" /\ daemon.todo = 0
        /\ Interval \in 0..Interval /\ 0 \in 0..Domains
    BY <1>8, CountsAre DEF CheckEnds
  <2>2. /\ daemon' \in Records /\ daemon'.pc = "sleep" /\ daemon'.timer = Interval
        /\ daemon'.todo = 0 /\ daemon'.count = 0
    BY <2>1
  <2>3. waiting > 0 => pem["cert"] \in counted
    BY <2>1, CountsAre DEF DueInv, Counted
  <2>4. Counted'
    <3>1. waiting > Interval - Interval <=> waiting > 0
      BY <1>2, CountsAre
    <3> QED
      BY <1>1, <2>1, <2>2, <2>3, <3>1 DEF Counted
  <2> QED
    BY <1>3, <1>4, <1>5, <2>1, <2>2, <2>4, CountsAre
<1>9. CASE CheckDomain
  <2>1. /\ daemon.pc = "check" /\ daemon.todo > 0 /\ daemon \in Records
    BY <1>9 DEF CheckDomain, DaemonInv
  <2>2. daemon.todo - 1 \in 0..Domains /\ daemon.count + 1 \in 0..Domains
    BY <1>2, <2>1, CountsAre
  <2>3. CASE Parses(pem["cert"]) /\ NeedsRenewal(pem["cert"])
    <3>1. /\ daemon' = [daemon EXCEPT !.todo = @ - 1, !.count = @ + 1]
          /\ counted' = counted \cup {pem["cert"]}
      BY <1>9, <2>3 DEF CheckDomain
    <3>2. /\ daemon' \in Records /\ daemon'.pc = "check"
          /\ daemon'.todo = daemon.todo - 1 /\ daemon'.count = daemon.count + 1
      BY <2>1, <2>2, <3>1
    <3>3. counted' \subseteq 1..issued
      BY <2>3, <3>1, ParsedIsIssued DEF DaemonInv, Files
    <3>4. Counted'
      BY <1>1, <3>1, <3>2 DEF Counted
    <3>5. left[pem["cert"]] <= Window
      BY <2>3 DEF NeedsRenewal
    <3>6. CountedWasDue'
      BY <1>1, <3>1, <3>5 DEF DueInv, CountedWasDue
    <3> QED
      BY <1>2, <1>3, <1>4, <2>1, <2>2, <3>1, <3>2, <3>3, <3>4, <3>6
  <2>4. CASE ~(Parses(pem["cert"]) /\ NeedsRenewal(pem["cert"]))
    <3>1. daemon' = [daemon EXCEPT !.todo = @ - 1] /\ counted' = counted
      BY <1>9, <2>4 DEF CheckDomain
    <3>2. /\ daemon' \in Records /\ daemon'.pc = "check"
          /\ daemon'.todo = daemon.todo - 1 /\ daemon'.count = daemon.count
      BY <2>1, <2>2, <3>1
    <3>3. waiting = 0
      <4> SUFFICES ASSUME waiting > 0 PROVE FALSE
        BY <1>2
      <4>1. Parses(pem["cert"]) /\ left[pem["cert"]] \in 1..Window
        BY DEF DueInv, InTime, Due
      <4> QED
        BY <2>4, <4>1, CountsAre DEF NeedsRenewal, Expired
    <3>4. Counted'
      BY <1>1, <3>2, <3>3 DEF Counted
    <3>5. daemon'.todo + daemon'.count <= Domains
      BY <1>2, <3>2, CountsAre
    <3> HIDE DEF Records
    <3> QED
      BY <1>3, <1>4, <1>5, <2>1, <3>1, <3>2, <3>4, <3>5
  <2> QED
    BY <2>3, <2>4
<1> QED
  BY <1>6, <1>7, <1>8, <1>9 DEF Check

LEMMA DaemonTicks ==
    ASSUME FilesInv, DaemonInv, DueInv, Tick
    PROVE  DaemonInv' /\ DueInv'
<1>1. /\ daemon' = [daemon EXCEPT !.timer = @ - 1] /\ daemon.pc = "sleep" /\ daemon.timer > 0
      /\ UNCHANGED <<crew, pem, issued, counted>>
  BY DEF Tick, saveVars
<1>2. /\ daemon \in [pc : {"sleep", "check", "stopped"}, timer : 0..Interval,
                      todo : 0..Domains, count : 0..Domains]
      /\ daemon.todo = 0 /\ daemon.count = 0 /\ waiting \in Nat
  BY <1>1 DEF DaemonInv
<1>3. daemon.timer - 1 \in 0..Interval
  BY <1>1, <1>2, CountsAre
<1>4. /\ daemon' \in [pc : {"sleep", "check", "stopped"}, timer : 0..Interval,
                       todo : 0..Domains, count : 0..Domains]
      /\ daemon'.pc = "sleep" /\ daemon'.timer = daemon.timer - 1
      /\ daemon'.todo = 0 /\ daemon'.count = 0
  BY <1>1, <1>2, <1>3
<1>5. \A n \in Bundles : left[n] \in Floor..Life /\ left[n] \in Int
  BY CountsAre DEF DaemonInv
<1>6. \A n \in Bundles :
         /\ left'[n] \in Floor..Life /\ left'[n] <= left[n]
         /\ n \in 1..issued /\ left[n] > 0 => left'[n] = left[n] - 1
  <2> SUFFICES ASSUME NEW n \in Bundles
               PROVE  /\ left'[n] \in Floor..Life /\ left'[n] <= left[n]
                      /\ n \in 1..issued /\ left[n] > 0 => left'[n] = left[n] - 1
    OBVIOUS
  <2>1. left'[n] = IF n <= issued /\ left[n] > Floor THEN left[n] - 1 ELSE left[n]
    BY DEF Tick
  <2>2. Floor < 0
    BY CountsAre DEF Floor
  <2> QED
    BY <1>5, <2>1, <2>2, CountsAre DEF FilesInv
<1>7. left' \in [Bundles -> Floor..Life]
  BY <1>6 DEF Tick
<1>8. waiting' = IF Due(pem["cert"]) /\ left'[pem["cert"]] > 0 THEN waiting + 1 ELSE 0
  BY DEF Tick
<1>9. DaemonInv'
  BY <1>1, <1>2, <1>4, <1>7, <1>8, CountsAre DEF DaemonInv
<1>10. CountedWasDue'
  <2> SUFFICES ASSUME NEW n \in counted PROVE left'[n] <= Window
    BY <1>1 DEF CountedWasDue
  <2>1. n \in Bundles /\ left[n] <= Window
    BY CountsAre, FilesAssumption DEF DueInv, CountedWasDue, DaemonInv, FilesInv, Bundles
  <2>2. left'[n] <= left[n] /\ left[n] \in Int /\ left'[n] \in Int
    BY <1>5, <1>6, <2>1, CountsAre
  <2> QED
    BY <2>1, <2>2, CountsAre
<1>11. CASE Due(pem["cert"]) /\ left'[pem["cert"]] > 0
  <2> DEFINE n == pem["cert"]
  <2>1. n \in 1..issued /\ n \in Bundles /\ left[n] \in 1..Window /\ Parses(n)
    BY <1>11, ParsedIsIssued DEF Due, Files
  <2>2. left'[n] = left[n] - 1 /\ waiting' = waiting + 1 /\ pem' = pem
    BY <1>1, <1>6, <1>8, <1>11, <2>1
  <2>3. left'[n] \in 1..Window
    BY <1>11, <2>1, <2>2, CountsAre
  <2>4. waiting' + left'[n] <= Window
    <3>1. CASE waiting = 0
      BY <2>1, <2>2, <3>1, CountsAre
    <3>2. CASE waiting > 0
      <4>1. waiting + left[n] <= Window
        BY <3>2 DEF DueInv, InTime
      <4> QED
        BY <1>2, <2>1, <2>2, <4>1, CountsAre
    <3> QED
      BY <1>2, <3>1, <3>2
  <2>5. InTime'
    BY <2>1, <2>2, <2>3, <2>4 DEF InTime, Due
  <2>6. waiting' > Interval - daemon'.timer => n \in counted
    <3>1. waiting' > Interval - daemon'.timer => waiting > Interval - daemon.timer
      BY <1>2, <1>4, <2>2, CountsAre
    <3> QED
      BY <1>1, <3>1 DEF DueInv, Counted
  <2>7. Counted'
    BY <1>1, <1>4, <2>2, <2>6 DEF Counted
  <2>8. waiting' > Interval => waiting' > Interval - daemon'.timer
    BY <1>2, <1>3, <1>4, <2>2, CountsAre
  <2>9. DueIsCounted'
    BY <1>1, <2>2, <2>6, <2>8 DEF DueIsCounted
  <2> QED
    BY <1>9, <1>10, <2>5, <2>7, <2>9 DEF DueInv
<1>12. CASE ~(Due(pem["cert"]) /\ left'[pem["cert"]] > 0)
  <2>1. waiting' = 0
    BY <1>8, <1>12
  <2>2. ~(waiting' > 0) /\ ~(waiting' > Interval) /\ ~(waiting' > Interval - daemon'.timer)
    BY <1>3, <1>4, <2>1, CountsAre
  <2>3. InTime' /\ DueIsCounted' /\ Counted'
    BY <1>4, <2>2 DEF InTime, DueIsCounted, Counted
  <2> QED
    BY <1>9, <1>10, <2>3 DEF DueInv
<1> QED
  BY <1>11, <1>12

-----------------------------------------------------------------------------
(* The invariant *)

Inv == FilesInv /\ PairInv /\ RenewInv /\ BackupInv /\ DaemonInv /\ DueInv

LEMMA RenewInit == InitFiles => RenewInv /\ BackupInv
<1> SUFFICES ASSUME InitFiles PROVE RenewInv /\ BackupInv
  OBVIOUS
<1>1. /\ renew = [pc |-> "idle", result |-> "none", read |-> 0] /\ disturbed = FALSE
      /\ backup = [f \in Files |-> Nothing]
  BY DEF InitFiles
<1>2. Nothing \in Contents
  BY DEF Contents, Placeholders
<1>3. RenewInv
  BY <1>1, <1>2 DEF RenewInv
<1>4. BackupInv
  BY <1>1 DEF BackupInv
<1> QED
  BY <1>3, <1>4

LEMMA DaemonStep ==
    ASSUME FilesInv, DaemonInv, DueInv, [NextFiles]_filesVars
    PROVE  DaemonInv' /\ DueInv'
<1>1. CASE UNCHANGED filesVars
  BY <1>1, DaemonApart DEF filesVars
<1>2. ASSUME NEW s \in Savers, Begin(s) PROVE DaemonInv' /\ DueInv'
  <2>1. 1..issued \subseteq 1..issued'
    BY <1>2 DEF Begin, FilesInv
  <2> QED
    BY <1>2, <2>1, DaemonApart DEF Begin, daemonVars
<1>3. ASSUME NEW s \in Savers, OpenCert(s) \/ WriteCert(s) \/ OpenKey(s) \/ WriteKey(s)
      PROVE  DaemonInv' /\ DueInv'
  <2>1. /\ UNCHANGED <<issued, left, daemonVars>>
        /\ pem'["cert"] # pem["cert"] => waiting' = 0
        /\ waiting' = waiting \/ waiting' = 0
    BY <1>3, SaveStepIs
  <2> QED
    BY <2>1, DaemonApart DEF daemonVars
<1>4. ASSUME NEW s \in Savers, SaveFails(s) PROVE DaemonInv' /\ DueInv'
  BY <1>4, DaemonApart DEF SaveFails, daemonVars
<1>5. CASE Renew
  BY <1>5, DaemonApart DEF Renew, RenewCheck, CopyCert, CopyKey, RenewReturn, RenewUnchanged,
      saveVars, daemonVars
<1>6. CASE Signal \/ Check
  BY <1>6, DaemonChecks
<1>7. CASE Tick
  BY <1>7, DaemonTicks
<1> QED
  BY <1>1, <1>2, <1>3, <1>4, <1>5, <1>6, <1>7 DEF NextFiles, Save

LEMMA FilesInvariant == SpecFiles => []Inv
<1>1. InitFiles => Inv
  BY FilesInvInit, PairInvInit, RenewInit, DaemonInit DEF Inv
<1>2. Inv /\ [NextFiles]_filesVars => Inv'
  BY FilesInvStep, PairInvStep, RenewInvStep, BackupInvStep, DaemonStep DEF Inv
<1> QED
  BY <1>1, <1>2, PTL DEF SpecFiles

(* The variables keep their types: a certificate waits in its window, and  *)
(* the files hold bundles that were issued.                                *)
THEOREM FilesTypeCorrect == SpecFiles => []FilesTypeOK
<1>1. Inv => FilesTypeOK
  <2> SUFFICES ASSUME Inv PROVE FilesTypeOK
    OBVIOUS
  <2> USE DEF Inv
  <2>1. 1..issued \subseteq Bundles
    BY FilesAssumption DEF FilesInv, Bundles
  <2>2. Contents \subseteq Bundles \cup {Placeholder} \cup {Nothing, Empty}
    BY <2>1 DEF Contents, Placeholders
  <2>3. pem \in [Files -> Bundles \cup {Placeholder} \cup {Nothing, Empty}]
    BY <2>2 DEF FilesInv
  <2>4. backup \in [Files -> Bundles \cup {Placeholder} \cup {Nothing, Empty}]
    BY <2>2 DEF RenewInv
  <2>5. saving \in [Savers -> {Idle} \cup [pc : Phases, bundle : Bundles \cup {Placeholder},
                                           alone : BOOLEAN]]
    <3>1. [pc : Phases, bundle : Texts, alone : BOOLEAN] \subseteq
          [pc : Phases, bundle : Bundles \cup {Placeholder}, alone : BOOLEAN]
      BY <2>1 DEF Texts
    <3> QED
      BY <3>1 DEF FilesInv
  <2>6. waiting \in 0..Window
    <3>1. CASE waiting = 0
      BY <3>1, CountsAre
    <3>2. CASE waiting > 0
      <4>1. /\ waiting + left[pem["cert"]] <= Window /\ left[pem["cert"]] \in 1..Window
            /\ waiting \in Nat
        BY <3>2 DEF DueInv, InTime, Due, DaemonInv
      <4> QED
        BY <4>1, CountsAre
    <3> QED
      BY <3>1, <3>2 DEF DaemonInv
  <2>7. /\ renew.pc \in {"idle", "copy_cert", "copy_key", "done"}
        /\ renew.result \in {"none", "error", "expired", "not_due", "ok"}
    BY DEF RenewInv
  <2>8. {hurt, disturbed} \subseteq BOOLEAN
    BY DEF FilesInv, RenewInv
  <2>9. /\ crew \in Crews /\ left \in [Bundles -> Floor..Life] /\ counted \subseteq 1..issued
        /\ daemon \in [pc : {"sleep", "check", "stopped"}, timer : 0..Interval,
                       todo : 0..Domains, count : 0..Domains]
    BY DEF DaemonInv
  <2>10. issued \in 0..MaxBundles /\ failures \in 0..MaxFailures
    BY DEF FilesInv
  <2> QED
    BY <2>3, <2>4, <2>5, <2>6, <2>7, <2>8, <2>9, <2>10 DEF FilesTypeOK, Phases
<1> QED
  BY <1>1, FilesInvariant, PTL

(* CertificateBundle::save_to_files and obtain leave a certificate and the *)
(* key that belongs to it, unless the last save failed half way or         *)
(* overlapped with another one.                                            *)
THEOREM PairsMatch == SpecFiles => []PairMatches
<1>1. Inv => PairMatches
  BY DEF Inv, PairInv
<1> QED
  BY <1>1, FilesInvariant, PTL

(* A renew command that succeeds has backed up the certificate that it     *)
(* judged, and the key that belongs to it.                                 *)
THEOREM BackupsAreWhole == SpecFiles => []BackupIsThePair
<1>1. Inv => BackupIsThePair
  BY DEF Inv, BackupInv, BackupIsThePair
<1> QED
  BY <1>1, FilesInvariant, PTL

(* A running daemon misses no certificate that stays in its file, and due, *)
(* for longer than its interval.                                           *)
THEOREM TheDueAreCounted == SpecFiles => []DueIsCounted
<1>1. Inv => DueIsCounted
  BY DEF Inv, DueInv
<1> QED
  BY <1>1, FilesInvariant, PTL

LEMMA WholeDays ==
    ASSUME NEW a \in Nat, NEW b \in Nat, NEW d \in Nat, 0 < d, a <= b
    PROVE  a \div d <= b \div d
  OBVIOUS

(* The renew command does not put off what the daemon has counted, when    *)
(* its window of whole days reaches as far as that of the daemon.          *)
THEOREM WindowsAgree ==
    ASSUME Window \div Day <= RenewDays
    PROVE  SpecFiles => RenewAgreesWithDaemon
<1> DEFINE Agrees == renew.pc = "idle" /\ renew'.result = "not_due" => renew'.read \notin counted
<1>1. Inv /\ [NextFiles]_filesVars => [Agrees]_filesVars
  <2> SUFFICES ASSUME Inv, NextFiles, renew.pc = "idle", renew'.result = "not_due"
               PROVE  renew'.read \notin counted
    OBVIOUS
  <2>1. renew' # renew
    BY DEF Inv, RenewInv
  <2>2. PICK force \in BOOLEAN : RenewCheck(force)
    <3>1. ASSUME NEW s \in Savers, Save(s) PROVE renew' = renew
      BY <3>1 DEF Save, Begin, OpenCert, WriteCert, OpenKey, WriteKey, SaveStep, SaveFails
    <3>2. ASSUME Signal \/ Check \/ Tick PROVE renew' = renew
      BY <3>2 DEF Signal, Check, Wake, CheckDomain, CheckEnds, DaemonUnchanged, Tick
    <3>3. CopyCert \/ CopyKey \/ RenewReturn => renew.pc # "idle"
      BY DEF CopyCert, CopyKey, RenewReturn
    <3> QED
      BY <2>1, <3>1, <3>2, <3>3 DEF NextFiles, Renew
  <2> DEFINE n == pem["cert"]
  <2>3. /\ renew'.read = n /\ Parses(n) /\ ~(DaysUntil(left[n]) < 0) /\ ~InWindow(left[n])
    BY <2>2 DEF RenewCheck
  <2> SUFFICES ASSUME n \in counted PROVE FALSE
    BY <2>3
  <2>4. left[n] <= Window /\ left[n] \in Int
    <3>1. left[n] \in Floor..Life
      BY <2>3 DEF Inv, DaemonInv, Parses
    <3>2. left[n] <= Window
      BY DEF Inv, DueInv, CountedWasDue
    <3> QED
      BY <3>1, <3>2, CountsAre
  <2>5. CASE left[n] >= 0
    <3>1. left[n] \div Day <= Window \div Day
      BY <2>4, <2>5, CountsAre, WholeDays
    <3>2. DaysUntil(left[n]) = left[n] \div Day
      BY <2>5 DEF DaysUntil
    <3>3. left[n] \div Day \in Int /\ Window \div Day \in Int
      BY <2>4, CountsAre
    <3> QED
      BY <2>3, <3>1, <3>2, <3>3, CountsAre DEF InWindow
  <2>6. CASE ~(left[n] >= 0)
    <3>1. DaysUntil(left[n]) = -((-left[n]) \div Day)
      BY <2>6 DEF DaysUntil
    <3>2. (-left[n]) \div Day \in Int /\ (-left[n]) \div Day >= 0
      BY <2>4, <2>6, CountsAre
    <3> QED
      BY <2>3, <3>1, <3>2, CountsAre DEF InWindow
  <2> QED
    BY <2>5, <2>6
<1>2. RenewAgreesWithDaemon <=> [][Agrees]_filesVars
  BY DEF RenewAgreesWithDaemon
<1> QED
  BY <1>1, <1>2, FilesInvariant, PTL DEF SpecFiles

-----------------------------------------------------------------------------
(* Accounts and certificates are kept side by side: what is proved of the  *)
(* ones holds beside the others.                                           *)
THEOREM CommandLineKeepsBoth ==
    CommandLineSpec =>
        [](SavedKeyIsCurrent /\ LossesHaveCauses /\ PairMatches /\ BackupIsThePair /\ DueIsCounted)
<1>1. CommandLineInit => Init /\ InitFiles
  BY DEF CommandLineInit
<1>2. [CommandLineNext]_commandLineVars => [Next]_vars /\ [NextFiles]_filesVars
  BY DEF CommandLineNext, commandLineVars
<1>3. CommandLineSpec => Spec /\ SpecFiles
  BY <1>1, <1>2, PTL DEF CommandLineSpec, Spec, SpecFiles
<1> QED
  BY <1>3, SavedKeyStaysCurrent, LossesArePaid, PairsMatch, BackupsAreWhole, TheDueAreCounted, PTL
=============================================================================
