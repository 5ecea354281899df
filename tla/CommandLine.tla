---------------------------- MODULE CommandLine ----------------------------
(***************************************************************************)
(* The files of the command line tool: account keys (AccountKeys), and     *)
(* certificates with their keys (CertFiles).  They share no state, so a    *)
(* behaviour is one of the two: `work` says which.                         *)
(***************************************************************************)
EXTENDS AccountKeys, CertFiles

VARIABLE work

commandLineVars == <<vars, filesVars, work>>

CommandLineInit == Init /\ InitFiles /\ work \in {"keys", "certificates"}

CommandLineNext ==
    /\ \/ work = "keys" /\ Next /\ UNCHANGED filesVars
       \/ work = "certificates" /\ NextFiles /\ UNCHANGED vars
    /\ UNCHANGED work

CommandLineSpec == CommandLineInit /\ [][CommandLineNext]_commandLineVars
=============================================================================
