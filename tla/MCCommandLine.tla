---------------------------- MODULE MCCommandLine ----------------------------
(* An instance of CommandLine: four account commands, one of which has to  *)
(* register, and two files, so that keys are rotated in place and to       *)
(* another file; or a renew command beside two writers of a certificate,   *)
(* or beside one writer and a daemon.                                      *)
EXTENDS CommandLine

CONSTANTS c1, c2, c3, c4, p1, p2, s1, s2

FourCommands == {c1, c2, c3, c4}
TwoPaths == {p1, p2}
TwoSavers == {s1, s2}
TwoCrews ==
    {[savers |-> {s1, s2}, daemon |-> FALSE], [savers |-> {s1}, daemon |-> TRUE]}
=============================================================================
