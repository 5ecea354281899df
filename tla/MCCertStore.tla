----------------------------- MODULE MCCertStore -----------------------------
(* Instances of CertStore over both kinds of backend: two certificates and *)
(* a load beside the saves, or one certificate and two savers.             *)
EXTENDS CertStore

CONSTANTS k1, k2, s1, s2, l1

OneKey == {k1}
TwoKeys == {k1, k2}
OneSaver == {s1}
TwoSavers == {s1, s2}
OneLoader == {l1}
NoLoader == {}
=============================================================================
