-------------------------- MODULE MCPasswordChange --------------------------
(* Two devices, one v1 keychain and two v2 keychains, two to a batch. *)
EXTENDS PasswordChange

CONSTANTS d1, d2, a, b, c, pw1, pw2

MCNew == [d \in Device |-> IF d = d1 THEN pw1 ELSE pw2]
MCFits == {s \in SUBSET (V1Key \cup V2Key) : Cardinality(s) <= 2}
============================================================================
