------------------------------ MODULE MCMpsDsg ------------------------------
(* Model values and symmetry for checking MpsDsg. *)
EXTENDS MpsDsg, TLC

CONSTANTS user, backup, bitgo, h1, h2, s1, s2, s3

MCParty == {user, backup, bitgo}
MCHash == {h1, h2}
MCSid == {s1, s2, s3}
Symmetry == Permutations(MCHash) \cup Permutations(MCSid)
============================================================================
