------------------------------- MODULE MCDsg -------------------------------
(* Model values and symmetry for checking Dsg. *)
EXTENDS Dsg, TLC

CONSTANTS user, bitgo, s1, s2, s3, h1, h2, short

MCParty == {user, bitgo}
MCDigest32 == {h1, h2}
MCHash == {h1, h2, short}
MCEqualLength == {h1, h2}
Symmetry == Permutations(Sid) \cup Permutations(MCDigest32)
============================================================================
