--------------------------- MODULE MCWalletShares ---------------------------
(* Five shares, one without a keychain and one offered to others, wanted by a *)
(* bulk acceptance and by a concurrent update.                               *)
EXTENDS WalletShares

CONSTANTS s1, s2, s3, s4, s5, a1, u1

MCShare == {s1, s2, s3, s4, s5}
MCOverride == {s2, s3}
MCKeyless == {s4}
MCOffered == {s5}
MCIds == {<<s1, s2, s3, s4>>, <<s3, s2, s5>>}
MCAccept == {a1}
MCUpdate == {u1}
MCSize == [s \in MCShare |-> IF s = s1 THEN 2 ELSE 1]
============================================================================
