--------------------------- MODULE MCMusig2Signing ---------------------------
(* Three flows, two transactions and two instances of the external signer. *)
EXTENDS Musig2Signing

CONSTANTS f1, f2, f3, t1, t2, s1, s2, n1, n2

MCFlow == {f1, f2, f3}
MCTx == {t1, t2}
MCNonce == {n1, n2}
MCSigner == {s1, s2}

\* f1 and f3 are sent to one instance, f2 to either.
MCRoute == [f \in Flow |-> IF f = f2 THEN {s1, s2} ELSE {s1}]

============================================================================
