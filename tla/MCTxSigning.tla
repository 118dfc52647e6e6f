---------------------------- MODULE MCTxSigning ----------------------------
(* A flow with its key share in memory, two that share an external signer,   *)
(* and two transactions that the request may hold.                           *)
EXTENDS TxSigning

CONSTANTS local, remote, remote2, h1, h2, b1, b2

MCHash == {h1, h2}
MCBitGoSid == {b1, b2}
============================================================================
