--------------------------- MODULE MCSafeCreation ---------------------------
(* A multisig root and an ECDSA root for checking SafeCreation. *)
EXTENDS SafeCreation

CONSTANTS secp256k1Multisig, ecdsaMpc

MCSlot == {secp256k1Multisig, ecdsaMpc}
MCRounds == [s \in MCSlot |-> IF s = ecdsaMpc THEN 3 ELSE 0]
============================================================================
