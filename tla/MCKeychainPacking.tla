-------------------------- MODULE MCKeychainPacking --------------------------
(* Five keychains of every combination of a few sizes. *)
EXTENDS KeychainPacking

CONSTANTS k1, k2, k3, k4, k5

MCItem == {k1, k2, k3, k4, k5}

============================================================================
