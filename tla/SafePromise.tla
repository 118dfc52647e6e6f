---------------------------- MODULE SafePromise ----------------------------
(***************************************************************************)
(* What the creation of a safe promises, without its requests and          *)
(* ceremonies: keys are registered for a safe that exists, one by one and  *)
(* each by the ceremony of its slot; the safe becomes active once, with    *)
(* the whole triplets of some slots, and keeps these root keys; the caller *)
(* gets an active safe or an error; and after the error, or once it is     *)
(* archived, the safe never becomes active.                                *)
(***************************************************************************)
CONSTANT Slot

VARIABLES
    status,    \* of the safe
    keys,      \* the keys that are registered for the safe
    rootKeys,  \* those that the safe has
    outcome    \* what the caller was told

\* The keys of one slot, all of the same key generation.
Triplet(s) ==
    [slot : {s}, source : {"user", "backup", "bitgo"}, common : {s}, prv : {s}]

Init == status = "none" /\ keys = {} /\ rootKeys = {} /\ outcome = "none"

Create ==
    /\ status = "none" /\ outcome = "none"
    /\ status' = "initializing"
    /\ outcome' \in {"none", "threw"}
    /\ UNCHANGED <<keys, rootKeys>>

Register(k) ==
    /\ status # "none"
    /\ keys' = keys \cup {k}
    /\ UNCHANGED <<status, rootKeys, outcome>>

Activate ==
    /\ status = "initializing" /\ outcome = "none"
    /\ \E E \in (SUBSET Slot) \ {{}} : rootKeys' = UNION {Triplet(s) : s \in E}
    /\ rootKeys' \subseteq keys
    /\ status' = "active"
    /\ outcome' \in {"none", "returned"}
    /\ UNCHANGED keys

Return ==
    /\ status = "active" /\ outcome = "none"
    /\ outcome' = "returned"
    /\ UNCHANGED <<status, keys, rootKeys>>

Throw ==
    /\ outcome = "none" /\ outcome' = "threw"
    /\ status' \in IF status = "none" THEN {"none"} ELSE {status, "archived"}
    /\ UNCHANGED <<keys, rootKeys>>

Next ==
    \/ Create \/ Activate \/ Return \/ Throw
    \/ \E s \in Slot : \E k \in Triplet(s) : Register(k)

Spec == Init /\ [][Next]_<<status, keys, rootKeys, outcome>>
============================================================================
