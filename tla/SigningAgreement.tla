------------------------- MODULE SigningAgreement -------------------------
(***************************************************************************)
(* What two-party signing promises, without its rounds: a party releases   *)
(* its final share of a signing session on one message hash only, and a    *)
(* signature is produced only from the two final shares of one pair of     *)
(* sessions, on the hash both were released for.                           *)
(***************************************************************************)
CONSTANTS Party, Hash, Sid

VARIABLES
    released,  \* final shares released so far
    produced   \* signatures produced so far

Share == [from : Party, sid : Sid, peer : Sid, hash : Hash]
Sig == [sid : Sid, peer : Sid, hash : Hash]

Init == released = {} /\ produced = {}

Release(r) ==
    /\ \A x \in released : x.sid = r.sid => x.hash = r.hash /\ x.from = r.from
    /\ released' = released \cup {r}
    /\ UNCHANGED produced

Produce(g) ==
    /\ \E a, b \in released :
        /\ a.from # b.from
        /\ a.sid = g.sid /\ a.peer = g.peer /\ a.hash = g.hash
        /\ b.sid = g.peer /\ b.peer = g.sid /\ b.hash = g.hash
    /\ produced' = produced \cup {g}
    /\ UNCHANGED released

Next == (\E r \in Share : Release(r)) \/ (\E g \in Sig : Produce(g))

Spec == Init /\ [][Next]_<<released, produced>>
============================================================================
