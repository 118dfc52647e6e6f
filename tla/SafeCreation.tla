---------------------------- MODULE SafeCreation ----------------------------
(***************************************************************************)
(* generateSafe of sdk-core (safe/safes.ts): initialize a safe, run the    *)
(* key ceremonies of its enabled root slots in parallel, then finalize the *)
(* safe with the key triplets, or archive it when a ceremony has failed.   *)
(*                                                                         *)
(* A ceremony is a number of rounds with the server (none for a multisig   *)
(* root, two for EdDSA, three for ECDSA) and then the registration of the  *)
(* user's, the backup's and BitGo's key, again in parallel.  Promise.all   *)
(* rejects on the first rejection: the other registrations of a failed     *)
(* ceremony go on, and one that still encrypts its key is sent to the      *)
(* server later, even after the safe has been archived.                    *)
(*                                                                         *)
(* One call is modelled: calls share nothing, as every one has a safe of   *)
(* its own.  A slot stands for the key that its ceremony makes.  The       *)
(* server is external; its requests may be rejected, get lost, or lose     *)
(* their answer, and a round may be answered for another ceremony.         *)
(***************************************************************************)
EXTENDS Naturals

CONSTANTS
    Slot,      \* the root slots
    Rounds,    \* the rounds of a slot's ceremony with the server
    Other,     \* a key generation that is not of this call
    NoKeygen

ASSUME RoundsAssumption == Rounds \in [Slot -> Nat]
ASSUME KeygenAssumption == Other \notin Slot /\ NoKeygen \notin Slot \cup {Other}

VARIABLES
    safe,      \* the server's safe: status and root keys
    keys,      \* the keys that the server has registered for the safe
    posts,     \* registrations on their way to the server
    pc,        \* where the call is
    enabled,   \* the enabled slots, as the client knows them
    ceremony,  \* every slot's ceremony
    add,       \* its three registrations
    noted      \* the error says that archiving has failed too

vars == <<safe, keys, posts, pc, enabled, ceremony, add, noted>>

----------------------------------------------------------------------------
(* Values *)

Source == {"user", "backup", "bitgo"}
Keygen == Slot \cup {Other}
Key == [slot : Slot, source : Source, common : Keygen, prv : Keygen]
Ceremony == [pc : {"idle", "rounds", "adding", "fulfilled", "rejected"},
             round : Nat, sid : Keygen \cup {NoKeygen}, common : Keygen \cup {NoKeygen}]
AddState == {"idle", "encrypting", "waiting", "ok", "rejected"}
Pc == {"start", "ceremonies", "archive", "finalize", "unfinalized",
       "done", "failed"}
Status == {"none", "initializing", "active", "archived"}

\* The key that a registration sends: the user's and the backup's carry the
\* private share that this ceremony computed; BitGo's share the server has.
KeyOf(s, w, k) ==
    [slot |-> s, source |-> w, common |-> k, prv |-> IF w = "bitgo" THEN k ELSE s]

Settled(s) == ceremony[s].pc \in {"fulfilled", "rejected"}
Triplets == {KeyOf(s, w, ceremony[s].common) : s \in enabled, w \in Source}

NewCeremony == [pc |-> "idle", round |-> 0, sid |-> NoKeygen, common |-> NoKeygen]

----------------------------------------------------------------------------
(* Phase 1 *)

\* initializeSafe: the safe may exist although the answer is lost.
InitializeSafe ==
    /\ pc = "start"
    /\ \/ \E e \in (SUBSET Slot) \ {{}} :
            /\ enabled' = e
            /\ pc' = "ceremonies"
            /\ safe' = [safe EXCEPT !.status = "initializing"]
       \/ /\ pc' = "failed"
          /\ \E t \in {"none", "initializing"} : safe' = [safe EXCEPT !.status = t]
          /\ UNCHANGED enabled
    /\ UNCHANGED <<keys, posts, ceremony, add, noted>>

----------------------------------------------------------------------------
(* Phase 2: the ceremonies *)

Reject(s) == ceremony' = [ceremony EXCEPT ![s].pc = "rejected"]

\* The ceremony starts, or fails before its first request (settings, GPG keys,
\* encryption of the user's key of a multisig root).
StartCeremony(s) ==
    /\ pc = "ceremonies" /\ s \in enabled /\ ceremony[s].pc = "idle"
    /\ ceremony' = [ceremony EXCEPT ![s].pc = "rounds"] \/ Reject(s)
    /\ UNCHANGED <<safe, keys, posts, pc, enabled, add, noted>>

\* The keychain that user and backup have computed is the server's.
KeychainsMatch(s, k) == k = s

\* A round of createKeychains: the sessions of all rounds must be the same,
\* and the common keychain of the last answer the one computed here.
Round(s) ==
    /\ ceremony[s].pc = "rounds" /\ ceremony[s].round < Rounds[s]
    /\ LET c == ceremony[s]
           n == c.round + 1
       IN  \/ \E o, k \in Keygen :
                /\ n > 1 => c.sid = o
                /\ n = Rounds[s] => KeychainsMatch(s, k)
                /\ ceremony' = [ceremony EXCEPT ![s] =
                     [c EXCEPT !.round = n, !.sid = o,
                               !.common = IF n = Rounds[s] THEN k ELSE c.common]]
           \/ Reject(s)
    /\ UNCHANGED <<safe, keys, posts, pc, enabled, add, noted>>

\* Mutant of CommonOf: a multisig root has no rounds to learn it from.
CommonOfRounds(s) == ceremony[s].common

\* The public part of the slot's keys: a multisig root's is made at once.
CommonOf(s) == IF Rounds[s] = 0 THEN s ELSE ceremony[s].common

\* After the rounds the three registrations start at once.  BitGo's is sent
\* immediately; the others encrypt their key first, except that the user's key
\* of a multisig root has been encrypted before.
StartAdds(s) ==
    /\ ceremony[s].pc = "rounds" /\ ceremony[s].round = Rounds[s]
    /\ LET k    == CommonOf(s)
           sent == IF Rounds[s] = 0 THEN {"user", "bitgo"} ELSE {"bitgo"}
       IN  /\ ceremony' = [ceremony EXCEPT ![s] = [@ EXCEPT !.pc = "adding", !.common = k]]
           /\ add' = [add EXCEPT ![s] =
                [w \in Source |-> IF w \in sent THEN "waiting" ELSE "encrypting"]]
           /\ posts' = posts \cup {KeyOf(s, w, k) : w \in sent}
    /\ UNCHANGED <<safe, keys, pc, enabled, noted>>

\* The key is encrypted and sent, or its encryption fails; the ceremony may
\* have been rejected, and the safe archived, in the meantime.
Encrypt(s, w) ==
    /\ add[s][w] = "encrypting"
    /\ \/ /\ add' = [add EXCEPT ![s][w] = "waiting"]
          /\ posts' = posts \cup {KeyOf(s, w, ceremony[s].common)}
       \/ /\ add' = [add EXCEPT ![s][w] = "rejected"]
          /\ UNCHANGED posts
    /\ UNCHANGED <<safe, keys, pc, enabled, ceremony, noted>>

\* The connection breaks; the request may still arrive.
LoseAnswer(s, w) ==
    /\ add[s][w] = "waiting"
    /\ add' = [add EXCEPT ![s][w] = "rejected"]
    /\ UNCHANGED <<safe, keys, posts, pc, enabled, ceremony, noted>>

\* The server registers a key or refuses it.  Whether it still takes keys for
\* an archived safe is up to the server.
ServeAdd(x) ==
    /\ posts' = posts \ {x}
    /\ LET waits == add[x.slot][x.source] = "waiting"
       IN  \/ /\ keys' = keys \cup {x}
              /\ add' = IF waits THEN [add EXCEPT ![x.slot][x.source] = "ok"] ELSE add
           \/ /\ add' = IF waits THEN [add EXCEPT ![x.slot][x.source] = "rejected"] ELSE add
              /\ UNCHANGED keys
    /\ UNCHANGED <<safe, pc, enabled, ceremony, noted>>

\* Mutant of Settle: the ceremony is through when BitGo's key is registered.
SettleEarly(s) ==
    /\ ceremony[s].pc = "adding"
    /\ \/ /\ add[s]["bitgo"] = "ok"
          /\ ceremony' = [ceremony EXCEPT ![s].pc = "fulfilled"]
       \/ /\ \E w \in Source : add[s][w] = "rejected"
          /\ Reject(s)
    /\ UNCHANGED <<safe, keys, posts, pc, enabled, add, noted>>

\* Mutant of Settle: Promise.all that never rejects.
SettleWhole(s) ==
    /\ ceremony[s].pc = "adding"
    /\ \A w \in Source : add[s][w] = "ok"
    /\ ceremony' = [ceremony EXCEPT ![s].pc = "fulfilled"]
    /\ UNCHANGED <<safe, keys, posts, pc, enabled, add, noted>>

\* Promise.all over the registrations.
Settle(s) ==
    /\ ceremony[s].pc = "adding"
    /\ \/ /\ \A w \in Source : add[s][w] = "ok"
          /\ ceremony' = [ceremony EXCEPT ![s].pc = "fulfilled"]
       \/ /\ \E w \in Source : add[s][w] = "rejected"
          /\ Reject(s)
    /\ UNCHANGED <<safe, keys, posts, pc, enabled, add, noted>>

\* Mutant of AllSettled: Promise.all, archiving on the first failure.
FirstSettled ==
    /\ pc = "ceremonies"
    /\ \/ (\A s \in enabled : ceremony[s].pc = "fulfilled") /\ pc' = "finalize"
       \/ (\E s \in enabled : ceremony[s].pc = "rejected") /\ pc' = "archive"
    /\ UNCHANGED <<safe, keys, posts, enabled, ceremony, add, noted>>

\* Promise.allSettled over the ceremonies.
AllSettled ==
    /\ pc = "ceremonies"
    /\ \A s \in enabled : Settled(s)
    /\ pc' = IF \A s \in enabled : ceremony[s].pc = "fulfilled"
             THEN "finalize" ELSE "archive"
    /\ UNCHANGED <<safe, keys, posts, enabled, ceremony, add, noted>>

----------------------------------------------------------------------------
(* Archiving and phase 3 *)

\* archiveSafe as the clean-up of createSafeKeys; then the call throws, and
\* says so if the clean-up has failed.
ArchiveSafe ==
    /\ pc = "archive"
    /\ pc' = "failed"
    /\ \/ safe' = [safe EXCEPT !.status = "archived"] /\ noted' \in BOOLEAN
       \/ noted' = TRUE /\ UNCHANGED safe
    /\ UNCHANGED <<keys, posts, enabled, ceremony, add>>

\* The server takes the root keys of a safe that has none, or the same again.
\* That it may also look the keys up is not relied upon.
CanFinalize ==
    \/ safe.status = "initializing"
    \/ safe.status = "active" /\ safe.rootKeys = Triplets

\* finalizeSafe, once in generateSafe; a caller of the three phases has the
\* root keys and may call it again when it has failed.
FinalizeSafe ==
    /\ pc \in {"finalize", "unfinalized"}
    /\ \/ /\ CanFinalize
          /\ safe' = [status |-> "active", rootKeys |-> Triplets]
          /\ pc' \in {"done", "unfinalized"}
       \/ pc' = "unfinalized" /\ UNCHANGED safe
    /\ UNCHANGED <<keys, posts, enabled, ceremony, add, noted>>

\* The caller gives up on a safe that it could not finalize: it archives it,
\* or leaves it.
Abandon ==
    /\ pc = "unfinalized"
    /\ pc' = "failed"
    /\ safe' = [safe EXCEPT !.status = "archived"] \/ UNCHANGED safe
    /\ UNCHANGED <<keys, posts, enabled, ceremony, add, noted>>

----------------------------------------------------------------------------
Init ==
    /\ safe = [status |-> "none", rootKeys |-> {}]
    /\ keys = {}
    /\ posts = {}
    /\ pc = "start"
    /\ enabled = {}
    /\ ceremony = [s \in Slot |-> NewCeremony]
    /\ add = [s \in Slot |-> [w \in Source |-> "idle"]]
    /\ noted = FALSE

CeremonyStep(s) == StartCeremony(s) \/ Round(s) \/ StartAdds(s) \/ Settle(s)
AddStep(s, w) ==
    \/ Encrypt(s, w) \/ LoseAnswer(s, w)
    \/ \E x \in posts : x.slot = s /\ x.source = w /\ ServeAdd(x)
CallStep == InitializeSafe \/ AllSettled \/ ArchiveSafe \/ FinalizeSafe

Next ==
    \/ CallStep \/ Abandon
    \/ \E s \in Slot : CeremonyStep(s) \/ \E w \in Source : AddStep(s, w)

Spec == Init /\ [][Next]_vars

\* Promises are taken up when they are settled; every request is answered or
\* breaks.
Fairness ==
    /\ WF_vars(CallStep /\ pc # "unfinalized")
    /\ \A s \in Slot : WF_vars(CeremonyStep(s))
    /\ \A s \in Slot, w \in Source : WF_vars(AddStep(s, w))

FairSpec == Spec /\ Fairness

----------------------------------------------------------------------------
(* Properties *)

\* Every variable has its type.
TypeOK ==
    /\ safe \in [status : Status, rootKeys : SUBSET Key]
    /\ keys \subseteq Key
    /\ posts \subseteq Key
    /\ pc \in Pc
    /\ enabled \subseteq Slot
    /\ ceremony \in [Slot -> Ceremony]
    /\ add \in [Slot -> [Source -> AddState]]
    /\ noted \in BOOLEAN

\* The root keys of a safe are whole triplets, one for every enabled slot and
\* nothing else: the registered keys of one ceremony, whose private shares
\* belong to the common keychain that they are registered for.
Whole(ks) ==
    /\ ks \subseteq keys
    /\ \A s \in enabled, w \in Source : \E x \in ks : x.slot = s /\ x.source = w
    /\ \A x \in ks : x.slot \in enabled /\ x.common = x.slot /\ x.prv = x.slot
WholeTriplets ==
    /\ safe.status = "active" => Whole(safe.rootKeys)
    /\ pc = "done" => safe.status = "active"

\* After a failed ceremony the safe never becomes active, so that keys which
\* are registered late stay inert; when the call throws, the safe is archived
\* or the error says that it is not.  No ceremony goes on after that: only
\* registrations of a failed one may.
FailedSafeIsAbandoned ==
    (\E s \in enabled : ceremony[s].pc = "rejected") =>
        /\ safe.status # "active"
        /\ pc = "failed" => safe.status = "archived" \/ noted
        /\ pc \in {"archive", "failed"} =>
            /\ \A s \in enabled : Settled(s)
            /\ \A x \in posts : ceremony[x.slot].pc = "rejected"

\* The call returns the safe or throws, whatever its requests come to.
GenerateSafeEnds == <>(pc \in {"done", "unfinalized", "failed"})

----------------------------------------------------------------------------
(* Refinement: the phases and ceremonies keep the promise of generateSafe. *)

\* A call whose last finalizeSafe failed may still be taken up again.
Outcome == CASE pc = "done" -> "returned" [] pc = "failed" -> "threw" [] OTHER -> "none"

Promise == INSTANCE SafePromise WITH
    status <- safe.status, rootKeys <- safe.rootKeys, outcome <- Outcome

\* generateSafe, with all that its requests and ceremonies may come to, implements
\* SafePromise.
ImplementsPromise == Promise!Spec

----------------------------------------------------------------------------
(* The inductive invariant behind the safety properties *)

\* What is sent or registered was made by its slot's ceremony after its rounds.
MadeBy(x) == x = KeyOf(x.slot, x.source, x.slot)

\* Before its registrations a ceremony has sent nothing.
Untouched(s) ==
    /\ add[s] = [w \in Source |-> "idle"]
    /\ \A x \in posts : x.slot # s

CeremonyBound(s) ==
    LET c == ceremony[s]
    IN  /\ c.pc # "idle" => s \in enabled /\ pc # "start"
        /\ c.pc = "idle" => c.round = 0
        /\ c.pc \in {"idle", "rounds"} => Untouched(s) /\ c.round <= Rounds[s]
        /\ c.pc = "rounds" /\ c.round = Rounds[s] /\ Rounds[s] > 0 => c.common = s
        /\ c.pc \in {"adding", "fulfilled"} => c.common = s
        /\ c.pc = "fulfilled" => \A w \in Source : add[s][w] = "ok"
        /\ \A w \in Source :
            /\ add[s][w] = "encrypting" => c.common = s
            /\ add[s][w] = "ok" => KeyOf(s, w, s) \in keys \ posts

\* Once the call is past its ceremonies they are settled, all fulfilled before
\* the safe is finalized and one rejected before it is archived.
Fulfilled == \A s \in enabled : ceremony[s].pc = "fulfilled"
CallBound ==
    /\ pc = "start" => enabled = {} /\ safe.status = "none"
    /\ pc \notin {"start", "failed"} => enabled # {}
    /\ safe.status = "none" => enabled = {}
    /\ pc \in {"archive", "failed"} => \A s \in enabled : Settled(s)
    /\ pc = "archive" => ~Fulfilled
    /\ pc \in {"finalize", "unfinalized", "done"} => Fulfilled
    /\ safe.status = "active" =>
        /\ Fulfilled /\ safe.rootKeys = Triplets
        /\ pc \in {"unfinalized", "done", "failed"}
    /\ pc = "failed" /\ ~Fulfilled => safe.status = "archived" \/ noted
    /\ pc = "done" => safe.status = "active"

IInv ==
    /\ TypeOK
    /\ \A x \in posts \cup keys : MadeBy(x)
    /\ \A s \in Slot : CeremonyBound(s)
    /\ CallBound

============================================================================
