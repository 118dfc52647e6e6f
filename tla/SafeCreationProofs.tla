------------------------- MODULE SafeCreationProofs -------------------------
(***************************************************************************)
(* Proofs about SafeCreation, for any slots and any numbers of rounds: the *)
(* inductive invariant, that an active safe has whole triplets of keys,    *)
(* that a safe with a failed ceremony is abandoned, and the promise of     *)
(* SafePromise.                                                            *)
(***************************************************************************)
EXTENDS SafeCreation, TLAPS

\* A key that a ceremony has made is a key, and says who made it.
LEMMA KeyOfType ==
    ASSUME NEW s \in Slot, NEW w \in Source, NEW k \in Keygen
    PROVE  /\ KeyOf(s, w, k) \in Key
           /\ KeyOf(s, w, k).slot = s /\ KeyOf(s, w, k).source = w
           /\ MadeBy(KeyOf(s, w, s))
BY DEF KeyOf, Key, Keygen, MadeBy

\* A ceremony that is not touched keeps its part of the invariant when keys
\* and the registrations of other slots are added.
LEMMA CeremonyUntouched ==
    ASSUME NEW t \in Slot, CeremonyBound(t),
           ceremony'[t] = ceremony[t], add'[t] = add[t],
           enabled \subseteq enabled', keys \subseteq keys',
           pc # "start" => pc' # "start",
           \A x \in posts' : x \in posts \/ x.slot # t
    PROVE  CeremonyBound(t)'
<1>1. ASSUME NEW w \in Source, add'[t][w] = "ok"
      PROVE  KeyOf(t, w, t) \in keys' \ posts'
    <2>1. KeyOf(t, w, t) \in keys \ posts
        BY <1>1 DEF CeremonyBound
    <2>2. KeyOf(t, w, t).slot = t
        BY DEF KeyOf
    <2> QED BY <2>1, <2>2
<1>2. Untouched(t) => Untouched(t)'
    BY DEF Untouched
<1> QED BY <1>1, <1>2 DEF CeremonyBound

\* The call's part of the invariant is about these variables only.
LEMMA CallUntouched ==
    ASSUME CallBound, UNCHANGED <<safe, pc, enabled, ceremony, noted>>
    PROVE  CallBound'
BY DEF CallBound, Fulfilled, Triplets, Settled

\* During the ceremonies nothing has been said of them yet.
LEMMA CallDuringCeremonies ==
    ASSUME CallBound, pc = "ceremonies", UNCHANGED <<safe, pc, enabled>>
    PROVE  CallBound'
BY DEF CallBound

\* A ceremony goes on only while the call waits for the ceremonies.
LEMMA Busy ==
    ASSUME IInv, NEW s \in Slot, ceremony[s].pc \in {"rounds", "adding"}
    PROVE  pc = "ceremonies" /\ s \in enabled
<1>1. s \in enabled /\ pc # "start"
    BY DEF IInv, CeremonyBound
<1>2. ~Settled(s)
    BY DEF Settled
<1> QED BY <1>1, <1>2 DEF IInv, TypeOK, CallBound, Fulfilled, Settled, Pc

\* A step of the ceremony of s leaves the others to look after themselves.
LEMMA OneCeremony ==
    ASSUME IInv, NEW s \in Slot, TypeOK', CeremonyBound(s)', CallBound',
           \A t \in Slot \ {s} : ceremony'[t] = ceremony[t] /\ add'[t] = add[t],
           enabled' = enabled, pc' = pc, keys \subseteq keys',
           \A x \in posts' : x \in posts \/ x.slot = s,
           \A x \in posts' \cup keys' : MadeBy(x)
    PROVE  IInv'
<1>1. ASSUME NEW t \in Slot PROVE CeremonyBound(t)'
    <2>1. CASE t = s
        BY <2>1
    <2>2. CASE t # s
        BY <2>2, CeremonyUntouched DEF IInv
    <2> QED BY <2>1, <2>2
<1> QED BY <1>1 DEF IInv, MadeBy, KeyOf

\* A step of the call touches no ceremony.
LEMMA NoCeremony ==
    ASSUME IInv, TypeOK', CallBound', UNCHANGED <<keys, posts, ceremony, add>>,
           enabled \subseteq enabled', pc # "start" => pc' # "start"
    PROVE  IInv'
<1>1. ASSUME NEW t \in Slot PROVE CeremonyBound(t)'
    BY CeremonyUntouched DEF IInv
<1> QED BY <1>1 DEF IInv, MadeBy

LEMMA InitIInv == Init => IInv
<1> SUFFICES ASSUME Init PROVE IInv
    OBVIOUS
<1>1. TypeOK
    BY DEF Init, TypeOK, Status, Pc, Ceremony, NewCeremony, AddState
<1>2. ASSUME NEW s \in Slot PROVE CeremonyBound(s)
    BY RoundsAssumption DEF Init, CeremonyBound, Untouched, NewCeremony
<1>3. CallBound
    BY DEF Init, CallBound
<1> QED BY <1>1, <1>2, <1>3 DEF IInv, Init

----------------------------------------------------------------------------
(* The steps of the ceremonies *)

LEMMA StepStartCeremony ==
    ASSUME IInv, NEW s \in Slot, StartCeremony(s)
    PROVE  IInv'
<1> USE DEF StartCeremony, Reject
<1>1. PICK st \in {"rounds", "rejected"} : ceremony' = [ceremony EXCEPT ![s].pc = st]
    OBVIOUS
<1>2. TypeOK'
    <2>1. [ceremony[s] EXCEPT !.pc = st] \in Ceremony
        BY DEF IInv, TypeOK, Ceremony
    <2> QED BY <1>1, <2>1 DEF IInv, TypeOK
<1>3. /\ ceremony'[s] = [ceremony[s] EXCEPT !.pc = st]
      /\ \A t \in Slot \ {s} : ceremony'[t] = ceremony[t]
    BY <1>1 DEF IInv, TypeOK
<1>4. /\ ceremony'[s].pc = st /\ ceremony'[s].round = ceremony[s].round
      /\ ceremony[s].round = 0 /\ Rounds[s] \in Nat
    BY <1>3, RoundsAssumption DEF IInv, TypeOK, Ceremony, CeremonyBound
<1>5. Untouched(s) /\ Untouched(s)'
    BY DEF IInv, CeremonyBound, Untouched
<1>6. CeremonyBound(s)'
    <2>1. \A w \in Source : add[s][w] = "idle"
        BY <1>5 DEF Untouched
    <2>2. s \in enabled' /\ pc' # "start"
        OBVIOUS
    <2> QED BY <1>4, <1>5, <2>1, <2>2 DEF CeremonyBound
<1>7. CallBound'
    BY CallDuringCeremonies DEF IInv
<1> QED BY <1>2, <1>3, <1>6, <1>7, OneCeremony DEF IInv

\* A round: the last one compares the keychains.
LEMMA StepRound ==
    ASSUME IInv, NEW s \in Slot, Round(s)
    PROVE  IInv'
<1> DEFINE c == ceremony[s]
           n == c.round + 1
<1>1. /\ c \in Ceremony /\ c.round \in Nat /\ Rounds[s] \in Nat
      /\ pc = "ceremonies" /\ s \in enabled
    BY Busy, RoundsAssumption DEF IInv, TypeOK, Ceremony, Round
<1>2. Untouched(s) /\ Untouched(s)' /\ \A w \in Source : add[s][w] = "idle"
    BY DEF IInv, CeremonyBound, Untouched, Round
<1> DEFINE Next1(d) == /\ d.pc = "rounds" /\ d.round = n
                       /\ n = Rounds[s] => d.common = s
           Made == \E d \in Ceremony :
                    /\ ceremony' = [ceremony EXCEPT ![s] = d]
                    /\ Next1(d) \/ d.pc = "rejected"
<1>3. Made
    <2>1. ASSUME NEW o \in Keygen, NEW k \in Keygen,
                 n = Rounds[s] => KeychainsMatch(s, k),
                 ceremony' = [ceremony EXCEPT ![s] =
                   [c EXCEPT !.round = n, !.sid = o,
                             !.common = IF n = Rounds[s] THEN k ELSE c.common]]
          PROVE  Made
        <3> DEFINE j == IF n = Rounds[s] THEN k ELSE c.common
                   d == [c EXCEPT !.round = n, !.sid = o, !.common = j]
        <3>3. ceremony' = [ceremony EXCEPT ![s] = d]
            BY <2>1
        <3>4. n \in Nat /\ j \in Keygen \cup {NoKeygen} /\ (n = Rounds[s] => j = s)
            BY <1>1, <2>1 DEF Ceremony, KeychainsMatch
        <3>5. c.pc = "rounds"
            BY DEF Round
        <3> HIDE DEF c, n, j
        <3>1. d \in Ceremony
            BY <1>1, <3>4 DEF Ceremony
        <3>2. Next1(d)
            BY <1>1, <3>4, <3>5 DEF Ceremony
        <3> HIDE DEF d
        <3> QED BY <3>1, <3>2, <3>3
    <2>2. ASSUME ceremony' = [ceremony EXCEPT ![s].pc = "rejected"]
          PROVE  Made
        <3> DEFINE d == [c EXCEPT !.pc = "rejected"]
        <3>1. d \in Ceremony /\ d.pc = "rejected"
            BY <1>1 DEF Ceremony
        <3>2. ceremony' = [ceremony EXCEPT ![s] = d]
            BY <2>2
        <3> HIDE DEF d
        <3> QED BY <3>1, <3>2
    <2> QED BY <2>1, <2>2 DEF Round, Reject
<1> PICK d \in Ceremony :
        /\ ceremony' = [ceremony EXCEPT ![s] = d]
        /\ Next1(d) \/ d.pc = "rejected"
    BY <1>3
<1>4. TypeOK'
    BY DEF IInv, TypeOK, Round
<1>5. ceremony'[s] = d /\ \A t \in Slot \ {s} : ceremony'[t] = ceremony[t]
    BY DEF IInv, TypeOK
<1>6. CeremonyBound(s)'
    <2>1. /\ Untouched(s)' /\ \A w \in Source : add'[s][w] = "idle"
          /\ s \in enabled' /\ pc' # "start"
        BY <1>1, <1>2 DEF Round
    <2>2. d.pc = "rejected" \/ (d.pc = "rounds" /\ d.round <= Rounds[s]
                                /\ (d.round = Rounds[s] => d.common = s))
        <3>2. c.round < Rounds[s]
            BY DEF Round
        <3>1. n <= Rounds[s]
            BY <1>1, <3>2
        <3> QED BY <3>1
    <2> HIDE DEF c, n, Next1, Made
    <2> QED BY <1>5, <2>1, <2>2 DEF CeremonyBound
<1>7. CallBound'
    BY <1>1, CallDuringCeremonies DEF IInv, Round
<1> QED BY <1>4, <1>5, <1>6, <1>7, OneCeremony DEF IInv, Round

\* The registrations start with the keychain that the rounds have agreed on.
LEMMA StepStartAdds ==
    ASSUME IInv, NEW s \in Slot, StartAdds(s)
    PROVE  IInv'
<1> USE DEF StartAdds
<1> DEFINE c == ceremony[s]
           k == CommonOf(s)
           started == IF Rounds[s] = 0 THEN {"user", "bitgo"} ELSE {"bitgo"}
<1>1. c \in Ceremony /\ Rounds[s] \in Nat /\ pc = "ceremonies" /\ s \in enabled
    BY Busy, RoundsAssumption DEF IInv, TypeOK
<1>2. k = s
    BY <1>1 DEF IInv, CeremonyBound, CommonOf
<1>3. Untouched(s)
    BY DEF IInv, CeremonyBound
<1>4. started \subseteq Source
    BY DEF Source
<1> DEFINE a == [w \in Source |-> IF w \in started THEN "waiting" ELSE "encrypting"]
           new == {KeyOf(s, w, s) : w \in started}
<1> DEFINE d == [c EXCEPT !.pc = "adding", !.common = s]
<1>5. /\ ceremony' = [ceremony EXCEPT ![s] = d]
      /\ add' = [add EXCEPT ![s] = a]
      /\ posts' = posts \cup new
    BY <1>2
<1>6. new \subseteq Key /\ \A x \in new : x.slot = s /\ MadeBy(x)
    BY <1>4, KeyOfType DEF Keygen
<1>7. a \in [Source -> AddState]
    BY DEF AddState
<1> HIDE DEF a, new
<1>8. d \in Ceremony /\ d.pc = "adding" /\ d.common = s
    BY <1>1 DEF Ceremony, Keygen
<1> HIDE DEF d
<1>9. TypeOK'
    BY <1>5, <1>6, <1>7, <1>8 DEF IInv, TypeOK
<1>10. /\ ceremony'[s].pc = "adding" /\ ceremony'[s].common = s /\ add'[s] = a
       /\ \A t \in Slot \ {s} : ceremony'[t] = ceremony[t] /\ add'[t] = add[t]
    BY <1>5, <1>8 DEF IInv, TypeOK
<1>11. CeremonyBound(s)'
    BY <1>1, <1>10 DEF CeremonyBound, a
<1>12. CallBound'
    BY <1>1, CallDuringCeremonies DEF IInv
<1> QED BY <1>5, <1>6, <1>9, <1>10, <1>11, <1>12, OneCeremony DEF IInv

\* Promise.all over the registrations.
LEMMA StepSettle ==
    ASSUME IInv, NEW s \in Slot, Settle(s)
    PROVE  IInv'
<1> USE DEF Settle, Reject
<1>1. PICK st \in {"fulfilled", "rejected"} :
        /\ ceremony' = [ceremony EXCEPT ![s].pc = st]
        /\ st = "fulfilled" => \A w \in Source : add[s][w] = "ok"
    OBVIOUS
<1>2. pc = "ceremonies" /\ s \in enabled
    BY Busy
<1>3. TypeOK'
    <2>1. [ceremony[s] EXCEPT !.pc = st] \in Ceremony
        BY DEF IInv, TypeOK, Ceremony
    <2> QED BY <1>1, <2>1 DEF IInv, TypeOK
<1>4. /\ ceremony'[s] = [ceremony[s] EXCEPT !.pc = st]
      /\ \A t \in Slot \ {s} : ceremony'[t] = ceremony[t]
    BY <1>1 DEF IInv, TypeOK
<1>5. ceremony'[s].pc = st /\ ceremony'[s].common = ceremony[s].common
    BY <1>4 DEF IInv, TypeOK, Ceremony
<1>6. CeremonyBound(s)'
    BY <1>1, <1>2, <1>5 DEF IInv, CeremonyBound
<1>7. CallBound'
    BY <1>2, CallDuringCeremonies DEF IInv
<1> QED BY <1>3, <1>4, <1>6, <1>7, OneCeremony DEF IInv

----------------------------------------------------------------------------
(* The steps of the registrations *)

\* A registration that moves on without having been served.
LEMMA StepEncrypt ==
    ASSUME IInv, NEW s \in Slot, NEW w \in Source, Encrypt(s, w)
    PROVE  IInv'
<1> USE DEF Encrypt
<1> DEFINE x == KeyOf(s, w, s)
<1>1. PICK st \in {"waiting", "rejected"} : add' = [add EXCEPT ![s][w] = st]
    OBVIOUS
<1>2. posts' \in {posts, posts \cup {x}}
    BY DEF IInv, CeremonyBound
<1>3. x \in Key /\ x.slot = s /\ x.source = w /\ MadeBy(x)
    BY KeyOfType DEF Keygen
<1>4. /\ add'[s] = [add[s] EXCEPT ![w] = st]
      /\ add[s] \in [Source -> AddState]
      /\ \A t \in Slot \ {s} : add'[t] = add[t]
    BY <1>1 DEF IInv, TypeOK
<1>5. TypeOK'
    BY <1>1, <1>2, <1>3 DEF IInv, TypeOK, AddState
<1>6. CeremonyBound(s)'
    <2>1. ceremony[s].pc \notin {"idle", "rounds", "fulfilled"}
        BY DEF IInv, CeremonyBound, Untouched
    <2>2. ASSUME NEW v \in Source, add'[s][v] = "ok"
          PROVE  KeyOf(s, v, s) \in keys' \ posts'
        <3>1. v # w /\ add[s][v] = "ok"
            BY <1>4, <2>2
        <3>2. KeyOf(s, v, s) \in keys \ posts
            BY <3>1 DEF IInv, CeremonyBound
        <3>3. KeyOf(s, v, s) # x
            BY <3>1 DEF KeyOf
        <3> QED BY <1>2, <3>2, <3>3
    <2>3. ASSUME NEW v \in Source, add'[s][v] = "encrypting"
          PROVE  add[s][v] = "encrypting"
        BY <1>4, <2>3
    <2> QED BY <2>1, <2>2, <2>3 DEF IInv, CeremonyBound
<1>7. CallBound'
    BY CallUntouched DEF IInv
<1>8. (\A y \in posts' : y \in posts \/ y.slot = s) /\ \A y \in posts' \cup keys' : MadeBy(y)
    BY <1>2, <1>3 DEF IInv
<1> QED BY <1>4, <1>5, <1>6, <1>7, <1>8, OneCeremony

LEMMA StepLoseAnswer ==
    ASSUME IInv, NEW s \in Slot, NEW w \in Source, LoseAnswer(s, w)
    PROVE  IInv'
<1> USE DEF LoseAnswer
<1>1. /\ add'[s] = [add[s] EXCEPT ![w] = "rejected"]
      /\ add[s] \in [Source -> AddState]
      /\ \A t \in Slot \ {s} : add'[t] = add[t]
    BY DEF IInv, TypeOK
<1>2. TypeOK'
    BY DEF IInv, TypeOK, AddState
<1>3. CeremonyBound(s)'
    <2>1. ceremony[s].pc \notin {"idle", "rounds", "fulfilled"}
        BY DEF IInv, CeremonyBound, Untouched
    <2>2. \A v \in Source : add'[s][v] \in {"ok", "encrypting"} => add'[s][v] = add[s][v]
        BY <1>1
    <2> QED BY <2>1, <2>2 DEF IInv, CeremonyBound
<1>4. CallBound'
    BY CallUntouched DEF IInv
<1> QED BY <1>1, <1>2, <1>3, <1>4, OneCeremony DEF IInv

\* The server answers a registration of a ceremony that has left its rounds.
LEMMA StepServeAdd ==
    ASSUME IInv, NEW x \in posts, ServeAdd(x)
    PROVE  IInv'
<1> USE DEF ServeAdd
<1> DEFINE s == x.slot
           w == x.source
<1>1. /\ x \in Key /\ s \in Slot /\ w \in Source
      /\ MadeBy(x) /\ x = KeyOf(s, w, s)
    BY DEF IInv, TypeOK, Key, MadeBy
<1> HIDE DEF s, w
<1>2. PICK st \in {"ok", "rejected"} :
        /\ keys' = IF st = "ok" THEN keys \cup {x} ELSE keys
        /\ add' = IF add[s][w] = "waiting" THEN [add EXCEPT ![s][w] = st] ELSE add
    BY DEF s, w
<1>3. /\ add[s] \in [Source -> AddState]
      /\ add'[s] = IF add[s][w] = "waiting" THEN [add[s] EXCEPT ![w] = st] ELSE add[s]
      /\ \A t \in Slot \ {s} : add'[t] = add[t]
    BY <1>1, <1>2 DEF IInv, TypeOK
<1>4. TypeOK'
    BY <1>1, <1>2 DEF IInv, TypeOK, AddState
<1>5. CeremonyBound(s)'
    <2>1. ceremony[s].pc \notin {"idle", "rounds"}
        BY <1>1 DEF IInv, CeremonyBound, Untouched, s
    <2>2. ASSUME NEW v \in Source, add'[s][v] = "ok"
          PROVE  KeyOf(s, v, s) \in keys' \ posts'
        <3>1. CASE add[s][v] = "ok"
            <4>1. KeyOf(s, v, s) \in keys \ posts
                BY <1>1, <3>1 DEF IInv, CeremonyBound
            <4> QED BY <1>2, <4>1
        <3>2. CASE add[s][v] # "ok"
            <4>1. v = w /\ st = "ok"
                BY <1>3, <2>2, <3>2
            <4> QED BY <1>1, <1>2, <4>1
        <3> QED BY <3>1, <3>2
    <2>3. \A v \in Source : add[s][v] = "ok" => add'[s][v] = "ok"
        BY <1>3
    <2>4. \A v \in Source : add'[s][v] = "encrypting" => add[s][v] = "encrypting"
        BY <1>3
    <2>5. CeremonyBound(s)
        BY <1>1 DEF IInv
    <2> QED BY <2>1, <2>2, <2>3, <2>4, <2>5 DEF CeremonyBound
<1>6. CallBound'
    BY CallUntouched DEF IInv
<1>7. keys \subseteq keys' /\ posts' \subseteq posts /\ keys' \subseteq keys \cup {x}
    BY <1>2
<1> QED BY <1>1, <1>3, <1>4, <1>5, <1>6, <1>7, OneCeremony DEF IInv

----------------------------------------------------------------------------
(* The steps of the call *)

LEMMA StepInitializeSafe ==
    ASSUME IInv, InitializeSafe
    PROVE  IInv'
<1> USE DEF InitializeSafe
<1>1. TypeOK'
    BY DEF IInv, TypeOK, Status, Pc
<1>2. enabled = {} /\ safe.status # "active"
    BY DEF IInv, CallBound
<1>3. /\ safe'.status # "active"
      /\ pc' = "failed" => enabled' = {}
      /\ pc' = "ceremonies" => enabled' # {} /\ safe'.status # "none"
    BY <1>2 DEF IInv, TypeOK
<1>4. CallBound'
    BY <1>2, <1>3 DEF CallBound, Fulfilled
<1>5. pc' # "start" /\ enabled \subseteq enabled'
    BY <1>2
<1> QED BY <1>1, <1>4, <1>5, NoCeremony

LEMMA StepAllSettled ==
    ASSUME IInv, AllSettled
    PROVE  IInv'
<1> USE DEF AllSettled
<1>1. TypeOK'
    BY DEF IInv, TypeOK, Pc
<1>2. safe.status \notin {"active", "none"} /\ enabled # {}
    BY DEF IInv, CallBound
<1>3. CallBound'
    BY <1>2 DEF CallBound, Fulfilled, Settled
<1> QED BY <1>1, <1>3, NoCeremony

LEMMA StepArchiveSafe ==
    ASSUME IInv, ArchiveSafe
    PROVE  IInv'
<1> USE DEF ArchiveSafe
<1>1. TypeOK'
    BY DEF IInv, TypeOK, Status, Pc
<1>2. safe.status \notin {"active", "none"} /\ \A s \in enabled : Settled(s)
    BY DEF IInv, CallBound
<1>3. safe'.status \notin {"active", "none"} /\ (safe'.status = "archived" \/ noted' = TRUE)
    BY <1>2 DEF IInv, TypeOK
<1>4. CallBound'
    BY <1>2, <1>3 DEF CallBound, Fulfilled, Settled
<1> QED BY <1>1, <1>4, NoCeremony

\* finalizeSafe, once or again, for the triplets of fulfilled ceremonies.
LEMMA StepFinalizeSafe ==
    ASSUME IInv, FinalizeSafe
    PROVE  IInv'
<1> USE DEF FinalizeSafe
<1>1. Fulfilled
    BY DEF IInv, CallBound
<1>2. Triplets \subseteq Key
    <2>1. ASSUME NEW s \in enabled, NEW w \in Source
          PROVE  KeyOf(s, w, ceremony[s].common) \in Key
        <3>1. s \in Slot /\ ceremony[s].common = s
            BY <1>1 DEF IInv, TypeOK, Fulfilled, CeremonyBound
        <3> QED BY <3>1, KeyOfType DEF Keygen
    <2> QED BY <2>1 DEF Triplets
<1>3. TypeOK'
    BY <1>2 DEF IInv, TypeOK, Status, Pc
<1>4. Fulfilled' /\ Triplets' = Triplets
    BY <1>1 DEF Fulfilled, Triplets
<1>5. safe'.status = "active" => safe'.rootKeys = Triplets
    BY DEF IInv, CallBound
<1>6. /\ pc' = "done" => safe'.status = "active"
      /\ enabled # {} /\ safe'.status # "none"
    BY DEF IInv, CallBound
<1>7. CallBound'
    BY <1>4, <1>5, <1>6 DEF CallBound
<1> QED BY <1>3, <1>7, NoCeremony

LEMMA StepAbandon ==
    ASSUME IInv, Abandon
    PROVE  IInv'
<1> USE DEF Abandon
<1>1. TypeOK'
    BY DEF IInv, TypeOK, Status, Pc
<1>2. Fulfilled /\ Fulfilled' /\ Triplets' = Triplets
    BY DEF IInv, CallBound, Fulfilled, Triplets
<1>3. safe'.status = "active" => safe'.rootKeys = Triplets
    BY DEF IInv, CallBound, TypeOK
<1>4. \A s \in enabled' : Settled(s)'
    BY <1>2 DEF Fulfilled, Settled
<1>5. safe'.status # "none"
    BY DEF IInv, CallBound, TypeOK
<1>6. CallBound'
    BY <1>2, <1>3, <1>4, <1>5 DEF CallBound
<1> QED BY <1>1, <1>6, NoCeremony

LEMMA StepIInv == IInv /\ [Next]_vars => IInv'
<1> SUFFICES ASSUME IInv, [Next]_vars PROVE IInv'
    OBVIOUS
<1>1. CASE CallStep
    BY <1>1, StepInitializeSafe, StepAllSettled, StepArchiveSafe, StepFinalizeSafe DEF CallStep
<1>2. CASE Abandon
    BY <1>2, StepAbandon
<1>3. ASSUME NEW s \in Slot, CeremonyStep(s) PROVE IInv'
    BY <1>3, StepStartCeremony, StepRound, StepStartAdds, StepSettle DEF CeremonyStep
<1>4. ASSUME NEW s \in Slot, NEW w \in Source, AddStep(s, w) PROVE IInv'
    BY <1>4, StepEncrypt, StepLoseAnswer, StepServeAdd DEF AddStep
<1>5. CASE UNCHANGED vars
    <2>1. TypeOK' /\ CallBound'
        BY <1>5, CallUntouched DEF IInv, TypeOK, vars
    <2> QED BY <1>5, <2>1, NoCeremony DEF vars
<1> QED BY <1>1, <1>2, <1>3, <1>4, <1>5 DEF Next

----------------------------------------------------------------------------
(* The theorems *)

\* The inductive invariant: every key was made by its slot's ceremony, every
\* ceremony is where its registrations say, and the call has settled its
\* ceremonies before it archives or finalizes the safe.
THEOREM Invariance == Spec => []IInv
<1> QED BY InitIInv, StepIInv, PTL DEF Spec

\* Every variable has its type.
THEOREM TypeCorrect == Spec => []TypeOK
<1>1. IInv => TypeOK
    BY DEF IInv
<1> QED BY Invariance, <1>1, PTL

\* Whatever becomes of its requests, generateSafe activates a safe only with
\* whole triplets of registered keys, for every enabled slot and of one
\* ceremony each.
THEOREM TripletsAreWhole == Spec => []WholeTriplets
<1>1. ASSUME IInv PROVE WholeTriplets
    <2>1. ASSUME safe.status = "active" PROVE Whole(safe.rootKeys)
        <3>1. Fulfilled /\ safe.rootKeys = Triplets
            BY <1>1, <2>1 DEF IInv, CallBound
        <3>2. ASSUME NEW s \in enabled, NEW w \in Source
              PROVE  /\ KeyOf(s, w, ceremony[s].common) = KeyOf(s, w, s)
                     /\ KeyOf(s, w, s) \in keys
                     /\ KeyOf(s, w, s).slot = s /\ KeyOf(s, w, s).source = w
                     /\ KeyOf(s, w, s).common = s /\ KeyOf(s, w, s).prv = s
            <4>1. s \in Slot /\ ceremony[s].common = s /\ add[s][w] = "ok"
                BY <1>1, <3>1 DEF IInv, TypeOK, Fulfilled, CeremonyBound
            <4>2. KeyOf(s, w, s) \in keys
                BY <1>1, <4>1 DEF IInv, CeremonyBound
            <4> QED BY <4>1, <4>2 DEF KeyOf
        <3> QED BY <3>1, <3>2 DEF Whole, Triplets
    <2> QED BY <1>1, <2>1 DEF WholeTriplets, IInv, CallBound
<1> QED BY Invariance, <1>1, PTL

\* A safe with a failed ceremony never becomes active and is archived, or the
\* error says that it is not.
THEOREM FailureAbandons == Spec => []FailedSafeIsAbandoned
<1>1. ASSUME IInv, NEW f \in enabled, ceremony[f].pc = "rejected"
      PROVE  /\ safe.status # "active"
             /\ pc = "failed" => safe.status = "archived" \/ noted
             /\ pc \in {"archive", "failed"} =>
                 /\ \A s \in enabled : Settled(s)
                 /\ \A x \in posts : ceremony[x.slot].pc = "rejected"
    <2>1. ~Fulfilled
        BY <1>1 DEF Fulfilled
    <2>2. ASSUME \A s \in enabled : Settled(s), NEW x \in posts
          PROVE  ceremony[x.slot].pc = "rejected"
        <3>1. /\ x.slot \in Slot /\ x.source \in Source
              /\ x = KeyOf(x.slot, x.source, x.slot) /\ CeremonyBound(x.slot)
            BY <1>1 DEF IInv, TypeOK, Key, MadeBy
        <3>2. ceremony[x.slot].pc # "idle"
            BY <3>1 DEF CeremonyBound, Untouched
        <3>3. Settled(x.slot)
            BY <2>2, <3>1, <3>2 DEF CeremonyBound
        <3>4. ceremony[x.slot].pc # "fulfilled"
            BY <3>1 DEF CeremonyBound
        <3> QED BY <3>3, <3>4 DEF Settled
    <2> QED BY <1>1, <2>1, <2>2 DEF IInv, CallBound
<1>2. IInv => FailedSafeIsAbandoned
    BY <1>1 DEF FailedSafeIsAbandoned
<1> QED BY Invariance, <1>2, PTL

----------------------------------------------------------------------------
(* Refinement *)

\* A registration on its way is one of its slot's triplet, for a safe that exists.
LEMMA PostsOfTriplets ==
    ASSUME IInv, NEW x \in posts
    PROVE  x.slot \in Slot /\ x \in Promise!Triplet(x.slot) /\ safe.status # "none"
<1>1. /\ x \in Key /\ x.slot \in Slot /\ x.source \in Source
      /\ x = KeyOf(x.slot, x.source, x.slot) /\ CeremonyBound(x.slot)
    BY DEF IInv, TypeOK, Key, MadeBy
<1>2. x \in Promise!Triplet(x.slot)
    BY <1>1 DEF KeyOf, Source, Promise!Triplet
<1>3. x.slot \in enabled
    BY <1>1 DEF CeremonyBound, Untouched
<1> QED BY <1>1, <1>2, <1>3 DEF IInv, CallBound

\* The root keys of fulfilled ceremonies are whole triplets and registered.
LEMMA TripletsOfSlots ==
    ASSUME IInv, Fulfilled
    PROVE  /\ Triplets = UNION {Promise!Triplet(s) : s \in enabled}
           /\ Triplets \subseteq keys
<1>1. ASSUME NEW s \in enabled
      PROVE  s \in Slot /\ ceremony[s].common = s /\ \A w \in Source : KeyOf(s, w, s) \in keys
    BY <1>1 DEF IInv, TypeOK, Fulfilled, CeremonyBound
<1>2. ASSUME NEW s \in enabled
      PROVE  {KeyOf(s, w, s) : w \in Source} = Promise!Triplet(s)
    <2>1. ASSUME NEW w \in Source PROVE KeyOf(s, w, s) \in Promise!Triplet(s)
        BY DEF KeyOf, Source, Promise!Triplet
    <2>2. ASSUME NEW x \in Promise!Triplet(s)
          PROVE  x.source \in Source /\ x = KeyOf(s, x.source, s)
        BY DEF KeyOf, Source, Promise!Triplet
    <2> QED BY <2>1, <2>2
<1>3. Triplets = UNION {{KeyOf(s, w, s) : w \in Source} : s \in enabled}
    BY <1>1 DEF Triplets
<1> QED BY <1>1, <1>2, <1>3

\* A step that neither the server nor the caller can tell is a stutter.
LEMMA Invisible ==
    ASSUME UNCHANGED <<safe, keys>>, Outcome' = Outcome
    PROVE  UNCHANGED <<safe.status, keys, safe.rootKeys, Outcome>>
OBVIOUS

\* Every step of generateSafe is a step of SafePromise, or a stutter.
LEMMA StepRefines ==
    ASSUME IInv, [Next]_vars
    PROVE  [Promise!Next]_<<safe.status, keys, safe.rootKeys, Outcome>>
<1> DEFINE Step == [Promise!Next]_<<safe.status, keys, safe.rootKeys, Outcome>>
<1>0. safe \in [status : Status, rootKeys : SUBSET Key] /\ pc \in Pc /\ CallBound
    BY DEF IInv, TypeOK
<1>1. CASE InitializeSafe
    <2>1. /\ safe.status = "none" /\ Outcome = "none" /\ UNCHANGED keys
          /\ safe'.rootKeys = safe.rootKeys
          /\ safe'.status \in {"none", "initializing"} /\ Outcome' \in {"none", "threw"}
          /\ safe'.status = "none" => Outcome' = "threw"
        BY <1>0, <1>1 DEF InitializeSafe, CallBound, Outcome
    <2>2. CASE safe'.status = "initializing"
        BY <2>1, <2>2 DEF Promise!Next, Promise!Create
    <2>3. CASE safe'.status = "none"
        BY <2>1, <2>3 DEF Promise!Next, Promise!Throw
    <2> QED BY <2>1, <2>2, <2>3
<1>2. CASE AllSettled
    <2>1. Outcome' = Outcome
        BY <1>2 DEF AllSettled, Outcome
    <2> QED BY <1>2, <2>1, Invisible DEF AllSettled
<1>3. CASE ArchiveSafe \/ Abandon
    <2>1. /\ Outcome = "none" /\ Outcome' = "threw" /\ UNCHANGED keys
          /\ safe'.rootKeys = safe.rootKeys
          /\ safe'.status \in {safe.status, "archived"} /\ safe.status # "none"
        BY <1>0, <1>3 DEF ArchiveSafe, Abandon, CallBound, Outcome
    <2>2. Promise!Throw
        BY <2>1 DEF Promise!Throw
    <2> QED BY <2>2 DEF Promise!Next
<1>4. CASE FinalizeSafe
    <2>1. Fulfilled /\ enabled \in (SUBSET Slot) \ {{}}
        BY <1>0, <1>4 DEF FinalizeSafe, CallBound, IInv, TypeOK
    <2>2. /\ Triplets = UNION {Promise!Triplet(s) : s \in enabled}
          /\ Triplets \subseteq keys
        BY <2>1, TripletsOfSlots
    <2>3. /\ Outcome = "none" /\ Outcome' \in {"none", "returned"} /\ UNCHANGED keys
          /\ pc' = "unfinalized" => Outcome' = "none"
        BY <1>4 DEF FinalizeSafe, Outcome
    <2>4. CASE safe' = [status |-> "active", rootKeys |-> Triplets] /\ safe.status = "initializing"
        <3>1. Promise!Activate
            BY <2>1, <2>2, <2>3, <2>4 DEF Promise!Activate
        <3> QED BY <3>1 DEF Promise!Next
    <2>5. CASE /\ safe' = [status |-> "active", rootKeys |-> Triplets]
               /\ safe.status = "active" /\ safe.rootKeys = Triplets
        <3>1. UNCHANGED <<safe.status, safe.rootKeys>>
            BY <2>5
        <3>2. CASE Outcome' = "returned"
            BY <2>3, <2>5, <3>1, <3>2 DEF Promise!Next, Promise!Return
        <3> QED BY <2>3, <3>1, <3>2
    <2>6. CASE pc' = "unfinalized" /\ UNCHANGED safe
        BY <2>3, <2>6
    <2> QED BY <1>4, <2>4, <2>5, <2>6 DEF FinalizeSafe, CanFinalize
<1>5. ASSUME NEW s \in Slot, CeremonyStep(s)
      PROVE  Step
    BY <1>5, Invisible DEF CeremonyStep, StartCeremony, Round, StartAdds, Settle, Outcome
<1>6. ASSUME NEW s \in Slot, NEW w \in Source, Encrypt(s, w) \/ LoseAnswer(s, w)
      PROVE  Step
    BY <1>6, Invisible DEF Encrypt, LoseAnswer, Outcome
<1>7. ASSUME NEW x \in posts, ServeAdd(x)
      PROVE  Step
    <2>1. UNCHANGED <<safe, Outcome>>
        BY <1>7 DEF ServeAdd, Outcome
    <2>2. CASE keys' = keys \cup {x}
        <3>1. Promise!Register(x)
            BY <2>1, <2>2, PostsOfTriplets DEF Promise!Register
        <3> QED BY <3>1, PostsOfTriplets DEF Promise!Next
    <2>3. CASE UNCHANGED keys
        BY <2>1, <2>3
    <2> QED BY <1>7, <2>2, <2>3 DEF ServeAdd
<1>8. CASE UNCHANGED vars
    BY <1>8 DEF vars, Outcome
<1> QED BY <1>1, <1>2, <1>3, <1>4, <1>5, <1>6, <1>7, <1>8 DEF Next, CallStep, AddStep

\* generateSafe keeps the promise of SafePromise for any slots and any numbers
\* of rounds: a safe is activated once and with whole triplets, keeps its root
\* keys, and never becomes active after its creation has thrown.
THEOREM Refinement == Spec => ImplementsPromise
<1>1. Init => Promise!Init
    BY DEF Init, Outcome, Promise!Init
<1>2. IInv /\ [Next]_vars => [Promise!Next]_<<safe.status, keys, safe.rootKeys, Outcome>>
    BY StepRefines
<1> QED BY <1>1, <1>2, Invariance, PTL DEF Spec, ImplementsPromise, Promise!Spec

============================================================================
