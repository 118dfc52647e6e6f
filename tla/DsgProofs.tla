----------------------------- MODULE DsgProofs -----------------------------
(* Proofs about module Dsg: types, the session invariants, one message hash *)
(* per signing session, and the refinement of SigningAgreement.             *)
EXTENDS Dsg, TLAPS

----------------------------------------------------------------------------
(* Facts about the values *)

\* A new object has the type of an object.
LEMMA NewDsgType ==
    ASSUME NEW h \in Hash, NEW w \in BOOLEAN
    PROVE  NewDsg(h, w) \in DsgObject
  BY DEF NewDsg, DsgObject, DsgState

\* What a session becomes when it accepts a message is again a session.
LEMMA AdvanceType ==
    ASSUME NEW p \in Party, NEW s \in Session, NEW m \in Message, Handles(p, s, m)
    PROVE  Advance(s, m) \in Session
  BY DEF Advance, Session, Message, WasmRound, Handles, Accepts

\* A refused call leaves a session.
LEMMA RefusedType ==
    ASSUME NEW s \in Session, NEW r \in Refused(s)
    PROVE  r \in Session
  BY DEF Refused, Session, WasmRound

\* The message a party makes out of a session is a message.
LEMMA MessageType ==
    ASSUME NEW p \in Party, NEW s \in Session, NEW n \in 1..4
    PROVE  MessageOf(p, s, n) \in Message
  BY DEF MessageOf, Session, Message

\* The state read from a session's round is a state, and only the four waiting
\* rounds give one that is not InvalidState.
LEMMA StateOfType ==
    ASSUME NEW round \in WasmRound
    PROVE  /\ StateOf(round) \in DsgState
           /\ round \in Waiting => RoundNumber(round) \in 1..4
           /\ (StateOf(round) # "InvalidState") = (round \in Waiting)
  BY DEF WasmRound, StateOf, DsgState, Waiting, RoundNumber

\* An object that installs a session is an object.
LEMMA InitializedType ==
    ASSUME NEW o \in DsgObject, NEW s \in Session
    PROVE  Initialized(o, s) \in DsgObject
  BY StateOfType DEF Initialized, DsgObject, Session

----------------------------------------------------------------------------
(* Type correctness *)

\* The initial objects have their types.
LEMMA TypeInit == Init => TypeOK
  BY NewDsgType DEF Init, TypeOK

\* Every step keeps the types.
LEMMA TypeStep == TypeOK /\ [Next]_vars => TypeOK'
  <2> SUFFICES ASSUME TypeOK, [Next]_vars PROVE TypeOK'
    OBVIOUS
  <2>1. CASE UNCHANGED vars
    BY <2>1 DEF vars, TypeOK
  <2>2. ASSUME NEW p \in Party, CreateSession(p)
        PROVE  dsg' \in [Party -> DsgObject] /\ sent' \subseteq Message
    <3>1. PICK i \in Sid : LET s == NewWasmSession(i)
                           IN  /\ dsg' = [dsg EXCEPT ![p] = Initialized(@, s)]
                               /\ sent' = sent \cup {MessageOf(p, s, 1)}
      BY <2>2 DEF CreateSession
    <3>2. NewWasmSession(i) \in Session
      BY DEF NewWasmSession, Session, WasmRound
    <3>3. Initialized(dsg[p], NewWasmSession(i)) \in DsgObject
      BY <3>2, InitializedType DEF TypeOK
    <3>4. MessageOf(p, NewWasmSession(i), 1) \in Message
      BY <3>2, MessageType
    <3>5. QED BY <3>1, <3>3, <3>4 DEF TypeOK
  <2>3. ASSUME NEW p \in Party, InitNow(p) PROVE TypeOK'
    BY <2>3, <2>2 DEF InitNow, TypeOK
  <2>4. ASSUME NEW p \in Party, InitBegin(p) PROVE TypeOK'
    BY <2>4 DEF InitBegin, TypeOK
  <2>5. ASSUME NEW p \in Party, InitFinish(p) PROVE TypeOK'
    <3>1. loading' \in [Party -> Nat]
      BY <2>5 DEF InitFinish, TypeOK
    <3>2. QED BY <2>5, <2>2, <3>1 DEF InitFinish, TypeOK
  <2>6. ASSUME NEW p \in Party, NEW m \in sent, HandleRound(p, m) PROVE TypeOK'
    <3> DEFINE s == dsg[p].bytes
               t == Advance(s, m)
    <3>1. s \in Session /\ m \in Message /\ dsg[p] \in DsgObject
      BY <2>6 DEF HandleRound, Deliverable, TypeOK, DsgObject
    <3>2. CASE Handles(p, s, m)
      <4>1. t \in Session
        BY <3>1, <3>2, AdvanceType
      <4>2. t.round \in WasmRound /\ StateOf(t.round) \in DsgState
        BY <4>1, StateOfType DEF Session
      <4>3. StateOf(t.round) # "InvalidState" =>
                MessageOf(p, t, RoundNumber(t.round)) \in Message
        BY <4>1, <4>2, StateOfType, MessageType
      <4>4. dsg' = [dsg EXCEPT ![p].bytes = t, ![p].dsgState = StateOf(t.round)]
        BY <2>6, <3>2 DEF HandleRound
      <4>5. dsg' \in [Party -> DsgObject]
        BY <4>1, <4>2, <4>4, <3>1 DEF TypeOK, DsgObject
      <4>6. sent' \subseteq Message
        BY <2>6, <3>2, <4>3 DEF HandleRound, TypeOK
      <4>7. QED BY <2>6, <4>5, <4>6 DEF HandleRound, TypeOK
    <3>3. CASE ~Handles(p, s, m)
      <4>1. PICK r \in Refused(s) : dsg' = [dsg EXCEPT ![p].bytes = r]
        BY <2>6, <3>3 DEF HandleRound
      <4>2. r \in Session
        BY <4>1, <3>1, RefusedType
      <4>3. dsg' \in [Party -> DsgObject]
        BY <4>1, <4>2, <3>1 DEF TypeOK, DsgObject
      <4>4. QED BY <2>6, <3>3, <4>3 DEF HandleRound, TypeOK
    <3>4. QED BY <3>2, <3>3
  <2>7. ASSUME NEW p \in Party, NEW m \in sent, HandleRound3(p, m) PROVE TypeOK'
    <3> DEFINE s == dsg[p].bytes
               t == Advance(s, m)
               u == [t EXCEPT !.round = "WaitMsg4", !.hash = dsg[p].messageHash]
    <3>1. s \in Session /\ m \in Message /\ dsg[p] \in DsgObject
      BY <2>7 DEF HandleRound3, Deliverable, TypeOK, DsgObject
    <3>2. CASE Handles(p, s, m) /\ dsg[p].messageHash \in Digest32
      <4>1. t \in Session
        BY <3>1, <3>2, AdvanceType
      <4>2. u \in Session
        BY <4>1, <3>1 DEF Session, DsgObject, WasmRound
      <4>3. MessageOf(p, u, 4) \in Message
        BY <4>2, MessageType
      <4>4. /\ dsg' = [dsg EXCEPT ![p].bytes = u, ![p].dsgState = "Round4"]
            /\ sent' = sent \cup {MessageOf(p, u, 4)}
        BY <2>7, <3>2 DEF HandleRound3
      <4>5. dsg' \in [Party -> DsgObject]
        BY <4>2, <4>4, <3>1 DEF TypeOK, DsgObject, DsgState
      <4>6. QED BY <2>7, <4>3, <4>4, <4>5 DEF HandleRound3, TypeOK
    <3>3. ASSUME NEW r \in Session, dsg' = [dsg EXCEPT ![p].bytes = r], UNCHANGED sent
          PROVE  TypeOK'
      <4>1. dsg' \in [Party -> DsgObject]
        BY <3>1, <3>3 DEF TypeOK, DsgObject
      <4>2. QED BY <2>7, <3>3, <4>1 DEF HandleRound3, TypeOK
    <3>4. CASE Handles(p, s, m) /\ dsg[p].messageHash \notin Digest32
      <4>1. PICK r \in Refused(t) : dsg' = [dsg EXCEPT ![p].bytes = r]
        BY <2>7, <3>4 DEF HandleRound3
      <4>2. t \in Session
        BY <3>1, <3>4, AdvanceType
      <4>3. r \in Session
        BY <4>1, <4>2, RefusedType
      <4>4. QED BY <2>7, <3>3, <3>4, <4>1, <4>3 DEF HandleRound3
    <3>5. CASE ~Handles(p, s, m)
      <4>1. PICK r \in Refused(s) : dsg' = [dsg EXCEPT ![p].bytes = r]
        BY <2>7, <3>5 DEF HandleRound3
      <4>2. r \in Session
        BY <4>1, <3>1, RefusedType
      <4>3. QED BY <2>7, <3>3, <3>5, <4>1, <4>2 DEF HandleRound3
    <3>6. QED BY <3>2, <3>4, <3>5
  <2>8. ASSUME NEW p \in Party, NEW m \in sent, HandleRound4(p, m) PROVE TypeOK'
    <3> DEFINE s == dsg[p].bytes
               g == [sid |-> s.sid, peer |-> s.peer, hash |-> s.hash]
    <3>1. s \in Session /\ dsg[p] \in DsgObject
      BY <2>8 DEF HandleRound4, Deliverable, TypeOK, DsgObject
    <3>2. g \in Signature
      BY <3>1 DEF Session, Signature
    <3>3. CASE Combines(p, s, m)
      <4>1. /\ dsg' = [dsg EXCEPT ![p].dsgState = "Complete",
                                  ![p].handle = "held",
                                  ![p].signature = g]
            /\ signatures' = signatures \cup {g}
        BY <2>8, <3>3 DEF HandleRound4
      <4>2. dsg' \in [Party -> DsgObject]
        BY <4>1, <3>1, <3>2 DEF TypeOK, DsgObject, DsgState
      <4>3. QED BY <2>8, <3>2, <4>1, <4>2 DEF HandleRound4, TypeOK
    <3>4. CASE ~Combines(p, s, m)
      <4>1. /\ dsg' = [dsg EXCEPT ![p].dsgState = "Complete",
                                  ![p].handle = "held"]
            /\ UNCHANGED signatures
        BY <2>8, <3>4 DEF HandleRound4
      <4>2. dsg' \in [Party -> DsgObject]
        BY <4>1, <3>1 DEF TypeOK, DsgObject, DsgState
      <4>3. QED BY <2>8, <4>1, <4>2 DEF HandleRound4, TypeOK
    <3>5. QED BY <3>3, <3>4
  <2>9. ASSUME NEW p \in Party, NEW m \in sent, HandleComplete(p, m) PROVE TypeOK'
    BY <2>9 DEF HandleComplete, TypeOK, DsgObject
  <2>10. ASSUME NEW p \in Party, GetSession(p) PROVE TypeOK'
    <3>1. [session |-> dsg[p].bytes, hash |-> dsg[p].messageHash] \in Saved
      BY <2>10 DEF GetSession, TypeOK, DsgObject, Saved
    <3>2. saved' \in [Party -> SUBSET Saved]
      BY <2>10, <3>1 DEF GetSession, TypeOK
    <3>3. QED BY <2>10, <3>2 DEF GetSession, TypeOK
  <2>11. ASSUME NEW p \in Party, SetSession(p) PROVE TypeOK'
    <3>1. PICK v \in saved[p] :
            dsg' = [dsg EXCEPT ![p] =
                     IF StateOf(v.session.round) = "InvalidState"
                     THEN [@ EXCEPT !.wasm = TRUE, !.handle = "none"]
                     ELSE Initialized(@, v.session)]
      BY <2>11 DEF SetSession
    <3>2. v.session \in Session /\ dsg[p] \in DsgObject
      BY <3>1 DEF TypeOK, Saved
    <3>3. Initialized(dsg[p], v.session) \in DsgObject
      BY <3>2, InitializedType
    <3>4. [dsg[p] EXCEPT !.wasm = TRUE, !.handle = "none"] \in DsgObject
      BY <3>2 DEF DsgObject
    <3>5. dsg' \in [Party -> DsgObject]
      BY <3>1, <3>3, <3>4 DEF TypeOK
    <3>6. QED BY <2>11, <3>5 DEF SetSession, TypeOK
  <2>12. ASSUME NEW p \in Party, EndSession(p) PROVE TypeOK'
    BY <2>12 DEF EndSession, TypeOK, DsgObject, DsgState
  <2>13. ASSUME NEW p \in Party, Restart(p) PROVE TypeOK'
    <3>1. dsg' \in [Party -> DsgObject]
      BY <2>13, NewDsgType DEF Restart, TypeOK
    <3>2. QED BY <2>13, <3>1 DEF Restart, TypeOK
  <2>14. QED
    BY <2>1, <2>3, <2>4, <2>5, <2>6, <2>7, <2>8, <2>9, <2>10, <2>11, <2>12, <2>13
       DEF Next, HandleIncomingMessages

\* Every variable of Dsg keeps its type, whatever the callers do.
THEOREM TypeCorrect == Spec => []TypeOK
<1>1. QED
  BY TypeInit, TypeStep, PTL DEF Spec

----------------------------------------------------------------------------
(* Facts about sessions and the messages behind them *)

\* More messages do not take a session's backing away.
LEMMA BackedMono ==
    ASSUME NEW S, NEW T, S \subseteq T, NEW p, NEW s, Backed(S, p, s)
    PROVE  Backed(T, p, s)
  BY DEF Backed, HasSent

\* Nor do they take away what is behind a message, or behind a signature.
LEMMA BehindMono ==
    ASSUME NEW S, NEW T, S \subseteq T, NEW m, Behind(S, m)
    PROVE  Behind(T, m)
  BY DEF Behind

LEMMA BothSharesMono ==
    ASSUME NEW S, NEW T, S \subseteq T, NEW g, BothShares(S, g)
    PROVE  BothShares(T, g)
  BY DEF BothShares

\* A refused session is backed by what backed it before.
LEMMA RefusedBacked ==
    ASSUME NEW S, NEW p \in Party, NEW s \in Session, Backed(S, p, s),
           NEW r \in Refused(s)
    PROVE  Backed(S, p, r) /\ r.sid = s.sid
  <1>1. CASE r = s
    BY <1>1
  <1>2. CASE r = [s EXCEPT !.round = "Failed"]
    BY <1>2 DEF Backed, Session, Waiting
  <1>3. QED BY <1>1, <1>2 DEF Refused

\* What accepting a message does to a session.
LEMMA AdvanceFacts ==
    ASSUME NEW S, NEW p \in Party, NEW s \in Session, NEW m \in Message,
           Backed(S, p, s), Handles(p, s, m)
    PROVE  LET t == Advance(s, m)
           IN  /\ t \in Session
               /\ t.sid = s.sid /\ t.peer = m.sid /\ t.hash = s.hash
               /\ m.from # p
               /\ \/ s.round = "WaitMsg1" /\ t.round = "WaitMsg2" /\ m.round = 1
                  \/ s.round = "WaitMsg2" /\ t.round = "WaitMsg3" /\ m.round = 2
                  \/ s.round = "WaitMsg3" /\ t.round = "Pre" /\ m.round = 3
<1>1. Advance(s, m) \in Session
  BY AdvanceType
<1>2. /\ s.round \in {"WaitMsg1", "WaitMsg2", "WaitMsg3"}
      /\ m.from # p /\ m.round = RoundNumber(s.round)
      /\ s.round # "WaitMsg1" => m.sid = s.peer
  BY DEF Handles, Accepts, Waiting
<1>3. CASE s.round = "WaitMsg1"
  <2>1. Advance(s, m) = [s EXCEPT !.round = "WaitMsg2", !.peer = m.sid]
    BY <1>3 DEF Advance
  <2>2. QED BY <1>1, <1>2, <1>3, <2>1 DEF Session, RoundNumber
<1>4. CASE s.round = "WaitMsg2"
  <2>1. Advance(s, m) = [s EXCEPT !.round = "WaitMsg3"]
    BY <1>4 DEF Advance
  <2>2. QED BY <1>1, <1>2, <1>4, <2>1 DEF Session, RoundNumber
<1>5. CASE s.round = "WaitMsg3"
  <2>1. Advance(s, m) = [s EXCEPT !.round = "Pre"]
    BY <1>5 DEF Advance
  <2>2. QED BY <1>1, <1>2, <1>5, <2>1 DEF Session, RoundNumber
<1>6. QED BY <1>2, <1>3, <1>4, <1>5

\* The message that follows an accepted one has both messages of the round
\* before behind it.
LEMMA NextMessageBehind ==
    ASSUME NEW S \in SUBSET Message, NEW p \in Party, NEW s \in Session, NEW m \in S,
           Backed(S, p, s), Handles(p, s, m),
           NEW u \in Session, u.sid = s.sid, u.peer = m.sid,
           NEW n, n = m.round + 1
    PROVE  Behind(S, MessageOf(p, u, n))
<1> DEFINE x == MessageOf(p, u, n)
           o == MessageOf(p, s, RoundNumber(s.round))
<1>1. m.round = RoundNumber(s.round) /\ m.from # p /\ s.round \in Waiting
  BY DEF Handles, Accepts
<1>2. o \in S /\ o.from = p /\ o.sid = s.sid /\ o.round = m.round
  BY <1>1 DEF Backed, MessageOf
<1>3. m.round \in 1..4
  BY DEF Message
<1>4. x.from = p /\ x.sid = s.sid /\ x.peer = m.sid /\ x.round - 1 = m.round
  BY <1>3 DEF MessageOf
<1>5. QED BY <1>1, <1>2, <1>4 DEF Behind

\* The session that accepting a message leads to is backed once its message is
\* sent: the earlier ones are those of the session before.
LEMMA NextSessionBacked ==
    ASSUME NEW S \in SUBSET Message, NEW p \in Party, NEW s \in Session, NEW m \in S,
           Backed(S, p, s), Handles(p, s, m),
           NEW u \in Session, u.sid = s.sid, u.peer = m.sid, u.round \in Waiting,
           RoundNumber(u.round) = m.round + 1, u.round = "WaitMsg4" => u.hash \in Hash
    PROVE  Backed(S \cup {MessageOf(p, u, m.round + 1)}, p, u)
<1> DEFINE x == MessageOf(p, u, m.round + 1)
           T == S \cup {x}
<1>1. /\ m.round = RoundNumber(s.round) /\ s.round \in Waiting
      /\ s.round # "WaitMsg1" => m.sid = s.peer
  BY DEF Handles, Accepts
<1>2. m.round \in 1..4 /\ m.sid \in Sid
  BY DEF Message
<1>3. ASSUME NEW n \in 1 .. m.round PROVE HasSent(T, p, u, n)
  <2>1. PICK y \in S : /\ y.from = p /\ y.sid = s.sid /\ y.round = n
                       /\ n > 1 => y.peer = s.peer
    BY <1>1 DEF Backed, HasSent
  <2>2. n > 1 => s.round # "WaitMsg1"
    BY <1>1, <1>2 DEF RoundNumber
  <2>3. QED BY <1>1, <2>1, <2>2 DEF HasSent
<1>4. HasSent(T, p, u, m.round + 1)
  <2>1. x \in T /\ x.from = p /\ x.sid = u.sid /\ x.round = m.round + 1 /\ x.peer = u.peer
    BY DEF MessageOf
  <2>2. QED BY <2>1 DEF HasSent
<1>5. \A n \in 1 .. (m.round + 1) : n \in 1 .. m.round \/ n = m.round + 1
  BY <1>2
<1>6. \A n \in 1 .. RoundNumber(u.round) : HasSent(T, p, u, n)
  BY <1>3, <1>4, <1>5
<1>7. \E y \in T : y.from = p /\ y.sid = u.sid
  BY DEF Backed
<1>8. MessageOf(p, u, RoundNumber(u.round)) \in T /\ u.peer \in Sid
  BY <1>2
<1>9. QED BY <1>6, <1>7, <1>8 DEF Backed

----------------------------------------------------------------------------
(* The inductive invariant *)

\* The session of any object, and of any exported copy, is a session whose
\* identity some message of the same party carries.
LEMMA HeldSessions ==
    ASSUME TypeOK, SessionsBacked, NEW p \in Party
    PROVE  /\ dsg[p] \in DsgObject
           /\ dsg[p].bytes # NoSession =>
                /\ dsg[p].bytes \in Session
                /\ Backed(sent, p, dsg[p].bytes)
           /\ \A v \in saved[p] : v.session \in Session /\ Backed(sent, p, v.session)
  BY DEF TypeOK, SessionsBacked, DsgObject, Saved

\* A session that is tied to a hash has sent a message.
LEMMA BoundIsSent ==
    ASSUME TypeOK, SessionsBacked, NEW i, NEW h, Binds(i, h)
    PROVE  \E m \in sent : m.sid = i
<1>1. CASE \E p \in Party : dsg[p].bytes # NoSession /\ dsg[p].bytes.sid = i
  BY <1>1, HeldSessions DEF Backed
<1>2. CASE \E p \in Party : \E v \in saved[p] : v.session.sid = i
  BY <1>2, HeldSessions DEF Backed
<1>3. CASE \E m \in sent : m.sid = i
  BY <1>3
<1>4. QED BY <1>1, <1>2, <1>3 DEF Binds

\* A step that ties no session to a new hash keeps sessions tied to one.
LEMMA HashBoundKept ==
    ASSUME HashBound, \A i \in Sid : \A h \in Hash \cup {NoHash} : Binds(i, h)' => Binds(i, h)
    PROVE  HashBound'
  BY DEF HashBound

\* A step that creates a session keeps the invariant: the identity is fresh.
LEMMA CreateKeeps ==
    ASSUME IInv, TypeOK', NEW p \in Party, CreateSession(p),
           UNCHANGED <<saved, signatures>>
    PROVE  IInv'
<1>1. PICK i \in Sid \ {m.sid : m \in sent} :
        LET s == NewWasmSession(i)
        IN  /\ dsg' = [dsg EXCEPT ![p] = Initialized(@, s)]
            /\ sent' = sent \cup {MessageOf(p, s, 1)}
  BY DEF CreateSession
<1> DEFINE s == NewWasmSession(i)
           x == MessageOf(p, s, 1)
<1>2. s \in Session /\ s.sid = i /\ s.round = "WaitMsg1"
  BY DEF NewWasmSession, Session, WasmRound
<1>3. x.from = p /\ x.sid = i /\ x.round = 1
  BY <1>2 DEF MessageOf
<1>4. /\ dsg'[p].bytes = s /\ dsg'[p].dsgState = "Round1"
      /\ dsg'[p].messageHash = dsg[p].messageHash
      /\ \A q \in Party \ {p} : dsg'[q] = dsg[q]
      /\ sent' = sent \cup {x} /\ sent \subseteq sent'
      /\ \A m \in sent : m.sid # i
  BY <1>1, <1>2 DEF Initialized, StateOf, IInv, TypeOK, DsgObject
<1>5. Backed(sent', p, s)
  BY <1>2, <1>3, <1>4 DEF Backed, HasSent, Waiting, RoundNumber
<1>6. SessionsBacked'
  BY <1>4, <1>5, BackedMono DEF IInv, SessionsBacked
<1>7. SidOwned'
  BY <1>3, <1>4 DEF IInv, SidOwned
<1>8. HashBound'
  <2>1. ASSUME NEW j \in Sid, NEW h \in Hash \cup {NoHash}, Binds(j, h)'
        PROVE  Binds(j, h) \/ (j = i /\ h = dsg[p].messageHash)
    <3>1. CASE \E q \in Party : /\ dsg'[q].bytes # NoSession
                                /\ dsg'[q].bytes.sid = j
                                /\ dsg'[q].messageHash = h
      BY <1>2, <1>4, <3>1 DEF Binds
    <3>2. CASE \E q \in Party : \E v \in saved'[q] : v.session.sid = j /\ v.hash = h
      BY <3>2 DEF Binds
    <3>3. CASE \E m \in sent' : m.round = 4 /\ m.sid = j /\ m.hash = h
      BY <1>3, <1>4, <3>3 DEF Binds
    <3>4. QED BY <2>1, <3>1, <3>2, <3>3 DEF Binds
  <2>2. ASSUME NEW h PROVE ~Binds(i, h)
    BY <1>4, BoundIsSent DEF IInv
  <2>3. QED BY <2>1, <2>2 DEF IInv, HashBound
<1>9. NoRoundSkipped'
  BY <1>3, <1>4, BehindMono DEF IInv, NoRoundSkipped
<1>10. SignatureNeedsBothShares'
  BY <1>4, BothSharesMono DEF IInv, SignatureNeedsBothShares
<1>11. StateMatchesSession'
  <2>1. s # NoSession /\ StateOf(s.round) = "Round1"
    BY <1>2, NoSessionAssumption DEF StateOf
  <2>2. QED BY <1>2, <1>4, <2>1 DEF IInv, StateMatchesSession
<1>12. QED BY <1>6, <1>7, <1>8, <1>9, <1>10, <1>11 DEF IInv

\* A step that replaces the session of one object by one with the same
\* identity, and sends at most one message of it, keeps the invariant if the
\* new session is backed, the message has its past behind it, and a final
\* share is on the hash of the object.
LEMMA ServeKeeps ==
    ASSUME IInv, TypeOK', NEW p \in Party, NEW r \in Session,
           dsg[p].bytes \in Session, r.sid = dsg[p].bytes.sid,
           sent \subseteq sent',
           dsg'[p].bytes = r, dsg'[p].messageHash = dsg[p].messageHash,
           \A q \in Party \ {p} : dsg'[q] = dsg[q],
           Backed(sent', p, r),
           \A x \in sent' \ sent : /\ x.from = p /\ x.sid = r.sid
                                   /\ Behind(sent, x)
                                   /\ x.round = 4 => x.hash = dsg[p].messageHash,
           \/ dsg'[p].dsgState \notin {"Round1", "Round2", "Round3", "Round4"}
           \/ StateOf(r.round) = dsg'[p].dsgState
           \/ r.round \in {"Pre", "Failed"},
           UNCHANGED <<saved, signatures>>
    PROVE  IInv'
<1>1. SessionsBacked'
  BY BackedMono DEF IInv, SessionsBacked
<1>2. SidOwned'
  <2>1. \E o \in sent : o.from = p /\ o.sid = r.sid
    BY HeldSessions, NoSessionAssumption DEF IInv, Backed
  <2>2. QED BY <2>1 DEF IInv, SidOwned
<1>3. HashBound'
  <2>1. Binds(r.sid, dsg[p].messageHash)
    BY NoSessionAssumption DEF Binds
  <2>2. ASSUME NEW i \in Sid, NEW h \in Hash \cup {NoHash}, Binds(i, h)' PROVE Binds(i, h)
    <3>1. CASE \E q \in Party : /\ dsg'[q].bytes # NoSession
                                /\ dsg'[q].bytes.sid = i
                                /\ dsg'[q].messageHash = h
      BY <2>1, <3>1 DEF Binds
    <3>2. CASE \E q \in Party : \E v \in saved'[q] : v.session.sid = i /\ v.hash = h
      BY <3>2 DEF Binds
    <3>3. CASE \E m \in sent' : m.round = 4 /\ m.sid = i /\ m.hash = h
      BY <2>1, <3>3 DEF Binds
    <3>4. QED BY <2>2, <3>1, <3>2, <3>3 DEF Binds
  <2>3. QED BY <2>2, HashBoundKept DEF IInv
<1>4. NoRoundSkipped'
  BY BehindMono DEF IInv, NoRoundSkipped
<1>5. SignatureNeedsBothShares'
  BY BothSharesMono DEF IInv, SignatureNeedsBothShares
<1>6. StateMatchesSession'
  BY NoSessionAssumption DEF IInv, StateMatchesSession
<1>7. QED BY <1>1, <1>2, <1>3, <1>4, <1>5, <1>6 DEF IInv

\* A step that sends and signs nothing, and after which every session held
\* anywhere was held before by the same party under the same hash, keeps the
\* invariant if the states still match.
LEMMA QuietKeeps ==
    ASSUME IInv, TypeOK', StateMatchesSession', UNCHANGED <<sent, signatures>>,
           \A q \in Party :
              \/ dsg'[q].bytes = NoSession
              \/ dsg'[q].bytes = dsg[q].bytes /\ dsg'[q].messageHash = dsg[q].messageHash
              \/ \E v \in saved[q] : dsg'[q].bytes = v.session /\ dsg'[q].messageHash = v.hash,
           \A q \in Party : \A v \in saved'[q] :
              \/ v \in saved[q]
              \/ /\ dsg[q].bytes # NoSession
                 /\ v.session = dsg[q].bytes /\ v.hash = dsg[q].messageHash
    PROVE  IInv'
<1>1. SessionsBacked'
  BY DEF IInv, SessionsBacked
<1>2. ASSUME NEW i \in Sid, NEW h \in Hash \cup {NoHash}, Binds(i, h)' PROVE Binds(i, h)
  <2>1. CASE \E q \in Party : /\ dsg'[q].bytes # NoSession
                              /\ dsg'[q].bytes.sid = i
                              /\ dsg'[q].messageHash = h
    BY <2>1 DEF Binds
  <2>2. CASE \E q \in Party : \E v \in saved'[q] : v.session.sid = i /\ v.hash = h
    BY <2>2 DEF Binds
  <2>3. CASE \E m \in sent' : m.round = 4 /\ m.sid = i /\ m.hash = h
    BY <2>3 DEF Binds
  <2>4. QED BY <1>2, <2>1, <2>2, <2>3 DEF Binds
<1>3. HashBound'
  BY <1>2, HashBoundKept DEF IInv
<1>4. SidOwned' /\ NoRoundSkipped' /\ SignatureNeedsBothShares'
  BY DEF IInv, SidOwned, NoRoundSkipped, SignatureNeedsBothShares
<1>5. QED BY <1>1, <1>3, <1>4 DEF IInv

\* handleIncomingMessages before Round3 keeps the invariant.
LEMMA RoundKeeps ==
    ASSUME IInv, TypeOK', NEW p \in Party, NEW m \in sent, HandleRound(p, m)
    PROVE  IInv'
<1> DEFINE s == dsg[p].bytes
           t == Advance(s, m)
           x == MessageOf(p, t, RoundNumber(t.round))
<1>1. /\ s \in Session /\ Backed(sent, p, s) /\ dsg[p] \in DsgObject
      /\ m \in Message /\ sent \in SUBSET Message
      /\ dsg[p].dsgState \notin {"Round3", "Round4"}
  BY HeldSessions DEF HandleRound, Deliverable, IInv, TypeOK
<1>2. CASE Handles(p, s, m)
  <2>1. /\ t \in Session /\ t.sid = s.sid /\ t.peer = m.sid /\ t.hash = s.hash
        /\ \/ t.round = "WaitMsg2" /\ m.round = 1
           \/ t.round = "WaitMsg3" /\ m.round = 2
           \/ t.round = "Pre" /\ m.round = 3
    BY <1>1, <1>2, AdvanceFacts
  <2>2. /\ dsg'[p].bytes = t /\ dsg'[p].dsgState = StateOf(t.round)
        /\ dsg'[p].messageHash = dsg[p].messageHash
        /\ \A q \in Party \ {p} : dsg'[q] = dsg[q]
        /\ UNCHANGED <<saved, signatures>>
    BY <1>1, <1>2 DEF HandleRound, IInv, TypeOK, DsgObject
  <2>3. CASE t.round = "Pre"
    <3>1. StateOf(t.round) = "InvalidState"
      BY <2>3 DEF StateOf
    <3>2. sent' = sent
      BY <1>2, <3>1 DEF HandleRound
    <3>3. Backed(sent', p, t)
      BY <1>1, <2>1, <2>3, <3>2 DEF Backed, Waiting
    <3>4. QED BY <1>1, <2>1, <2>2, <2>3, <3>2, <3>3, ServeKeeps
  <2>4. CASE t.round \in {"WaitMsg2", "WaitMsg3"}
    <3>1. StateOf(t.round) # "InvalidState" /\ t.round \in Waiting
      BY <2>4 DEF StateOf, Waiting
    <3>2. sent' = sent \cup {x}
      BY <1>2, <3>1 DEF HandleRound
    <3>3. RoundNumber(t.round) = m.round + 1 /\ RoundNumber(t.round) \in {2, 3}
      BY <2>1, <2>4 DEF RoundNumber
    <3>4. Behind(sent, x)
      BY <1>1, <1>2, <2>1, <3>3, NextMessageBehind
    <3>5. x.from = p /\ x.sid = t.sid
      BY DEF MessageOf
    <3>7. x.round = 4 => x.hash = dsg[p].messageHash
      BY <3>3 DEF MessageOf
    <3>6. Backed(sent', p, t)
      <4>1. t.round # "WaitMsg4"
        BY <2>4
      <4> HIDE DEF s, t
      <4>2. QED BY <1>1, <1>2, <2>1, <3>1, <3>2, <3>3, <4>1, NextSessionBacked
    <3>10. /\ t \in Session /\ s \in Session /\ t.sid = s.sid
           /\ dsg'[p].bytes = t /\ dsg'[p].messageHash = dsg[p].messageHash
           /\ \A q \in Party \ {p} : dsg'[q] = dsg[q]
           /\ UNCHANGED <<saved, signatures>>
      BY <1>1, <2>1, <2>2
    <3>8. \A y \in sent' \ sent :
            /\ y.from = p /\ y.sid = t.sid /\ Behind(sent, y)
            /\ y.round = 4 => y.hash = dsg[p].messageHash
      <4> HIDE DEF x, t
      <4>1. QED BY <3>2, <3>4, <3>5, <3>7
    <3>9. sent \subseteq sent'
      BY <3>2
    <3> HIDE DEF x, t
    <3>11. QED BY <1>1, <2>2, <3>6, <3>8, <3>9, <3>10, ServeKeeps
  <2>5. QED BY <2>1, <2>3, <2>4
<1>3. CASE ~Handles(p, s, m)
  <2>1. PICK r \in Refused(s) : dsg' = [dsg EXCEPT ![p].bytes = r]
    BY <1>3 DEF HandleRound
  <2>2. /\ r \in Session /\ Backed(sent, p, r) /\ r.sid = s.sid
        /\ r = s \/ r.round = "Failed"
    BY <1>1, RefusedType, RefusedBacked DEF Refused, Session
  <2>3. /\ dsg'[p].bytes = r /\ dsg'[p].dsgState = dsg[p].dsgState
        /\ dsg'[p].messageHash = dsg[p].messageHash
        /\ \A q \in Party \ {p} : dsg'[q] = dsg[q]
        /\ UNCHANGED <<saved, signatures>> /\ sent' = sent
    BY <1>1, <1>3, <2>1 DEF HandleRound, IInv, TypeOK, DsgObject
  <2>4. \/ dsg'[p].dsgState \notin {"Round1", "Round2", "Round3", "Round4"}
        \/ StateOf(r.round) = dsg'[p].dsgState
        \/ r.round \in {"Pre", "Failed"}
    BY <2>2, <2>3 DEF IInv, StateMatchesSession
  <2>5. QED BY <1>1, <2>2, <2>3, <2>4, ServeKeeps
<1>4. QED BY <1>2, <1>3

\* handleIncomingMessages in Round3 keeps the invariant.
LEMMA Round3Keeps ==
    ASSUME IInv, TypeOK', NEW p \in Party, NEW m \in sent, HandleRound3(p, m)
    PROVE  IInv'
<1> DEFINE s == dsg[p].bytes
           t == Advance(s, m)
           u == [t EXCEPT !.round = "WaitMsg4", !.hash = dsg[p].messageHash]
           x == MessageOf(p, u, 4)
<1>1. /\ s \in Session /\ Backed(sent, p, s) /\ dsg[p] \in DsgObject
      /\ m \in Message /\ sent \in SUBSET Message
      /\ dsg[p].dsgState = "Round3"
      /\ UNCHANGED <<saved, signatures>>
  BY HeldSessions DEF HandleRound3, Deliverable, IInv, TypeOK
<1>2. StateOf(s.round) = "Round3" \/ s.round \in {"Pre", "Failed"}
  BY <1>1 DEF IInv, StateMatchesSession
<1>3. Handles(p, s, m) => /\ t \in Session /\ t.sid = s.sid /\ t.peer = m.sid
                          /\ t.round = "Pre" /\ m.round = 3 /\ m.sid \in Sid
  <2>1. Handles(p, s, m) => s.round = "WaitMsg3"
    BY <1>2 DEF Handles, Accepts, Waiting, StateOf
  <2>2. QED BY <1>1, <2>1, AdvanceFacts DEF Message
<1>4. ASSUME NEW r \in Session, r.sid = s.sid, Backed(sent, p, r),
             dsg' = [dsg EXCEPT ![p].bytes = r], UNCHANGED sent,
             StateOf(r.round) = "Round3" \/ r.round \in {"Pre", "Failed"}
      PROVE  IInv'
  <2>1. /\ dsg'[p].bytes = r /\ dsg'[p].dsgState = "Round3"
        /\ dsg'[p].messageHash = dsg[p].messageHash
        /\ \A q \in Party \ {p} : dsg'[q] = dsg[q]
        /\ sent' = sent
    BY <1>1, <1>4 DEF IInv, TypeOK, DsgObject
  <2>2. QED BY <1>1, <1>4, <2>1, ServeKeeps
<1>5. CASE Handles(p, s, m) /\ dsg[p].messageHash \in Digest32
  <2>1. /\ dsg' = [dsg EXCEPT ![p].bytes = u, ![p].dsgState = "Round4"]
        /\ sent' = sent \cup {x}
    BY <1>5 DEF HandleRound3
  <2>2. /\ u \in Session /\ u.sid = s.sid /\ u.peer = m.sid /\ u.round = "WaitMsg4"
        /\ u.hash = dsg[p].messageHash /\ u.hash \in Hash
    BY <1>1, <1>3, <1>5 DEF Session, WasmRound, DsgObject
  <2>3. x.from = p /\ x.sid = u.sid /\ x.hash = u.hash
    BY DEF MessageOf
  <2>4. Behind(sent, x)
    <3> HIDE DEF s, t, u
    <3>1. 4 = m.round + 1
      BY <1>3, <1>5
    <3>2. QED BY <1>1, <1>3, <1>5, <2>2, <3>1, NextMessageBehind
  <2>5. Backed(sent', p, u)
    <3> HIDE DEF s, t, u
    <3>1. u.round \in Waiting /\ RoundNumber(u.round) = m.round + 1 /\ m.round + 1 = 4
      BY <1>3, <1>5, <2>2 DEF Waiting, RoundNumber
    <3>2. QED BY <1>1, <1>5, <2>1, <2>2, <3>1, NextSessionBacked
  <2>6. /\ dsg'[p].bytes = u /\ dsg'[p].dsgState = "Round4"
        /\ dsg'[p].messageHash = dsg[p].messageHash
        /\ \A q \in Party \ {p} : dsg'[q] = dsg[q]
    BY <1>1, <2>1 DEF IInv, TypeOK, DsgObject
  <2>7. StateOf(u.round) = "Round4"
    BY <2>2 DEF StateOf
  <2>8. QED BY <1>1, <2>1, <2>2, <2>3, <2>4, <2>5, <2>6, <2>7, ServeKeeps
<1>6. CASE Handles(p, s, m) /\ dsg[p].messageHash \notin Digest32
  <2>1. PICK r \in Refused(t) : dsg' = [dsg EXCEPT ![p].bytes = r] /\ UNCHANGED sent
    BY <1>6 DEF HandleRound3
  <2>2. Backed(sent, p, t)
    BY <1>1, <1>3, <1>6 DEF Backed, Waiting
  <2>3. /\ r \in Session /\ Backed(sent, p, r) /\ r.sid = s.sid
        /\ r.round \in {"Pre", "Failed"}
    BY <1>3, <1>6, <2>2, RefusedType, RefusedBacked DEF Refused, Session
  <2>4. QED BY <1>4, <2>1, <2>3
<1>7. CASE ~Handles(p, s, m)
  <2>1. PICK r \in Refused(s) : dsg' = [dsg EXCEPT ![p].bytes = r] /\ UNCHANGED sent
    BY <1>7 DEF HandleRound3
  <2>2. /\ r \in Session /\ Backed(sent, p, r) /\ r.sid = s.sid
        /\ r = s \/ r.round = "Failed"
    BY <1>1, RefusedType, RefusedBacked DEF Refused, Session
  <2>3. QED BY <1>2, <1>4, <2>1, <2>2
<1>8. QED BY <1>5, <1>6, <1>7

\* handleIncomingMessages in Round4 keeps the invariant: combine() accepts
\* only the share that matches the session's own.
LEMMA Round4Keeps ==
    ASSUME IInv, TypeOK', NEW p \in Party, NEW m \in sent, HandleRound4(p, m)
    PROVE  IInv'
<1> DEFINE s == dsg[p].bytes
           g == [sid |-> s.sid, peer |-> s.peer, hash |-> s.hash]
           x == MessageOf(p, s, 4)
<1>1. /\ s \in Session /\ Backed(sent, p, s) /\ dsg[p] \in DsgObject
      /\ sent' = sent /\ saved' = saved
      /\ dsg'[p].bytes = s /\ dsg'[p].dsgState = "Complete"
      /\ dsg'[p].messageHash = dsg[p].messageHash
      /\ \A q \in Party \ {p} : dsg'[q] = dsg[q]
  <2>1. s \in Session /\ Backed(sent, p, s) /\ dsg[p] \in DsgObject
    BY HeldSessions DEF HandleRound4, Deliverable, IInv
  <2>2. CASE Combines(p, s, m)
    BY <2>1, <2>2 DEF HandleRound4, IInv, TypeOK, DsgObject
  <2>3. CASE ~Combines(p, s, m)
    BY <2>1, <2>3 DEF HandleRound4, IInv, TypeOK, DsgObject
  <2>4. QED BY <2>2, <2>3
<1>2. SessionsBacked' /\ SidOwned' /\ NoRoundSkipped'
  BY <1>1 DEF IInv, SessionsBacked, SidOwned, NoRoundSkipped
<1>3. ASSUME NEW i \in Sid, NEW h \in Hash \cup {NoHash}, Binds(i, h)' PROVE Binds(i, h)
  <2>1. CASE \E q \in Party : /\ dsg'[q].bytes # NoSession
                              /\ dsg'[q].bytes.sid = i
                              /\ dsg'[q].messageHash = h
    BY <1>1, <2>1 DEF Binds
  <2>2. CASE \E q \in Party : \E v \in saved'[q] : v.session.sid = i /\ v.hash = h
    BY <1>1, <2>2 DEF Binds
  <2>3. CASE \E n \in sent' : n.round = 4 /\ n.sid = i /\ n.hash = h
    BY <1>1, <2>3 DEF Binds
  <2>4. QED BY <1>3, <2>1, <2>2, <2>3 DEF Binds
<1>4. HashBound'
  BY <1>3, HashBoundKept DEF IInv
<1>5. StateMatchesSession'
  BY <1>1 DEF IInv, StateMatchesSession
<1>6. SignatureNeedsBothShares'
  <2>1. CASE ~Combines(p, s, m)
    BY <1>1, <2>1 DEF HandleRound4, IInv, SignatureNeedsBothShares
  <2>2. CASE Combines(p, s, m)
    <3>1. /\ s.round = "WaitMsg4" /\ m.from # p /\ m.round = 4
          /\ m.sid = s.peer /\ m.peer = s.sid /\ m.hash = s.hash
      BY <2>2 DEF Combines, Accepts, RoundNumber
    <3>2. x \in sent
      BY <1>1, <3>1 DEF Backed, Waiting, RoundNumber
    <3>3. /\ x.from = p /\ x.round = 4
          /\ x.sid = s.sid /\ x.peer = s.peer /\ x.hash = s.hash
      BY DEF MessageOf
    <3>4. BothShares(sent, g)
      BY <3>1, <3>2, <3>3 DEF BothShares
    <3>5. signatures' = signatures \cup {g}
      BY <2>2 DEF HandleRound4
    <3>6. QED BY <1>1, <3>4, <3>5 DEF IInv, SignatureNeedsBothShares
  <2>3. QED BY <2>1, <2>2
<1>7. QED BY <1>2, <1>4, <1>5, <1>6 DEF IInv

\* setSession keeps the invariant: the imported copy is bound to the hash of
\* the object it goes into.
LEMMA SetSessionKeeps ==
    ASSUME IInv, TypeOK', NEW p \in Party, SetSession(p)
    PROVE  IInv'
<1>1. PICK v \in saved[p] :
        /\ v.hash = dsg[p].messageHash
        /\ dsg' = [dsg EXCEPT ![p] =
                     IF StateOf(v.session.round) = "InvalidState"
                     THEN [@ EXCEPT !.wasm = TRUE, !.handle = "none"]
                     ELSE Initialized(@, v.session)]
  BY DEF SetSession
<1>2. v.session \in Session /\ dsg[p] \in DsgObject
  BY <1>1 DEF IInv, TypeOK, Saved
<1>3. UNCHANGED <<loading, saved, sent, signatures>>
  BY DEF SetSession
<1>4. \A q \in Party \ {p} : dsg'[q] = dsg[q]
  BY <1>1 DEF IInv, TypeOK
<1>5. CASE StateOf(v.session.round) = "InvalidState"
  <2>1. /\ dsg'[p].bytes = dsg[p].bytes /\ dsg'[p].dsgState = dsg[p].dsgState
        /\ dsg'[p].messageHash = dsg[p].messageHash
    BY <1>1, <1>2, <1>5 DEF IInv, TypeOK, DsgObject
  <2>2. StateMatchesSession'
    BY <1>4, <2>1 DEF IInv, StateMatchesSession
  <2>3. QED BY <1>3, <1>4, <2>1, <2>2, QuietKeeps
<1>6. CASE StateOf(v.session.round) # "InvalidState"
  <2>1. /\ dsg'[p].bytes = v.session
        /\ dsg'[p].dsgState = StateOf(v.session.round)
        /\ dsg'[p].messageHash = dsg[p].messageHash
    BY <1>1, <1>2, <1>6 DEF Initialized, IInv, TypeOK, DsgObject
  <2>2. StateMatchesSession'
    BY <1>2, <1>4, <2>1, NoSessionAssumption DEF IInv, StateMatchesSession
  <2>3. QED BY <1>1, <1>3, <1>4, <2>1, <2>2, QuietKeeps
<1>7. QED BY <1>5, <1>6

\* getSession, endSession, a restart and the calls that change no session
\* keep the invariant.
LEMMA OthersKeep ==
    ASSUME IInv, TypeOK', NEW p \in Party,
           \/ InitBegin(p) \/ GetSession(p) \/ EndSession(p) \/ Restart(p)
           \/ \E m \in sent : HandleComplete(p, m)
    PROVE  IInv'
<1>1. CASE InitBegin(p)
  <2>1. UNCHANGED <<dsg, saved, sent, signatures>>
    BY <1>1 DEF InitBegin
  <2>2. StateMatchesSession'
    BY <2>1 DEF IInv, StateMatchesSession
  <2>3. QED BY <2>1, <2>2, QuietKeeps
<1>2. CASE GetSession(p)
  <2>1. /\ UNCHANGED <<dsg, sent, signatures>> /\ dsg[p].bytes # NoSession
        /\ saved' = [saved EXCEPT ![p] =
              @ \cup {[session |-> dsg[p].bytes, hash |-> dsg[p].messageHash]}]
    BY <1>2 DEF GetSession
  <2>2. StateMatchesSession'
    BY <2>1 DEF IInv, StateMatchesSession
  <2>3. \A q \in Party : \A v \in saved'[q] :
           \/ v \in saved[q]
           \/ /\ dsg[q].bytes # NoSession
              /\ v.session = dsg[q].bytes /\ v.hash = dsg[q].messageHash
    BY <2>1 DEF IInv, TypeOK
  <2>4. QED BY <2>1, <2>2, <2>3, QuietKeeps
<1>3. CASE EndSession(p)
  <2>1. /\ UNCHANGED <<saved, sent, signatures>>
        /\ dsg' = [dsg EXCEPT ![p].dsgState = "Uninitialized"]
    BY <1>3 DEF EndSession
  <2>2. \A q \in Party : /\ dsg'[q].bytes = dsg[q].bytes
                         /\ dsg'[q].messageHash = dsg[q].messageHash
                         /\ \/ dsg'[q].dsgState = dsg[q].dsgState
                            \/ dsg'[q].dsgState = "Uninitialized"
    BY <2>1 DEF IInv, TypeOK, DsgObject
  <2>3. StateMatchesSession'
    BY <2>2 DEF IInv, StateMatchesSession
  <2>4. QED BY <2>1, <2>2, <2>3, QuietKeeps
<1>4. CASE Restart(p)
  <2>1. PICK h \in Hash, w \in BOOLEAN : dsg' = [dsg EXCEPT ![p] = NewDsg(h, w)]
    BY <1>4 DEF Restart
  <2>2. /\ UNCHANGED <<saved, sent, signatures>>
        /\ dsg'[p].bytes = NoSession /\ dsg'[p].dsgState = "Uninitialized"
        /\ \A q \in Party \ {p} : dsg'[q] = dsg[q]
    BY <1>4, <2>1 DEF Restart, NewDsg, IInv, TypeOK
  <2>3. StateMatchesSession'
    BY <2>2 DEF IInv, StateMatchesSession
  <2>4. QED BY <2>2, <2>3, QuietKeeps
<1>5. ASSUME NEW m \in sent, HandleComplete(p, m) PROVE IInv'
  <2>1. /\ UNCHANGED <<saved, sent, signatures>>
        /\ dsg' = [dsg EXCEPT ![p].handle = "held"]
    BY <1>5 DEF HandleComplete
  <2>2. \A q \in Party : /\ dsg'[q].bytes = dsg[q].bytes
                         /\ dsg'[q].messageHash = dsg[q].messageHash
                         /\ dsg'[q].dsgState = dsg[q].dsgState
    BY <2>1 DEF IInv, TypeOK, DsgObject
  <2>3. StateMatchesSession'
    BY <2>2 DEF IInv, StateMatchesSession
  <2>4. QED BY <2>1, <2>2, <2>3, QuietKeeps
<1>6. QED BY <1>1, <1>2, <1>3, <1>4, <1>5

\* The invariant holds at the start.
LEMMA InvInit == Init => IInv
<1> SUFFICES ASSUME Init PROVE IInv
  OBVIOUS
<1>1. \A p \in Party : dsg[p].bytes = NoSession /\ dsg[p].dsgState = "Uninitialized"
  BY DEF Init, NewDsg
<1>2. StateMatchesSession
  BY <1>1 DEF StateMatchesSession
<1>3. SessionsBacked /\ HashBound
  BY <1>1 DEF Init, SessionsBacked, HashBound, Binds
<1>4. SidOwned /\ NoRoundSkipped /\ SignatureNeedsBothShares
  BY DEF Init, SidOwned, NoRoundSkipped, SignatureNeedsBothShares
<1>5. QED BY <1>2, <1>3, <1>4, TypeInit DEF IInv

\* Every step keeps the invariant.
LEMMA InvStep == IInv /\ [Next]_vars => IInv'
<1> SUFFICES ASSUME IInv, [Next]_vars PROVE IInv'
  OBVIOUS
<1>1. TypeOK'
  BY TypeStep DEF IInv
<1>2. CASE UNCHANGED vars
  <2>1. UNCHANGED <<dsg, saved, sent, signatures>>
    BY <1>2 DEF vars
  <2>2. StateMatchesSession'
    BY <2>1 DEF IInv, StateMatchesSession
  <2>3. QED BY <1>1, <2>1, <2>2, QuietKeeps
<1>3. ASSUME NEW p \in Party, InitNow(p) \/ InitFinish(p) PROVE IInv'
  BY <1>1, <1>3, CreateKeeps DEF InitNow, InitFinish
<1>4. ASSUME NEW p \in Party, NEW m \in sent, HandleIncomingMessages(p, m) PROVE IInv'
  BY <1>1, <1>4, RoundKeeps, Round3Keeps, Round4Keeps, OthersKeep
     DEF HandleIncomingMessages
<1>5. ASSUME NEW p \in Party, SetSession(p) PROVE IInv'
  BY <1>1, <1>5, SetSessionKeeps
<1>6. ASSUME NEW p \in Party, InitBegin(p) \/ GetSession(p) \/ EndSession(p) \/ Restart(p)
      PROVE  IInv'
  BY <1>1, <1>6, OthersKeep
<1>7. QED BY <1>2, <1>3, <1>4, <1>5, <1>6 DEF Next

\* IInv is an invariant of the specification.
THEOREM Invariance == Spec => []IInv
  BY InvInit, InvStep, PTL DEF Spec

\* The state field of every object agrees with the serialized session.
THEOREM StateAgrees == Spec => []StateMatchesSession
<1>1. IInv => StateMatchesSession
  BY DEF IInv
<1>2. QED BY <1>1, Invariance, PTL

\* One signing session releases its final share on one message hash only.
THEOREM OneHash == Spec => []OneHashPerSession
<1>1. IInv => OneHashPerSession
  <2> SUFFICES ASSUME IInv, NEW m \in sent, NEW n \in sent,
                      m.round = 4, n.round = 4, m.sid = n.sid
               PROVE  m.hash = n.hash
    BY DEF OneHashPerSession
  <2>1. m.sid \in Sid /\ m.hash \in Hash \cup {NoHash} /\ n.hash \in Hash \cup {NoHash}
    BY DEF IInv, TypeOK, Message
  <2>2. Binds(m.sid, m.hash) /\ Binds(m.sid, n.hash)
    BY DEF Binds
  <2>3. QED BY <2>1, <2>2 DEF IInv, HashBound
<1>2. QED BY <1>1, Invariance, PTL

\* No party gets ahead of the round its messages are of.
THEOREM RoundsInOrder == Spec => []NoRoundSkipped
<1>1. IInv => NoRoundSkipped
  BY DEF IInv
<1>2. QED BY <1>1, Invariance, PTL

\* A signature takes the final shares of both parties on the signed hash.
THEOREM SignatureSound == Spec => []SignatureNeedsBothShares
<1>1. IInv => SignatureNeedsBothShares
  BY DEF IInv
<1>2. QED BY <1>1, Invariance, PTL

\* The digest that a session waiting for the last message has signed is that of
\* the object that holds it.
LEMMA OwnDigest ==
    ASSUME IInv, NEW p \in Party, dsg[p].bytes # NoSession,
           dsg[p].bytes.round = "WaitMsg4"
    PROVE  dsg[p].bytes.hash = dsg[p].messageHash
<1> DEFINE s == dsg[p].bytes
           m == MessageOf(p, s, 4)
<1>1. s \in Session /\ Backed(sent, p, s) /\ dsg[p].messageHash \in Hash
  BY HeldSessions DEF IInv, DsgObject
<1>2. m \in sent /\ s.hash \in Hash
  BY <1>1 DEF Backed, Waiting, RoundNumber
<1>3. m.round = 4 /\ m.sid = s.sid /\ m.hash = s.hash
  BY DEF MessageOf
<1>4. Binds(s.sid, dsg[p].messageHash)
  BY DEF Binds
<1>5. Binds(s.sid, s.hash)
  BY <1>2, <1>3 DEF Binds
<1>6. s.sid \in Sid
  BY <1>1 DEF Session
<1>7. QED BY <1>1, <1>2, <1>4, <1>5, <1>6 DEF IInv, HashBound

\* Of two objects whose sessions belong together the one that is not ahead can
\* be handed the message that it waits for, whatever the callers did before.
THEOREM SomeoneGoesOn == Spec => []NobodyWaitsInVain
<1>1. ASSUME IInv, NEW p \in Party, NEW q \in Party, p # q, InStep(p, q)
      PROVE  \E m \in sent :
               /\ m.sid = dsg[q].bytes.sid
               /\ Accepts(p, dsg[p].bytes, m)
               /\ dsg[p].dsgState = "Round4" /\ dsg[p].messageHash = dsg[q].messageHash
                      => Combines(p, dsg[p].bytes, m)
  <2> DEFINE s == dsg[p].bytes
             t == dsg[q].bytes
             n == RoundNumber(s.round)
  <2>1. s # NoSession /\ t # NoSession
    BY <1>1 DEF InStep, Waits, IInv, StateMatchesSession
  <2>2. s \in Session /\ Backed(sent, p, s) /\ t \in Session /\ Backed(sent, q, t)
    BY <1>1, <2>1, HeldSessions DEF IInv
  <2>3. s.round \in Waiting /\ t.round \in Waiting
    <3>1. \A r \in Party : Waits(r) => StateOf(dsg[r].bytes.round) # "InvalidState"
      BY DEF Waits
    <3>2. QED BY <1>1, <2>2, <3>1, StateOfType DEF InStep, Session
  <2>4. n \in 1 .. RoundNumber(t.round) /\ n \in 1..4 /\ RoundNumber(t.round) \in 1..4
    BY <1>1, <2>3 DEF InStep, Waiting, RoundNumber
  <2>5. s.round # "WaitMsg1" =>
            n > 1 /\ t.round # "WaitMsg1" /\ s.peer = t.sid /\ t.peer = s.sid
    <3>1. s.round # "WaitMsg1" => n > 1 /\ t.round # "WaitMsg1"
      BY <2>3, <2>4 DEF Waiting, RoundNumber
    <3>2. /\ s.round # "WaitMsg1" => s.peer \in Sid
          /\ t.round # "WaitMsg1" => t.peer \in Sid
      BY <2>2, <2>3 DEF Backed
    <3>3. s.peer \in {NoSid, t.sid} /\ t.peer \in {NoSid, s.sid}
      BY <1>1 DEF InStep
    <3>4. QED BY <3>1, <3>2, <3>3, ConstantsAssumption
  <2>6. CASE s.round # "WaitMsg4"
    <3>1. PICK m \in sent : /\ m.from = q /\ m.sid = t.sid /\ m.round = n
                            /\ n > 1 => m.peer = t.peer
      BY <2>2, <2>3, <2>4 DEF Backed, HasSent
    <3>2. Accepts(p, s, m)
      BY <1>1, <2>3, <2>5, <3>1 DEF Accepts
    <3>3. dsg[p].dsgState # "Round4"
      <4>1. dsg[p].dsgState = StateOf(s.round)
        BY <1>1 DEF InStep, Waits
      <4>2. QED BY <2>3, <2>6, <4>1 DEF StateOf, Waiting
    <3>4. QED BY <3>1, <3>2, <3>3
  <2>7. CASE s.round = "WaitMsg4"
    <3> DEFINE m == MessageOf(q, t, 4)
    <3>1. t.round = "WaitMsg4"
      BY <2>3, <2>4, <2>7 DEF Waiting, RoundNumber
    <3>2. m \in sent
      BY <2>2, <3>1 DEF Backed, Waiting, RoundNumber
    <3>3. m.from = q /\ m.sid = t.sid /\ m.peer = t.peer /\ m.round = 4 /\ m.hash = t.hash
      BY DEF MessageOf
    <3>4. Accepts(p, s, m)
      BY <1>1, <2>3, <2>5, <2>7, <3>3 DEF Accepts, RoundNumber
    <3>5. s.hash = dsg[p].messageHash /\ t.hash = dsg[q].messageHash
      BY <1>1, <2>1, <2>7, <3>1, OwnDigest
    <3>6. dsg[p].messageHash = dsg[q].messageHash => Combines(p, s, m)
      BY <2>7, <3>3, <3>4, <3>5 DEF Combines
    <3>7. QED BY <3>2, <3>3, <3>4, <3>6
  <2>8. QED BY <2>6, <2>7
<1>2. IInv => NobodyWaitsInVain
  BY <1>1 DEF NobodyWaitsInVain
<1>3. QED BY <1>2, Invariance, PTL

----------------------------------------------------------------------------
(* Refinement *)

\* A step that sends no message of round 4 and signs nothing is a stutter.
LEMMA NoShareStutters ==
    ASSUME sent \subseteq sent', \A m \in sent' \ sent : m.round # 4, UNCHANGED signatures
    PROVE  FinalShares' = FinalShares
  BY DEF FinalShares

\* Round3 releases the final share of the session.
LEMMA Round3Refines ==
    ASSUME IInv, IInv', NEW p \in Party, NEW m \in sent, HandleRound3(p, m)
    PROVE  Agreement!Next \/ UNCHANGED <<FinalShares, signatures>>
<1> DEFINE s == dsg[p].bytes
           t == Advance(s, m)
           u == [t EXCEPT !.round = "WaitMsg4", !.hash = dsg[p].messageHash]
           x == MessageOf(p, u, 4)
           r == [from |-> x.from, sid |-> x.sid, peer |-> x.peer, hash |-> x.hash]
<1>1. signatures' = signatures
  BY DEF HandleRound3
<1>2. CASE UNCHANGED sent
  BY <1>1, <1>2, NoShareStutters
<1>3. CASE sent' # sent
  <2>1. /\ Handles(p, s, m) /\ dsg[p].messageHash \in Digest32
        /\ sent' = sent \cup {x}
    BY <1>3 DEF HandleRound3
  <2>2. /\ s \in Session /\ Backed(sent, p, s) /\ m \in Message
    BY HeldSessions DEF HandleRound3, Deliverable, IInv, TypeOK
  <2>3. t \in Session /\ t.sid = s.sid /\ t.peer = m.sid
    BY <2>1, <2>2, AdvanceFacts
  <2>4. u \in Session /\ u.sid \in Sid /\ u.peer \in Sid /\ u.hash \in Hash
    BY <2>1, <2>2, <2>3, ConstantsAssumption DEF Session, WasmRound, Message
  <2>5. /\ x.from = p /\ x.round = 4 /\ x.sid = u.sid /\ x.peer = u.peer
        /\ x.hash = u.hash
    BY DEF MessageOf
  <2> HIDE DEF u, x
  <2>6. r \in Agreement!Share
    BY <2>4, <2>5 DEF Agreement!Share
  <2>7. FinalShares' = FinalShares \cup {r}
    BY <2>1, <2>5 DEF FinalShares
  <2>8. \A y \in FinalShares : y.sid = r.sid => y.hash = r.hash /\ y.from = r.from
    <3> SUFFICES ASSUME NEW y \in FinalShares, y.sid = r.sid
                 PROVE  y.hash = r.hash /\ y.from = r.from
      OBVIOUS
    <3>1. PICK n \in sent : /\ n.round = 4 /\ y.sid = n.sid
                            /\ y.hash = n.hash /\ y.from = n.from
      BY DEF FinalShares
    <3>2. PICK z : z = x
      OBVIOUS
    <3>3. n \in sent' /\ z \in sent' /\ n.sid = z.sid /\ z.round = 4
      BY <2>1, <2>5, <3>1, <3>2
    <3>4. n.from = z.from
      BY <3>3 DEF IInv, SidOwned
    <3>5. Binds(z.sid, z.hash)' /\ Binds(z.sid, n.hash)'
      BY <3>1, <3>3 DEF Binds
    <3>6. n.hash = z.hash
      <4>1. /\ z.sid \in Sid /\ z.hash \in Hash \cup {NoHash}
            /\ n.hash \in Hash \cup {NoHash}
        BY <3>3 DEF IInv, TypeOK, Message
      <4>2. QED BY <3>5, <4>1 DEF IInv, HashBound
    <3>7. QED BY <3>1, <3>2, <3>4, <3>6
  <2>9. Agreement!Release(r)
    BY <1>1, <2>7, <2>8 DEF Agreement!Release
  <2>10. QED BY <2>6, <2>9 DEF Agreement!Next
<1>4. QED BY <1>2, <1>3

\* A successful combine() produces a signature of the agreement.
LEMMA Round4Refines ==
    ASSUME IInv, IInv', NEW p \in Party, NEW m \in sent, HandleRound4(p, m)
    PROVE  Agreement!Next \/ UNCHANGED <<FinalShares, signatures>>
<1> DEFINE s == dsg[p].bytes
           g == [sid |-> s.sid, peer |-> s.peer, hash |-> s.hash]
<1>1. FinalShares' = FinalShares
  BY DEF HandleRound4, FinalShares
<1>2. CASE ~Combines(p, s, m)
  BY <1>1, <1>2 DEF HandleRound4
<1>3. CASE Combines(p, s, m)
  <2>1. signatures' = signatures \cup {g} /\ sent' = sent
    BY <1>3 DEF HandleRound4
  <2>2. BothShares(sent, g)
    BY <2>1 DEF IInv, SignatureNeedsBothShares
  <2>3. PICK a, b \in sent :
          /\ a.round = 4 /\ b.round = 4 /\ a.from # b.from
          /\ a.sid = g.sid /\ a.peer = g.peer
          /\ b.sid = g.peer /\ b.peer = g.sid
          /\ a.hash = g.hash /\ b.hash = g.hash
    BY <2>2 DEF BothShares
  <2> DEFINE sa == [from |-> a.from, sid |-> a.sid, peer |-> a.peer, hash |-> a.hash]
             sb == [from |-> b.from, sid |-> b.sid, peer |-> b.peer, hash |-> b.hash]
  <2>4. sa \in FinalShares /\ sb \in FinalShares
    BY <2>3 DEF FinalShares
  <2>5. g \in Agreement!Sig
    <3>1. /\ s \in Session /\ Backed(sent, p, s) /\ s.round = "WaitMsg4"
      BY <1>3, HeldSessions DEF HandleRound4, Deliverable, IInv, Combines
    <3>2. s.sid \in Sid /\ s.peer \in Sid /\ s.hash \in Hash
      BY <3>1 DEF Backed, Waiting, Session
    <3>3. QED BY <3>2 DEF Agreement!Sig
  <2>6. Agreement!Produce(g)
    BY <1>1, <2>1, <2>3, <2>4 DEF Agreement!Produce
  <2>7. QED BY <2>5, <2>6 DEF Agreement!Next
<1>4. QED BY <1>2, <1>3

\* Every step of the objects is a step of the agreement or a stutter.
LEMMA StepRefines ==
    IInv /\ IInv' /\ [Next]_vars => [Agreement!Next]_<<FinalShares, signatures>>
<1> SUFFICES ASSUME IInv, IInv', [Next]_vars
             PROVE  Agreement!Next \/ UNCHANGED <<FinalShares, signatures>>
  OBVIOUS
<1>1. CASE UNCHANGED vars
  BY <1>1 DEF vars, FinalShares
<1>2. ASSUME NEW p \in Party, CreateSession(p), UNCHANGED signatures
      PROVE  UNCHANGED <<FinalShares, signatures>>
  <2>1. PICK i : sent' = sent \cup {MessageOf(p, NewWasmSession(i), 1)}
    BY <1>2 DEF CreateSession
  <2>2. MessageOf(p, NewWasmSession(i), 1).round # 4
    BY DEF MessageOf
  <2>3. QED BY <1>2, <2>1, <2>2, NoShareStutters
<1>3. ASSUME NEW p \in Party, InitNow(p) \/ InitFinish(p)
      PROVE  UNCHANGED <<FinalShares, signatures>>
  BY <1>2, <1>3 DEF InitNow, InitFinish
<1>4. ASSUME NEW p \in Party, NEW m \in sent, HandleRound(p, m)
      PROVE  UNCHANGED <<FinalShares, signatures>>
  <2> DEFINE s == dsg[p].bytes
             t == Advance(s, m)
             x == MessageOf(p, t, RoundNumber(t.round))
  <2>1. UNCHANGED signatures
    BY <1>4 DEF HandleRound
  <2>2. CASE UNCHANGED sent
    BY <2>1, <2>2, NoShareStutters
  <2>3. CASE sent' # sent
    <3>1. Handles(p, s, m) /\ sent' = sent \cup {x} /\ StateOf(t.round) # "InvalidState"
      BY <1>4, <2>3 DEF HandleRound
    <3>2. s \in Session /\ Backed(sent, p, s) /\ m \in Message
      BY <1>4, HeldSessions DEF HandleRound, Deliverable, IInv, TypeOK
    <3>3. t.round \in {"WaitMsg2", "WaitMsg3"}
      <4>1. t.round \in {"WaitMsg2", "WaitMsg3", "Pre"}
        BY <3>1, <3>2, AdvanceFacts
      <4>2. QED BY <3>1, <4>1 DEF StateOf
    <3>4. x.round # 4
      BY <3>3 DEF RoundNumber, MessageOf
    <3>5. sent \subseteq sent' /\ \A y \in sent' \ sent : y.round # 4
      <4> HIDE DEF x
      <4>1. QED BY <3>1, <3>4
    <3>6. QED BY <2>1, <3>5, NoShareStutters
  <2>4. QED BY <2>2, <2>3
<1>5. ASSUME NEW p \in Party,
             \/ InitBegin(p) \/ GetSession(p) \/ SetSession(p) \/ EndSession(p)
             \/ Restart(p) \/ \E m \in sent : HandleComplete(p, m)
      PROVE  UNCHANGED <<FinalShares, signatures>>
  BY <1>5 DEF InitBegin, GetSession, SetSession, EndSession, Restart, HandleComplete,
              FinalShares
<1>6. QED
  BY <1>1, <1>3, <1>4, <1>5, Round3Refines, Round4Refines
     DEF Next, HandleIncomingMessages

\* The two-party signing objects implement the agreement: one hash per
\* session, and no signature without the two final shares on its hash.
THEOREM Refinement == Spec => ImplementsAgreement
<1>1. Init => Agreement!Init
  BY DEF Init, Agreement!Init, FinalShares
<1>2. QED BY <1>1, StepRefines, Invariance, PTL DEF Spec, Agreement!Spec, ImplementsAgreement

=============================================================================
