--------------------------- MODULE MpsDsgProofs ---------------------------
(***************************************************************************)
(* Proofs about the EdDSA signing object of MpsDsg, for any parties,       *)
(* messages, sessions and numbers of exports: the inductive invariant, the *)
(* safety properties that follow from it, and that the objects implement   *)
(* SigningAgreement.                                                       *)
(***************************************************************************)
EXTENDS MpsDsg, TLAPS

\* A message made from a round state is a message.
LEMMA MessageOfType ==
    ASSUME NEW p \in Party, NEW s \in Session, NEW n \in 1..3
    PROVE  MessageOf(p, s, n) \in Message
BY DEF MessageOf, Session, Message

\* The rounds of the waiting states.
LEMMA RoundOfType ==
    /\ RoundOf("WaitMsg1") = 1 /\ RoundOf("WaitMsg2") = 2 /\ RoundOf("WaitMsg3") = 3
    /\ \A st \in Waiting : RoundOf(st) \in 1..3
BY DEF RoundOf, Waiting

\* What is backed stays backed when messages are added.
LEMMA BackedMonotone ==
    ASSUME sent \subseteq sent', NEW p, NEW s, NEW st, NEW h, NEW q,
           Backed(p, s, st, h, q)
    PROVE  Backed(p, s, st, h, q)'
BY DEF Backed

\* Exports stay backed when messages are added.
LEMMA SavedUntouched ==
    ASSUME sent \subseteq sent', NEW p \in Party, saved'[p] = saved[p], ObjectBacked(p)
    PROVE  (\A v \in saved[p] : Backed(p, v.bytes, v.round, v.message, v.other))'
BY DEF ObjectBacked, Backed

\* Messages that are not touched keep their part of the invariant.
LEMMA MessagesUntouched ==
    ASSUME MessagesInv, UNCHANGED <<sent, signatures>>
    PROVE  MessagesInv'
BY DEF MessagesInv, SidOwned, FinalShareNeedsPeer, SignaturesBacked, BothShares

\* An object that is not touched keeps its part when messages are added.
LEMMA OthersUntouched ==
    ASSUME sent \subseteq sent', NEW q \in Party, dsg'[q] = dsg[q], saved'[q] = saved[q],
           ObjectBacked(q), Signed(q)
    PROVE  ObjectBacked(q)' /\ Signed(q)'
<1>1. ObjectBacked(q)'
    BY BackedMonotone, SavedUntouched DEF ObjectBacked, Backed
<1>2. Signed(q)'
    BY DEF Signed, SignsItsMessage, GetSignature
<1> QED BY <1>1, <1>2

\* So a step that touches the object of p only need be looked at for p.
LEMMA OneObject ==
    ASSUME IInv, sent \subseteq sent', NEW p \in Party,
           \A q \in Party \ {p} : dsg'[q] = dsg[q] /\ saved'[q] = saved[q],
           TypeOK', MessagesInv', ObjectBacked(p)', Signed(p)'
    PROVE  IInv'
<1>1. ASSUME NEW q \in Party PROVE ObjectBacked(q)' /\ Signed(q)'
    <2>1. CASE q = p
        BY <2>1
    <2>2. CASE q # p
        BY <2>2, OthersUntouched DEF IInv
    <2> QED BY <2>1, <2>2
<1> QED BY <1>1 DEF IInv

LEMMA InitIInv == Init => IInv
<1> SUFFICES ASSUME Init PROVE IInv
    OBVIOUS
<1>1. TypeOK
    BY DEF Init, TypeOK, DsgObject, DsgState, NewDsg
<1>2. MessagesInv
    BY DEF Init, MessagesInv, SidOwned, FinalShareNeedsPeer, SignaturesBacked
<1>3. ASSUME NEW p \in Party PROVE ObjectBacked(p) /\ Signed(p)
    BY DEF Init, ObjectBacked, Signed, NewDsg, Waiting
<1> QED BY <1>1, <1>2, <1>3 DEF IInv

\* initDsg: the state alone says that there is no session yet.
LEMMA StepInitDsg ==
    ASSUME IInv, NEW p \in Party, NEW q \in Party, NEW h \in Hash, InitDsg(p, q, h)
    PROVE  IInv'
<1> USE DEF InitDsg
<1>1. TypeOK'
    <2>1. [dsg[p] EXCEPT !.message = h, !.other = q, !.dsgState = "Init"] \in DsgObject
        BY DEF IInv, TypeOK, DsgObject, DsgState
    <2> QED BY <2>1 DEF IInv, TypeOK
<1>2. MessagesInv'
    BY MessagesUntouched DEF IInv
<1>3. /\ dsg'[p].dsgState = "Init" /\ dsg'[p].message = h /\ dsg'[p].other = q
      /\ \A r \in Party \ {p} : dsg'[r] = dsg[r]
    BY DEF IInv, TypeOK, DsgObject
<1>4. ObjectBacked(p)'
    <2>1. (\A v \in saved[p] : Backed(p, v.bytes, v.round, v.message, v.other))'
        BY SavedUntouched DEF IInv
    <2> QED BY <1>3, <2>1 DEF ObjectBacked, Waiting
<1>5. Signed(p)'
    BY <1>3 DEF Signed
<1> QED BY <1>1, <1>2, <1>3, <1>4, <1>5, OneObject

\* getFirstMessage: the session is new, so no other message has its sid.
LEMMA StepGetFirstMessage ==
    ASSUME IInv, NEW p \in Party, GetFirstMessage(p)
    PROVE  IInv'
<1> USE DEF GetFirstMessage
<1>1. PICK i \in Sid \ {m.sid : m \in sent} :
        LET s == [sid |-> i, peer |-> NoSid, hash |-> dsg[p].message]
        IN  /\ dsg' = [dsg EXCEPT ![p].bytes = s, ![p].dsgState = "WaitMsg1"]
            /\ sent' = sent \cup {MessageOf(p, s, 1)}
    OBVIOUS
<1> DEFINE s == [sid |-> i, peer |-> NoSid, hash |-> dsg[p].message]
           x == MessageOf(p, s, 1)
<1>2. dsg[p].message \in Hash /\ dsg[p].other \in Party \ {p}
    BY DEF IInv, ObjectBacked
<1>3. s \in Session /\ x \in Message
    BY <1>2, MessageOfType DEF Session
<1>4. /\ dsg'[p].dsgState = "WaitMsg1" /\ dsg'[p].bytes = s
      /\ dsg'[p].message = dsg[p].message /\ dsg'[p].other = dsg[p].other
      /\ \A r \in Party \ {p} : dsg'[r] = dsg[r]
    BY <1>1 DEF IInv, TypeOK, DsgObject
<1>5. TypeOK'
    BY <1>1, <1>3 DEF IInv, TypeOK, DsgObject, DsgState
<1>6. MessagesInv'
    <2>1. x.sid = i /\ x.round = 1 /\ \A m \in sent : m.sid # i
        BY DEF MessageOf
    <2>2. SidOwned'
        BY <1>1, <2>1 DEF IInv, MessagesInv, SidOwned
    <2>3. FinalShareNeedsPeer'
        BY <1>1, <2>1 DEF IInv, MessagesInv, FinalShareNeedsPeer
    <2>4. SignaturesBacked'
        BY <1>1 DEF IInv, MessagesInv, SignaturesBacked, BothShares
    <2> QED BY <2>2, <2>3, <2>4 DEF MessagesInv
<1>7. ObjectBacked(p)'
    <2>1. (\A v \in saved[p] : Backed(p, v.bytes, v.round, v.message, v.other))'
        BY <1>1, SavedUntouched DEF IInv
    <2>2. Backed(p, dsg[p].bytes, dsg[p].dsgState, dsg[p].message, dsg[p].other)'
        BY <1>1, <1>2, <1>3, <1>4, RoundOfType DEF Backed
    <2> QED BY <1>4, <2>1, <2>2 DEF ObjectBacked
<1>8. Signed(p)'
    BY <1>4 DEF Signed
<1> QED BY <1>1, <1>4, <1>5, <1>6, <1>7, <1>8, OneObject

\* What a message that is taken has to do with the object that takes it.
LEMMA Taken ==
    ASSUME IInv, NEW p \in Party, NEW m \in sent, Deliverable(p, m)
    PROVE  /\ Backed(p, dsg[p].bytes, dsg[p].dsgState, dsg[p].message, dsg[p].other)
           /\ m \in Message /\ m.from = dsg[p].other /\ m.from # p
           /\ m.round = RoundOf(dsg[p].dsgState)
           /\ RoundOf(dsg[p].dsgState) > 1 =>
                m.sid = dsg[p].bytes.peer /\ m.peer = dsg[p].bytes.sid
                /\ m.hash = dsg[p].bytes.hash
BY DEF Deliverable, Accepts, IInv, TypeOK, ObjectBacked

\* Round 1: the message of round 2 is of the session that sent round 1.
LEMMA StepHandleRound1 ==
    ASSUME IInv, NEW p \in Party, NEW m \in sent, HandleRound1(p, m)
    PROVE  IInv'
<1> USE DEF HandleRound1
<1> DEFINE o == dsg[p].bytes
           s == [o EXCEPT !.peer = m.sid]
           x == MessageOf(p, s, 2)
<1>1. /\ Backed(p, o, "WaitMsg1", dsg[p].message, dsg[p].other)
      /\ m \in Message
    BY Taken
<1>2. /\ o \in Session /\ o.hash = dsg[p].message /\ dsg[p].other \in Party \ {p}
      /\ MessageOf(p, o, 1) \in sent
    BY <1>1, RoundOfType DEF Backed
<1>3. s \in Session /\ s.sid = o.sid /\ s.hash = o.hash /\ s.peer = m.sid /\ m.sid \in Sid
    BY <1>1, <1>2 DEF Session, Message
<1>4. x \in Message
    BY <1>3, MessageOfType
<1>5. /\ dsg'[p].dsgState = "WaitMsg2" /\ dsg'[p].bytes = s
      /\ dsg'[p].message = dsg[p].message /\ dsg'[p].other = dsg[p].other
      /\ \A r \in Party \ {p} : dsg'[r] = dsg[r]
      /\ sent' = sent \cup {x}
    BY DEF IInv, TypeOK, DsgObject
<1>6. TypeOK'
    BY <1>3, <1>4, <1>5 DEF IInv, TypeOK, DsgObject, DsgState
<1>7. MessagesInv'
    <2>1. x.from = p /\ x.sid = o.sid /\ x.hash = o.hash /\ x.round = 2
        BY <1>3 DEF MessageOf
    <2>2. \A n \in sent : n.sid = o.sid => n.from = p /\ n.hash = o.hash
        BY <1>2 DEF IInv, MessagesInv, SidOwned, MessageOf
    <2>3. SidOwned'
        BY <1>5, <2>1, <2>2 DEF IInv, MessagesInv, SidOwned
    <2>4. FinalShareNeedsPeer'
        BY <1>5, <2>1 DEF IInv, MessagesInv, FinalShareNeedsPeer
    <2>5. SignaturesBacked'
        BY <1>5 DEF IInv, MessagesInv, SignaturesBacked, BothShares
    <2> QED BY <2>3, <2>4, <2>5 DEF MessagesInv
<1>8. ObjectBacked(p)'
    <2>1. (\A v \in saved[p] : Backed(p, v.bytes, v.round, v.message, v.other))'
        BY <1>5, SavedUntouched DEF IInv
    <2>2. Backed(p, dsg[p].bytes, dsg[p].dsgState, dsg[p].message, dsg[p].other)'
        BY <1>2, <1>3, <1>5, RoundOfType DEF Backed
    <2> QED BY <1>5, <2>1, <2>2 DEF ObjectBacked
<1>9. Signed(p)'
    BY <1>5 DEF Signed
<1> QED BY <1>5, <1>6, <1>7, <1>8, <1>9, OneObject

\* Round 2: the final share follows the counterpart's message of round 2.
LEMMA StepHandleRound2 ==
    ASSUME IInv, NEW p \in Party, NEW m \in sent, HandleRound2(p, m)
    PROVE  IInv'
<1> USE DEF HandleRound2
<1> DEFINE s == dsg[p].bytes
           x == MessageOf(p, s, 3)
<1>1. /\ Backed(p, s, "WaitMsg2", dsg[p].message, dsg[p].other)
      /\ m.round = 2 /\ m.from # p
      /\ m.sid = s.peer /\ m.peer = s.sid /\ m.hash = s.hash
    BY Taken, RoundOfType
<1>2. /\ s \in Session /\ s.hash = dsg[p].message /\ dsg[p].other \in Party \ {p}
      /\ MessageOf(p, s, 2) \in sent /\ s.peer \in Sid
    BY <1>1, RoundOfType DEF Backed
<1>3. x \in Message
    BY <1>2, MessageOfType
<1>4. /\ dsg'[p].dsgState = "WaitMsg3" /\ dsg'[p].bytes = s
      /\ dsg'[p].message = dsg[p].message /\ dsg'[p].other = dsg[p].other
      /\ \A r \in Party \ {p} : dsg'[r] = dsg[r]
      /\ sent' = sent \cup {x}
    BY DEF IInv, TypeOK, DsgObject
<1>5. TypeOK'
    BY <1>3, <1>4 DEF IInv, TypeOK, DsgObject, DsgState
<1>6. MessagesInv'
    <2>1. x.from = p /\ x.sid = s.sid /\ x.peer = s.peer /\ x.hash = s.hash /\ x.round = 3
        BY DEF MessageOf
    <2>2. \A n \in sent : n.sid = s.sid => n.from = p /\ n.hash = s.hash
        BY <1>2 DEF IInv, MessagesInv, SidOwned, MessageOf
    <2>3. SidOwned'
        BY <1>4, <2>1, <2>2 DEF IInv, MessagesInv, SidOwned
    <2>4. FinalShareNeedsPeer'
        BY <1>1, <1>4, <2>1 DEF IInv, MessagesInv, FinalShareNeedsPeer
    <2>5. SignaturesBacked'
        BY <1>4 DEF IInv, MessagesInv, SignaturesBacked, BothShares
    <2> QED BY <2>3, <2>4, <2>5 DEF MessagesInv
<1>7. ObjectBacked(p)'
    <2>1. (\A v \in saved[p] : Backed(p, v.bytes, v.round, v.message, v.other))'
        BY <1>4, SavedUntouched DEF IInv
    <2>2. Backed(p, dsg[p].bytes, dsg[p].dsgState, dsg[p].message, dsg[p].other)'
        BY <1>2, <1>4, RoundOfType DEF Backed
    <2> QED BY <1>4, <2>1, <2>2 DEF ObjectBacked
<1>8. Signed(p)'
    BY <1>4 DEF Signed
<1> QED BY <1>4, <1>5, <1>6, <1>7, <1>8, OneObject

\* Round 3: the own final share and the counterpart's are both out.
LEMMA StepHandleRound3 ==
    ASSUME IInv, NEW p \in Party, NEW m \in sent, HandleRound3(p, m)
    PROVE  IInv'
<1> USE DEF HandleRound3
<1> DEFINE s == dsg[p].bytes
           g == [sid |-> s.sid, peer |-> s.peer, hash |-> s.hash]
<1>1. /\ Backed(p, s, "WaitMsg3", dsg[p].message, dsg[p].other)
      /\ m.round = 3 /\ m.from # p /\ m.from = dsg[p].other
      /\ m.sid = s.peer /\ m.peer = s.sid /\ m.hash = s.hash
    BY Taken, RoundOfType
<1>2. /\ s \in Session /\ s.hash = dsg[p].message
      /\ MessageOf(p, s, 3) \in sent
    BY <1>1, RoundOfType DEF Backed
<1>3. g \in Signature
    BY <1>2 DEF Session, Signature
<1>4. /\ dsg'[p].dsgState = "Complete" /\ dsg'[p].signature = g
      /\ dsg'[p].message = dsg[p].message /\ dsg'[p].other = dsg[p].other
      /\ \A r \in Party \ {p} : dsg'[r] = dsg[r]
      /\ sent' = sent /\ saved' = saved /\ signatures' = signatures \cup {g}
    BY DEF IInv, TypeOK, DsgObject
<1>5. TypeOK'
    BY <1>3, <1>4 DEF IInv, TypeOK, DsgObject, DsgState
<1>6. BothShares(g)
    BY <1>1, <1>2 DEF BothShares, MessageOf
<1>7. MessagesInv'
    <2>1. SidOwned' /\ FinalShareNeedsPeer'
        BY <1>4 DEF IInv, MessagesInv, SidOwned, FinalShareNeedsPeer
    <2>2. SignaturesBacked'
        BY <1>4, <1>6 DEF IInv, MessagesInv, SignaturesBacked, BothShares
    <2> QED BY <2>1, <2>2 DEF MessagesInv
<1>8. ObjectBacked(p)'
    <2>1. (\A v \in saved[p] : Backed(p, v.bytes, v.round, v.message, v.other))'
        BY <1>4, SavedUntouched DEF IInv
    <2> QED BY <1>4, <2>1 DEF ObjectBacked, Waiting
<1>9. Signed(p)'
    <2>1. g # NoSignature /\ g.hash = dsg[p].message /\ g.peer = m.sid /\ g.sid = m.peer
        BY <1>1, <1>2, <1>3, NoSignatureAssumption
    <2>2. m \in sent' /\ m.round = 3 /\ m.from = dsg[p].other
        BY <1>1, <1>4
    <2> HIDE DEF g
    <2> QED BY <1>4, <2>1, <2>2 DEF Signed, SignsItsMessage, GetSignature
<1> QED BY <1>4, <1>5, <1>7, <1>8, <1>9, OneObject

\* getSession: an export is as well backed as the object.
LEMMA StepGetSession ==
    ASSUME IInv, NEW p \in Party, GetSession(p)
    PROVE  IInv'
<1> USE DEF GetSession
<1> DEFINE v == [bytes |-> dsg[p].bytes, round |-> dsg[p].dsgState,
                 message |-> dsg[p].message, other |-> dsg[p].other]
<1>1. Backed(p, v.bytes, v.round, v.message, v.other) /\ v.round \in Waiting
    BY DEF IInv, ObjectBacked
<1>2. v \in Saved
    BY <1>1 DEF Backed, Saved, Waiting, Session
<1>3. saved'[p] = saved[p] \cup {v} /\ \A r \in Party \ {p} : saved'[r] = saved[r]
    BY DEF IInv, TypeOK
<1>4. TypeOK'
    BY <1>2 DEF IInv, TypeOK
<1>5. MessagesInv'
    BY MessagesUntouched DEF IInv
<1>6. ObjectBacked(p)'
    BY <1>1, <1>3 DEF IInv, ObjectBacked, Backed
<1>7. Signed(p)'
    BY DEF IInv, Signed, SignsItsMessage, GetSignature
<1> QED BY <1>3, <1>4, <1>5, <1>6, <1>7, OneObject

\* restoreSession: the object is what an export says.
LEMMA StepRestoreSession ==
    ASSUME IInv, NEW p \in Party, RestoreSession(p)
    PROVE  IInv'
<1> USE DEF RestoreSession
<1>1. PICK v \in saved[p] :
        dsg' = [dsg EXCEPT ![p].bytes = v.bytes, ![p].dsgState = v.round,
                           ![p].message = v.message, ![p].other = v.other]
    OBVIOUS
<1>2. v \in Saved /\ Backed(p, v.bytes, v.round, v.message, v.other)
    BY DEF IInv, TypeOK, ObjectBacked
<1>3. /\ dsg'[p].bytes = v.bytes /\ dsg'[p].dsgState = v.round
      /\ dsg'[p].message = v.message /\ dsg'[p].other = v.other
      /\ \A r \in Party \ {p} : dsg'[r] = dsg[r]
    BY <1>1 DEF IInv, TypeOK, DsgObject
<1>4. v.round \in {"WaitMsg1", "WaitMsg2", "WaitMsg3"}
    BY <1>2 DEF Saved
<1>5. TypeOK'
    <2>1. [dsg[p] EXCEPT !.bytes = v.bytes, !.dsgState = v.round,
                         !.message = v.message, !.other = v.other] \in DsgObject
        <3>1. /\ v.bytes \in Session \cup {NoSession} /\ v.round \in DsgState
              /\ v.message \in Hash \cup {NoHash} /\ v.other \in Party \cup {NoParty}
            BY <1>2 DEF Saved, DsgState
        <3>2. dsg[p] \in DsgObject
            BY DEF IInv, TypeOK
        <3> HIDE DEF RestoreSession
        <3> QED BY <3>1, <3>2 DEF DsgObject
    <2> QED BY <1>1, <2>1 DEF IInv, TypeOK
<1>6. MessagesInv'
    BY MessagesUntouched DEF IInv
<1>7. ObjectBacked(p)'
    <2>1. (\A w \in saved[p] : Backed(p, w.bytes, w.round, w.message, w.other))'
        BY SavedUntouched DEF IInv
    <2>2. Backed(p, dsg[p].bytes, dsg[p].dsgState, dsg[p].message, dsg[p].other)'
        BY <1>2, <1>3 DEF Backed
    <2> QED BY <1>3, <1>4, <2>1, <2>2 DEF ObjectBacked
<1>8. Signed(p)'
    BY <1>3, <1>4 DEF Signed
<1> QED BY <1>3, <1>5, <1>6, <1>7, <1>8, OneObject

\* A new object has no session.
LEMMA StepRestart ==
    ASSUME IInv, NEW p \in Party, Restart(p)
    PROVE  IInv'
<1> USE DEF Restart
<1>1. /\ dsg'[p].dsgState = "Uninitialized"
      /\ \A r \in Party \ {p} : dsg'[r] = dsg[r]
    BY DEF IInv, TypeOK, NewDsg
<1>2. TypeOK'
    BY DEF IInv, TypeOK, DsgObject, DsgState, NewDsg
<1>3. MessagesInv'
    BY MessagesUntouched DEF IInv
<1>4. ObjectBacked(p)'
    <2>1. (\A v \in saved[p] : Backed(p, v.bytes, v.round, v.message, v.other))'
        BY SavedUntouched DEF IInv
    <2> QED BY <1>1, <2>1 DEF ObjectBacked, Waiting
<1>5. Signed(p)'
    BY <1>1 DEF Signed
<1> QED BY <1>1, <1>2, <1>3, <1>4, <1>5, OneObject

LEMMA NextIInv == IInv /\ [Next]_vars => IInv'
<1> SUFFICES ASSUME IInv, [Next]_vars PROVE IInv'
    OBVIOUS
<1>1. CASE UNCHANGED vars
    BY <1>1 DEF vars, IInv, TypeOK, MessagesInv, SidOwned, FinalShareNeedsPeer,
         SignaturesBacked, BothShares, ObjectBacked, Backed,
         Signed, SignsItsMessage, GetSignature
<1>2. ASSUME NEW p \in Party, NEW q \in Party, NEW h \in Hash, InitDsg(p, q, h)
      PROVE  IInv'
    BY <1>2, StepInitDsg
<1>3. ASSUME NEW p \in Party, GetFirstMessage(p) PROVE IInv'
    BY <1>3, StepGetFirstMessage
<1>4. ASSUME NEW p \in Party, NEW m \in sent, HandleIncomingMessages(p, m) PROVE IInv'
    BY <1>4, StepHandleRound1, StepHandleRound2, StepHandleRound3 DEF HandleIncomingMessages
<1>5. ASSUME NEW p \in Party, GetSession(p) \/ RestoreSession(p) \/ Restart(p) PROVE IInv'
    BY <1>5, StepGetSession, StepRestoreSession, StepRestart
<1> QED BY <1>1, <1>2, <1>3, <1>4, <1>5 DEF Next

\* The inductive invariant holds in every reachable state of the EdDSA objects.
THEOREM Invariance == Spec => []IInv
BY InitIInv, NextIInv, PTL DEF Spec

\* Objects, exports, messages and signatures keep their types.
THEOREM TypeCorrect == Spec => []TypeOK
<1>1. IInv => TypeOK
    BY DEF IInv
<1> QED BY <1>1, Invariance, PTL

\* Only handleIncomingMessages in WaitMsg3 and a new object change what
\* getSignature returns.
LEMMA SignatureStep ==
    ASSUME IInv, IInv', Next, NEW p \in Party, GetSignature(p)' # GetSignature(p)
    PROVE  dsg'[p] = NewDsg \/ (dsg'[p].dsgState = "Complete" /\ SignsItsMessage(p)')
<1> USE DEF GetSignature
<1>1. dsg \in [Party -> DsgObject]
    BY DEF IInv, TypeOK
<1>2. ASSUME NEW q \in Party, NEW r \in Party, NEW h \in Hash, InitDsg(q, r, h) PROVE FALSE
    BY <1>1, <1>2 DEF InitDsg, DsgObject
<1>3. ASSUME NEW q \in Party, GetFirstMessage(q) PROVE FALSE
    BY <1>1, <1>3 DEF GetFirstMessage, DsgObject
<1>4. ASSUME NEW q \in Party, NEW m \in sent, HandleRound1(q, m) \/ HandleRound2(q, m)
      PROVE  FALSE
    BY <1>1, <1>4 DEF HandleRound1, HandleRound2, DsgObject
<1>5. ASSUME NEW q \in Party, NEW m \in sent, HandleRound3(q, m)
      PROVE  dsg'[p].dsgState = "Complete" /\ SignsItsMessage(p)'
    <2>1. q = p
        BY <1>1, <1>5 DEF HandleRound3, DsgObject
    <2>2. dsg'[p].dsgState = "Complete"
        BY <1>1, <1>5, <2>1 DEF HandleRound3, DsgObject
    <2>3. Signed(p)'
        BY DEF IInv
    <2> QED BY <2>2, <2>3 DEF Signed
<1>6. ASSUME NEW q \in Party, GetSession(q) \/ RestoreSession(q) PROVE FALSE
    <2>1. CASE GetSession(q)
        BY <2>1 DEF GetSession
    <2>2. CASE RestoreSession(q)
        <3>1. PICK v \in saved[q] :
                dsg' = [dsg EXCEPT ![q].bytes = v.bytes, ![q].dsgState = v.round,
                                   ![q].message = v.message, ![q].other = v.other]
            BY <2>2 DEF RestoreSession
        <3> QED BY <1>1, <3>1 DEF DsgObject
    <2> QED BY <1>6, <2>1, <2>2
<1>7. ASSUME NEW q \in Party, Restart(q) PROVE dsg'[p] = NewDsg
    BY <1>1, <1>7 DEF Restart
<1> QED BY <1>2, <1>3, <1>4, <1>5, <1>6, <1>7 DEF Next, HandleIncomingMessages

\* What getSignature returns changes only with a new object or by completing a
\* session on the object's own message, for any number of initializations,
\* exports and restores.
THEOREM NewSignatureIsOwn == Spec => NewSignatureIsOfItsMessage
<1>1. IInv /\ IInv' /\ [Next]_vars =>
        [\A p \in Party : GetSignature(p)' # GetSignature(p) =>
            \/ dsg'[p] = NewDsg
            \/ dsg'[p].dsgState = "Complete" /\ SignsItsMessage(p)']_vars
    BY SignatureStep
<1> QED BY <1>1, Invariance, PTL DEF Spec, NewSignatureIsOfItsMessage

\* No final share leaves a party before the counterpart has shown that it
\* signs the same message.
THEOREM PeerFirst == Spec => []FinalShareNeedsPeer
<1>1. IInv => FinalShareNeedsPeer
    BY DEF IInv, MessagesInv
<1> QED BY <1>1, Invariance, PTL

----------------------------------------------------------------------------
(* Refinement *)

Final(m) == [from |-> m.from, sid |-> m.sid, peer |-> m.peer, hash |-> m.hash]

\* Only messages of round 3 are final shares.
LEMMA NoShareStutters ==
    ASSUME NEW x, x.round # 3, sent' = sent \cup {x}
    PROVE  FinalShares' = FinalShares
BY DEF FinalShares

LEMMA InitRefines == Init => Agreement!Init
BY DEF Init, Agreement!Init, FinalShares

\* The message of round 3 is the release of a final share: all earlier ones of
\* the session are on its message.
LEMMA Round2Refines ==
    ASSUME IInv, NEW p \in Party, NEW m \in sent, HandleRound2(p, m)
    PROVE  Agreement!Next
<1> DEFINE s == dsg[p].bytes
           x == MessageOf(p, s, 3)
<1>1. /\ s \in Session /\ s.peer \in Sid /\ MessageOf(p, s, 2) \in sent
    BY Taken, RoundOfType DEF HandleRound2, Backed
<1>2. sent' = sent \cup {x} /\ signatures' = signatures
    BY DEF HandleRound2
<1>3. /\ x.round = 3 /\ x.from = p /\ x.sid = s.sid /\ x.peer = s.peer /\ x.hash = s.hash
      /\ MessageOf(p, s, 2).sid = s.sid /\ MessageOf(p, s, 2).from = p
      /\ MessageOf(p, s, 2).hash = s.hash
    BY DEF MessageOf
<1>4. Final(x) \in Agreement!Share
    BY <1>1, <1>3 DEF Agreement!Share, Final, Session
<1>5. FinalShares' = FinalShares \cup {Final(x)}
    <2> HIDE DEF x
    <2> QED BY <1>2, <1>3 DEF FinalShares, Final
<1>6. \A y \in FinalShares : y.sid = Final(x).sid => y.hash = Final(x).hash /\ y.from = Final(x).from
    <2> SUFFICES ASSUME NEW n \in sent, n.sid = s.sid
                 PROVE  n.hash = s.hash /\ n.from = p
        BY <1>3 DEF FinalShares, Final
    <2> QED BY <1>1, <1>3 DEF IInv, MessagesInv, SidOwned
<1>7. Agreement!Release(Final(x))
    BY <1>2, <1>5, <1>6 DEF Agreement!Release
<1> QED BY <1>4, <1>7 DEF Agreement!Next

\* Combining produces a signature from two final shares.
LEMMA Round3Refines ==
    ASSUME IInv, IInv', NEW p \in Party, NEW m \in sent, HandleRound3(p, m)
    PROVE  Agreement!Next
<1> DEFINE s == dsg[p].bytes
           g == [sid |-> s.sid, peer |-> s.peer, hash |-> s.hash]
<1>1. signatures' = signatures \cup {g} /\ sent' = sent
    BY DEF HandleRound3
<1>2. /\ s \in Session /\ s.peer \in Sid /\ MessageOf(p, s, 3) \in sent
      /\ m.round = 3 /\ m.from # p
      /\ m.sid = s.peer /\ m.peer = s.sid /\ m.hash = s.hash
    BY Taken, RoundOfType DEF HandleRound3, Backed
<1>3. g \in Agreement!Sig
    BY <1>2 DEF Agreement!Sig, Session
<1> DEFINE a == Final(MessageOf(p, s, 3))
           b == Final(m)
<1>4. a \in FinalShares /\ b \in FinalShares
    BY <1>2 DEF FinalShares, Final, MessageOf
<1>5. /\ a.from # b.from /\ a.sid = g.sid /\ a.peer = g.peer /\ a.hash = g.hash
      /\ b.sid = g.peer /\ b.peer = g.sid /\ b.hash = g.hash
    BY <1>2 DEF Final, MessageOf
<1>6. FinalShares' = FinalShares
    BY <1>1 DEF FinalShares
<1>7. Agreement!Produce(g)
    <2> HIDE DEF a, b, g
    <2> QED BY <1>1, <1>4, <1>5, <1>6 DEF Agreement!Produce
<1> QED BY <1>3, <1>7 DEF Agreement!Next

LEMMA StepRefines ==
    IInv /\ IInv' /\ [Next]_vars => [Agreement!Next]_<<FinalShares, signatures>>
<1> SUFFICES ASSUME IInv, IInv', [Next]_vars
             PROVE  Agreement!Next \/ UNCHANGED <<FinalShares, signatures>>
    OBVIOUS
<1>1. CASE UNCHANGED vars
    BY <1>1 DEF vars, FinalShares
<1>2. ASSUME NEW p \in Party, GetFirstMessage(p)
      PROVE  UNCHANGED <<FinalShares, signatures>>
    <2>1. PICK x : x.round = 1 /\ sent' = sent \cup {x}
        BY <1>2 DEF GetFirstMessage, MessageOf
    <2> QED BY <1>2, <2>1, NoShareStutters DEF GetFirstMessage
<1>3. ASSUME NEW p \in Party, NEW m \in sent, HandleRound1(p, m)
      PROVE  UNCHANGED <<FinalShares, signatures>>
    <2>1. PICK x : x.round = 2 /\ sent' = sent \cup {x}
        BY <1>3 DEF HandleRound1, MessageOf
    <2> QED BY <1>3, <2>1, NoShareStutters DEF HandleRound1
<1>4. ASSUME NEW p \in Party,
             \/ \E q \in Party, h \in Hash : InitDsg(p, q, h)
             \/ GetSession(p) \/ RestoreSession(p) \/ Restart(p)
      PROVE  UNCHANGED <<FinalShares, signatures>>
    BY <1>4 DEF InitDsg, GetSession, RestoreSession, Restart, FinalShares
<1> QED BY <1>1, <1>2, <1>3, <1>4, Round2Refines, Round3Refines
        DEF Next, HandleIncomingMessages

\* The EdDSA objects implement the agreement: one message per session, and no
\* signature without the final shares of both signers on it.
THEOREM Refinement == Spec => ImplementsAgreement
BY InitRefines, StepRefines, Invariance, PTL DEF Spec, Agreement!Spec, ImplementsAgreement

============================================================================
