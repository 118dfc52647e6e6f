-------------------------- MODULE TxSigningProofs --------------------------
(***************************************************************************)
(* What TxSigning guarantees for any number of flows, sessions, hashes and *)
(* retries: types, the hash that is signed, shares that are processed at   *)
(* most once, flows that do not run in circles, and the signing agreement. *)
(***************************************************************************)
EXTENDS TxSigning, TLAPS

USE FlowAssumption, AttemptsAssumption, SidAssumption, NoValuesAssumption

----------------------------------------------------------------------------
(* Types *)

LEMMA ViewType ==
    ASSUME TypeOK
    PROVE  ViewOf(txRequest) \in View
  BY DEF TypeOK, TxRequest, View, ViewOf

LEMMA PostType ==
    ASSUME TypeOK, NEW f \in Flow, NEW n \in 1..3, NEW p \in BitGoSid \cup {NoPeer},
           NEW h \in Hash, Post(f, n, p, h)
    PROVE  posts' \subseteq Share
  BY DEF TypeOK, Post, Share

LEMMA AdvanceType ==
    ASSUME TypeOK, NEW f \in Flow, NEW c \in Pc, NEW p \in BitGoSid \cup {NoPeer},
           Advance(f, c, p)
    PROVE  flow' \in [Flow -> FlowState]
<1> DEFINE s == [flow[f] EXCEPT !.pc = c, !.peer = p, !.attempts = 0]
<1>1. flow[f] \in FlowState /\ 0 \in 0..MaxAttempts
  BY DEF TypeOK
<1>2. s \in FlowState
  BY <1>1 DEF FlowState
<1>3. flow' = [flow EXCEPT ![f] = s]
  BY DEF Advance
<1> HIDE DEF s
<1>4. QED BY <1>2, <1>3 DEF TypeOK

LEMMA PcType ==
    ASSUME TypeOK, NEW f \in Flow, NEW c \in Pc,
           flow' = [flow EXCEPT ![f].pc = c]
    PROVE  flow' \in [Flow -> FlowState]
<1> DEFINE s == [flow[f] EXCEPT !.pc = c]
<1>1. flow[f] \in FlowState
  BY DEF TypeOK
<1>2. s \in FlowState
  BY <1>1 DEF FlowState
<1>3. flow' = [flow EXCEPT ![f] = s]
  OBVIOUS
<1> HIDE DEF s
<1>4. QED BY <1>2, <1>3 DEF TypeOK

LEMMA LastType ==
    ASSUME TypeOK, NEW v \in View, NEW t, NEW g, AnswerFor(v, t, g)
    PROVE  v.last \in Output
  BY DEF View, AnswerFor

LEMMA TakeType ==
    ASSUME TypeOK, NEW x \in posts, Take(x)
    PROVE  posts' \subseteq Share /\ served' \in [Flow -> [1..3 -> Nat]]
<1>1. x.flow \in Flow /\ x.round \in 1..3
  BY DEF TypeOK, Share
<1>2. QED BY <1>1 DEF TypeOK, Take

LEMMA AnswerType ==
    ASSUME TypeOK, txRequest' \in TxRequest, NEW x \in posts, Answer(x)
    PROVE  flow' \in [Flow -> FlowState] /\ seen' \subseteq View
<1>1. x.flow \in Flow
  BY DEF TypeOK, Share
<1>2. ViewOf(txRequest) \in View /\ ViewOf(txRequest') \in View
  BY DEF TypeOK, TxRequest, View, ViewOf
<1>3. Got(x.round) \in Pc
  BY DEF Got, Pc
<1>4. CASE UNCHANGED <<seen, flow>>
  BY <1>4 DEF TypeOK
<1>5. ASSUME NEW v \in View, seen' = seen \cup {v},
             flow' = [flow EXCEPT ![x.flow].pc = Got(x.round), ![x.flow].view = v]
      PROVE  flow' \in [Flow -> FlowState] /\ seen' \subseteq View
  <2> DEFINE f == x.flow
             s == [flow[f] EXCEPT !.pc = Got(x.round), !.view = v]
  <2>0. flow[f] \in FlowState
    BY <1>1 DEF TypeOK
  <2>1. s \in FlowState
    BY <1>3, <2>0 DEF FlowState
  <2>2. flow' = [flow EXCEPT ![f] = s]
    BY <1>5
  <2> HIDE DEF s, f
  <2>3. QED BY <1>1, <1>5, <2>1, <2>2 DEF TypeOK, f
<1>6. QED BY <1>2, <1>4, <1>5 DEF Answer

LEMMA TypeInit == Init => TypeOK
<1> SUFFICES ASSUME Init PROVE TypeOK
  OBVIOUS
<1>1. NewFlow \in FlowState
  BY DEF NewFlow, FlowState, Pc
<1>2. txRequest \in TxRequest
  BY DEF Init, TxRequest
<1>3. flow \in [Flow -> FlowState]
  BY <1>1 DEF Init
<1>4. QED BY <1>2, <1>3 DEF Init, TypeOK

\* Steps of the flows and of the external signer keep the types.
LEMMA FlowStepType ==
    ASSUME TypeOK, BoundToFetched, NEW f \in Flow,
           FlowStep(f) \/ DeleteSignatureShares(f) \/ Fail(f)
    PROVE  TypeOK'
<1>0. /\ flow[f] \in FlowState
      /\ flow[f].peer \in BitGoSid \cup {NoPeer}
  BY DEF TypeOK, FlowState
<1>a. ASSUME flow[f].pc \notin {"idle", "clean", "failed"}
      PROVE  flow[f].view \in View /\ flow[f].hash \in Hash
  BY <1>a DEF BoundToFetched
<1>1. CASE DeleteSignatureShares(f)
  <2>1. "clean" \in Pc
    BY DEF Pc
  <2>2. flow' \in [Flow -> FlowState]
    BY <1>1, <2>1, PcType DEF DeleteSignatureShares
  <2>3. txRequest' \in TxRequest
    BY <1>1 DEF DeleteSignatureShares, TypeOK, TxRequest
  <2>4. QED BY <1>1, <2>2, <2>3 DEF DeleteSignatureShares, TypeOK
<1>2. CASE GetTxRequest(f)
  <2>1. PICK v \in View : /\ flow' = [flow EXCEPT ![f].pc = "fetched",
                                                  ![f].view = v, ![f].hash = v.hash]
                          /\ seen' = seen \cup {v}
    BY <1>2, ViewType DEF GetTxRequest, TypeOK
  <2>2. v.hash \in Hash /\ "fetched" \in Pc
    BY DEF View, Pc
  <2>3. flow' \in [Flow -> FlowState]
    <3> DEFINE s == [flow[f] EXCEPT !.pc = "fetched", !.view = v, !.hash = v.hash]
    <3>1. s \in FlowState
      BY <1>0, <2>2 DEF FlowState
    <3>2. flow' = [flow EXCEPT ![f] = s]
      BY <2>1
    <3> HIDE DEF s
    <3>3. QED BY <3>1, <3>2 DEF TypeOK
  <2>4. QED BY <1>2, <2>1, <2>3 DEF GetTxRequest, TypeOK
<1>3. CASE Round1(f)
  <2>1. "wait1" \in Pc /\ flow[f].hash \in Hash
    BY <1>3, <1>a DEF Round1, Pc
  <2>2. flow' \in [Flow -> FlowState]
    BY <1>3, <2>1, AdvanceType DEF Round1
  <2>3. posts' \subseteq Share
    BY <1>3, <2>1, PostType DEF Round1
  <2>4. round1' \subseteq Round1Session
    BY <1>3, <2>1 DEF Round1, TypeOK, Round1Session
  <2>5. QED BY <1>3, <2>2, <2>3, <2>4 DEF Round1, TypeOK
<1>4. CASE LocalRound2(f)
  <2>1. "wait2" \in Pc /\ flow[f].hash \in Hash /\ flow[f].view \in View
    BY <1>4, <1>a DEF LocalRound2, Pc
  <2>2. flow[f].view.last.sid \in BitGoSid
    BY <1>4, <2>1, LastType DEF LocalRound2, Output
  <2>3. flow' \in [Flow -> FlowState]
    BY <1>4, <2>1, <2>2, AdvanceType DEF LocalRound2
  <2>4. posts' \subseteq Share
    BY <1>4, <2>1, <2>2, PostType DEF LocalRound2
  <2>5. QED BY <1>4, <2>3, <2>4 DEF LocalRound2, TypeOK
<1>5. CASE ExternalRound2(f)
  <2>1. "wait2" \in Pc /\ flow[f].view \in View
    BY <1>5, <1>a DEF ExternalRound2, Pc
  <2>2. flow[f].view.last.sid \in BitGoSid /\ flow[f].view.hash \in Hash
    BY <1>5, <2>1, LastType DEF ExternalRound2, Round2Accepts, Output, View
  <2>3. flow' \in [Flow -> FlowState]
    BY <1>5, <2>1, <2>2, AdvanceType DEF ExternalRound2
  <2>4. posts' \subseteq Share
    BY <1>5, <2>1, <2>2, PostType DEF ExternalRound2
  <2>5. round2' \subseteq Round2Session
    BY <1>5, <2>2 DEF ExternalRound2, TypeOK, Round2Session
  <2>6. QED BY <1>5, <2>3, <2>4, <2>5 DEF ExternalRound2, TypeOK
<1>6. CASE LocalRound3(f)
  <2>1. "wait3" \in Pc /\ flow[f].hash \in Hash /\ flow[f].view \in View
    BY <1>6, <1>a DEF LocalRound3, Pc
  <2>2. flow[f].peer \in BitGoSid
    BY <1>6, <2>1, LastType DEF LocalRound3, Output
  <2>3. flow' \in [Flow -> FlowState]
    BY <1>6, <2>1, <2>2, AdvanceType DEF LocalRound3
  <2>4. posts' \subseteq Share
    BY <1>6, <2>1, <2>2, PostType DEF LocalRound3
  <2>5. released' \subseteq FinalShare
    BY <1>6, <2>1, <2>2 DEF LocalRound3, TypeOK, FinalShare, UserShare
  <2>6. QED BY <1>6, <2>3, <2>4, <2>5 DEF LocalRound3, TypeOK
<1>7. CASE ExternalRound3(f)
  <2>1. "wait3" \in Pc /\ flow[f].view \in View
    BY <1>7, <1>a DEF ExternalRound3, Pc
  <2>2. PICK c \in round2 : /\ c.peer = flow[f].peer
                            /\ released' = released \cup
                                 {UserShare(f, c.peer, flow[f].view.hash)}
    BY <1>7 DEF ExternalRound3
  <2>3. flow[f].peer \in BitGoSid /\ flow[f].view.hash \in Hash
    BY <2>1, <2>2 DEF TypeOK, Round2Session, View
  <2>4. flow' \in [Flow -> FlowState]
    BY <1>7, <2>1, <2>3, AdvanceType DEF ExternalRound3
  <2>5. posts' \subseteq Share
    BY <1>7, <2>3, PostType DEF ExternalRound3
  <2>6. released' \subseteq FinalShare
    BY <2>2, <2>3 DEF TypeOK, FinalShare, UserShare
  <2>7. QED BY <1>7, <2>4, <2>5, <2>6 DEF ExternalRound3, TypeOK
<1>8. CASE SendTxRequest(f)
  <2>1. "done" \in Pc /\ "failed" \in Pc
    BY DEF Pc
  <2>2. flow' \in [Flow -> FlowState]
    BY <1>8, <2>1, PcType DEF SendTxRequest
  <2>3. txRequest' \in TxRequest
    BY <1>8 DEF SendTxRequest, TypeOK, TxRequest
  <2>4. QED BY <1>8, <2>2, <2>3 DEF SendTxRequest, TypeOK
<1>9. CASE Fail(f)
  <2>1. "failed" \in Pc
    BY DEF Pc
  <2>2. flow' \in [Flow -> FlowState]
    BY <1>9, <2>1, PcType DEF Fail
  <2>3. QED BY <1>9, <2>2 DEF Fail, TypeOK
<1>10. QED
  BY <1>1, <1>2, <1>3, <1>4, <1>5, <1>6, <1>7, <1>8, <1>9 DEF FlowStep

LEMMA RepeatType ==
    ASSUME TypeOK, NEW v \in seen,
           \/ \E c, g \in round1 : RepeatRound2(c, g, v)
           \/ \E c \in round2, g \in round1 : RepeatRound3(c, g, v)
    PROVE  TypeOK'
<1>0. v \in View
  BY DEF TypeOK
<1>1. ASSUME NEW c \in round1, NEW g \in round1, RepeatRound2(c, g, v)
      PROVE  TypeOK'
  <2>1. v.last.sid \in BitGoSid /\ v.hash \in Hash /\ c.flow \in Flow
    BY <1>0, <1>1, LastType
       DEF RepeatRound2, Round2Accepts, Output, View, TypeOK, Round1Session
  <2>2. round2' \subseteq Round2Session
    BY <1>1, <2>1 DEF RepeatRound2, TypeOK, Round2Session
  <2>3. QED BY <1>1, <2>2 DEF RepeatRound2, TypeOK
<1>2. ASSUME NEW c \in round2, NEW g \in round1, RepeatRound3(c, g, v)
      PROVE  TypeOK'
  <2>1. v.hash \in Hash /\ c.flow \in Flow /\ c.peer \in BitGoSid
    BY <1>0 DEF View, TypeOK, Round2Session
  <2>2. released' \subseteq FinalShare
    BY <1>2, <2>1 DEF RepeatRound3, TypeOK, FinalShare, UserShare
  <2>3. QED BY <1>2, <2>2 DEF RepeatRound3, TypeOK
<1>3. QED BY <1>1, <1>2

LEMMA ServeType ==
    ASSUME TypeOK, NEW x \in posts, Serve(x)
    PROVE  TypeOK'
<1>0. x.flow \in Flow /\ x.round \in 1..3
  BY DEF TypeOK, Share
<1>1. CASE ServeRound1(x)
  <2>1. txRequest' \in TxRequest
    BY <1>0, <1>1 DEF ServeRound1, TypeOK, TxRequest, Output
  <2>2. session' \in Session \cup {NoSession} /\ opened' \subseteq BitGoSid
    BY <1>0, <1>1 DEF ServeRound1, TypeOK, Session, TxRequest
  <2>3. QED BY <1>1, <2>1, <2>2, TakeType, AnswerType DEF ServeRound1, TypeOK
<1>2. CASE ServeRound2(x)
  <2>0. session \in Session
    BY <1>2 DEF ServeRound2, InSession, TypeOK
  <2>1. txRequest' \in TxRequest
    BY <1>0, <1>2, <2>0 DEF ServeRound2, TypeOK, TxRequest, Output, Session
  <2>2. session' \in Session
    BY <1>2, <2>0 DEF ServeRound2, Session
  <2>3. released' \subseteq FinalShare
    BY <1>2, <2>0 DEF ServeRound2, TypeOK, FinalShare, BitGoShare, Session
  <2>4. QED BY <1>2, <2>1, <2>2, <2>3, TakeType, AnswerType DEF ServeRound2, TypeOK
<1>3. CASE ServeRound3(x)
  <2>0. session \in Session
    BY <1>3 DEF ServeRound3, InSession, TypeOK
  <2>1. txRequest' \in TxRequest
    BY <1>3 DEF ServeRound3, TypeOK, TxRequest
  <2>2. produced' \subseteq Signature
    BY <1>3, <2>0 DEF ServeRound3, TypeOK, Signature, Session
  <2>3. QED BY <1>3, <2>1, <2>2, TakeType, AnswerType DEF ServeRound3, TypeOK
<1>4. CASE Refuse(x)
  <2>1. flow' \in [Flow -> FlowState]
    <3> DEFINE c == IF flow[x.flow].pc = Waits(x.round) THEN "failed"
                    ELSE flow[x.flow].pc
    <3>1. c \in Pc
      BY <1>0 DEF TypeOK, FlowState, Pc
    <3>2. flow' = [flow EXCEPT ![x.flow].pc = c]
      BY <1>4 DEF Refuse
    <3> HIDE DEF c
    <3>3. QED BY <1>0, <3>1, <3>2, PcType
  <2>2. QED BY <1>4, <2>1 DEF Refuse, TypeOK
<1>5. CASE RateLimited(x)
  <2>1. flow' \in [Flow -> FlowState]
    <3>1. CASE flow' = flow
      BY <3>1 DEF TypeOK
    <3>2. CASE flow' = [flow EXCEPT ![x.flow].pc = "failed"]
      BY <1>0, <3>2, PcType DEF Pc
    <3>3. CASE /\ flow[x.flow].attempts < MaxAttempts
               /\ flow' = [flow EXCEPT ![x.flow].attempts = @ + 1]
      <4>1. flow[x.flow] \in FlowState /\ flow[x.flow].attempts + 1 \in 0..MaxAttempts
        BY <1>0, <3>3 DEF TypeOK, FlowState
      <4>2. QED BY <1>0, <3>3, <4>1 DEF TypeOK, FlowState
    <3>4. QED BY <1>5, <3>1, <3>2, <3>3 DEF RateLimited
  <2>2. QED BY <1>5, <2>1 DEF RateLimited, TypeOK
<1>6. QED BY <1>1, <1>2, <1>3, <1>4, <1>5 DEF Serve

LEMMA TypeStep == TypeOK /\ BoundToFetched /\ [Next]_vars => TypeOK'
<1> SUFFICES ASSUME TypeOK, BoundToFetched, [Next]_vars PROVE TypeOK'
  OBVIOUS
<1>1. CASE UNCHANGED vars
  BY <1>1 DEF vars, TypeOK
<1>2. CASE Next
  BY <1>2, FlowStepType, RepeatType, ServeType DEF Next
<1>3. QED BY <1>1, <1>2

----------------------------------------------------------------------------
(* What a flow was begun for *)

Moved == \A f \in Flow :
    /\ flow[f].pc \notin {"idle", "clean"} =>
         flow'[f].pc \notin {"idle", "clean"} /\ flow'[f].hash = flow[f].hash
    /\ flow'[f].pc \notin {"idle", "clean", "failed"} =>
         flow'[f].view \in View /\ flow'[f].hash \in Hash

\* No step of a flow makes it forget the hash that it fetched.
LEMMA FlowStepMoves ==
    ASSUME TypeOK, BoundToFetched, NEW f \in Flow,
           FlowStep(f) \/ DeleteSignatureShares(f) \/ Fail(f)
    PROVE  Moved
<1>0. flow \in [Flow -> FlowState]
  BY DEF TypeOK
<1>a. \A g \in Flow : flow[g].pc \notin {"idle", "clean", "failed"} =>
          flow[g].view \in View /\ flow[g].hash \in Hash
  BY DEF BoundToFetched
<1>1. CASE GetTxRequest(f)
  <2>1. PICK v \in View : flow' = [flow EXCEPT ![f].pc = "fetched",
                                              ![f].view = v, ![f].hash = v.hash]
    BY <1>1, ViewType DEF GetTxRequest, TypeOK
  <2>2. v.hash \in Hash
    BY DEF View
  <2>3. flow[f].pc \in {"idle", "clean"}
    BY <1>1 DEF GetTxRequest
  <2>4. QED BY <1>0, <1>a, <2>1, <2>2, <2>3 DEF Moved, FlowState
<1>2. CASE DeleteSignatureShares(f)
  <2>1. flow' = [flow EXCEPT ![f].pc = "clean"] /\ flow[f].pc = "idle"
    BY <1>2 DEF DeleteSignatureShares
  <2>2. QED BY <1>0, <1>a, <2>1 DEF Moved, FlowState
<1>3. ASSUME NEW c \in {"wait1", "wait2", "wait3"}, NEW p, Advance(f, c, p),
             flow[f].pc \in {"fetched", "got1", "got2"}
      PROVE  Moved
  BY <1>0, <1>a, <1>3 DEF Advance, Moved, FlowState
<1>4. ASSUME Round1(f) \/ LocalRound2(f) \/ ExternalRound2(f)
             \/ LocalRound3(f) \/ ExternalRound3(f)
      PROVE  Moved
  BY <1>3, <1>4 DEF Round1, LocalRound2, ExternalRound2, LocalRound3, ExternalRound3
<1>5. CASE SendTxRequest(f) \/ Fail(f)
  BY <1>0, <1>a, <1>5 DEF SendTxRequest, Fail, Moved, FlowState
<1>6. QED BY <1>1, <1>2, <1>4, <1>5 DEF FlowStep

\* A flow that the server answers waits for that answer, and moves on.
LEMMA AnswerMoves ==
    ASSUME TypeOK, BoundToFetched, txRequest' \in TxRequest, NEW x \in posts, Answer(x)
    PROVE  Moved
<1>0. flow \in [Flow -> FlowState] /\ x.flow \in Flow
  BY DEF TypeOK, Share
<1>a. \A g \in Flow : flow[g].pc \notin {"idle", "clean", "failed"} =>
          flow[g].view \in View /\ flow[g].hash \in Hash
  BY DEF BoundToFetched
<1>1. CASE UNCHANGED flow
  BY <1>a, <1>1 DEF Moved
<1>2. ASSUME NEW v \in View, flow[x.flow].pc = Waits(x.round),
             flow' = [flow EXCEPT ![x.flow].pc = Got(x.round), ![x.flow].view = v]
      PROVE  Moved
  <2>1. Waits(x.round) \in {"wait1", "wait2", "wait3"}
    BY DEF Waits
  <2>2. Got(x.round) \in {"got1", "got2", "got3"}
    BY DEF Got
  <2>3. QED BY <1>0, <1>a, <1>2, <2>1, <2>2 DEF Moved, FlowState
<1>3. ViewOf(txRequest) \in View /\ ViewOf(txRequest') \in View
  BY DEF TypeOK, TxRequest, View, ViewOf
<1>4. QED BY <1>1, <1>2, <1>3 DEF Answer

LEMMA ServeMoves ==
    ASSUME TypeOK, TypeOK', BoundToFetched, NEW x \in posts, Serve(x)
    PROVE  Moved
<1>0. flow \in [Flow -> FlowState] /\ x.flow \in Flow /\ txRequest' \in TxRequest
  BY DEF TypeOK, Share
<1>a. \A g \in Flow : flow[g].pc \notin {"idle", "clean", "failed"} =>
          flow[g].view \in View /\ flow[g].hash \in Hash
  BY DEF BoundToFetched
<1>b. Waits(x.round) \in {"wait1", "wait2", "wait3"}
  BY DEF Waits
<1>1. CASE ServeRound1(x) \/ ServeRound2(x) \/ ServeRound3(x)
  BY <1>0, <1>1, AnswerMoves DEF ServeRound1, ServeRound2, ServeRound3
<1>2. CASE Refuse(x)
  BY <1>0, <1>a, <1>b, <1>2 DEF Refuse, Moved, FlowState
<1>3. CASE RateLimited(x)
  <2>1. CASE flow' = flow
    BY <1>a, <2>1 DEF Moved
  <2>2. CASE flow' = [flow EXCEPT ![x.flow].pc = "failed"] /\ flow[x.flow].pc = Waits(x.round)
    BY <1>0, <1>a, <1>b, <2>2 DEF Moved, FlowState
  <2>3. CASE flow' = [flow EXCEPT ![x.flow].attempts = @ + 1]
    BY <1>0, <1>a, <2>3 DEF Moved, FlowState
  <2>4. QED BY <1>3, <2>1, <2>2, <2>3 DEF RateLimited
<1>4. QED BY <1>1, <1>2, <1>3 DEF Serve

LEMMA Moves ==
    ASSUME TypeOK, TypeOK', BoundToFetched, [Next]_vars
    PROVE  Moved
<1>a. \A g \in Flow : flow[g].pc \notin {"idle", "clean", "failed"} =>
          flow[g].view \in View /\ flow[g].hash \in Hash
  BY DEF BoundToFetched
<1>1. CASE UNCHANGED flow
  BY <1>a, <1>1 DEF Moved
<1>2. CASE Next
  <2>1. ASSUME NEW v, \/ \E c, g \in round1 : RepeatRound2(c, g, v)
                      \/ \E c \in round2, g \in round1 : RepeatRound3(c, g, v)
        PROVE  UNCHANGED flow
    BY <2>1 DEF RepeatRound2, RepeatRound3
  <2>2. QED BY <1>1, <1>2, <2>1, FlowStepMoves, ServeMoves DEF Next
<1>3. QED BY <1>1, <1>2 DEF vars

\* What a flow was begun for stays so.
LEMMA BegunStays ==
    ASSUME Moved, NEW f \in Flow, NEW h, Begun(f, h)
    PROVE  Begun(f, h)'
  BY DEF Moved, Begun

\* A step that adds only what fits the flows keeps everything bound.
LEMMA BoundKept ==
    ASSUME TypeOK, BoundToFetched, Moved,
           \A c \in round1' \cup round2' :
               c \in round1 \cup round2 \/ (c.flow \in Flow /\ Begun(c.flow, c.hash)'),
           \A x \in posts' :
               x \in posts \/ (x.flow \in Flow /\ Begun(x.flow, x.hash)'),
           \A r \in released' :
               r \in released \/ r.from = "bitgo"
                 \/ (r.sid \in Flow /\ Begun(r.sid, r.hash)')
    PROVE  BoundToFetched'
<1>1. ASSUME NEW c \in round1' \cup round2' PROVE Begun(c.flow, c.hash)'
  <2>1. CASE c \in round1 \cup round2
    BY <2>1, BegunStays DEF BoundToFetched, TypeOK, Round1Session, Round2Session
  <2>2. QED BY <2>1
<1>2. ASSUME NEW x \in posts' PROVE Begun(x.flow, x.hash)'
  <2>1. CASE x \in posts
    BY <2>1, BegunStays DEF BoundToFetched, TypeOK, Share
  <2>2. QED BY <2>1
<1>3. ASSUME NEW r \in released', r.from = "user"
      PROVE  r.sid \in Flow /\ Begun(r.sid, r.hash)'
  <2>1. CASE r \in released
    BY <1>3, <2>1, BegunStays DEF BoundToFetched
  <2>2. QED BY <1>3, <2>1
<1>4. \A f \in Flow : flow'[f].pc \notin {"idle", "clean", "failed"} =>
          flow'[f].view \in View /\ flow'[f].hash \in Hash
  BY DEF Moved
<1>5. QED BY <1>1, <1>2, <1>3, <1>4 DEF BoundToFetched

LEMMA BoundStep == TypeOK /\ TypeOK' /\ BoundToFetched /\ [Next]_vars => BoundToFetched'
<1> SUFFICES ASSUME TypeOK, TypeOK', BoundToFetched, [Next]_vars
             PROVE  BoundToFetched'
  OBVIOUS
<1>0. Moved
  BY Moves
<1>1. CASE UNCHANGED <<posts, round1, round2, released>>
  BY <1>0, <1>1, BoundKept
<1>2. ASSUME NEW f \in Flow, Begun(f, flow[f].hash),
             \A c \in (round1' \cup round2') \ (round1 \cup round2) :
                 c.flow = f /\ c.hash = flow[f].hash,
             \A x \in posts' \ posts : x.flow = f /\ x.hash = flow[f].hash,
             \A r \in released' \ released : r.sid = f /\ r.hash = flow[f].hash
      PROVE  BoundToFetched'
  <2>1. Begun(f, flow[f].hash)'
    BY <1>0, <1>2 DEF Moved, Begun
  <2>2. PICK h : h = flow[f].hash
    OBVIOUS
  <2>3. Begun(f, h)'
    BY <1>0, <1>2, <2>2 DEF Moved, Begun
  <2>4. QED BY <1>0, <1>2, <2>2, <2>3, BoundKept
<1>3. ASSUME NEW f \in Flow, FlowStep(f) \/ DeleteSignatureShares(f) \/ Fail(f)
      PROVE  BoundToFetched'
  <2>1. CASE \/ GetTxRequest(f) \/ SendTxRequest(f) \/ DeleteSignatureShares(f)
             \/ Fail(f)
    BY <1>1, <2>1 DEF GetTxRequest, SendTxRequest, DeleteSignatureShares, Fail
  <2>2. CASE Round1(f)
    BY <1>2, <2>2 DEF Round1, Post, Begun
  <2>3. CASE LocalRound2(f)
    BY <1>2, <2>3 DEF LocalRound2, Post, Begun
  <2>4. CASE LocalRound3(f)
    BY <1>2, <2>4 DEF LocalRound3, Post, Begun, UserShare
  <2>5. CASE ExternalRound2(f)
    <3>1. flow[f].view.hash = flow[f].hash
      BY <2>5 DEF ExternalRound2, Round2Accepts, ValidAdata, BoundToFetched, Begun
    <3>2. QED BY <1>2, <2>5, <3>1 DEF ExternalRound2, Post, Begun
  <2>6. CASE ExternalRound3(f)
    <3>1. flow[f].view.hash = flow[f].hash
      BY <2>6 DEF ExternalRound3, Round3Accepts, ValidAdata, BoundToFetched, Begun
    <3>2. QED BY <1>2, <2>6, <3>1 DEF ExternalRound3, Post, Begun, UserShare
  <2>7. QED BY <1>3, <2>1, <2>2, <2>3, <2>4, <2>5, <2>6 DEF FlowStep
<1>4. ASSUME NEW v, NEW c \in round1, NEW g \in round1, RepeatRound2(c, g, v)
      PROVE  BoundToFetched'
  <2>1. c.flow \in Flow /\ Begun(c.flow, c.hash) /\ v.hash = c.hash
    BY <1>4 DEF TypeOK, Round1Session, BoundToFetched, RepeatRound2, Round2Accepts,
                ValidAdata
  <2>2. QED BY <1>2, <1>4, <2>1 DEF RepeatRound2, Begun
<1>5. ASSUME NEW v, NEW c \in round2, NEW g \in round1, RepeatRound3(c, g, v)
      PROVE  BoundToFetched'
  <2>1. c.flow \in Flow /\ Begun(c.flow, c.hash) /\ v.hash = c.hash
    BY <1>5 DEF TypeOK, Round2Session, BoundToFetched, RepeatRound3, Round3Accepts,
                ValidAdata
  <2>2. QED BY <1>2, <1>5, <2>1 DEF RepeatRound3, Begun, UserShare
<1>6. ASSUME NEW x \in posts, Serve(x) PROVE BoundToFetched'
  <2>1. posts' \subseteq posts /\ UNCHANGED <<round1, round2>>
    BY <1>6 DEF Serve, ServeRound1, ServeRound2, ServeRound3, Refuse, RateLimited, Take
  <2>2. \A r \in released' \ released : r.from = "bitgo"
    BY <1>6 DEF Serve, ServeRound1, ServeRound2, ServeRound3, Refuse, RateLimited,
                BitGoShare
  <2>3. QED BY <1>0, <2>1, <2>2, BoundKept
<1>7. QED
  BY <1>1, <1>3, <1>4, <1>5, <1>6 DEF Next, vars

----------------------------------------------------------------------------
(* The server's sessions and the shares behind the posts *)

\* Only the server makes shares in the server's name.
LEMMA OthersReleaseNothing ==
    ASSUME [Next]_vars, \A x \in posts : ~ServeRound2(x)
    PROVE  released \subseteq released' /\ \A r \in released' \ released : r.from = "user"
<1>1. CASE UNCHANGED released
  BY <1>1
<1>2. ASSUME NEW f, LocalRound3(f) \/ ExternalRound3(f)
      PROVE  released \subseteq released' /\ \A r \in released' \ released : r.from = "user"
  BY <1>2 DEF LocalRound3, ExternalRound3, UserShare
<1>3. ASSUME NEW c, NEW g, NEW v, RepeatRound3(c, g, v)
      PROVE  released \subseteq released' /\ \A r \in released' \ released : r.from = "user"
  BY <1>3 DEF RepeatRound3, UserShare
<1>4. ASSUME NEW f \in Flow, FlowStep(f) \/ DeleteSignatureShares(f) \/ Fail(f)
      PROVE  UNCHANGED released \/ LocalRound3(f) \/ ExternalRound3(f)
  BY <1>4 DEF FlowStep, GetTxRequest, Round1, LocalRound2, ExternalRound2,
              SendTxRequest, DeleteSignatureShares, Fail
<1>5. ASSUME NEW c, NEW g, NEW v, RepeatRound2(c, g, v)
      PROVE  UNCHANGED released
  BY <1>5 DEF RepeatRound2
<1>6. ASSUME NEW x \in posts, Serve(x) PROVE UNCHANGED released
  BY <1>6 DEF Serve, ServeRound1, ServeRound3, Refuse, RateLimited
<1>7. QED BY <1>1, <1>2, <1>3, <1>4, <1>5, <1>6 DEF Next, vars

LEMMA ServerStep == TypeOK /\ ServerBound /\ [Next]_vars => ServerBound'
<1> SUFFICES ASSUME TypeOK, ServerBound, [Next]_vars PROVE ServerBound'
  OBVIOUS
<1>1. CASE /\ session' \in {session, NoSession} /\ UNCHANGED opened
           /\ \A x \in posts : ~ServeRound2(x)
  <2>1. released \subseteq released' /\ \A r \in released' \ released : r.from = "user"
    BY <1>1, OthersReleaseNothing
  <2>2. QED BY <1>1, <2>1 DEF ServerBound, BitGoShare
<1>2. ASSUME NEW x \in posts, ServeRound1(x) PROVE ServerBound'
  <2>1. PICK b \in BitGoSid \ opened :
          /\ session' = [sid |-> b, peer |-> x.flow, hash |-> txRequest.hash, round |-> 1]
          /\ opened' = opened \cup {b}
    BY <1>2 DEF ServeRound1
  <2>2. UNCHANGED released
    BY <1>2 DEF ServeRound1
  <2>3. session'.sid = b /\ session'.round = 1
    BY <2>1
  <2> HIDE <2>1
  <2>4. opened' = opened \cup {b}
    BY <2>1
  <2>5. \A r \in released : r.from = "bitgo" => r.sid # b
    BY DEF ServerBound
  <2>6. QED BY <2>2, <2>3, <2>4, <2>5 DEF ServerBound
<1>3. ASSUME NEW x \in posts, ServeRound2(x) PROVE ServerBound'
  <2>1. /\ session \in Session /\ session.round = 1 /\ session.sid \in opened
    BY <1>3 DEF ServeRound2, InSession, TypeOK, ServerBound
  <2>2. /\ session' = [session EXCEPT !.round = 2] /\ UNCHANGED opened
        /\ released' = released \cup {BitGoShare(session)}
    BY <1>3 DEF ServeRound2
  <2>3. /\ session'.sid = session.sid /\ session'.round = 2
        /\ session'.peer = session.peer /\ session'.hash = session.hash
    BY <2>1, <2>2 DEF Session
  <2>4. \A r \in released : r.from = "bitgo" => r.sid # session.sid
    BY <1>3, <2>1 DEF ServerBound, ServeRound2, InSession
  <2>5. BitGoShare(session).sid = session.sid /\ BitGoShare(session') = BitGoShare(session)
    BY <2>3 DEF BitGoShare
  <2>6. session # NoSession
    BY <1>3 DEF ServeRound2, InSession
  <2>7. QED BY <2>1, <2>2, <2>3, <2>4, <2>5, <2>6 DEF ServerBound
<1>4. ASSUME NEW f \in Flow, FlowStep(f) \/ DeleteSignatureShares(f) \/ Fail(f)
      PROVE  session' \in {session, NoSession} /\ UNCHANGED opened
  BY <1>4 DEF FlowStep, GetTxRequest, Round1, LocalRound2, ExternalRound2, LocalRound3,
              ExternalRound3, SendTxRequest, DeleteSignatureShares, Fail
<1>5. ASSUME NEW c, NEW g, NEW v, RepeatRound2(c, g, v) \/ RepeatRound3(c, g, v)
      PROVE  session' \in {session, NoSession} /\ UNCHANGED opened
  BY <1>5 DEF RepeatRound2, RepeatRound3
<1>6. ASSUME NEW x \in posts, ServeRound3(x) \/ Refuse(x) \/ RateLimited(x)
      PROVE  session' \in {session, NoSession} /\ UNCHANGED opened
  BY <1>6 DEF ServeRound3, Refuse, RateLimited
<1>7. CASE \E x \in posts : ServeRound1(x) \/ ServeRound2(x)
  BY <1>2, <1>3, <1>7
<1>8. CASE ~\E x \in posts : ServeRound1(x) \/ ServeRound2(x)
  BY <1>1, <1>4, <1>5, <1>6, <1>8 DEF Next, Serve, vars
<1>9. QED BY <1>7, <1>8

\* Whatever is released stays released.
LEMMA ReleasedGrows == ASSUME [Next]_vars PROVE released \subseteq released'
<1>1. CASE \E x \in posts : ServeRound2(x)
  BY <1>1 DEF ServeRound2
<1>2. QED BY <1>1, OthersReleaseNothing

LEMMA PostsStep == TypeOK /\ PostsBacked /\ [Next]_vars => PostsBacked'
<1> SUFFICES ASSUME TypeOK, PostsBacked, [Next]_vars PROVE PostsBacked'
  OBVIOUS
<1>0. released \subseteq released'
  BY ReleasedGrows
<1>1. CASE posts' \subseteq posts
  BY <1>0, <1>1 DEF PostsBacked
<1>2. ASSUME NEW f \in Flow, NEW n \in {1, 2}, NEW p, NEW h, Post(f, n, p, h)
      PROVE  PostsBacked'
  BY <1>0, <1>2 DEF PostsBacked, Post
<1>3. ASSUME NEW f \in Flow, NEW p, NEW h, Post(f, 3, p, h),
             UserShare(f, p, h) \in released'
      PROVE  PostsBacked'
  BY <1>0, <1>3 DEF PostsBacked, Post
<1>4. ASSUME NEW f \in Flow, FlowStep(f) \/ DeleteSignatureShares(f) \/ Fail(f)
      PROVE  PostsBacked'
  <2>1. CASE Round1(f) \/ LocalRound2(f) \/ ExternalRound2(f)
    BY <1>2, <2>1 DEF Round1, LocalRound2, ExternalRound2
  <2>2. CASE LocalRound3(f) \/ ExternalRound3(f)
    BY <1>3, <2>2 DEF LocalRound3, ExternalRound3
  <2>3. CASE \/ GetTxRequest(f) \/ SendTxRequest(f) \/ DeleteSignatureShares(f)
             \/ Fail(f)
    BY <1>1, <2>3 DEF GetTxRequest, SendTxRequest, DeleteSignatureShares, Fail
  <2>4. QED BY <1>4, <2>1, <2>2, <2>3 DEF FlowStep
<1>5. ASSUME NEW c, NEW g, NEW v, RepeatRound2(c, g, v) \/ RepeatRound3(c, g, v)
      PROVE  posts' \subseteq posts
  BY <1>5 DEF RepeatRound2, RepeatRound3
<1>6. ASSUME NEW x \in posts, Serve(x) PROVE posts' \subseteq posts
  BY <1>6 DEF Serve, ServeRound1, ServeRound2, ServeRound3, Refuse, RateLimited, Take
<1>7. QED BY <1>1, <1>4, <1>5, <1>6 DEF Next, vars

----------------------------------------------------------------------------
(* Shares are posted and processed once *)

LEMMA OnceKept ==
    ASSUME TypeOK, PostedOnce, TakenUpOnce, posts' \subseteq posts,
           \A f \in Flow : Posted(flow'[f].pc) >= Posted(flow[f].pc),
           UNCHANGED served \/ \E x \in posts : Take(x)
    PROVE  PostedOnce' /\ TakenUpOnce'
<1>0. \A f \in Flow : Posted(flow[f].pc) \in 0..3 /\ Posted(flow'[f].pc) \in 0..3
  BY DEF Posted
<1>1. CASE UNCHANGED served
  BY <1>0, <1>1 DEF PostedOnce, TakenUpOnce, Untouched
<1>2. ASSUME NEW x \in posts, Take(x) PROVE PostedOnce' /\ TakenUpOnce'
  <2>1. x.flow \in Flow /\ x.round \in 1..3 /\ served[x.flow][x.round] = 0
    BY DEF TypeOK, Share, PostedOnce
  <2>2. \A f \in Flow, n \in 1..3 :
          served'[f][n] = IF f = x.flow /\ n = x.round THEN 1 ELSE served[f][n]
    BY <1>2, <2>1 DEF Take, TypeOK
  <2>3. \A y \in posts' : y \in posts /\ y \in Share
                            /\ ~(y.flow = x.flow /\ y.round = x.round)
    BY <1>2 DEF Take, PostedOnce, TypeOK
  <2>4. ASSUME NEW f \in Flow, NEW n \in 1..3, n > Posted(flow'[f].pc)
        PROVE  Untouched(f, n)'
    <3>1. Untouched(f, n)
      BY <1>0, <2>4 DEF PostedOnce
    <3>2. ~(f = x.flow /\ n = x.round)
      BY <3>1 DEF Untouched
    <3>3. QED BY <2>2, <3>1, <3>2 DEF Untouched
  <2>5. \A y \in posts' : served'[y.flow][y.round] = 0
    BY <2>2, <2>3 DEF PostedOnce, Share
  <2>6. \A f \in Flow, n \in 1..3 : served'[f][n] <= 1
    BY <2>2 DEF TakenUpOnce
  <2>7. QED BY <2>4, <2>5, <2>6 DEF PostedOnce, TakenUpOnce
<1>3. QED BY <1>1, <1>2

LEMMA PostOnce ==
    ASSUME TypeOK, PostedOnce, TakenUpOnce, NEW f \in Flow, NEW n \in 1..3,
           NEW p, NEW h, Post(f, n, p, h), UNCHANGED served,
           \A g \in Flow \ {f} : flow'[g] = flow[g],
           Posted(flow[f].pc) < n, Posted(flow'[f].pc) = n
    PROVE  PostedOnce' /\ TakenUpOnce'
<1> DEFINE z == [flow |-> f, round |-> n, peer |-> p, hash |-> h]
<1>0. \A g \in Flow : Posted(flow[g].pc) \in 0..3 /\ Posted(flow'[g].pc) \in 0..3
  BY DEF Posted
<1>1. posts' = posts \cup {z} /\ z.flow = f /\ z.round = n
  BY DEF Post
<1>2. Untouched(f, n)
  BY <1>0 DEF PostedOnce
<1> HIDE DEF z
<1>3. ASSUME NEW g \in Flow, NEW k \in 1..3, k > Posted(flow'[g].pc)
      PROVE  Untouched(g, k)'
  <2>1. Untouched(g, k)
    BY <1>0, <1>3 DEF PostedOnce
  <2>2. ~(g = f /\ k = n)
    BY <1>0, <1>3
  <2>3. QED BY <1>1, <2>1, <2>2 DEF Untouched
<1>4. \A x \in posts' : served'[x.flow][x.round] = 0
  BY <1>1, <1>2 DEF PostedOnce, Untouched
<1>5. \A x, y \in posts' : x.flow = y.flow /\ x.round = y.round => x = y
  BY <1>1, <1>2 DEF PostedOnce, Untouched
<1>6. QED BY <1>3, <1>4, <1>5 DEF PostedOnce, TakenUpOnce

LEMMA OnceStep ==
    TypeOK /\ PostedOnce /\ TakenUpOnce /\ [Next]_vars => PostedOnce' /\ TakenUpOnce'
<1> SUFFICES ASSUME TypeOK, PostedOnce, TakenUpOnce, [Next]_vars
             PROVE  PostedOnce' /\ TakenUpOnce'
  OBVIOUS
<1>0. flow \in [Flow -> FlowState] /\ \A c : Posted(c) \in 0..3
  BY DEF TypeOK, Posted
<1>1. CASE UNCHANGED <<flow, posts, served>>
  BY <1>0, <1>1, OnceKept
<1>2. ASSUME NEW f \in Flow, FlowStep(f) \/ DeleteSignatureShares(f) \/ Fail(f)
      PROVE  PostedOnce' /\ TakenUpOnce'
  <2>1. ASSUME NEW c, flow[f].pc = "fetched", NEW p, NEW q, NEW h, c = "wait1",
               Advance(f, c, q), Post(f, 1, p, h), UNCHANGED served
        PROVE  PostedOnce' /\ TakenUpOnce'
    <3>1. flow'[f].pc = "wait1" /\ \A g \in Flow \ {f} : flow'[g] = flow[g]
      BY <1>0, <2>1 DEF Advance, FlowState
    <3>2. Posted("fetched") = 0 /\ Posted("wait1") = 1
      BY DEF Posted
    <3>3. QED BY <2>1, <3>1, <3>2, PostOnce
  <2>2. ASSUME NEW c, flow[f].pc = "got1", NEW p, NEW q, NEW h, c = "wait2",
               Advance(f, c, q), Post(f, 2, p, h), UNCHANGED served
        PROVE  PostedOnce' /\ TakenUpOnce'
    <3>1. flow'[f].pc = "wait2" /\ \A g \in Flow \ {f} : flow'[g] = flow[g]
      BY <1>0, <2>2 DEF Advance, FlowState
    <3>2. Posted("got1") = 1 /\ Posted("wait2") = 2
      BY DEF Posted
    <3>3. QED BY <2>2, <3>1, <3>2, PostOnce
  <2>3. ASSUME NEW c, flow[f].pc = "got2", NEW p, NEW q, NEW h, c = "wait3",
               Advance(f, c, q), Post(f, 3, p, h), UNCHANGED served
        PROVE  PostedOnce' /\ TakenUpOnce'
    <3>1. flow'[f].pc = "wait3" /\ \A g \in Flow \ {f} : flow'[g] = flow[g]
      BY <1>0, <2>3 DEF Advance, FlowState
    <3>2. Posted("got2") = 2 /\ Posted("wait3") = 3
      BY DEF Posted
    <3>3. QED BY <2>3, <3>1, <3>2, PostOnce
  <2>4. ASSUME flow'[f].pc = "done" \/ flow'[f].pc = "failed"
                 \/ Posted(flow[f].pc) = 0,
               \A g \in Flow \ {f} : flow'[g] = flow[g],
               UNCHANGED <<posts, served>>
        PROVE  PostedOnce' /\ TakenUpOnce'
    <3>1. Posted("done") = 3 /\ Posted("failed") = 3
      BY DEF Posted
    <3>2. \A g \in Flow : Posted(flow'[g].pc) >= Posted(flow[g].pc)
      BY <1>0, <2>4, <3>1
    <3>3. QED BY <2>4, <3>2, OnceKept
  <2>5. CASE DeleteSignatureShares(f) \/ GetTxRequest(f)
    <3>1. Posted(flow[f].pc) = 0
      BY <2>5 DEF DeleteSignatureShares, GetTxRequest, Posted
    <3>2. /\ \A g \in Flow \ {f} : flow'[g] = flow[g]
          /\ UNCHANGED <<posts, served>>
      BY <1>0, <2>5 DEF DeleteSignatureShares, GetTxRequest
    <3>3. QED BY <2>4, <3>1, <3>2
  <2>7. CASE SendTxRequest(f) \/ Fail(f)
    <3>1. /\ flow'[f].pc \in {"done", "failed"}
          /\ \A g \in Flow \ {f} : flow'[g] = flow[g]
          /\ UNCHANGED <<posts, served>>
      BY <1>0, <2>7 DEF SendTxRequest, Fail, FlowState
    <3>2. QED BY <2>4, <3>1
  <2>8. CASE Round1(f)
    BY <2>1, <2>8 DEF Round1
  <2>9. CASE LocalRound2(f) \/ ExternalRound2(f)
    BY <2>2, <2>9 DEF LocalRound2, ExternalRound2
  <2>10. CASE LocalRound3(f) \/ ExternalRound3(f)
    BY <2>3, <2>10 DEF LocalRound3, ExternalRound3
  <2>11. QED BY <1>2, <2>5, <2>7, <2>8, <2>9, <2>10 DEF FlowStep
<1>3. ASSUME NEW c, NEW g, NEW v, RepeatRound2(c, g, v) \/ RepeatRound3(c, g, v)
      PROVE  UNCHANGED <<flow, posts, served>>
  BY <1>3 DEF RepeatRound2, RepeatRound3
<1>4. ASSUME NEW x \in posts, Serve(x) PROVE PostedOnce' /\ TakenUpOnce'
  <2>0. x.flow \in Flow /\ x.round \in 1..3
    BY DEF TypeOK, Share
  <2>1. Posted(Waits(x.round)) = Posted(Got(x.round)) /\ Posted("failed") = 3
    BY <2>0 DEF Posted, Waits, Got
  <2>2. \/ flow' = flow
        \/ \E c, v : /\ flow[x.flow].pc = Waits(x.round) /\ c \in {Got(x.round), "failed"}
                     /\ flow' = [flow EXCEPT ![x.flow].pc = c, ![x.flow].view = v]
        \/ \E c : /\ c = "failed" \/ c = flow[x.flow].pc
                  /\ flow' = [flow EXCEPT ![x.flow].pc = c]
        \/ flow' = [flow EXCEPT ![x.flow].attempts = @ + 1]
    BY <1>4 DEF Serve, ServeRound1, ServeRound2, ServeRound3, Answer, Refuse, RateLimited
  <2>3. \A g \in Flow : Posted(flow'[g].pc) >= Posted(flow[g].pc)
    <3>1. CASE flow' = flow \/ flow' = [flow EXCEPT ![x.flow].attempts = @ + 1]
      BY <1>0, <2>0, <3>1 DEF FlowState
    <3>2. ASSUME NEW c, flow' = [flow EXCEPT ![x.flow].pc = c],
                 c = "failed" \/ c = flow[x.flow].pc
          PROVE  \A g \in Flow : Posted(flow'[g].pc) >= Posted(flow[g].pc)
      BY <1>0, <2>0, <2>1, <3>2 DEF FlowState
    <3>3. ASSUME NEW c \in {Got(x.round), "failed"}, NEW v,
                 flow[x.flow].pc = Waits(x.round),
                 flow' = [flow EXCEPT ![x.flow].pc = c, ![x.flow].view = v]
          PROVE  \A g \in Flow : Posted(flow'[g].pc) >= Posted(flow[g].pc)
      BY <1>0, <2>0, <2>1, <3>3 DEF FlowState
    <3>4. QED BY <2>2, <3>1, <3>2, <3>3
  <2>4. posts' \subseteq posts /\ (UNCHANGED served \/ Take(x))
    BY <1>4 DEF Serve, ServeRound1, ServeRound2, ServeRound3, Refuse, RateLimited, Take
  <2>5. QED BY <2>3, <2>4, OnceKept
<1>5. QED BY <1>1, <1>2, <1>3, <1>4 DEF Next, vars

----------------------------------------------------------------------------
(* A flow past round 3 has a signature *)

LEMMA CombinedStep ==
    TypeOK /\ TypeOK' /\ BoundToFetched /\ CombinedAfterRound3 /\ [Next]_vars
      => CombinedAfterRound3'
<1> SUFFICES ASSUME TypeOK, TypeOK', BoundToFetched, CombinedAfterRound3, [Next]_vars
             PROVE  CombinedAfterRound3'
  OBVIOUS
<1>0. Moved /\ flow \in [Flow -> FlowState]
  BY Moves DEF TypeOK
<1>1. produced \subseteq produced'
  <2>1. ASSUME NEW f, FlowStep(f) \/ DeleteSignatureShares(f) \/ Fail(f)
        PROVE  UNCHANGED produced
    BY <2>1 DEF FlowStep, GetTxRequest, Round1, LocalRound2, ExternalRound2, LocalRound3,
                ExternalRound3, SendTxRequest, DeleteSignatureShares, Fail
  <2>2. ASSUME NEW c, NEW g, NEW v, RepeatRound2(c, g, v) \/ RepeatRound3(c, g, v)
        PROVE  UNCHANGED produced
    BY <2>2 DEF RepeatRound2, RepeatRound3
  <2>3. ASSUME NEW x, Serve(x) PROVE produced \subseteq produced'
    BY <2>3 DEF Serve, ServeRound1, ServeRound2, ServeRound3, Refuse, RateLimited
  <2>4. QED BY <2>1, <2>2, <2>3 DEF Next, vars
<1>2. ASSUME NEW f \in Flow, flow[f].pc \in {"got3", "done"} PROVE Combined(f)'
  <2>1. PICK g \in produced : g.peer = f /\ g.hash = flow[f].hash
    BY <1>2 DEF CombinedAfterRound3, Combined
  <2>2. flow'[f].hash = flow[f].hash
    BY <1>0, <1>2 DEF Moved
  <2>3. QED BY <1>1, <2>1, <2>2 DEF Combined
<1>3. CASE \A f \in Flow : flow'[f].pc \in {"got3", "done"} =>
                           flow[f].pc \in {"got3", "done"}
  BY <1>2, <1>3 DEF CombinedAfterRound3
<1>4. ASSUME NEW f \in Flow, FlowStep(f) \/ DeleteSignatureShares(f) \/ Fail(f)
      PROVE  \A g \in Flow : flow'[g].pc \in {"got3", "done"} =>
                             flow[g].pc \in {"got3", "done"}
  <2>1. ASSUME NEW c \in {"wait1", "wait2", "wait3"}, NEW p, Advance(f, c, p)
        PROVE  \A g \in Flow : flow'[g].pc \in {"got3", "done"} =>
                               flow[g].pc \in {"got3", "done"}
    BY <1>0, <2>1 DEF Advance, FlowState
  <2>2. CASE \/ Round1(f) \/ LocalRound2(f) \/ ExternalRound2(f)
             \/ LocalRound3(f) \/ ExternalRound3(f)
    BY <2>1, <2>2 DEF Round1, LocalRound2, ExternalRound2, LocalRound3, ExternalRound3
  <2>3. CASE GetTxRequest(f) \/ DeleteSignatureShares(f)
    <3>1. flow'[f].pc \in {"fetched", "clean"}
      <4>1. CASE GetTxRequest(f)
        <5>1. PICK v : flow' = [flow EXCEPT ![f].pc = "fetched", ![f].view = v,
                                            ![f].hash = v.hash]
          BY <4>1 DEF GetTxRequest
        <5>2. QED BY <1>0, <5>1 DEF FlowState
      <4>2. CASE DeleteSignatureShares(f)
        <5>1. flow' = [flow EXCEPT ![f].pc = "clean"]
          BY <4>2 DEF DeleteSignatureShares
        <5>2. QED BY <1>0, <5>1 DEF FlowState
      <4>3. QED BY <2>3, <4>1, <4>2
    <3>2. \A g \in Flow \ {f} : flow'[g] = flow[g]
      BY <1>0, <2>3 DEF GetTxRequest, DeleteSignatureShares
    <3>3. QED BY <3>1, <3>2
  <2>4. CASE SendTxRequest(f) \/ Fail(f)
    BY <1>0, <2>4 DEF SendTxRequest, Fail, FlowState
  <2>5. QED BY <1>4, <2>2, <2>3, <2>4 DEF FlowStep
<1>5. ASSUME NEW c, NEW g, NEW v, RepeatRound2(c, g, v) \/ RepeatRound3(c, g, v)
      PROVE  UNCHANGED flow
  BY <1>5 DEF RepeatRound2, RepeatRound3
<1>6. ASSUME NEW x \in posts, Serve(x) PROVE CombinedAfterRound3'
  <2>0. x.flow \in Flow /\ x.round \in 1..3
    BY DEF TypeOK, Share
  <2>1. CASE Refuse(x) \/ RateLimited(x)
    <3>1. \A g \in Flow : flow'[g].pc \in {"got3", "done"} =>
                          flow[g].pc \in {"got3", "done"}
      <4>1. flow'[x.flow].pc \in {flow[x.flow].pc, "failed"}
        BY <1>0, <2>0, <2>1 DEF Refuse, RateLimited, FlowState
      <4>2. \A g \in Flow \ {x.flow} : flow'[g] = flow[g]
        BY <1>0, <2>0, <2>1 DEF Refuse, RateLimited
      <4>3. QED BY <4>1, <4>2
    <3>2. QED BY <1>3, <3>1
  <2>2. CASE ServeRound1(x) \/ ServeRound2(x)
    <3>1. Got(x.round) \in {"got1", "got2"}
      BY <2>2 DEF ServeRound1, ServeRound2, Got
    <3>2. \A g \in Flow : flow'[g].pc \in {"got3", "done"} =>
                          flow[g].pc \in {"got3", "done"}
      <4>1. \/ flow' = flow
            \/ \E v : flow' = [flow EXCEPT ![x.flow].pc = Got(x.round),
                                          ![x.flow].view = v]
        BY <2>2 DEF ServeRound1, ServeRound2, Answer
      <4>2. flow' = flow \/ flow'[x.flow].pc = Got(x.round)
        BY <1>0, <2>0, <4>1 DEF FlowState
      <4>3. \A g \in Flow \ {x.flow} : flow'[g] = flow[g]
        BY <1>0, <2>0, <4>1
      <4>4. QED BY <3>1, <4>2, <4>3
    <3>3. QED BY <1>3, <3>2
  <2>3. CASE ServeRound3(x)
    <3>1. PICK g \in produced' : g.peer = x.flow /\ g.hash = x.hash
      <4>1. PICK w : w = [sid |-> session.sid, peer |-> session.peer,
                          hash |-> session.hash]
        OBVIOUS
      <4>2. w.peer = x.flow /\ w.hash = x.hash
        BY <2>3, <4>1 DEF ServeRound3, InSession
      <4>3. w \in produced'
        BY <2>3, <4>1 DEF ServeRound3
      <4>4. QED BY <4>2, <4>3
    <3>2. flow'[x.flow].hash = x.hash
      BY <1>0, <2>0 DEF BoundToFetched, Begun, Moved
    <3>3. Combined(x.flow)'
      BY <3>1, <3>2 DEF Combined
    <3>4. \A f \in Flow \ {x.flow} : flow'[f] = flow[f]
      BY <1>0, <2>0, <2>3 DEF ServeRound3, Answer
    <3>5. QED BY <1>2, <3>3, <3>4 DEF CombinedAfterRound3
  <2>4. QED BY <1>6, <2>1, <2>2, <2>3 DEF Serve
<1>7. QED BY <1>3, <1>4, <1>5, <1>6 DEF Next, vars

----------------------------------------------------------------------------
(* The theorems *)

LEMMA InvInit == Init => IInv
<1> SUFFICES ASSUME Init PROVE IInv
  OBVIOUS
<1>1. \A f \in Flow : flow[f].pc = "idle"
  BY DEF Init, NewFlow
<1>2. \A f \in Flow : \A n \in 1..3 : served[f][n] = 0
  BY DEF Init
<1>3. PostedOnce /\ TakenUpOnce
  BY <1>2 DEF Init, PostedOnce, Untouched, TakenUpOnce
<1>4. BoundToFetched /\ CombinedAfterRound3
  BY <1>1 DEF Init, BoundToFetched, CombinedAfterRound3
<1>5. QED BY <1>3, <1>4, TypeInit DEF Init, IInv, ServerBound, PostsBacked

LEMMA InvStep == IInv /\ [Next]_vars => IInv'
  BY TypeStep, BoundStep, ServerStep, PostsStep, OnceStep, CombinedStep DEF IInv

\* IInv is an invariant of the flows, the external signer and the server.
THEOREM Invariance == Spec => []IInv
  BY InvInit, InvStep, PTL DEF Spec

\* Every variable keeps its type.
THEOREM TypeCorrect == Spec => []TypeOK
<1>1. IInv => TypeOK
  BY DEF IInv
<1>2. QED BY <1>1, Invariance, PTL

\* A final share is on the transaction that its flow fetched.
THEOREM FetchedIsSigned == Spec => []SignsWhatItFetched
<1>1. IInv => SignsWhatItFetched
  BY DEF IInv, BoundToFetched, Begun, SignsWhatItFetched
<1>2. QED BY <1>1, Invariance, PTL

\* The server takes up a share at most once.
THEOREM OnceTaken == Spec => []TakenUpOnce
<1>1. IInv => TakenUpOnce
  BY DEF IInv
<1>2. QED BY <1>1, Invariance, PTL

\* A flow that is done signed the transaction it fetched.
THEOREM DoneSigned == Spec => []DoneMeansSigned
<1>1. IInv => DoneMeansSigned
  BY DEF IInv, CombinedAfterRound3, Combined, DoneMeansSigned
<1>2. QED BY <1>1, Invariance, PTL

----------------------------------------------------------------------------
(* Flows do not run in circles *)

LEMMA Stages ==
    /\ Stage["idle"] = 0 /\ Stage["clean"] = 1 /\ Stage["fetched"] = 2
    /\ Stage["wait1"] = 3 /\ Stage["got1"] = 4 /\ Stage["wait2"] = 5
    /\ Stage["got2"] = 6 /\ Stage["wait3"] = 7 /\ Stage["got3"] = 8
    /\ Stage["done"] = 9 /\ Stage["failed"] = 9
  BY DEF Stage

\* A step of a flow takes it to a later stage.
LEMMA FlowStepAdvances ==
    ASSUME TypeOK, NEW f \in Flow, FlowStep(f) \/ DeleteSignatureShares(f) \/ Fail(f)
    PROVE  Stage[flow'[f].pc] > Stage[flow[f].pc]
<1>0. flow \in [Flow -> FlowState] /\ flow[f].pc \in Pc
  BY DEF TypeOK, FlowState
<1>1. CASE GetTxRequest(f)
  <2>1. PICK v \in View : flow' = [flow EXCEPT ![f].pc = "fetched",
                                              ![f].view = v, ![f].hash = v.hash]
    BY <1>1, ViewType DEF GetTxRequest, TypeOK
  <2>2. flow'[f].pc = "fetched" /\ flow[f].pc \in {"idle", "clean"}
    BY <1>0, <1>1, <2>1 DEF GetTxRequest, FlowState
  <2>3. QED BY <2>2, Stages
<1>2. CASE DeleteSignatureShares(f)
  <2>1. flow'[f].pc = "clean" /\ flow[f].pc = "idle"
    BY <1>0, <1>2 DEF DeleteSignatureShares, FlowState
  <2>2. QED BY <2>1, Stages
<1>3. ASSUME NEW c, NEW p, Advance(f, c, p)
      PROVE  flow'[f].pc = c
  BY <1>0, <1>3 DEF Advance, FlowState
<1>4. CASE Round1(f)
  <2>1. flow[f].pc = "fetched" /\ flow'[f].pc = "wait1"
    BY <1>3, <1>4 DEF Round1
  <2>2. QED BY <2>1, Stages
<1>5. CASE LocalRound2(f) \/ ExternalRound2(f)
  <2>1. flow[f].pc = "got1" /\ flow'[f].pc = "wait2"
    BY <1>3, <1>5 DEF LocalRound2, ExternalRound2
  <2>2. QED BY <2>1, Stages
<1>6. CASE LocalRound3(f) \/ ExternalRound3(f)
  <2>1. flow[f].pc = "got2" /\ flow'[f].pc = "wait3"
    BY <1>3, <1>6 DEF LocalRound3, ExternalRound3
  <2>2. QED BY <2>1, Stages
<1>7. CASE SendTxRequest(f)
  <2>1. flow[f].pc = "got3" /\ flow'[f].pc \in {"done", "failed"}
    BY <1>0, <1>7 DEF SendTxRequest, FlowState
  <2>2. QED BY <2>1, Stages
<1>8. CASE Fail(f)
  <2>1. flow[f].pc \notin {"idle", "done", "failed"} /\ flow'[f].pc = "failed"
    BY <1>0, <1>8 DEF Fail, FlowState
  <2>2. QED BY <1>0, <2>1, Stages DEF Pc
<1>9. QED BY <1>1, <1>2, <1>4, <1>5, <1>6, <1>7, <1>8 DEF FlowStep

\* A share that the server has answered is no longer on its way.
LEMMA TakenIsGone ==
    ASSUME TypeOK, NEW x \in posts, posts' = posts \ {x}
    PROVE  /\ InFlight(x.flow)' \subseteq InFlight(x.flow)
           /\ InFlight(x.flow)' # InFlight(x.flow)
  BY DEF InFlight

\* Every answer of the server to a share of a flow advances it.
LEMMA ServeAdvances ==
    ASSUME TypeOK, NEW x \in posts, Serve(x)
    PROVE  Advances(x.flow)
<1> DEFINE f == x.flow
<1>0. /\ flow \in [Flow -> FlowState] /\ f \in Flow
      /\ flow[f].attempts \in 0..MaxAttempts
  BY DEF TypeOK, Share, FlowState
<1>1. /\ Waits(x.round) \in {"wait1", "wait2", "wait3"}
      /\ Stage[Got(x.round)] > Stage[Waits(x.round)]
      /\ Stage["failed"] > Stage[Waits(x.round)]
  BY Stages DEF Waits, Got
<1>2. CASE ServeRound1(x) \/ ServeRound2(x) \/ ServeRound3(x)
  <2>1. posts' = posts \ {x} /\ Answer(x)
    BY <1>2 DEF ServeRound1, ServeRound2, ServeRound3, Take
  <2>2. CASE UNCHANGED flow
    BY <2>1, <2>2, TakenIsGone DEF Advances
  <2>3. ASSUME NEW v, flow[f].pc = Waits(x.round),
               flow' = [flow EXCEPT ![f].pc = Got(x.round), ![f].view = v]
        PROVE  Advances(f)
    <3>1. flow'[f].pc = Got(x.round)
      BY <1>0, <2>3 DEF FlowState
    <3>2. QED BY <1>1, <2>3, <3>1 DEF Advances
  <2>4. QED BY <2>1, <2>2, <2>3 DEF Answer
<1>3. CASE Refuse(x)
  <2>1. posts' = posts \ {x}
    BY <1>3 DEF Refuse
  <2>2. flow'[f].pc = IF flow[f].pc = Waits(x.round) THEN "failed" ELSE flow[f].pc
    BY <1>0, <1>3 DEF Refuse, FlowState
  <2>3. QED BY <1>1, <2>1, <2>2, TakenIsGone DEF Advances
<1>4. CASE RateLimited(x)
  <2>1. CASE posts' = posts \ {x} /\ UNCHANGED flow
    BY <2>1, TakenIsGone DEF Advances
  <2>2. CASE /\ flow[f].pc = Waits(x.round)
             /\ flow' = [flow EXCEPT ![f].pc = "failed"]
    <3>1. flow'[f].pc = "failed"
      BY <1>0, <2>2 DEF FlowState
    <3>2. QED BY <1>1, <2>2, <3>1 DEF Advances
  <2>3. CASE flow' = [flow EXCEPT ![f].attempts = @ + 1] /\ UNCHANGED posts
    <3>1. flow'[f].pc = flow[f].pc /\ flow'[f].attempts = flow[f].attempts + 1
      BY <1>0, <2>3 DEF FlowState
    <3>2. flow'[f].attempts > flow[f].attempts
      BY <1>0, <3>1
    <3>3. QED BY <2>3, <3>1, <3>2 DEF Advances, InFlight
  <2>4. QED BY <1>4, <2>1, <2>2, <2>3 DEF RateLimited
<1>5. QED BY <1>2, <1>3, <1>4 DEF Serve

\* What the flow g does leaves another flow alone.
LEMMA OtherFlows ==
    ASSUME TypeOK, NEW f \in Flow, NEW g \in Flow \ {f},
           FlowStep(g) \/ DeleteSignatureShares(g) \/ Fail(g)
    PROVE  UNCHANGED <<flow[f], InFlight(f)>>
<1>0. flow \in [Flow -> FlowState]
  BY DEF TypeOK
<1>1. flow'[f] = flow[f]
  BY <1>0 DEF FlowStep, GetTxRequest, DeleteSignatureShares, Fail, SendTxRequest, Advance,
     Round1, LocalRound2, ExternalRound2, LocalRound3, ExternalRound3
<1>2. ASSUME NEW n, NEW p, NEW h, Post(g, n, p, h)
      PROVE  InFlight(f)' = InFlight(f)
  BY <1>2 DEF Post, InFlight
<1>3. ASSUME UNCHANGED posts
      PROVE  InFlight(f)' = InFlight(f)
  BY <1>3 DEF InFlight
<1>4. InFlight(f)' = InFlight(f)
  BY <1>2, <1>3 DEF FlowStep, GetTxRequest, DeleteSignatureShares, Fail, SendTxRequest,
     Round1, LocalRound2, ExternalRound2, LocalRound3, ExternalRound3
<1>5. QED BY <1>1, <1>4

\* The server's answer to a share leaves the flows of other shares alone.
LEMMA OtherShares ==
    ASSUME TypeOK, NEW f \in Flow, NEW x \in posts, x.flow # f, Serve(x)
    PROVE  UNCHANGED <<flow[f], InFlight(f)>>
<1>0. flow \in [Flow -> FlowState] /\ x.flow \in Flow
  BY DEF TypeOK, Share
<1>1. flow'[f] = flow[f]
  <2>1. ASSUME Answer(x)
        PROVE  flow'[f] = flow[f]
    BY <1>0, <2>1 DEF Answer
  <2>2. QED BY <1>0, <2>1 DEF Serve, ServeRound1, ServeRound2, ServeRound3, Refuse, RateLimited
<1>2. posts' \in {posts, posts \ {x}}
  BY DEF Serve, ServeRound1, ServeRound2, ServeRound3, Take, Refuse, RateLimited
<1>3. QED BY <1>1, <1>2 DEF InFlight

\* No flow runs in circles: every step of it and every answer to it takes it to
\* a later stage, or one of its shares off the network, or uses up one of the
\* attempts of a share; whatever other flows, callers of the external signer and
\* the server do.
THEOREM FlowsDoAdvance == Spec => FlowsAdvance
<1>1. ASSUME TypeOK, [Next]_vars
      PROVE  [\A f \in Flow :
                IF StepOf(f) THEN Advances(f) ELSE UNCHANGED <<flow[f], InFlight(f)>>]_vars
  <2>1. SUFFICES ASSUME Next, NEW f \in Flow
                 PROVE  IF StepOf(f) THEN Advances(f) ELSE UNCHANGED <<flow[f], InFlight(f)>>
    BY <1>1
  <2>2. StepOf(f) => Advances(f)
    BY <1>1, FlowStepAdvances, ServeAdvances DEF StepOf, InFlight, Advances
  <2>3. ASSUME ~StepOf(f)
        PROVE  UNCHANGED <<flow[f], InFlight(f)>>
    <3>1. CASE \E g \in Flow : FlowStep(g) \/ DeleteSignatureShares(g) \/ Fail(g)
      BY <1>1, <2>3, <3>1, OtherFlows DEF StepOf
    <3>2. CASE \E x \in posts : Serve(x)
      BY <1>1, <2>3, <3>2, OtherShares DEF StepOf, InFlight
    <3>3. ASSUME NEW v, \/ \E c, g \in round1 : RepeatRound2(c, g, v)
                        \/ \E c \in round2, g \in round1 : RepeatRound3(c, g, v)
          PROVE  UNCHANGED <<flow[f], InFlight(f)>>
      <4>1. UNCHANGED <<flow, posts>>
        BY <3>3 DEF RepeatRound2, RepeatRound3
      <4>2. QED BY <4>1 DEF InFlight
    <3>4. QED BY <2>1, <3>1, <3>2, <3>3 DEF Next
  <2>4. QED BY <2>2, <2>3
<1>2. QED BY <1>1, TypeCorrect, PTL DEF Spec, FlowsAdvance

----------------------------------------------------------------------------
(* Refinement *)

\* The final shares of one session are alike: a flow's are on what it fetched,
\* and a server session makes only one.
Alike == \A q, r \in released : q.sid = r.sid => q.hash = r.hash /\ q.from = r.from

LEMMA SharesAlike == IInv => Alike
<1> SUFFICES ASSUME IInv, NEW q \in released, NEW r \in released, q.sid = r.sid
             PROVE  q.hash = r.hash /\ q.from = r.from
  BY DEF Alike
<1>1. /\ q.from \in {"user", "bitgo"} /\ r.from \in {"user", "bitgo"}
      /\ opened \subseteq BitGoSid
  BY DEF IInv, TypeOK, FinalShare
<1>2. /\ q.from = "user" => q.sid \in Flow /\ q.hash = flow[q.sid].hash
      /\ r.from = "user" => r.sid \in Flow /\ r.hash = flow[r.sid].hash
  BY DEF IInv, BoundToFetched, Begun
<1>3. /\ q.from = "bitgo" => q.sid \in opened
      /\ r.from = "bitgo" => r.sid \in opened
  BY DEF IInv, ServerBound
<1>4. q.from = "bitgo" /\ r.from = "bitgo" => q.hash = r.hash
  BY DEF IInv, ServerBound
<1>5. QED BY <1>1, <1>2, <1>3, <1>4

\* A step that adds a final share is a release of the agreement.
LEMMA ReleaseRefines ==
    ASSUME IInv', UNCHANGED produced, NEW r, released' = released \cup {r}
    PROVE  Agreement!Next
<1>1. r \in Agreement!Share
  BY DEF IInv, TypeOK, FinalShare, Agreement!Share
<1>2. \A x \in released : x.sid = r.sid => x.hash = r.hash /\ x.from = r.from
  <2>1. Alike'
    BY SharesAlike, PTL
  <2>2. QED BY <2>1 DEF Alike
<1>3. Agreement!Release(r)
  BY <1>2 DEF Agreement!Release
<1>4. QED BY <1>1, <1>3 DEF Agreement!Next

\* The server combines the flow's final share with its own.
LEMMA ProduceRefines ==
    ASSUME IInv, NEW x \in posts, ServeRound3(x)
    PROVE  Agreement!Next
<1>1. PICK g : g = [sid |-> session.sid, peer |-> session.peer, hash |-> session.hash]
  OBVIOUS
<1>2. /\ session # NoSession /\ session.round = 2 /\ x.round = 3
      /\ session.sid = x.peer /\ session.peer = x.flow /\ session.hash = x.hash
      /\ produced' = produced \cup {g} /\ UNCHANGED released
  BY <1>1 DEF ServeRound3, InSession
<1>3. PICK a \in released : /\ a.from = "bitgo" /\ a.sid = session.sid
                            /\ a.peer = session.peer /\ a.hash = session.hash
  <2>1. BitGoShare(session) \in released
    BY <1>2 DEF IInv, ServerBound
  <2>2. /\ BitGoShare(session).from = "bitgo"
        /\ BitGoShare(session).sid = session.sid
        /\ BitGoShare(session).peer = session.peer
        /\ BitGoShare(session).hash = session.hash
    BY DEF BitGoShare
  <2>3. QED BY <2>1, <2>2
<1>4. PICK b \in released : /\ b.from = "user" /\ b.sid = x.flow
                            /\ b.peer = x.peer /\ b.hash = x.hash
  <2>1. UserShare(x.flow, x.peer, x.hash) \in released
    BY <1>2 DEF IInv, PostsBacked
  <2>2. /\ UserShare(x.flow, x.peer, x.hash).from = "user"
        /\ UserShare(x.flow, x.peer, x.hash).sid = x.flow
        /\ UserShare(x.flow, x.peer, x.hash).peer = x.peer
        /\ UserShare(x.flow, x.peer, x.hash).hash = x.hash
    BY DEF UserShare
  <2>3. QED BY <2>1, <2>2
<1>5. g \in Agreement!Sig
  <2>1. session \in Session
    BY <1>2 DEF IInv, TypeOK
  <2>2. QED BY <1>1, <2>1 DEF Session, Agreement!Sig
<1>6. g.sid = session.sid /\ g.peer = session.peer /\ g.hash = session.hash
  BY <1>1
<1>7. Agreement!Produce(g)
  BY <1>2, <1>3, <1>4, <1>6 DEF Agreement!Produce
<1>8. QED BY <1>5, <1>7 DEF Agreement!Next

\* Every step of the flows and the server is a step of the agreement or a stutter.
LEMMA StepRefines ==
    IInv /\ IInv' /\ [Next]_vars => [Agreement!Next]_<<released, produced>>
<1> SUFFICES ASSUME IInv, IInv', [Next]_vars
             PROVE  Agreement!Next \/ UNCHANGED <<released, produced>>
  OBVIOUS
<1>1. ASSUME NEW f, LocalRound3(f) \/ ExternalRound3(f)
      PROVE  Agreement!Next
  <2>1. UNCHANGED produced /\ \E r : released' = released \cup {r}
    BY <1>1 DEF LocalRound3, ExternalRound3
  <2>2. QED BY <2>1, ReleaseRefines
<1>2. ASSUME NEW c, NEW g, NEW v, RepeatRound3(c, g, v)
      PROVE  Agreement!Next
  <2>1. UNCHANGED produced /\ \E r : released' = released \cup {r}
    BY <1>2 DEF RepeatRound3
  <2>2. QED BY <2>1, ReleaseRefines
<1>3. ASSUME NEW x, ServeRound2(x) PROVE Agreement!Next
  <2>1. UNCHANGED produced /\ \E r : released' = released \cup {r}
    BY <1>3 DEF ServeRound2
  <2>2. QED BY <2>1, ReleaseRefines
<1>4. ASSUME NEW f, FlowStep(f) \/ DeleteSignatureShares(f) \/ Fail(f)
      PROVE  Agreement!Next \/ UNCHANGED <<released, produced>>
  <2>1. CASE LocalRound3(f) \/ ExternalRound3(f)
    BY <1>1, <2>1
  <2>2. CASE ~(LocalRound3(f) \/ ExternalRound3(f))
    BY <1>4, <2>2 DEF FlowStep, GetTxRequest, Round1, LocalRound2, ExternalRound2,
                      SendTxRequest, DeleteSignatureShares, Fail
  <2>3. QED BY <2>1, <2>2
<1>5. ASSUME NEW c, NEW g, NEW v, RepeatRound2(c, g, v)
      PROVE  UNCHANGED <<released, produced>>
  BY <1>5 DEF RepeatRound2
<1>6. ASSUME NEW x \in posts, Serve(x)
      PROVE  Agreement!Next \/ UNCHANGED <<released, produced>>
  <2>1. CASE ServeRound1(x) \/ Refuse(x) \/ RateLimited(x)
    BY <2>1 DEF ServeRound1, Refuse, RateLimited
  <2>2. QED BY <1>3, <1>6, <2>1, ProduceRefines DEF Serve
<1>7. CASE UNCHANGED vars
  BY <1>7 DEF vars
<1>8. QED BY <1>2, <1>4, <1>5, <1>6, <1>7 DEF Next

\* The flows, the external signer and the server implement the signing
\* agreement, whatever is rebuilt, replayed, lost or tried again.
THEOREM Refinement == Spec => ImplementsAgreement
<1>1. Init => Agreement!Init
  BY DEF Init, Agreement!Init
<1>2. QED BY <1>1, StepRefines, Invariance, PTL DEF Spec, Agreement!Spec, ImplementsAgreement

=============================================================================
