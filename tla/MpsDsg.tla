------------------------------- MODULE MpsDsg -------------------------------
(***************************************************************************)
(* The EdDSA distributed-signing object `DSG` of                           *)
(* sdk-lib-mpc/src/tss/eddsa-mps/dsg.ts.  Two of three parties sign; every *)
(* party owns one object, which its caller may initialize again at any     *)
(* time, drop, export and restore from any earlier export.  Every message  *)
(* ever emitted may be handed over, late, twice, out of order or never.    *)
(*                                                                         *)
(* Unlike the ECDSA object (Dsg), the message is chosen by initDsg and is  *)
(* part of the round state that the WASM functions return, the state       *)
(* travels in the export, and a call that throws changes nothing.  Both    *)
(* initDsg and restoreSession check their guards after the await, so each  *)
(* is one step.  The WASM functions are external: a session is known by    *)
(* `sid`, pairs in round 1 with the session `peer`, and is refused in      *)
(* round 2 when the two signers have different messages.  A hash stands    *)
(* for the message with its derivation path.                               *)
(***************************************************************************)
EXTENDS Naturals, FiniteSets

CONSTANTS
    Party,      \* the signers
    Hash,       \* what they may be asked to sign
    Sid,        \* sessions that may be created
    NoSid, NoHash, NoParty, NoSession, NoSignature,
    MaxSaved,   \* bound: exports that a party keeps
    Careless    \* parties whose caller restarts, initializes again, restores

ASSUME SavedAssumption == MaxSaved \in Nat
ASSUME CarelessAssumption == Careless \subseteq Party
ASSUME NoValuesAssumption ==
    NoSid \notin Sid /\ NoHash \notin Hash /\ NoParty \notin Party

VARIABLES
    dsg,        \* the DSG object of every party
    saved,      \* the exported sessions of every party
    sent,       \* every message emitted so far
    signatures  \* history: every signature an object has produced

vars == <<dsg, saved, sent, signatures>>

----------------------------------------------------------------------------
(* Values *)

DsgState == {"Uninitialized", "Init", "WaitMsg1", "WaitMsg2", "WaitMsg3", "Complete"}

\* dsgStateBytes: what the WASM functions keep between rounds.
Session == [sid : Sid, peer : Sid \cup {NoSid}, hash : Hash]
Message == [from : Party, round : 1..3, sid : Sid, peer : Sid \cup {NoSid}, hash : Hash]
Signature == [sid : Sid, peer : Sid \cup {NoSid}, hash : Hash]

ASSUME NoSessionAssumption == NoSession \notin Session
ASSUME NoSignatureAssumption == NoSignature \notin Signature

DsgObject == [dsgState : DsgState, message : Hash \cup {NoHash},
              other : Party \cup {NoParty}, bytes : Session \cup {NoSession},
              signature : Signature \cup {NoSignature}]
Saved == [bytes : Session, round : {"WaitMsg1", "WaitMsg2", "WaitMsg3"},
          message : Hash, other : Party]

NewDsg == [dsgState |-> "Uninitialized", message |-> NoHash, other |-> NoParty,
           bytes |-> NoSession, signature |-> NoSignature]

Waiting == {"WaitMsg1", "WaitMsg2", "WaitMsg3"}
RoundOf(state) == CASE state = "WaitMsg1" -> 1 [] state = "WaitMsg2" -> 2 [] OTHER -> 3

MessageOf(p, s, n) ==
    [from |-> p, round |-> n, sid |-> s.sid, peer |-> s.peer, hash |-> s.hash]

----------------------------------------------------------------------------
(* The WASM functions *)

\* Mutants of Accepts: a message of another pair of sessions is taken; signers
\* with different messages go on.
AcceptsAny(s, n, m) == m.round = n
AcceptsOtherMessage(s, n, m) ==
    /\ m.round = n
    /\ n > 1 => m.sid = s.peer /\ m.peer = s.sid

\* The counterpart's message fits the session; from round 2 on it is of the
\* same pair of sessions and on the same message.
Accepts(s, n, m) ==
    /\ m.round = n
    /\ n > 1 => m.sid = s.peer /\ m.peer = s.sid /\ m.hash = s.hash

----------------------------------------------------------------------------
(* The methods of DSG *)

\* initDsg() has no guard on the state: it starts over, and neither drops the
\* round state nor a signature.
InitDsg(p, q, h) ==
    /\ q # p
    /\ dsg[p].dsgState = "Uninitialized" \/ p \in Careless
    /\ dsg' = [dsg EXCEPT ![p].message = h, ![p].other = q, ![p].dsgState = "Init"]
    /\ UNCHANGED <<saved, sent, signatures>>

\* getFirstMessage(): a new session on the message that initDsg got.
GetFirstMessage(p) ==
    /\ dsg[p].dsgState = "Init"
    /\ \E i \in Sid \ {m.sid : m \in sent} :
        LET s == [sid |-> i, peer |-> NoSid, hash |-> dsg[p].message]
        IN  /\ dsg' = [dsg EXCEPT ![p].bytes = s, ![p].dsgState = "WaitMsg1"]
            /\ sent' = sent \cup {MessageOf(p, s, 1)}
    /\ UNCHANGED <<saved, signatures>>

\* handleIncomingMessages takes the message of the one counterpart.
Deliverable(p, m) ==
    /\ dsg[p].dsgState \in Waiting
    /\ m.from # p /\ m.from = dsg[p].other
    /\ Accepts(dsg[p].bytes, RoundOf(dsg[p].dsgState), m)

\* In WaitMsg1 the session pairs with the counterpart's.
HandleRound1(p, m) ==
    /\ dsg[p].dsgState = "WaitMsg1" /\ Deliverable(p, m)
    /\ LET s == [dsg[p].bytes EXCEPT !.peer = m.sid]
       IN  /\ dsg' = [dsg EXCEPT ![p].bytes = s, ![p].dsgState = "WaitMsg2"]
           /\ sent' = sent \cup {MessageOf(p, s, 2)}
    /\ UNCHANGED <<saved, signatures>>

\* In WaitMsg2 the final share is made.
HandleRound2(p, m) ==
    /\ dsg[p].dsgState = "WaitMsg2" /\ Deliverable(p, m)
    /\ dsg' = [dsg EXCEPT ![p].dsgState = "WaitMsg3"]
    /\ sent' = sent \cup {MessageOf(p, dsg[p].bytes, 3)}
    /\ UNCHANGED <<saved, signatures>>

\* In WaitMsg3 the two final shares are combined.
HandleRound3(p, m) ==
    /\ dsg[p].dsgState = "WaitMsg3" /\ Deliverable(p, m)
    /\ LET s == dsg[p].bytes
           g == [sid |-> s.sid, peer |-> s.peer, hash |-> s.hash]
       IN  /\ dsg' = [dsg EXCEPT ![p].signature = g, ![p].bytes = NoSession,
                                 ![p].dsgState = "Complete"]
           /\ signatures' = signatures \cup {g}
    /\ UNCHANGED <<saved, sent>>

\* getSession(): only while the object waits for a message.
GetSession(p) ==
    /\ p \in Careless
    /\ dsg[p].dsgState \in Waiting
    /\ Cardinality(saved[p]) < MaxSaved
    /\ saved' = [saved EXCEPT ![p] = @ \cup
         {[bytes |-> dsg[p].bytes, round |-> dsg[p].dsgState,
           message |-> dsg[p].message, other |-> dsg[p].other]}]
    /\ UNCHANGED <<dsg, sent, signatures>>

\* Mutant of RestoreSession: the message of the object stays.
RestoreBytes(p) ==
    /\ p \in Careless
    /\ \E v \in saved[p] :
        dsg' = [dsg EXCEPT ![p].bytes = v.bytes, ![p].dsgState = v.round,
                           ![p].other = v.other]
    /\ UNCHANGED <<saved, sent, signatures>>

\* restoreSession() into an object in any state; an old signature stays.
RestoreSession(p) ==
    /\ p \in Careless
    /\ \E v \in saved[p] :
        dsg' = [dsg EXCEPT ![p].bytes = v.bytes, ![p].dsgState = v.round,
                           ![p].message = v.message, ![p].other = v.other]
    /\ UNCHANGED <<saved, sent, signatures>>

\* getSignature(): the field as it is, whatever the state; NoSignature stands
\* for the exception when it is not set.
GetSignature(p) == dsg[p].signature

\* The process restarts: a new object.
Restart(p) ==
    /\ p \in Careless
    /\ dsg' = [dsg EXCEPT ![p] = NewDsg]
    /\ UNCHANGED <<saved, sent, signatures>>

----------------------------------------------------------------------------
Init ==
    /\ dsg = [p \in Party |-> NewDsg]
    /\ saved = [p \in Party |-> {}]
    /\ sent = {}
    /\ signatures = {}

HandleIncomingMessages(p, m) == HandleRound1(p, m) \/ HandleRound2(p, m) \/ HandleRound3(p, m)

Next ==
    \E p \in Party :
        \/ \E q \in Party, h \in Hash : InitDsg(p, q, h)
        \/ GetFirstMessage(p)
        \/ \E m \in sent : HandleIncomingMessages(p, m)
        \/ GetSession(p) \/ RestoreSession(p) \/ Restart(p)

Spec == Init /\ [][Next]_vars
----------------------------------------------------------------------------
(* Properties *)

\* Every variable has its type.
TypeOK ==
    /\ dsg \in [Party -> DsgObject]
    /\ saved \in [Party -> SUBSET Saved]
    /\ sent \subseteq Message
    /\ signatures \subseteq Signature

\* The signature of p is on the message that its object was last initialized or
\* restored with, and the counterpart that its caller has named has released
\* its share for it.
SignsItsMessage(p) ==
    /\ GetSignature(p) # NoSignature
    /\ GetSignature(p).hash = dsg[p].message
    /\ \E m \in sent :
        /\ m.round = 3 /\ m.from = dsg[p].other
        /\ m.sid = GetSignature(p).peer /\ m.peer = GetSignature(p).sid

\* What getSignature returns changes in two ways only: the object is replaced,
\* or it becomes Complete with a signature on the message that it was last
\* initialized or restored with.  In between, initDsg and restoreSession on
\* other messages included, it stays what it was.
NewSignatureIsOfItsMessage ==
    [][\A p \in Party : GetSignature(p)' # GetSignature(p) =>
        \/ dsg'[p] = NewDsg
        \/ dsg'[p].dsgState = "Complete" /\ SignsItsMessage(p)']_vars

\* The comment on getSignature, dsg.ts:239: "Only available once the protocol
\* reaches `Complete`."  The code tests only whether a signature is set.
SignatureOnlyInComplete ==
    \A p \in Party : GetSignature(p) # NoSignature => dsg[p].dsgState = "Complete"

\* A final share leaves a party only after the counterpart, in the same pair
\* of sessions, has shown that it signs the same message.
FinalShareNeedsPeer ==
    \A m \in sent : m.round = 3 =>
        \E n \in sent : /\ n.round = 2 /\ n.from # m.from
                        /\ n.sid = m.peer /\ n.peer = m.sid /\ n.hash = m.hash

----------------------------------------------------------------------------
(* Refinement: the final shares are the messages of round 3. *)
FinalShares ==
    {[from |-> m.from, sid |-> m.sid, peer |-> m.peer, hash |-> m.hash] :
        m \in {x \in sent : x.round = 3}}

Agreement == INSTANCE SigningAgreement WITH
    released <- FinalShares, produced <- signatures

\* The objects implement the agreement: see SigningAgreement.
ImplementsAgreement == Agreement!Spec

----------------------------------------------------------------------------
(* The inductive invariant behind the safety properties *)

\* A session belongs to one party and is on one message.
SidOwned == \A m, n \in sent : m.sid = n.sid => m.from = n.from /\ m.hash = n.hash

\* The round state s of party p in a state is the one behind its last message.
Backed(p, s, state, h, q) ==
    /\ s \in Session /\ s.hash = h /\ q \in Party \ {p}
    /\ MessageOf(p, s, RoundOf(state)) \in sent
    /\ state # "WaitMsg1" => s.peer \in Sid

ObjectBacked(p) ==
    /\ dsg[p].dsgState \in Waiting =>
        Backed(p, dsg[p].bytes, dsg[p].dsgState, dsg[p].message, dsg[p].other)
    /\ dsg[p].dsgState = "Init" => dsg[p].message \in Hash /\ dsg[p].other \in Party \ {p}
    /\ \A v \in saved[p] : Backed(p, v.bytes, v.round, v.message, v.other)

\* A complete object has signed its message.
Signed(p) == dsg[p].dsgState = "Complete" => SignsItsMessage(p)

\* A signature has both final shares behind it.
BothShares(g) ==
    \E m, n \in sent :
        /\ m.round = 3 /\ n.round = 3 /\ m.from # n.from
        /\ m.sid = g.sid /\ m.peer = g.peer /\ n.sid = g.peer /\ n.peer = g.sid
        /\ m.hash = g.hash /\ n.hash = g.hash
SignaturesBacked == \A g \in signatures : BothShares(g)

\* The part that is about messages and signatures only.
MessagesInv == SidOwned /\ FinalShareNeedsPeer /\ SignaturesBacked

IInv ==
    /\ TypeOK
    /\ MessagesInv
    /\ \A p \in Party : ObjectBacked(p)
    /\ \A p \in Party : Signed(p)

============================================================================
