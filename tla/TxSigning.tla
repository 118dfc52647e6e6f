----------------------------- MODULE TxSigning -----------------------------
(***************************************************************************)
(* How sdk-core signs a transaction request with the BitGo server over     *)
(* three rounds (MPCv2): signRequestBase of utils/tss/ecdsa/ecdsaMPCv2.ts, *)
(* which keeps its Dsg object in memory, and                               *)
(* signEcdsaMPCv2TssUsingExternalSigner, which hands every round to an     *)
(* external signer (createOfflineRound1/2/3Share).  That signer keeps      *)
(* nothing: its session comes back to it encrypted, and may come back      *)
(* again, with any transaction request the server ever returned.           *)
(*                                                                         *)
(* Several flows may work on one request: each of them may delete the      *)
(* signature shares first, after which the server may rebuild the          *)
(* transaction.  A flow runs round 1 once, so it also names the signing    *)
(* session and the GPG key which that round creates.                       *)
(*                                                                         *)
(* A hash stands for the message hash with the derivation path, which is   *)
(* what the additional data of the encryption consists of.  The server is  *)
(* external, and so is the WASM session: see Dsg for the latter.           *)
(***************************************************************************)
EXTENDS Naturals, FiniteSets

CONSTANTS
    Flow,         \* the runs of the signing functions
    External,     \* those of them that use the external signer
    Hash,         \* what the transaction of the request may hash to
    BitGoSid,     \* the server's signing sessions
    NoHash, NoOutput, NoSession, NoPeer,
    MaxAttempts,  \* maxAttempts of sendSignatureShareV2
    MaxFlows      \* bound of the model: flows that begin

ASSUME FlowAssumption == External \subseteq Flow
ASSUME AttemptsAssumption == MaxAttempts \in Nat /\ MaxFlows \in Nat
ASSUME SidAssumption == Flow \cap BitGoSid = {}

VARIABLES
    txRequest,  \* the server's request: hash, last signature share, signed, sent
    session,    \* the server's signing session for the request
    opened,     \* the server's sessions so far
    flow,       \* the local variables of every flow
    posts,      \* signature shares on their way to the server
    served,     \* history: how often the server took up a share
    seen,       \* every transaction request the server returned
    round1,     \* every encryptedRound1Session, with its encryptedUserGpgPrvKey
    round2,     \* every encryptedRound2Session the external signer made
    released,   \* history: final shares made by either side
    produced    \* history: signatures

vars == <<txRequest, session, opened, flow, posts, served, seen, round1,
          round2, released, produced>>

----------------------------------------------------------------------------
(* Values *)

Output == [type : {"round1Output", "round2Output"}, sid : BitGoSid, peer : Flow]
View == [hash : Hash, last : Output \cup {NoOutput}]
TxRequest == [hash : Hash, last : Output \cup {NoOutput},
              signed : BOOLEAN, sent : BOOLEAN]
Session == [sid : BitGoSid, peer : Flow, hash : Hash, round : 1..2]
Share == [flow : Flow, round : 1..3, peer : BitGoSid \cup {NoPeer}, hash : Hash]
FinalShare == [from : {"user", "bitgo"}, sid : Flow \cup BitGoSid,
               peer : Flow \cup BitGoSid, hash : Hash]
Signature == [sid : BitGoSid, peer : Flow, hash : Hash]
Round1Session == [flow : Flow, hash : Hash]
Round2Session == [flow : Flow, peer : BitGoSid, hash : Hash]

Pc == {"idle", "clean", "fetched", "wait1", "got1", "wait2", "got2",
       "wait3", "got3", "done", "failed"}
FlowState == [pc : Pc, hash : Hash \cup {NoHash}, view : View \cup {NoOutput},
              peer : BitGoSid \cup {NoPeer}, attempts : 0..MaxAttempts]

ASSUME NoValuesAssumption ==
    /\ NoHash \notin Hash
    /\ NoOutput \notin Output
    /\ NoSession \notin Session
    /\ NoPeer \notin BitGoSid

NewFlow == [pc |-> "idle", hash |-> NoHash, view |-> NoOutput,
            peer |-> NoPeer, attempts |-> 0]

\* What a response of the server shows of a request.
ViewOf(t) == [hash |-> t.hash, last |-> t.last]

Waits(n) == CASE n = 1 -> "wait1" [] n = 2 -> "wait2" [] OTHER -> "wait3"
Got(n) == CASE n = 1 -> "got1" [] n = 2 -> "got2" [] OTHER -> "got3"

UserShare(f, b, h) == [from |-> "user", sid |-> f, peer |-> b, hash |-> h]
BitGoShare(s) == [from |-> "bitgo", sid |-> s.sid, peer |-> s.peer, hash |-> s.hash]

----------------------------------------------------------------------------
(* The checks of a round *)

\* Mutant of ValidAdata: the additional data is not compared.
AnyAdata(h, v) == TRUE

\* validateAdata: the ciphertext was made for the hash of this request.
ValidAdata(h, v) == h = v.hash

\* The last signature share of the request is the server's answer of this
\* type, encrypted to the GPG key of flow g.
AnswerFor(v, type, g) ==
    v.last # NoOutput /\ v.last.type = type /\ v.last.peer = g

\* createOfflineRound2Share takes the round-1 session of c and the GPG key
\* of g: the WASM session takes messages that were made for it only.
Round2Accepts(c, g, v) ==
    /\ ValidAdata(g.hash, v) /\ ValidAdata(c.hash, v)
    /\ AnswerFor(v, "round1Output", g.flow)
    /\ v.last.peer = c.flow

\* createOfflineRound3Share takes the round-2 session c and the GPG key of g.
Round3Accepts(c, g, v) ==
    /\ ValidAdata(g.hash, v) /\ ValidAdata(c.hash, v)
    /\ AnswerFor(v, "round2Output", g.flow)
    /\ v.last.peer = c.flow /\ v.last.sid = c.peer

----------------------------------------------------------------------------
(* The flows *)

Advance(f, pc, p) ==
    flow' = [flow EXCEPT ![f].pc = pc, ![f].peer = p, ![f].attempts = 0]

Post(f, n, p, h) ==
    posts' = posts \cup {[flow |-> f, round |-> n, peer |-> p, hash |-> h]}

\* The bound of the model.
MayBegin(f) ==
    flow[f].pc = "idle" => Cardinality({g \in Flow : flow[g].pc # "idle"}) < MaxFlows

\* deleteSignatureShares: the server forgets the shares and may rebuild the
\* transaction; a signed request is left alone.
DeleteSignatureShares(f) ==
    /\ flow[f].pc = "idle" /\ MayBegin(f)
    /\ ~txRequest.signed
    /\ \E h \in Hash :
        txRequest' = [txRequest EXCEPT !.hash = h, !.last = NoOutput]
    /\ session' = NoSession
    /\ flow' = [flow EXCEPT ![f].pc = "clean"]
    /\ UNCHANGED <<opened, posts, served, seen, round1, round2, released,
                   produced>>

\* getTxRequest, or a request object that the caller has got before.
GetTxRequest(f) ==
    /\ flow[f].pc \in {"idle", "clean"} /\ MayBegin(f)
    /\ \E v \in {ViewOf(txRequest)} \cup (IF flow[f].pc = "idle" THEN seen ELSE {}) :
        /\ flow' = [flow EXCEPT ![f].pc = "fetched", ![f].view = v,
                                ![f].hash = v.hash]
        /\ seen' = seen \cup {v}
    /\ UNCHANGED <<txRequest, session, opened, posts, served, round1, round2,
                   released, produced>>

\* Round 1: a new session and GPG key; the share goes to the server.
Round1(f) ==
    /\ flow[f].pc = "fetched"
    /\ Advance(f, "wait1", NoPeer)
    /\ Post(f, 1, NoPeer, flow[f].hash)
    /\ round1' = round1 \cup
         (IF f \in External THEN {[flow |-> f, hash |-> flow[f].hash]} ELSE {})
    /\ UNCHANGED <<txRequest, session, opened, served, seen, round2,
                   released, produced>>

\* Round 2 in memory: the session pairs with the one the server answered with.
LocalRound2(f) ==
    /\ f \notin External /\ flow[f].pc = "got1"
    /\ AnswerFor(flow[f].view, "round1Output", f)
    /\ LET b == flow[f].view.last.sid
       IN  Advance(f, "wait2", b) /\ Post(f, 2, b, flow[f].hash)
    /\ UNCHANGED <<txRequest, session, opened, served, seen, round1, round2,
                   released, produced>>

\* Round 2 at the external signer, with the request that round 1 returned.
ExternalRound2(f) ==
    /\ f \in External /\ flow[f].pc = "got1"
    /\ \E c \in round1 : c.flow = f /\ Round2Accepts(c, c, flow[f].view)
    /\ LET b == flow[f].view.last.sid
           h == flow[f].view.hash
       IN  /\ Advance(f, "wait2", b)
           /\ Post(f, 2, b, h)
           /\ round2' = round2 \cup {[flow |-> f, peer |-> b, hash |-> h]}
    /\ UNCHANGED <<txRequest, session, opened, served, seen, released, produced,
                   round1>>

\* Mutant of LocalRound3: the hash is taken from the latest request.
LocalRound3Rehashed(f) ==
    /\ f \notin External /\ flow[f].pc = "got2"
    /\ AnswerFor(flow[f].view, "round2Output", f)
    /\ flow[f].view.last.sid = flow[f].peer
    /\ Advance(f, "wait3", flow[f].peer)
    /\ Post(f, 3, flow[f].peer, flow[f].view.hash)
    /\ released' = released \cup {UserShare(f, flow[f].peer, flow[f].view.hash)}
    /\ UNCHANGED <<txRequest, session, opened, served, seen, round1, round2,
                   produced>>

\* Round 3 in memory: the final share, on the hash of the fetched request.
LocalRound3(f) ==
    /\ f \notin External /\ flow[f].pc = "got2"
    /\ AnswerFor(flow[f].view, "round2Output", f)
    /\ flow[f].view.last.sid = flow[f].peer
    /\ Advance(f, "wait3", flow[f].peer)
    /\ Post(f, 3, flow[f].peer, flow[f].hash)
    /\ released' = released \cup {UserShare(f, flow[f].peer, flow[f].hash)}
    /\ UNCHANGED <<txRequest, session, opened, served, seen, round1, round2,
                   produced>>

\* Round 3 at the external signer: the final share is on the hash of the
\* request that round 2 returned.
ExternalRound3(f) ==
    /\ f \in External /\ flow[f].pc = "got2"
    /\ \E c \in round2, g \in round1 :
        /\ c.flow = f /\ c.peer = flow[f].peer /\ g.flow = f
        /\ Round3Accepts(c, g, flow[f].view)
        /\ released' = released \cup {UserShare(f, c.peer, flow[f].view.hash)}
    /\ Advance(f, "wait3", flow[f].peer)
    /\ Post(f, 3, flow[f].peer, flow[f].view.hash)
    /\ UNCHANGED <<txRequest, session, opened, served, seen, round1, round2,
                   produced>>

\* sendTxRequest, then the flow is over.
SendTxRequest(f) ==
    /\ flow[f].pc = "got3"
    /\ IF txRequest.signed
       THEN /\ txRequest' = [txRequest EXCEPT !.sent = TRUE]
            /\ flow' = [flow EXCEPT ![f].pc = "done"]
       ELSE /\ flow' = [flow EXCEPT ![f].pc = "failed"]
            /\ UNCHANGED txRequest
    /\ UNCHANGED <<session, opened, posts, served, seen, round1, round2,
                   released, produced>>

\* Mutant of Fail: a lost answer makes the flow post its share again.
FailOrRepeat(f) ==
    /\ flow[f].pc \in {"wait1", "wait2", "wait3"}
    /\ \E n \in 1..3 :
        /\ flow[f].pc = Waits(n)
        /\ Post(f, n, flow[f].peer, flow[f].hash)
    /\ UNCHANGED <<txRequest, session, opened, flow, served, seen, round1,
                   round2, released, produced>>

\* Mutant of Fail: when the last answer is lost the flow starts over with the
\* session it has.
FailOrStartOver(f) ==
    /\ flow[f].pc = "wait3"
    /\ flow' = [flow EXCEPT ![f].pc = "idle"]
    /\ UNCHANGED <<txRequest, session, opened, posts, served, seen, round1,
                   round2, released, produced>>

\* Any awaited call may be rejected (a lost answer, a failed verification, a
\* wrong passphrase, an answer that does not fit): the flow throws.  A share
\* that is on its way still arrives.
Fail(f) ==
    /\ flow[f].pc \notin {"idle", "done", "failed"}
    /\ flow' = [flow EXCEPT ![f].pc = "failed"]
    /\ UNCHANGED <<txRequest, session, opened, posts, served, seen, round1,
                   round2, released, produced>>

----------------------------------------------------------------------------
(* The external signer, called once more *)

\* createOfflineRound2Share with ciphertexts and a request from any time.
RepeatRound2(c, g, v) ==
    /\ Round2Accepts(c, g, v)
    /\ round2' = round2 \cup
         {[flow |-> c.flow, peer |-> v.last.sid, hash |-> v.hash]}
    /\ UNCHANGED <<txRequest, session, opened, flow, posts, served, seen,
                   released, produced, round1>>

\* createOfflineRound3Share with ciphertexts and a request from any time.
RepeatRound3(c, g, v) ==
    /\ Round3Accepts(c, g, v)
    /\ released' = released \cup {UserShare(c.flow, c.peer, v.hash)}
    /\ UNCHANGED <<txRequest, session, opened, flow, posts, served, seen, round1,
                   round2, produced>>

----------------------------------------------------------------------------
(* The server *)

Take(x) ==
    /\ posts' = posts \ {x}
    /\ served' = [served EXCEPT ![x.flow][x.round] = @ + 1]

\* A flow that still waits gets the request as an answer, with the server's
\* new share or, when the server is slow, without it; or the answer is lost.
Answer(x) ==
    \/ \E v \in {ViewOf(txRequest), ViewOf(txRequest')} :
        /\ flow[x.flow].pc = Waits(x.round)
        /\ seen' = seen \cup {v}
        /\ flow' = [flow EXCEPT ![x.flow].pc = Got(x.round), ![x.flow].view = v]
    \/ UNCHANGED <<seen, flow>>

\* The first round starts a new session with the transaction as it is.
ServeRound1(x) ==
    /\ x.round = 1 /\ ~txRequest.signed
    /\ \E b \in BitGoSid \ opened :
        /\ session' = [sid |-> b, peer |-> x.flow, hash |-> txRequest.hash,
                       round |-> 1]
        /\ opened' = opened \cup {b}
        /\ txRequest' = [txRequest EXCEPT
             !.last = [type |-> "round1Output", sid |-> b, peer |-> x.flow]]
    /\ Take(x) /\ Answer(x)
    /\ UNCHANGED <<round1, round2, released, produced>>

InSession(x, n) ==
    session # NoSession /\ session.round = n
    /\ session.sid = x.peer /\ session.peer = x.flow

\* The second round lets the server make its own final share.
ServeRound2(x) ==
    /\ x.round = 2 /\ InSession(x, 1)
    /\ session' = [session EXCEPT !.round = 2]
    /\ released' = released \cup {BitGoShare(session)}
    /\ txRequest' = [txRequest EXCEPT
         !.last = [type |-> "round2Output", sid |-> session.sid, peer |-> x.flow]]
    /\ Take(x) /\ Answer(x)
    /\ UNCHANGED <<opened, round1, round2, produced>>

\* The third round combines the two final shares.
ServeRound3(x) ==
    /\ x.round = 3 /\ InSession(x, 2) /\ x.hash = session.hash
    /\ txRequest' = [txRequest EXCEPT !.signed = TRUE]
    /\ session' = NoSession
    /\ produced' = produced \cup
         {[sid |-> session.sid, peer |-> session.peer, hash |-> session.hash]}
    /\ Take(x) /\ Answer(x)
    /\ UNCHANGED <<opened, round1, round2, released>>

\* Mutant of Refuse: the flow takes a rejected share for an accepted one.
RefuseUnnoticed(x) ==
    /\ posts' = posts \ {x}
    /\ flow' = [flow EXCEPT ![x.flow].pc =
                  IF @ = Waits(x.round) THEN Got(x.round) ELSE @]
    /\ UNCHANGED <<txRequest, session, opened, served, seen, round1, round2,
                   released, produced>>

\* The server rejects a share: sendSignatureShareV2 throws.
Refuse(x) ==
    /\ posts' = posts \ {x}
    /\ flow' = [flow EXCEPT ![x.flow].pc =
                  IF @ = Waits(x.round) THEN "failed" ELSE @]
    /\ UNCHANGED <<txRequest, session, opened, served, seen, round1, round2,
                   released, produced>>

\* Mutant of RateLimited: the count of the attempts starts again.
RateLimitedForever(x) ==
    /\ IF flow[x.flow].pc = Waits(x.round)
       THEN /\ flow' = [flow EXCEPT ![x.flow].attempts = (@ + 1) % (MaxAttempts + 1)]
            /\ UNCHANGED posts
       ELSE posts' = posts \ {x} /\ UNCHANGED flow
    /\ UNCHANGED <<txRequest, session, opened, served, seen, round1, round2,
                   released, produced>>

\* Status 429: the same share is sent again after a pause, three times; the
\* last of the four answers counts whatever it is.
RateLimited(x) ==
    /\ IF flow[x.flow].pc = Waits(x.round)
       THEN IF flow[x.flow].attempts < MaxAttempts
            THEN /\ flow' = [flow EXCEPT ![x.flow].attempts = @ + 1]
                 /\ UNCHANGED posts
            ELSE /\ flow' = [flow EXCEPT ![x.flow].pc = "failed"]
                 /\ posts' = posts \ {x}
       ELSE posts' = posts \ {x} /\ UNCHANGED flow
    /\ UNCHANGED <<txRequest, session, opened, served, seen, round1, round2,
                   released, produced>>

Serve(x) ==
    ServeRound1(x) \/ ServeRound2(x) \/ ServeRound3(x) \/ Refuse(x) \/ RateLimited(x)

----------------------------------------------------------------------------
FlowStep(f) ==
    \/ GetTxRequest(f) \/ Round1(f) \/ LocalRound2(f) \/ ExternalRound2(f)
    \/ LocalRound3(f) \/ ExternalRound3(f) \/ SendTxRequest(f)

\* An answer that does not fit the round, or that never comes, makes the
\* flow throw.
GiveUp(f) ==
    /\ \/ flow[f].pc \in {"got1", "got2"}
       \/ \E n \in 1..3 :
            flow[f].pc = Waits(n) /\ \A x \in posts : x.flow # f \/ x.round # n
    /\ Fail(f)

Init ==
    /\ txRequest \in [hash : Hash, last : {NoOutput}, signed : {FALSE}, sent : {FALSE}]
    /\ session = NoSession
    /\ opened = {}
    /\ flow = [f \in Flow |-> NewFlow]
    /\ posts = {}
    /\ served = [f \in Flow |-> [n \in 1..3 |-> 0]]
    /\ seen = {}
    /\ round1 = {}
    /\ round2 = {}
    /\ released = {}
    /\ produced = {}

Next ==
    \/ \E f \in Flow : FlowStep(f) \/ DeleteSignatureShares(f) \/ Fail(f)
    \/ \E c, g \in round1, v \in seen : RepeatRound2(c, g, v)
    \/ \E c \in round2, g \in round1, v \in seen : RepeatRound3(c, g, v)
    \/ \E x \in posts : Serve(x)

Spec == Init /\ [][Next]_vars

\* A flow goes on with what it has got, or throws; a request that was sent is
\* answered or the connection breaks.
Fairness ==
    \A f \in Flow :
        /\ WF_vars(FlowStep(f) \/ GiveUp(f))
        /\ WF_vars(\E x \in posts : x.flow = f /\ Serve(x))

FairSpec == Spec /\ Fairness

----------------------------------------------------------------------------
(* Properties *)

\* Every variable has its type.
TypeOK ==
    /\ txRequest \in TxRequest
    /\ session \in Session \cup {NoSession}
    /\ opened \subseteq BitGoSid
    /\ flow \in [Flow -> FlowState]
    /\ posts \subseteq Share
    /\ served \in [Flow -> [1..3 -> Nat]]
    /\ seen \subseteq View
    /\ round1 \subseteq Round1Session
    /\ round2 \subseteq Round2Session
    /\ released \subseteq FinalShare
    /\ produced \subseteq Signature

\* The final share of a flow is on the transaction that the flow fetched (and,
\* in signRequestBase, verified), whatever the request has become in between
\* and however often the external signer is called with the flow's sessions.
SignsWhatItFetched ==
    \A r \in released : r.from = "user" => r.hash = flow[r.sid].hash

\* A share is taken up by the server at most once although POSTs are retried:
\* a retry follows only an answer that says the share was not processed.
TakenUpOnce == \A f \in Flow, n \in 1..3 : served[f][n] <= 1

\* A flow that returns the sent request has signed it itself: the signature
\* is the one of its own session, on the transaction it fetched.
DoneMeansSigned ==
    \A f \in Flow : flow[f].pc = "done" =>
        \E g \in produced : g.peer = f /\ g.hash = flow[f].hash

\* The way of a flow, as far as it is behind it.
Stage == [idle |-> 0, clean |-> 1, fetched |-> 2, wait1 |-> 3, got1 |-> 4, wait2 |-> 5,
          got2 |-> 6, wait3 |-> 7, got3 |-> 8, done |-> 9, failed |-> 9]

\* The shares of flow f that are on their way.
InFlight(f) == {x \in posts : x.flow = f}

\* The flow f goes on to a later stage; or, in the same, one of its shares has
\* arrived, or is repeated once more.
Advances(f) ==
    \/ Stage[flow'[f].pc] > Stage[flow[f].pc]
    \/ /\ flow'[f].pc = flow[f].pc
       /\ \/ InFlight(f)' \subseteq InFlight(f) /\ InFlight(f)' # InFlight(f)
          \/ InFlight(f)' = InFlight(f) /\ flow'[f].attempts > flow[f].attempts

\* The steps of a flow, and of the server with its shares.
StepOf(f) ==
    \/ FlowStep(f) \/ DeleteSignatureShares(f) \/ Fail(f)
    \/ \E x \in InFlight(f) : Serve(x)

\* Every step of a flow, and every answer to it, advances it; no other flow and
\* no repeated call of the external signer touches it.  A share can be on its way
\* and be rate limited finitely often, so no server keeps a flow going for ever.
FlowsAdvance ==
    [][\A f \in Flow :
         IF StepOf(f) THEN Advances(f) ELSE UNCHANGED <<flow[f], InFlight(f)>>]_vars

\* Every flow comes to an end: it returns the sent request or throws.
EveryFlowEnds ==
    \A f \in Flow : flow[f].pc # "idle" ~> flow[f].pc \in {"done", "failed"}

----------------------------------------------------------------------------
(* Refinement: both sides together keep the signing agreement. *)

Agreement == INSTANCE SigningAgreement WITH
    Party <- {"user", "bitgo"}, Sid <- Flow \cup BitGoSid

\* The flows, the external signer and the server implement SigningAgreement.
ImplementsAgreement == Agreement!Spec

----------------------------------------------------------------------------
(* The inductive invariant behind the safety properties *)

\* What a flow has to do with was made for the hash that it fetched.
Begun(f, h) == flow[f].pc \notin {"idle", "clean"} /\ flow[f].hash = h
BoundToFetched ==
    /\ \A c \in round1 \cup round2 : Begun(c.flow, c.hash)
    /\ \A x \in posts : Begun(x.flow, x.hash)
    /\ \A r \in released : r.from = "user" => r.sid \in Flow /\ Begun(r.sid, r.hash)
    /\ \A f \in Flow :
        flow[f].pc \notin {"idle", "clean", "failed"} =>
            flow[f].view \in View /\ flow[f].hash \in Hash

\* The server's session is new until round 2, in which it makes its only share.
ServerBound ==
    /\ session # NoSession => session.sid \in opened
    /\ session # NoSession /\ session.round = 2 => BitGoShare(session) \in released
    /\ \A r \in released : r.from = "bitgo" =>
        /\ r.sid \in opened
        /\ session # NoSession /\ session.sid = r.sid => session.round = 2
    /\ \A q, r \in released :
        q.from = "bitgo" /\ r.from = "bitgo" /\ q.sid = r.sid => q.hash = r.hash

\* The last share that a flow posts is one that was released.
PostsBacked ==
    \A x \in posts : x.round = 3 => UserShare(x.flow, x.peer, x.hash) \in released

\* How many rounds a flow has posted; a share is in flight, or was taken up,
\* only for those, and never both.
Posted(pc) ==
    CASE pc \in {"idle", "clean", "fetched"} -> 0
      [] pc \in {"wait1", "got1"}            -> 1
      [] pc \in {"wait2", "got2"}            -> 2
      [] OTHER                               -> 3
Untouched(f, n) ==
    served[f][n] = 0 /\ \A x \in posts : x.flow = f => x.round # n
PostedOnce ==
    /\ \A f \in Flow : \A n \in 1..3 : n > Posted(flow[f].pc) => Untouched(f, n)
    /\ \A x \in posts : served[x.flow][x.round] = 0
    /\ \A x, y \in posts : x.flow = y.flow /\ x.round = y.round => x = y

\* A flow past round 3 has a signature.
Combined(f) == \E g \in produced : g.peer = f /\ g.hash = flow[f].hash
CombinedAfterRound3 ==
    \A f \in Flow : flow[f].pc \in {"got3", "done"} => Combined(f)

IInv ==
    /\ TypeOK
    /\ BoundToFetched
    /\ ServerBound
    /\ PostsBacked
    /\ PostedOnce
    /\ TakenUpOnce
    /\ CombinedAfterRound3

============================================================================
