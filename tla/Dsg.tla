-------------------------------- MODULE Dsg --------------------------------
(***************************************************************************)
(* The DKLs distributed-signing object `Dsg` of                            *)
(* sdk-lib-mpc/src/tss/ecdsa-dkls/dsg.ts, as two parties use it: each      *)
(* party owns one object, every message a party ever emitted may be handed *)
(* to the other one (late, twice, out of order or never), a party may drop *)
(* its object at any time and build another one, exported sessions may be  *)
(* imported again, and `init` may be interleaved with the other calls      *)
(* while it waits for the WASM module to load.                             *)
(*                                                                         *)
(* The WASM signing session (SignSessionOTVariant) is external: it is      *)
(* modelled by the round it is in, its own identity `sid`, the identity    *)
(* `peer` it paired with in round 1 and, once the last message is made,    *)
(* the digest `hash` that its partial signature covers.                    *)
(***************************************************************************)
EXTENDS Naturals, FiniteSets

CONSTANTS
    Party,      \* the two signers
    Hash,       \* message hashes callers may pass to the constructor
    Digest32,   \* those of them that are 32 bytes long
    Sid,        \* identities of the WASM sessions that may be created
    NoSid, NoHash, NoSession, NoSignature,
    MaxSaved,   \* bound: exported sessions kept per party
    MaxInits,   \* bound: calls of init() waiting for the WASM module at once
    Careless    \* parties whose caller may restart, replay, import, end sessions

ASSUME PartyAssumption == Cardinality(Party) = 2
ASSUME ConstantsAssumption ==
    /\ Digest32 \subseteq Hash
    /\ NoSid \notin Sid
    /\ NoHash \notin Hash
    /\ MaxSaved \in Nat
    /\ MaxInits \in Nat
    /\ Careless \subseteq Party

VARIABLES
    dsg,        \* the Dsg object of every party
    loading,    \* how many init() calls of a party wait for the WASM module
    saved,      \* what every party has exported: the session and its hash
    sent,       \* every protocol message emitted so far
    signatures  \* history: every signature an object has produced

vars == <<dsg, loading, saved, sent, signatures>>

----------------------------------------------------------------------------
(* Values *)

DsgState == {"Uninitialized", "Round1", "Round2", "Round3", "Round4",
             "Complete", "InvalidState"}
WasmRound == {"WaitMsg1", "WaitMsg2", "WaitMsg3", "Pre", "WaitMsg4", "Failed"}

Session == [round : WasmRound, sid : Sid, peer : Sid \cup {NoSid},
            hash : Hash \cup {NoHash}]
Message == [from : Party, round : 1..4, sid : Sid, peer : Sid \cup {NoSid},
            hash : Hash \cup {NoHash}]
Signature == [sid : Sid, peer : Sid \cup {NoSid}, hash : Hash \cup {NoHash}]
Saved == [session : Session, hash : Hash]

ASSUME NoSessionAssumption == NoSession \notin Session
ASSUME NoSignatureAssumption == NoSignature \notin Signature

\* wasm: the module is loaded.  handle: the field dsgSession between two
\* calls, "none" when it is undefined and "held" when it still refers to a
\* WASM object that combine() consumed or that refuses every message.
DsgObject == [messageHash : Hash, wasm : BOOLEAN, dsgState : DsgState,
              bytes : Session \cup {NoSession}, handle : {"none", "held"},
              signature : Signature \cup {NoSignature}]

NewDsg(h, w) == [messageHash |-> h, wasm |-> w, dsgState |-> "Uninitialized",
                 bytes |-> NoSession, handle |-> "none",
                 signature |-> NoSignature]

----------------------------------------------------------------------------
(* The external WASM session *)

NewWasmSession(s) == [round |-> "WaitMsg1", sid |-> s, peer |-> NoSid,
                      hash |-> NoHash]

MessageOf(p, s, n) == [from |-> p, round |-> n, sid |-> s.sid,
                       peer |-> s.peer, hash |-> s.hash]

\* The rounds in which a session waits for a message, and their numbers.
Waiting == {"WaitMsg1", "WaitMsg2", "WaitMsg3", "WaitMsg4"}

RoundNumber(round) ==
    CASE round = "WaitMsg1" -> 1
      [] round = "WaitMsg2" -> 2
      [] round = "WaitMsg3" -> 3
      [] OTHER              -> 4

\* The session accepts the other party's message of its round; from round 2
\* on only one bound to the same pair of session identities.
Accepts(p, s, m) ==
    /\ s.round \in Waiting
    /\ m.from # p
    /\ m.round = RoundNumber(s.round)
    /\ s.round # "WaitMsg1" => m.sid = s.peer /\ m.peer = s.sid

\* handleMessages serves the rounds before the last one.
Handles(p, s, m) == Accepts(p, s, m) /\ s.round # "WaitMsg4"

Advance(s, m) ==
    CASE s.round = "WaitMsg1" -> [s EXCEPT !.round = "WaitMsg2", !.peer = m.sid]
      [] s.round = "WaitMsg2" -> [s EXCEPT !.round = "WaitMsg3"]
      [] OTHER                -> [s EXCEPT !.round = "Pre"]

\* combine checks the aggregated signature over the digest of its own share.
Combines(p, s, m) ==
    Accepts(p, s, m) /\ s.round = "WaitMsg4" /\ m.hash = s.hash

\* A refused call leaves the session as it was or marks it as failed.
Refused(s) == {s, [s EXCEPT !.round = "Failed"]}

----------------------------------------------------------------------------
(* The methods of Dsg *)

\* _deserializeState: the state that a session's round stands for.  The object
\* serializes no session that has ended: combine() consumes it.
StateOf(round) ==
    CASE round = "WaitMsg1" -> "Round1"
      [] round = "WaitMsg2" -> "Round2"
      [] round = "WaitMsg3" -> "Round3"
      [] round = "WaitMsg4" -> "Round4"
      [] round = "Ended"    -> "Complete"
      [] OTHER              -> "InvalidState"

\* The guard of init, and its effect once the WASM module is there.
MayInit(o) == o.dsgState = "Uninitialized" /\ o.messageHash \in Digest32

Initialized(o, s) == [o EXCEPT !.wasm = TRUE, !.handle = "none",
                               !.bytes = s, !.dsgState = StateOf(s.round)]

CreateSession(p) ==
    \E i \in Sid \ {m.sid : m \in sent} :
        LET s == NewWasmSession(i)
        IN  /\ dsg' = [dsg EXCEPT ![p] = Initialized(@, s)]
            /\ sent' = sent \cup {MessageOf(p, s, 1)}

\* init() with the module loaded runs to its end without a pause.
InitNow(p) ==
    /\ dsg[p].wasm
    /\ MayInit(dsg[p])
    /\ CreateSession(p)
    /\ UNCHANGED <<loading, saved, signatures>>

\* init() that first has to load the module: the guard is checked before the
\* await and not again after it.
InitBegin(p) ==
    /\ ~dsg[p].wasm
    /\ MayInit(dsg[p])
    /\ loading[p] < MaxInits
    /\ p \in Careless \/ loading[p] = 0
    /\ loading' = [loading EXCEPT ![p] = @ + 1]
    /\ UNCHANGED <<dsg, saved, sent, signatures>>

InitFinish(p) ==
    /\ loading[p] > 0
    /\ loading' = [loading EXCEPT ![p] = @ - 1]
    /\ CreateSession(p)
    /\ UNCHANGED <<saved, signatures>>

\* The message a careful driver hands over next.
Timely(p, m) ==
    \/ p \in Careless
    \/ Handles(p, dsg[p].bytes, m)
    \/ Accepts(p, dsg[p].bytes, m) /\ dsg[p].dsgState = "Round4"

Deliverable(p, m) ==
    /\ dsg[p].bytes # NoSession
    /\ dsg[p].handle = "none"
    /\ m.from # p
    /\ Timely(p, m)

\* Mutant of HandleRound: an object that is Uninitialized again after
\* endSession() advances and gives no message.
HandleRoundMute(p, m) ==
    LET s == dsg[p].bytes
        t == Advance(s, m)
    IN  /\ Deliverable(p, m)
        /\ dsg[p].dsgState \notin {"Round3", "Round4", "Complete"}
        /\ Handles(p, s, m)
        /\ dsg' = [dsg EXCEPT ![p].bytes = t, ![p].dsgState = StateOf(t.round)]
        /\ sent' = IF StateOf(t.round) = "InvalidState" \/ dsg[p].dsgState = "Uninitialized"
                   THEN sent
                   ELSE sent \cup {MessageOf(p, t, RoundNumber(t.round))}
        /\ UNCHANGED <<loading, saved, signatures>>

\* handleIncomingMessages in a state other than Round3, Round4 and Complete.
\* A session of an object that is Uninitialized is served too.
HandleRound(p, m) ==
    LET s == dsg[p].bytes
        t == Advance(s, m)
    IN  /\ Deliverable(p, m)
        /\ dsg[p].dsgState \notin {"Round3", "Round4", "Complete"}
        /\ \/ /\ Handles(p, s, m)
              /\ dsg' = [dsg EXCEPT ![p].bytes = t,
                                    ![p].dsgState = StateOf(t.round)]
              /\ sent' = IF StateOf(t.round) = "InvalidState" THEN sent
                         ELSE sent \cup {MessageOf(p, t, RoundNumber(t.round))}
           \/ /\ ~Handles(p, s, m)
              /\ \E r \in Refused(s) : dsg' = [dsg EXCEPT ![p].bytes = r]
              /\ UNCHANGED sent
        /\ UNCHANGED <<loading, saved, signatures>>

\* Mutant of HandleRound3: the last message is made even when the session
\* refused the round-3 message.
HandleRound3Unchecked(p, m) ==
    LET u == [Advance(dsg[p].bytes, m) EXCEPT !.round = "WaitMsg4",
                                              !.hash = dsg[p].messageHash]
    IN  /\ Deliverable(p, m)
        /\ dsg[p].dsgState = "Round3"
        /\ dsg' = [dsg EXCEPT ![p].bytes = u, ![p].dsgState = "Round4"]
        /\ sent' = sent \cup {MessageOf(p, u, 4)}
        /\ UNCHANGED <<loading, saved, signatures>>

\* handleIncomingMessages in Round3: the last message is made at once, with
\* the digest this object was built with.
HandleRound3(p, m) ==
    LET s == dsg[p].bytes
        t == Advance(s, m)
        u == [t EXCEPT !.round = "WaitMsg4", !.hash = dsg[p].messageHash]
    IN  /\ Deliverable(p, m)
        /\ dsg[p].dsgState = "Round3"
        /\ \/ /\ Handles(p, s, m) /\ dsg[p].messageHash \in Digest32
              /\ dsg' = [dsg EXCEPT ![p].bytes = u, ![p].dsgState = "Round4"]
              /\ sent' = sent \cup {MessageOf(p, u, 4)}
           \/ /\ Handles(p, s, m) /\ dsg[p].messageHash \notin Digest32
              /\ \E r \in Refused(t) : dsg' = [dsg EXCEPT ![p].bytes = r]
              /\ UNCHANGED sent
           \/ /\ ~Handles(p, s, m)
              /\ \E r \in Refused(s) : dsg' = [dsg EXCEPT ![p].bytes = r]
              /\ UNCHANGED sent
        /\ UNCHANGED <<loading, saved, signatures>>

\* Mutant of HandleRound4: the signature is kept although combine() throws.
HandleRound4Unchecked(p, m) ==
    LET s == dsg[p].bytes
        g == [sid |-> s.sid, peer |-> s.peer, hash |-> s.hash]
    IN  /\ Deliverable(p, m)
        /\ dsg[p].dsgState = "Round4"
        /\ dsg' = [dsg EXCEPT ![p].dsgState = "Complete", ![p].handle = "held",
                              ![p].signature = g]
        /\ signatures' = signatures \cup {g}
        /\ UNCHANGED <<loading, saved, sent>>

\* handleIncomingMessages in Round4: the state is Complete before combine()
\* runs, and stays Complete when combine() throws.
HandleRound4(p, m) ==
    LET s == dsg[p].bytes
        g == [sid |-> s.sid, peer |-> s.peer, hash |-> s.hash]
    IN  /\ Deliverable(p, m)
        /\ dsg[p].dsgState = "Round4"
        /\ IF Combines(p, s, m)
           THEN /\ dsg' = [dsg EXCEPT ![p].dsgState = "Complete",
                                      ![p].handle = "held",
                                      ![p].signature = g]
                /\ signatures' = signatures \cup {g}
           ELSE /\ dsg' = [dsg EXCEPT ![p].dsgState = "Complete",
                                      ![p].handle = "held"]
                /\ UNCHANGED signatures
        /\ UNCHANGED <<loading, saved, sent>>

\* handleIncomingMessages in Complete: the session is restored if need be,
\* refuses the message, and is neither saved nor cleared.
HandleComplete(p, m) ==
    /\ Deliverable(p, m)
    /\ dsg[p].dsgState = "Complete"
    /\ dsg' = [dsg EXCEPT ![p].handle = "held"]
    /\ UNCHANGED <<loading, saved, sent, signatures>>

HandleIncomingMessages(p, m) ==
    \/ HandleRound(p, m) \/ HandleRound3(p, m)
    \/ HandleRound4(p, m) \/ HandleComplete(p, m)

\* getSession() has no guard on the state.
GetSession(p) ==
    /\ p \in Careless
    /\ dsg[p].bytes # NoSession
    /\ Cardinality(saved[p]) < MaxSaved
    /\ saved' = [saved EXCEPT ![p] =
                   @ \cup {[session |-> dsg[p].bytes, hash |-> dsg[p].messageHash]}]
    /\ UNCHANGED <<dsg, loading, sent, signatures>>

\* Mutants of SetSession: the caller imports a session for any hash; the
\* state field is not derived from the imported session.
SetSessionUnbound(p) ==
    /\ p \in Careless
    /\ \E v \in saved[p] :
        dsg' = [dsg EXCEPT ![p] =
                  IF StateOf(v.session.round) = "InvalidState"
                  THEN [@ EXCEPT !.wasm = TRUE, !.handle = "none"]
                  ELSE Initialized(@, v.session)]
    /\ UNCHANGED <<loading, saved, sent, signatures>>

SetSessionKeepsState(p) ==
    /\ p \in Careless
    /\ \E v \in saved[p] :
        /\ v.hash = dsg[p].messageHash
        /\ StateOf(v.session.round) # "InvalidState"
        /\ dsg' = [dsg EXCEPT ![p].wasm = TRUE, ![p].handle = "none",
                              ![p].bytes = v.session]
    /\ UNCHANGED <<loading, saved, sent, signatures>>

\* setSession(): callers import a session only for the hash it was exported
\* under (they bind it to the ciphertext, see validateAdata).  The old
\* signature, if there is one, stays.
SetSession(p) ==
    /\ p \in Careless
    /\ \E v \in saved[p] :
        /\ v.hash = dsg[p].messageHash
        /\ dsg' = [dsg EXCEPT ![p] =
                     IF StateOf(v.session.round) = "InvalidState"
                     THEN [@ EXCEPT !.wasm = TRUE, !.handle = "none"]
                     ELSE Initialized(@, v.session)]
    /\ UNCHANGED <<loading, saved, sent, signatures>>

\* endSession(): refused once a signature is there.  The session bytes stay.
EndSession(p) ==
    /\ p \in Careless
    /\ dsg[p].signature = NoSignature
    /\ dsg' = [dsg EXCEPT ![p].dsgState = "Uninitialized"]
    /\ UNCHANGED <<loading, saved, sent, signatures>>

\* The process restarts, or the caller gives up: the object is dropped and a
\* new one is built, with the WASM module passed in or not.
Restart(p) ==
    /\ p \in Careless
    /\ \E h \in Hash, w \in BOOLEAN : dsg' = [dsg EXCEPT ![p] = NewDsg(h, w)]
    /\ loading' = [loading EXCEPT ![p] = 0]
    /\ UNCHANGED <<saved, sent, signatures>>

----------------------------------------------------------------------------
Init ==
    /\ dsg \in [Party -> {NewDsg(h, w) : h \in Hash, w \in BOOLEAN}]
    /\ loading = [p \in Party |-> 0]
    /\ saved = [p \in Party |-> {}]
    /\ sent = {}
    /\ signatures = {}

Next ==
    \E p \in Party :
        \/ InitNow(p) \/ InitBegin(p) \/ InitFinish(p)
        \/ \E m \in sent : HandleIncomingMessages(p, m)
        \/ GetSession(p) \/ SetSession(p) \/ EndSession(p) \/ Restart(p)

Spec == Init /\ [][Next]_vars

----------------------------------------------------------------------------
(* Properties *)

\* Every variable has its type.
TypeOK ==
    /\ dsg \in [Party -> DsgObject]
    /\ loading \in [Party -> Nat]
    /\ saved \in [Party -> SUBSET Saved]
    /\ sent \subseteq Message
    /\ signatures \subseteq Signature

\* The state field and the serialized session never drift apart: in a round
\* state the bytes are of that round, unless the WASM session refused a
\* message (then nothing can advance it any more).
StateMatchesSession ==
    \A p \in Party :
        dsg[p].dsgState \in {"Round1", "Round2", "Round3", "Round4"} =>
            /\ dsg[p].bytes # NoSession
            /\ \/ StateOf(dsg[p].bytes.round) = dsg[p].dsgState
               \/ dsg[p].bytes.round \in {"Pre", "Failed"}

\* All final shares that come from one signing session are on one digest,
\* across restarts and repeated imports of an exported session.
OneHashPerSession ==
    \A m, n \in sent :
        m.round = 4 /\ n.round = 4 /\ m.sid = n.sid => m.hash = n.hash

\* No round is skipped: a message of a later round has behind it this
\* party's message of the round before and the other party's.
Behind(msgs, m) ==
    /\ \E o \in msgs : o.from = m.from /\ o.sid = m.sid /\ o.round = m.round - 1
    /\ \E q \in msgs : q.from # m.from /\ q.sid = m.peer /\ q.round = m.round - 1
NoRoundSkipped == \A m \in sent : m.round > 1 => Behind(sent, m)

\* A signature exists only when both parties released their final shares of
\* the same pair of sessions, on the digest that was signed.
BothShares(msgs, g) ==
    \E m, n \in msgs :
        /\ m.round = 4 /\ n.round = 4 /\ m.from # n.from
        /\ m.sid = g.sid /\ m.peer = g.peer
        /\ n.sid = g.peer /\ n.peer = g.sid
        /\ m.hash = g.hash /\ n.hash = g.hash
SignatureNeedsBothShares == \A g \in signatures : BothShares(sent, g)

\* Nobody waits in vain: when the sessions of the two objects belong together
\* and none has refused a message, the object that is not ahead of the other
\* can be handed a message that it takes, and in the last round one that makes
\* the signature if the digests agree.  The restarts, imports and double inits
\* before that do not matter.
Waits(p) ==
    /\ dsg[p].dsgState \in {"Round1", "Round2", "Round3", "Round4"}
    /\ StateOf(dsg[p].bytes.round) = dsg[p].dsgState
    /\ dsg[p].handle = "none"
InStep(p, q) ==
    /\ Waits(p) /\ Waits(q)
    /\ dsg[p].bytes.peer \in {NoSid, dsg[q].bytes.sid}
    /\ dsg[q].bytes.peer \in {NoSid, dsg[p].bytes.sid}
    /\ RoundNumber(dsg[p].bytes.round) <= RoundNumber(dsg[q].bytes.round)
NobodyWaitsInVain ==
    \A p, q \in Party : p # q /\ InStep(p, q) =>
        \E m \in sent :
            /\ m.sid = dsg[q].bytes.sid
            /\ Accepts(p, dsg[p].bytes, m)
            /\ dsg[p].dsgState = "Round4" /\ dsg[p].messageHash = dsg[q].messageHash
                   => Combines(p, dsg[p].bytes, m)

----------------------------------------------------------------------------
(* Refinement: the final shares are the messages of round 4. *)
FinalShares ==
    {[from |-> m.from, sid |-> m.sid, peer |-> m.peer, hash |-> m.hash] :
        m \in {x \in sent : x.round = 4}}

Agreement == INSTANCE SigningAgreement WITH
    released <- FinalShares, produced <- signatures

\* The objects implement the agreement: see SigningAgreement.
ImplementsAgreement == Agreement!Spec

----------------------------------------------------------------------------
(* The inductive invariant behind the safety properties *)

\* Party p has sent its message of round n of the session s, in the session's
\* present pair unless it is the first.
HasSent(msgs, p, s, n) ==
    \E m \in msgs :
        m.from = p /\ m.sid = s.sid /\ m.round = n /\ (n > 1 => m.peer = s.peer)

\* What party p has sent explains the session s: its messages up to the round
\* where it waits are out, the last one as the session has it.
Backed(msgs, p, s) ==
    /\ \E m \in msgs : m.from = p /\ m.sid = s.sid
    /\ s.round \in Waiting => \A n \in 1 .. RoundNumber(s.round) : HasSent(msgs, p, s, n)
    /\ s.round \in Waiting => MessageOf(p, s, RoundNumber(s.round)) \in msgs
    /\ s.round \in Waiting \ {"WaitMsg1"} => s.peer \in Sid
    /\ s.round = "WaitMsg4" => s.hash \in Hash

SessionsBacked ==
    \A p \in Party :
        /\ dsg[p].bytes # NoSession => Backed(sent, p, dsg[p].bytes)
        /\ \A v \in saved[p] : Backed(sent, p, v.session)

\* A session belongs to one party.
SidOwned == \A m, n \in sent : m.sid = n.sid => m.from = n.from

\* The session i is tied to the hash h: by an object, by an exported copy or
\* by a final share.  No session is tied to two.
Binds(i, h) ==
    \/ \E p \in Party : /\ dsg[p].bytes # NoSession
                         /\ dsg[p].bytes.sid = i
                         /\ dsg[p].messageHash = h
    \/ \E p \in Party : \E v \in saved[p] : v.session.sid = i /\ v.hash = h
    \/ \E m \in sent : m.round = 4 /\ m.sid = i /\ m.hash = h
HashBound ==
    \A i \in Sid : \A h, k \in Hash \cup {NoHash} :
        Binds(i, h) /\ Binds(i, k) => h = k

IInv ==
    /\ TypeOK
    /\ StateMatchesSession
    /\ SessionsBacked
    /\ SidOwned
    /\ HashBound
    /\ NoRoundSkipped
    /\ SignatureNeedsBothShares

============================================================================
