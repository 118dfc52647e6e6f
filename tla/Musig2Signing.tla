---------------------------- MODULE Musig2Signing ----------------------------
(***************************************************************************)
(* MuSig2 signing of taproot key path inputs in abstract-utxo              *)
(* (signPsbtWithMusig2ParticipantWasm), in one process or split over       *)
(* express and an external express signer: signWithCustomSigningFunction   *)
(* calls the signer for a nonce, BitGo for its nonce, and the signer again *)
(* for the signature.  Between its two calls the signer keeps the PSBT     *)
(* with the secret nonce in PSBT_CACHE_WASM, a map from the unsigned       *)
(* transaction id, so two flows that sign one transaction share an entry.  *)
(*                                                                         *)
(* A nonce stands for the nonces of all key path inputs of a PSBT.  BitGo  *)
(* derives its own from the transaction and the user's, so the nonce that  *)
(* BitGo answered is named by the user nonce it was derived from.          *)
(***************************************************************************)
EXTENDS Naturals, FiniteSets

CONSTANTS
    Flow,       \* the calls that sign a transaction
    External,   \* those of them that use the external signer
    Tx,         \* unsigned transactions
    Nonce,      \* user nonces that may be generated
    Signer,     \* the instances of the external signer
    Route,      \* the instances that the requests of a flow may reach
    NoNonce,
    RetryLimit, \* retryLimit of retryPromise
    MaxFlows    \* bound of the model: flows that begin

ASSUME FlowAssumption == External \subseteq Flow
ASSUME RouteAssumption == Route \in [Flow -> SUBSET Signer]
ASSUME LimitAssumption == RetryLimit \in Nat /\ MaxFlows \in Nat
ASSUME NonceAssumption == NoNonce \notin Nonce

VARIABLES
    flow,       \* the local variables of every flow
    requests,   \* requests on their way to the external signer
    cache,      \* PSBT_CACHE_WASM of every instance: the user nonce of the PSBT
    generated,  \* history: the nonces generated so far
    partials,   \* history: the partial signatures that were made
    restarted   \* history: the instances that have restarted

vars == <<flow, requests, cache, generated, partials, restarted>>

----------------------------------------------------------------------------
(* Values *)

Step == {"signerNonce", "signerSignature"}
Pc == {"idle", "signerNonce", "cosignerNonce", "cosigned", "signerSignature",
       "done", "failed"}

\* tries: tryCount of retryPromise.  user, cosigner: the nonces in the PSBT.
FlowState == [pc : Pc, tx : Tx, tries : Nat, user : Nonce \cup {NoNonce},
              cosigner : Nonce \cup {NoNonce}]
Request == [flow : Flow, step : Step, tx : Tx, user : Nonce \cup {NoNonce},
            cosigner : Nonce \cup {NoNonce}]
Partial == [nonce : Nonce, cosigner : Nonce, tx : Tx]

NewFlow(t) == [pc |-> "idle", tx |-> t, tries |-> 0, user |-> NoNonce,
               cosigner |-> NoNonce]

FreshNonces == Nonce \ generated

----------------------------------------------------------------------------
(* retryPromise *)

RequestOf(f, step) ==
    [flow |-> f, step |-> step, tx |-> flow[f].tx, user |-> flow[f].user,
     cosigner |-> flow[f].cosigner]

Call(f, step) ==
    /\ flow' = [flow EXCEPT ![f].pc = step, ![f].tries = 1]
    /\ requests' = requests \cup {RequestOf(f, step)}

\* Mutant of ConnectionRefused: there is no limit.
ConnectionRefusedForever(r) ==
    /\ flow[r.flow].pc = r.step
    /\ flow' = [flow EXCEPT ![r.flow].tries = (@ % RetryLimit) + 1]
    /\ UNCHANGED <<requests, cache, generated, partials, restarted>>

\* The connection is refused, so the request was not delivered: it is sent
\* once more after a pause, until the limit.
ConnectionRefused(r) ==
    /\ flow[r.flow].pc = r.step
    /\ IF flow[r.flow].tries < RetryLimit
       THEN /\ flow' = [flow EXCEPT ![r.flow].tries = @ + 1]
            /\ UNCHANGED requests
       ELSE /\ flow' = [flow EXCEPT ![r.flow].pc = "failed"]
            /\ requests' = requests \ {r}
    /\ UNCHANGED <<cache, generated, partials, restarted>>

\* Any other error is thrown.  The request may have been delivered, may still
\* be, or is lost.
ConnectionLost(f) ==
    /\ flow[f].pc \in Step
    /\ flow' = [flow EXCEPT ![f].pc = "failed"]
    /\ requests' \in {requests, {r \in requests : r.flow # f}}
    /\ UNCHANGED <<cache, generated, partials, restarted>>

----------------------------------------------------------------------------
(* The flows *)

\* The bound of the model.
MayBegin == Cardinality({f \in Flow : flow[f].pc # "idle"}) < MaxFlows

\* A flow without the external signer makes its own nonce in its own PSBT.
LocalNonce(f) ==
    /\ f \notin External /\ flow[f].pc = "idle" /\ MayBegin
    /\ \E n \in FreshNonces :
        /\ flow' = [flow EXCEPT ![f].pc = "cosignerNonce", ![f].user = n]
        /\ generated' = generated \cup {n}
    /\ UNCHANGED <<requests, cache, partials, restarted>>

\* The first call of the external signer.
CallSignerNonce(f) ==
    /\ f \in External /\ flow[f].pc = "idle" /\ MayBegin
    /\ Call(f, "signerNonce")
    /\ UNCHANGED <<cache, generated, partials, restarted>>

\* getMusig2Nonces: BitGo derives its nonce from the one in the PSBT.
CosignerNonce(f) ==
    /\ flow[f].pc = "cosignerNonce"
    /\ flow' = [flow EXCEPT ![f].pc = "cosigned", ![f].cosigner = flow[f].user]
    /\ UNCHANGED <<requests, cache, generated, partials, restarted>>

\* The second call of the external signer.
CallSignerSignature(f) ==
    /\ f \in External /\ flow[f].pc = "cosigned"
    /\ Call(f, "signerSignature")
    /\ UNCHANGED <<cache, generated, partials, restarted>>

\* combineMusig2Nonces with the response and sign, in the PSBT of the flow.
LocalSignature(f) ==
    /\ f \notin External /\ flow[f].pc = "cosigned"
    /\ flow' = [flow EXCEPT ![f].pc = "done"]
    /\ partials' = partials \cup
         {[nonce |-> flow[f].user, cosigner |-> flow[f].cosigner, tx |-> flow[f].tx]}
    /\ UNCHANGED <<requests, cache, generated, restarted>>

\* The call of BitGo is rejected, or the PSBT is not the expected one.
Fail(f) ==
    /\ flow[f].pc \in {"cosignerNonce", "cosigned"}
    /\ flow' = [flow EXCEPT ![f].pc = "failed"]
    /\ UNCHANGED <<requests, cache, generated, partials, restarted>>

----------------------------------------------------------------------------
(* The external signer *)

\* The answer reaches a flow that still waits for it, or is lost.
Answer(r, s) ==
    \/ flow[r.flow].pc = r.step /\ flow' = [flow EXCEPT ![r.flow] = s]
    \/ UNCHANGED flow

\* Signing step signerNonce: the PSBT with the new nonce replaces whatever is
\* cached for the transaction.
SignerNonce(r, i) ==
    /\ r.step = "signerNonce" /\ i \in Route[r.flow]
    /\ \E n \in FreshNonces :
        /\ generated' = generated \cup {n}
        /\ cache' = [cache EXCEPT ![i][r.tx] = n]
        /\ Answer(r, [flow[r.flow] EXCEPT !.pc = "cosignerNonce", !.user = n])
    /\ requests' = requests \ {r}
    /\ UNCHANGED <<partials, restarted>>

PartialOf(r, n) == [nonce |-> n, cosigner |-> r.cosigner, tx |-> r.tx]

\* The PSBT with the nonce n has the signature; s is the nonce that it shows.
Signed(r, n, s) ==
    [flow[r.flow] EXCEPT !.pc = IF s = n THEN "done" ELSE "failed", !.user = s]

\* Mutants of SignerSignature: the entry stays in the cache; all entries leave
\* it; the signature is not verified.
SignerSignatureKeepsEntry(r, i) ==
    LET n == cache[i][r.tx]
    IN  /\ r.step = "signerSignature" /\ i \in Route[r.flow] /\ n # NoNonce
        /\ partials' = partials \cup {PartialOf(r, n)}
        /\ \E s \in {r.user, n} : Answer(r, Signed(r, n, s))
        /\ requests' = requests \ {r}
        /\ UNCHANGED <<cache, generated, restarted>>

SignerSignatureClearsCache(r, i) ==
    LET n == cache[i][r.tx]
    IN  /\ r.step = "signerSignature" /\ i \in Route[r.flow] /\ n # NoNonce
        /\ cache' = [cache EXCEPT ![i] = [t \in Tx |-> NoNonce]]
        /\ partials' = partials \cup {PartialOf(r, n)}
        /\ \E s \in {r.user, n} : Answer(r, Signed(r, n, s))
        /\ requests' = requests \ {r}
        /\ UNCHANGED <<generated, restarted>>

SignerSignatureUnverified(r, i) ==
    LET n == cache[i][r.tx]
    IN  /\ r.step = "signerSignature" /\ i \in Route[r.flow] /\ n # NoNonce
        /\ cache' = [cache EXCEPT ![i][r.tx] = NoNonce]
        /\ partials' = partials \cup {PartialOf(r, n)}
        /\ \E s \in {r.user, n} :
            Answer(r, [flow[r.flow] EXCEPT !.pc = "done", !.user = s])
        /\ requests' = requests \ {r}
        /\ UNCHANGED <<generated, restarted>>

\* Signing step signerSignature: the cached PSBT leaves the cache, takes in
\* the nonces of the request, unless that throws, and is signed with its own
\* secret nonce.  The signature is verified against the nonce that the PSBT
\* shows then: its own or, if the request brought another one, perhaps that.
SignerSignature(r, i) ==
    LET n == cache[i][r.tx]
    IN  /\ r.step = "signerSignature" /\ i \in Route[r.flow] /\ n # NoNonce
        /\ cache' = [cache EXCEPT ![i][r.tx] = NoNonce]
        /\ \/ /\ partials' = partials \cup {PartialOf(r, n)}
              /\ \E s \in {r.user, n} : Answer(r, Signed(r, n, s))
           \/ /\ Answer(r, [flow[r.flow] EXCEPT !.pc = "failed"])
              /\ UNCHANGED partials
        /\ requests' = requests \ {r}
        /\ UNCHANGED <<generated, restarted>>

\* "Psbt is missing from txCache".
SignerMiss(r, i) ==
    /\ r.step = "signerSignature" /\ i \in Route[r.flow]
    /\ cache[i][r.tx] = NoNonce
    /\ Answer(r, [flow[r.flow] EXCEPT !.pc = "failed"])
    /\ requests' = requests \ {r}
    /\ UNCHANGED <<cache, generated, partials, restarted>>

\* The cache lives in the memory of the instance.
Restart(i) ==
    /\ i \notin restarted
    /\ restarted' = restarted \cup {i}
    /\ cache' = [cache EXCEPT ![i] = [t \in Tx |-> NoNonce]]
    /\ UNCHANGED <<flow, requests, generated, partials>>

----------------------------------------------------------------------------
FlowStep(f) ==
    \/ LocalNonce(f) \/ CallSignerNonce(f) \/ CosignerNonce(f)
    \/ CallSignerSignature(f) \/ LocalSignature(f)

Serve(r) == \E i \in Signer : SignerNonce(r, i) \/ SignerSignature(r, i) \/ SignerMiss(r, i)

Init ==
    /\ flow \in [Flow -> {NewFlow(t) : t \in Tx}]
    /\ requests = {}
    /\ cache = [i \in Signer |-> [t \in Tx |-> NoNonce]]
    /\ generated = {}
    /\ partials = {}
    /\ restarted = {}

Next ==
    \/ \E f \in Flow : FlowStep(f) \/ Fail(f) \/ ConnectionLost(f)
    \/ \E r \in requests : ConnectionRefused(r) \/ Serve(r)
    \/ \E i \in Signer : Restart(i)

Spec == Init /\ [][Next]_vars

\* A flow goes on; every attempt to send a request ends with an answer, with a
\* refused connection or with another error.
Fairness ==
    \A f \in Flow :
        /\ WF_vars(FlowStep(f))
        /\ WF_vars(\/ \E r \in requests : r.flow = f /\ (ConnectionRefused(r) \/ Serve(r))
                   \/ ConnectionLost(f))

FairSpec == Spec /\ Fairness

----------------------------------------------------------------------------
(* Properties *)

\* Every variable has its type.
TypeOK ==
    /\ flow \in [Flow -> FlowState]
    /\ requests \subseteq Request
    /\ cache \in [Signer -> [Tx -> Nonce \cup {NoNonce}]]
    /\ generated \subseteq Nonce
    /\ partials \subseteq Partial
    /\ restarted \subseteq Signer

\* A secret nonce makes one partial signature: two flows that meet in the
\* cache, late requests and restarts never bring it into two sessions.
NonceNeverReused == \A p, q \in partials : p.nonce = q.nonce => p = q

\* No other flow has the same transaction signed by the external signer.
Alone(f) ==
    \A g \in External \ {f} : flow[g].pc # "idle" => flow[g].tx # flow[f].tx

\* A PSBT that a flow returns shows the nonce that its signature was made
\* with; if the flow was alone, BitGo's nonce was derived from that one.
DoneMatchesItsNonce ==
    \A f \in Flow : flow[f].pc = "done" =>
        /\ \E p \in partials : /\ p.nonce = flow[f].user /\ p.tx = flow[f].tx
                                /\ p.cosigner = flow[f].cosigner
        /\ Alone(f) => flow[f].cosigner = flow[f].user

\* With sticky sessions a flow that is alone finds its PSBT when it asks for
\* the signature, unless the instance has restarted.
StickySessionFindsPsbt ==
    \A r \in requests, i \in Signer \ restarted :
        r.step = "signerSignature" /\ Alone(r.flow) /\ Route[r.flow] = {i} =>
            cache[i][r.tx] = r.user

\* Every flow returns or throws.
EveryFlowEnds ==
    \A f \in Flow : flow[f].pc # "idle" ~> flow[f].pc \in {"done", "failed"}

----------------------------------------------------------------------------
(* The inductive invariant behind the safety properties *)

\* A nonce that is generated is in one place at most: in the cache of one
\* instance for one transaction, in the PSBT of a local flow that has still
\* to sign, or in a partial signature.
Held(f) == f \notin External /\ flow[f].pc \in {"cosignerNonce", "cosigned"}
InCache(n) == \E i \in Signer, t \in Tx : cache[i][t] = n
InFlow(n) == \E f \in Flow : Held(f) /\ flow[f].user = n
Spent(n) == \E p \in partials : p.nonce = n
OnePlace ==
    /\ \A n \in Nonce : InCache(n) \/ InFlow(n) \/ Spent(n) => n \in generated
    /\ \A n \in Nonce : /\ ~(InCache(n) /\ InFlow(n))
                        /\ ~(InCache(n) /\ Spent(n))
                        /\ ~(InFlow(n) /\ Spent(n))
    /\ \A i, j \in Signer, t, u \in Tx :
        cache[i][t] = cache[j][u] /\ cache[i][t] # NoNonce => i = j /\ t = u
    /\ \A f, g \in Flow : Held(f) /\ Held(g) /\ flow[f].user = flow[g].user => f = g

\* Only the flows with the external signer send requests.
Callers == \A f \in Flow : flow[f].pc \in Step => f \in External

\* Whoever is about to sign has the nonces.
NoncesKnown ==
    /\ \A f \in Flow :
        /\ flow[f].pc \in {"cosignerNonce", "cosigned"} => flow[f].user # NoNonce
        /\ flow[f].pc = "cosigned" => flow[f].cosigner # NoNonce
    /\ \A r \in requests :
        r.step = "signerSignature" => r.user # NoNonce /\ r.cosigner # NoNonce

IInv == TypeOK /\ NonceNeverReused /\ OnePlace /\ Callers /\ NoncesKnown

\* A flow has one request on its way at most, for the call that it waits in or
\* has given up, with the nonces of its PSBT.
RequestsMatch ==
    \A r \in requests :
        /\ r.flow \in External /\ flow[r.flow].pc \in {r.step, "failed"}
        /\ r = RequestOf(r.flow, r.step)
        /\ \A q \in requests : q.flow = r.flow => q = r

\* While a flow is alone, the signer's entry for its transaction is empty
\* until its first call and its own nonce after that; with a sticky session it
\* stays until the second call.
Sent(f, step) == \E r \in requests : r.flow = f /\ r.step = step
Stored(f) == flow[f].pc \in {"cosignerNonce", "cosigned"} \/ Sent(f, "signerSignature")
CacheMatches ==
    \A f \in External : Alone(f) =>
        /\ flow[f].pc = "idle" \/ Sent(f, "signerNonce") =>
            \A i \in Signer : cache[i][flow[f].tx] = NoNonce
        /\ Stored(f) => \A i \in Signer :
            /\ cache[i][flow[f].tx] \in {NoNonce, flow[f].user}
            /\ Route[f] = {i} /\ i \notin restarted => cache[i][flow[f].tx] = flow[f].user

\* BitGo's nonce in the PSBT of a flow that is alone belongs to the flow's.
CosignerMatches ==
    \A f \in Flow : Alone(f) /\ flow[f].pc \in {"cosigned", "signerSignature", "done"} =>
        flow[f].cosigner = flow[f].user

\* A PSBT that is returned has its partial signature.
SignatureMade ==
    \A f \in Flow : flow[f].pc = "done" =>
        \E p \in partials : /\ p.nonce = flow[f].user /\ p.tx = flow[f].tx
                             /\ p.cosigner = flow[f].cosigner

FlowInv == IInv /\ RequestsMatch /\ CacheMatches /\ CosignerMatches /\ SignatureMade

============================================================================
