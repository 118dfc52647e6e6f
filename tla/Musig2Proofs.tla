----------------------------- MODULE Musig2Proofs -----------------------------
(***************************************************************************)
(* No secret nonce of the MuSig2 flows makes two partial signatures, and a *)
(* flow that is alone gets the signature for the nonce that it sent.       *)
(*                                                                         *)
(* The argument: a nonce that was generated is in one place at most, an    *)
(* entry of the signer's cache, a local flow that has still to sign, or a  *)
(* partial signature.  Fresh nonces are in none (LocalNonce, SignerNonce); *)
(* signing moves a nonce to the partial signatures and takes it out of the *)
(* place it came from (LocalSignature, SignerSignature); every other step  *)
(* leaves the places alone or empties some (KeepsPlaces).  FlowInv adds    *)
(* what a flow has on its way and what the signer keeps for it.            *)
(***************************************************************************)
EXTENDS Musig2Signing, TLAPS

----------------------------------------------------------------------------
(* Types *)

\* A new record with the fields of a flow is a flow again.
LEMMA FlowUpdate ==
    ASSUME TypeOK, NEW f \in Flow, NEW s \in FlowState
    PROVE  /\ [flow EXCEPT ![f] = s] \in [Flow -> FlowState]
           /\ [flow EXCEPT ![f] = s][f] = s
           /\ \A g \in Flow \ {f} : [flow EXCEPT ![f] = s][g] = flow[g]
BY DEF TypeOK

\* An answer leaves the flows typed, and touches the waiting flow alone.
LEMMA AnswerUpdate ==
    ASSUME TypeOK, NEW r \in requests, NEW s \in FlowState, Answer(r, s)
    PROVE  /\ flow' \in [Flow -> FlowState]
           /\ \A g \in Flow : \/ flow'[g] = flow[g]
                              \/ g = r.flow /\ flow[g].pc = r.step /\ flow'[g] = s
<1>1. r \in Request /\ flow \in [Flow -> FlowState]
  BY DEF TypeOK
<1>2. r.flow \in Flow
  BY <1>1 DEF Request
<1>3. \/ flow' = flow
      \/ flow' = [flow EXCEPT ![r.flow] = s] /\ flow[r.flow].pc = r.step
  BY DEF Answer
<1>4. CASE flow' = flow
  BY <1>1, <1>4
<1>5. CASE flow' = [flow EXCEPT ![r.flow] = s] /\ flow[r.flow].pc = r.step
  <2>1. flow' \in [Flow -> FlowState]
    BY <1>1, <1>2, <1>5
  <2>2. \A g \in Flow : g # r.flow => flow'[g] = flow[g]
    BY <1>1, <1>5
  <2>3. flow'[r.flow] = s
    BY <1>1, <1>2, <1>5
  <2>4. QED
    BY <2>1, <2>2, <2>3, <1>5
<1>6. QED
  BY <1>3, <1>4, <1>5

----------------------------------------------------------------------------
(* Places *)

\* A step that generates, spends and stores no nonce keeps every nonce in one
\* place at most.
LEMMA KeepsPlaces ==
    ASSUME OnePlace, TypeOK,
           generated' = generated, partials' = partials,
           \A i \in Signer, t \in Tx : cache'[i][t] \in {cache[i][t], NoNonce},
           \A f \in Flow : Held(f)' => Held(f) /\ flow'[f].user = flow[f].user
    PROVE  OnePlace'
<1>1. \A n \in Nonce : InCache(n)' => InCache(n)
  BY NonceAssumption DEF InCache
<1>2. \A n \in Nonce : InFlow(n)' => InFlow(n)
  BY DEF InFlow
<1>3. \A n \in Nonce : Spent(n)' <=> Spent(n)
  BY DEF Spent
<1>4. \A n \in Nonce : (InCache(n) \/ InFlow(n) \/ Spent(n))' => n \in generated'
  BY <1>1, <1>2, <1>3 DEF OnePlace
<1>5. \A n \in Nonce : /\ ~(InCache(n) /\ InFlow(n))'
                        /\ ~(InCache(n) /\ Spent(n))'
                        /\ ~(InFlow(n) /\ Spent(n))'
  BY <1>1, <1>2, <1>3 DEF OnePlace
<1>6. \A i, j \in Signer, t, u \in Tx :
        cache'[i][t] = cache'[j][u] /\ cache'[i][t] # NoNonce => i = j /\ t = u
  BY DEF OnePlace
<1>7. \A f, g \in Flow :
        Held(f)' /\ Held(g)' /\ flow'[f].user = flow'[g].user => f = g
  BY DEF OnePlace
<1>8. QED
  BY <1>4, <1>5, <1>6, <1>7 DEF OnePlace

----------------------------------------------------------------------------
(* The steps *)

\* The request of a typed flow is typed.
LEMMA RequestTyped ==
    ASSUME TypeOK, NEW f \in Flow, NEW step \in Step
    PROVE  RequestOf(f, step) \in Request
BY DEF TypeOK, RequestOf, Request, FlowState

\* A step of a flow that only moves its program counter, to a point where it
\* holds a nonce only if it held it before.
LEMMA MovesOnly ==
    ASSUME IInv, NEW f \in Flow, NEW s \in FlowState,
           flow' = [flow EXCEPT ![f] = s],
           requests' \subseteq Request,
           UNCHANGED <<cache, generated, partials, restarted>>,
           s.user = flow[f].user,
           s.pc \in {"cosignerNonce", "cosigned"} => flow[f].pc \in {"cosignerNonce", "cosigned"},
           s.pc \in Step => f \in External,
           s.pc = "cosigned" => s.cosigner # NoNonce,
           \A r \in requests' \ requests : r.step = "signerSignature" =>
               r.user # NoNonce /\ r.cosigner # NoNonce
    PROVE  IInv'
<1>1. flow' \in [Flow -> FlowState] /\ flow'[f] = s /\ \A g \in Flow \ {f} : flow'[g] = flow[g]
  BY FlowUpdate DEF IInv
<1>2. TypeOK'
  BY <1>1 DEF IInv, TypeOK
<1>3. NonceNeverReused'
  BY DEF IInv, NonceNeverReused
<1>4. \A g \in Flow : Held(g)' => Held(g) /\ flow'[g].user = flow[g].user
  BY <1>1 DEF Held
<1>5. OnePlace'
  BY <1>4, KeepsPlaces DEF IInv
<1>6. Callers'
  BY <1>1 DEF IInv, Callers
<1>7. NoncesKnown'
  BY <1>1 DEF IInv, NoncesKnown
<1>8. QED
  BY <1>2, <1>3, <1>5, <1>6, <1>7 DEF IInv

LEMMA LocalNonceStep ==
    ASSUME IInv, NEW f \in Flow, LocalNonce(f)
    PROVE  IInv'
<1>1. TypeOK /\ OnePlace /\ Callers /\ NonceNeverReused /\ NoncesKnown
  BY DEF IInv
<1>2. PICK n \in FreshNonces :
        /\ flow' = [flow EXCEPT ![f].pc = "cosignerNonce", ![f].user = n]
        /\ generated' = generated \cup {n}
  BY DEF LocalNonce
<1>3. f \notin External /\ flow[f].pc = "idle" /\ UNCHANGED <<requests, cache, partials, restarted>>
  BY DEF LocalNonce
<1>4. n \in Nonce /\ n \notin generated
  BY DEF FreshNonces
<1>5. /\ flow' \in [Flow -> FlowState]
      /\ flow'[f].pc = "cosignerNonce" /\ flow'[f].user = n
      /\ \A g \in Flow \ {f} : flow'[g] = flow[g]
  BY <1>1, <1>2, <1>4 DEF TypeOK, FlowState, Pc
<1>6. TypeOK'
  BY <1>1, <1>2, <1>3, <1>4, <1>5 DEF TypeOK
<1>7. NonceNeverReused'
  BY <1>1, <1>3 DEF NonceNeverReused
<1>8. ~InCache(n) /\ ~InFlow(n) /\ ~Spent(n)
  BY <1>1, <1>4 DEF OnePlace
<1>9. OnePlace'
  <2>1. \A m \in Nonce : (InCache(m)' <=> InCache(m)) /\ (Spent(m)' <=> Spent(m))
    BY <1>3 DEF InCache, Spent
  <2>2. \A m \in Nonce : InFlow(m)' => InFlow(m) \/ m = n
    BY <1>5 DEF InFlow, Held
  <2>3. \A m \in Nonce : (InCache(m) \/ InFlow(m) \/ Spent(m))' => m \in generated'
    BY <1>1, <1>2, <2>1, <2>2 DEF OnePlace
  <2>4. \A m \in Nonce : /\ ~(InCache(m) /\ InFlow(m))'
                          /\ ~(InCache(m) /\ Spent(m))'
                          /\ ~(InFlow(m) /\ Spent(m))'
    BY <1>1, <1>8, <2>1, <2>2 DEF OnePlace
  <2>5. \A i, j \in Signer, t, u \in Tx :
          cache'[i][t] = cache'[j][u] /\ cache'[i][t] # NoNonce => i = j /\ t = u
    BY <1>1, <1>3 DEF OnePlace
  <2>6. \A g, h \in Flow :
          Held(g)' /\ Held(h)' /\ flow'[g].user = flow'[h].user => g = h
    BY <1>1, <1>5, <1>8 DEF OnePlace, Held, InFlow
  <2>7. QED
    BY <2>3, <2>4, <2>5, <2>6 DEF OnePlace
<1>10. Callers'
  BY <1>1, <1>5 DEF Callers, Step
<1>11. NoncesKnown'
  BY <1>1, <1>3, <1>4, <1>5, NonceAssumption DEF NoncesKnown
<1>12. QED
  BY <1>6, <1>7, <1>9, <1>10, <1>11 DEF IInv

LEMMA SignerNonceStep ==
    ASSUME IInv, NEW r \in requests, NEW i \in Signer, SignerNonce(r, i)
    PROVE  IInv'
<1>1. TypeOK /\ OnePlace /\ Callers /\ NonceNeverReused /\ NoncesKnown
  BY DEF IInv
<1>2. r \in Request /\ r.flow \in Flow /\ r.tx \in Tx
  BY <1>1 DEF TypeOK, Request
<1>3. PICK n \in FreshNonces :
        /\ generated' = generated \cup {n}
        /\ cache' = [cache EXCEPT ![i][r.tx] = n]
        /\ Answer(r, [flow[r.flow] EXCEPT !.pc = "cosignerNonce", !.user = n])
  BY DEF SignerNonce
<1>4. /\ r.step = "signerNonce" /\ requests' = requests \ {r}
      /\ UNCHANGED <<partials, restarted>>
  BY DEF SignerNonce
<1>5. n \in Nonce /\ n \notin generated
  BY DEF FreshNonces
<1>6. PICK s : s = [flow[r.flow] EXCEPT !.pc = "cosignerNonce", !.user = n]
  OBVIOUS
<1>7. s \in FlowState /\ s.pc = "cosignerNonce"
  BY <1>1, <1>2, <1>5, <1>6 DEF TypeOK, FlowState, Pc
<1>8. /\ flow' \in [Flow -> FlowState]
      /\ \A g \in Flow : \/ flow'[g] = flow[g]
                         \/ g = r.flow /\ flow[g].pc = r.step /\ flow'[g] = s
  BY <1>1, <1>3, <1>6, <1>7, AnswerUpdate
<1>9. /\ cache' \in [Signer -> [Tx -> Nonce \cup {NoNonce}]]
      /\ cache'[i][r.tx] = n
      /\ \A j \in Signer, t \in Tx : j # i \/ t # r.tx => cache'[j][t] = cache[j][t]
  BY <1>1, <1>2, <1>3, <1>5 DEF TypeOK
<1>10. TypeOK'
  BY <1>1, <1>3, <1>4, <1>5, <1>8, <1>9 DEF TypeOK
<1>11. NonceNeverReused'
  BY <1>1, <1>4 DEF NonceNeverReused
<1>12. ~InCache(n) /\ ~InFlow(n) /\ ~Spent(n)
  BY <1>1, <1>5 DEF OnePlace
<1>13. \A g \in Flow : Held(g)' => Held(g) /\ flow'[g].user = flow[g].user
  BY <1>1, <1>4, <1>8 DEF Held, Callers, Step
<1>14. OnePlace'
  <2>1. \A m \in Nonce : (Spent(m)' <=> Spent(m)) /\ (InFlow(m)' => InFlow(m))
    BY <1>4, <1>13 DEF InFlow, Spent
  <2>2. \A m \in Nonce : InCache(m)' => InCache(m) \/ m = n
    BY <1>9 DEF InCache
  <2>3. \A m \in Nonce : (InCache(m) \/ InFlow(m) \/ Spent(m))' => m \in generated'
    BY <1>1, <1>3, <2>1, <2>2 DEF OnePlace
  <2>4. \A m \in Nonce : /\ ~(InCache(m) /\ InFlow(m))'
                         /\ ~(InCache(m) /\ Spent(m))'
                         /\ ~(InFlow(m) /\ Spent(m))'
    BY <1>1, <1>12, <2>1, <2>2 DEF OnePlace
  <2>5. \A j, k \in Signer, t, u \in Tx :
          cache'[j][t] = cache'[k][u] /\ cache'[j][t] # NoNonce => j = k /\ t = u
    BY <1>1, <1>9, <1>12 DEF OnePlace, InCache
  <2>6. \A g, h \in Flow :
          Held(g)' /\ Held(h)' /\ flow'[g].user = flow'[h].user => g = h
    BY <1>1, <1>13 DEF OnePlace
  <2>7. QED
    BY <2>3, <2>4, <2>5, <2>6 DEF OnePlace
<1>15. Callers'
  BY <1>1, <1>7, <1>8 DEF Callers, Step
<1>16. NoncesKnown'
  <2>1. s.user # NoNonce
    BY <1>1, <1>2, <1>5, <1>6, NonceAssumption DEF TypeOK, FlowState
  <2>2. QED
    BY <1>1, <1>4, <1>7, <1>8, <2>1 DEF NoncesKnown
<1>17. QED
  BY <1>10, <1>11, <1>14, <1>15, <1>16 DEF IInv

\* A nonce that leaves the place it is in and makes its first partial
\* signature.
LEMMA Spends ==
    ASSUME TypeOK, OnePlace, NonceNeverReused,
           NEW n \in Nonce, NEW p \in Partial, p.nonce = n,
           InCache(n) \/ InFlow(n), ~InCache(n)', ~InFlow(n)',
           partials' = partials \cup {p}, generated' = generated,
           \A i \in Signer, t \in Tx : cache'[i][t] \in {cache[i][t], NoNonce},
           \A f \in Flow : Held(f)' => Held(f) /\ flow'[f].user = flow[f].user
    PROVE  OnePlace' /\ NonceNeverReused'
<1>1. ~Spent(n) /\ n \in generated
  BY DEF OnePlace
<1>2. NonceNeverReused'
  BY <1>1 DEF NonceNeverReused, Spent
<1>3. \A m \in Nonce : (InCache(m)' => InCache(m)) /\ (InFlow(m)' => InFlow(m))
  BY NonceAssumption DEF InCache, InFlow
<1>4. \A m \in Nonce : Spent(m)' => Spent(m) \/ m = n
  BY DEF Spent
<1>5. \A m \in Nonce : (InCache(m) \/ InFlow(m) \/ Spent(m))' => m \in generated'
  BY <1>1, <1>3, <1>4 DEF OnePlace
<1>6. \A m \in Nonce : /\ ~(InCache(m) /\ InFlow(m))'
                       /\ ~(InCache(m) /\ Spent(m))'
                       /\ ~(InFlow(m) /\ Spent(m))'
  BY <1>3, <1>4 DEF OnePlace
<1>7. \A i, j \in Signer, t, u \in Tx :
        cache'[i][t] = cache'[j][u] /\ cache'[i][t] # NoNonce => i = j /\ t = u
  BY DEF OnePlace
<1>8. \A f, g \in Flow :
        Held(f)' /\ Held(g)' /\ flow'[f].user = flow'[g].user => f = g
  BY DEF OnePlace
<1>9. OnePlace'
  BY <1>5, <1>6, <1>7, <1>8 DEF OnePlace
<1>10. QED
  BY <1>2, <1>9

LEMMA LocalSignatureStep ==
    ASSUME IInv, NEW f \in Flow, LocalSignature(f)
    PROVE  IInv'
<1>1. TypeOK /\ OnePlace /\ Callers /\ NonceNeverReused /\ NoncesKnown
  BY DEF IInv
<1>2. /\ f \notin External /\ flow[f].pc = "cosigned"
      /\ UNCHANGED <<requests, cache, generated, restarted>>
  BY DEF LocalSignature
<1>3. /\ flow' \in [Flow -> FlowState]
      /\ flow'[f].pc = "done" /\ flow'[f].user = flow[f].user
      /\ \A g \in Flow \ {f} : flow'[g] = flow[g]
  BY <1>1 DEF LocalSignature, TypeOK, FlowState, Pc
<1>4. PICK p : p = [nonce |-> flow[f].user, cosigner |-> flow[f].cosigner, tx |-> flow[f].tx]
  OBVIOUS
<1>5. partials' = partials \cup {p}
  BY <1>4 DEF LocalSignature
<1>6. Held(f)
  BY <1>2 DEF Held
<1>7. p \in Partial /\ p.nonce = flow[f].user /\ flow[f].user \in Nonce
  BY <1>1, <1>2, <1>4 DEF Partial, NoncesKnown, TypeOK, FlowState
<1>8. TypeOK'
  BY <1>1, <1>2, <1>3, <1>5, <1>7 DEF TypeOK
<1>9. \A g \in Flow : Held(g)' => Held(g) /\ g # f /\ flow'[g].user = flow[g].user
  BY <1>3 DEF Held
<1>10. InFlow(flow[f].user)
  BY <1>6 DEF InFlow
<1>11. PICK n : n = flow[f].user
  OBVIOUS
<1>12. ~InCache(n)' /\ ~InFlow(n)'
  BY <1>1, <1>2, <1>6, <1>7, <1>9, <1>10, <1>11 DEF OnePlace, InCache, InFlow
<1>13. OnePlace' /\ NonceNeverReused'
  BY <1>1, <1>2, <1>5, <1>7, <1>9, <1>10, <1>11, <1>12, Spends DEF TypeOK
<1>14. Callers' /\ NoncesKnown'
  BY <1>1, <1>2, <1>3 DEF Callers, NoncesKnown, Step
<1>15. QED
  BY <1>8, <1>13, <1>14 DEF IInv

\* What the signer answers to a request for a signature, beside its effect on
\* the cache and the partial signatures: no flow takes hold of a nonce.
LEMMA AnswersDone ==
    ASSUME IInv, NEW r \in requests, NEW s \in FlowState,
           s.pc \in {"done", "failed"}, Answer(r, s), requests' = requests \ {r}
    PROVE  /\ flow' \in [Flow -> FlowState]
           /\ requests' \subseteq Request
           /\ \A f \in Flow : Held(f)' => Held(f) /\ flow'[f].user = flow[f].user
           /\ Callers' /\ NoncesKnown'
<1>1. TypeOK /\ Callers /\ NoncesKnown
  BY DEF IInv
<1>2. /\ flow' \in [Flow -> FlowState]
      /\ \A g \in Flow : flow'[g] = flow[g] \/ flow'[g] = s
  BY <1>1, AnswerUpdate
<1>3. \A f \in Flow : Held(f)' => Held(f) /\ flow'[f].user = flow[f].user
  BY <1>2 DEF Held
<1>4. Callers' /\ NoncesKnown'
  BY <1>1, <1>2 DEF Callers, NoncesKnown, Step
<1>5. requests' \subseteq Request
  BY <1>1 DEF TypeOK
<1>6. QED
  BY <1>2, <1>3, <1>4, <1>5

\* The answers to a request for a signature are flows that end.
LEMMA AnswersTyped ==
    ASSUME TypeOK, NEW r \in requests, NEW n \in Nonce
    PROVE  /\ \A s \in {r.user, n} : /\ Signed(r, n, s) \in FlowState
                                     /\ Signed(r, n, s).pc \in {"done", "failed"}
           /\ [flow[r.flow] EXCEPT !.pc = "failed"] \in FlowState
           /\ [flow[r.flow] EXCEPT !.pc = "failed"].pc = "failed"
<1>1. r \in Request /\ flow \in [Flow -> FlowState]
  BY DEF TypeOK
<1>2. flow[r.flow] \in FlowState /\ r.user \in Nonce \cup {NoNonce}
  BY <1>1 DEF Request
<1>3. QED
  BY <1>2 DEF Signed, FlowState, Pc

LEMMA SignerSignatureStep ==
    ASSUME IInv, NEW r \in requests, NEW i \in Signer, SignerSignature(r, i)
    PROVE  IInv'
<1>1. TypeOK /\ OnePlace /\ Callers /\ NonceNeverReused /\ NoncesKnown
  BY DEF IInv
<1>2. r \in Request /\ r.flow \in Flow /\ r.tx \in Tx
  BY <1>1 DEF TypeOK, Request
<1>3. PICK n : n = cache[i][r.tx]
  OBVIOUS
<1>4. /\ r.step = "signerSignature" /\ n # NoNonce
      /\ cache' = [cache EXCEPT ![i][r.tx] = NoNonce]
      /\ requests' = requests \ {r}
      /\ UNCHANGED <<generated, restarted>>
  BY <1>3 DEF SignerSignature
<1>5. \/ /\ partials' = partials \cup {PartialOf(r, n)}
         /\ \E s \in {r.user, n} : Answer(r, Signed(r, n, s))
      \/ /\ Answer(r, [flow[r.flow] EXCEPT !.pc = "failed"])
         /\ UNCHANGED partials
  BY <1>3 DEF SignerSignature
<1>6. n \in Nonce /\ InCache(n)
  BY <1>1, <1>2, <1>3, <1>4 DEF TypeOK, InCache
<1>7. /\ cache' \in [Signer -> [Tx -> Nonce \cup {NoNonce}]]
      /\ \A j \in Signer, t \in Tx : cache'[j][t] \in {cache[j][t], NoNonce}
      /\ cache'[i][r.tx] = NoNonce
  BY <1>1, <1>2, <1>4 DEF TypeOK
<1>8. PICK s \in FlowState : s.pc \in {"done", "failed"} /\ Answer(r, s)
  BY <1>1, <1>5, <1>6, AnswersTyped
<1>9. /\ flow' \in [Flow -> FlowState]
      /\ requests' \subseteq Request
      /\ \A f \in Flow : Held(f)' => Held(f) /\ flow'[f].user = flow[f].user
      /\ Callers' /\ NoncesKnown'
  BY <1>4, <1>8, AnswersDone
<1>10. CASE partials' = partials
  <2>1. TypeOK'
    BY <1>1, <1>4, <1>7, <1>9, <1>10 DEF TypeOK
  <2>2. OnePlace'
    BY <1>1, <1>4, <1>7, <1>9, <1>10, KeepsPlaces
  <2>3. NonceNeverReused'
    BY <1>1, <1>10 DEF NonceNeverReused
  <2>4. QED
    BY <1>9, <2>1, <2>2, <2>3 DEF IInv
<1>11. CASE partials' = partials \cup {PartialOf(r, n)}
  <2>1. PICK p : p = PartialOf(r, n)
    OBVIOUS
  <2>2. p \in Partial /\ p.nonce = n
    BY <1>1, <1>2, <1>4, <1>6, <2>1 DEF PartialOf, Partial, NoncesKnown, Request
  <2>3. TypeOK'
    BY <1>1, <1>4, <1>7, <1>9, <1>11, <2>1, <2>2 DEF TypeOK
  <2>4. ~InCache(n)'
    <3>1. \A j \in Signer, t \in Tx : cache[j][t] = n => j = i /\ t = r.tx
      BY <1>1, <1>2, <1>3, <1>4 DEF OnePlace
    <3>2. QED
      BY <1>4, <1>7, <3>1 DEF InCache
  <2>5. ~InFlow(n)'
    BY <1>1, <1>6, <1>9 DEF OnePlace, InFlow
  <2>6. OnePlace' /\ NonceNeverReused'
    BY <1>1, <1>4, <1>6, <1>7, <1>9, <1>11, <2>1, <2>2, <2>4, <2>5, Spends
  <2>7. QED
    BY <1>9, <2>3, <2>6 DEF IInv
<1>12. QED
  BY <1>5, <1>10, <1>11

LEMMA SignerMissStep ==
    ASSUME IInv, NEW r \in requests, NEW i \in Signer, SignerMiss(r, i)
    PROVE  IInv'
<1>1. TypeOK /\ OnePlace /\ NonceNeverReused
  BY DEF IInv
<1>2. r \in Request /\ flow[r.flow] \in FlowState
  BY <1>1 DEF TypeOK, Request
<1>3. PICK s : s = [flow[r.flow] EXCEPT !.pc = "failed"]
  OBVIOUS
<1>4. s \in FlowState /\ s.pc = "failed"
  BY <1>2, <1>3 DEF FlowState, Pc
<1>5. /\ Answer(r, s) /\ requests' = requests \ {r}
      /\ UNCHANGED <<cache, generated, partials, restarted>>
  BY <1>3 DEF SignerMiss
<1>6. /\ flow' \in [Flow -> FlowState]
      /\ requests' \subseteq Request
      /\ \A f \in Flow : Held(f)' => Held(f) /\ flow'[f].user = flow[f].user
      /\ Callers' /\ NoncesKnown'
  BY <1>4, <1>5, AnswersDone
<1>7. TypeOK'
  BY <1>1, <1>5, <1>6 DEF TypeOK
<1>8. OnePlace' /\ NonceNeverReused'
  BY <1>1, <1>5, <1>6, KeepsPlaces DEF NonceNeverReused
<1>9. QED
  BY <1>6, <1>7, <1>8 DEF IInv

LEMMA RestartStep ==
    ASSUME IInv, NEW i \in Signer, Restart(i)
    PROVE  IInv'
<1>1. TypeOK /\ OnePlace /\ Callers /\ NonceNeverReused /\ NoncesKnown
  BY DEF IInv
<1>2. /\ restarted' = restarted \cup {i}
      /\ UNCHANGED <<flow, requests, generated, partials>>
  BY DEF Restart
<1>3. /\ cache' \in [Signer -> [Tx -> Nonce \cup {NoNonce}]]
      /\ \A j \in Signer, t \in Tx : cache'[j][t] \in {cache[j][t], NoNonce}
  BY <1>1 DEF Restart, TypeOK
<1>4. TypeOK'
  BY <1>1, <1>2, <1>3 DEF TypeOK
<1>5. OnePlace'
  BY <1>1, <1>2, <1>3, KeepsPlaces DEF Held
<1>6. NonceNeverReused' /\ Callers' /\ NoncesKnown'
  BY <1>1, <1>2 DEF NonceNeverReused, Callers, NoncesKnown
<1>7. QED
  BY <1>4, <1>5, <1>6 DEF IInv

LEMMA CallStep ==
    ASSUME IInv, NEW f \in Flow, CallSignerNonce(f) \/ CallSignerSignature(f)
    PROVE  IInv'
<1>1. PICK step \in Step : Call(f, step) /\ (step = "signerSignature" => flow[f].pc = "cosigned")
  BY DEF CallSignerNonce, CallSignerSignature, Step
<1>2. PICK s : s = [flow[f] EXCEPT !.pc = step, !.tries = 1]
  OBVIOUS
<1>3. flow[f] \in FlowState /\ flow \in [Flow -> FlowState]
  BY DEF IInv, TypeOK
<1>4. /\ s \in FlowState /\ s.pc = step
      /\ s.user = flow[f].user /\ s.cosigner = flow[f].cosigner
  BY <1>2, <1>3 DEF FlowState, Pc, Step
<1>5. flow' = [flow EXCEPT ![f] = s]
  BY <1>1, <1>2, <1>3 DEF Call
<1>6. requests' = requests \cup {RequestOf(f, step)}
  BY <1>1 DEF Call
<1>7. requests' \subseteq Request
  BY <1>6, RequestTyped DEF IInv, TypeOK
<1>8. \A r \in requests' \ requests : r.step = "signerSignature" =>
          r.user # NoNonce /\ r.cosigner # NoNonce
  BY <1>1, <1>6 DEF RequestOf, IInv, NoncesKnown
<1>9. f \in External /\ UNCHANGED <<cache, generated, partials, restarted>>
  BY DEF CallSignerNonce, CallSignerSignature
<1>10. s.pc \notin {"cosignerNonce", "cosigned"}
  BY <1>4 DEF Step
<1>11. QED
  BY <1>4, <1>5, <1>7, <1>8, <1>9, <1>10, MovesOnly

LEMMA CosignerNonceStep ==
    ASSUME IInv, NEW f \in Flow, CosignerNonce(f)
    PROVE  IInv'
<1>1. PICK s : s = [flow[f] EXCEPT !.pc = "cosigned", !.cosigner = flow[f].user]
  OBVIOUS
<1>2. /\ flow[f] \in FlowState /\ flow \in [Flow -> FlowState]
      /\ requests \subseteq Request /\ flow[f].pc = "cosignerNonce"
      /\ UNCHANGED <<requests, cache, generated, partials, restarted>>
      /\ flow[f].user # NoNonce
  BY DEF IInv, TypeOK, CosignerNonce, NoncesKnown
<1>3. /\ s \in FlowState /\ s.pc = "cosigned"
      /\ s.user = flow[f].user /\ s.cosigner = flow[f].user
  BY <1>1, <1>2 DEF FlowState, Pc
<1>4. flow' = [flow EXCEPT ![f] = s]
  BY <1>1, <1>2 DEF CosignerNonce
<1>5. QED
  BY <1>2, <1>3, <1>4, MovesOnly DEF Step

LEMMA FailStep ==
    ASSUME IInv, NEW f \in Flow, Fail(f) \/ ConnectionLost(f)
    PROVE  IInv'
<1>1. PICK s : s = [flow[f] EXCEPT !.pc = "failed"]
  OBVIOUS
<1>2. /\ flow[f] \in FlowState /\ flow \in [Flow -> FlowState]
      /\ requests \subseteq Request /\ requests' \subseteq requests
      /\ UNCHANGED <<cache, generated, partials, restarted>>
  BY DEF IInv, TypeOK, Fail, ConnectionLost
<1>3. s \in FlowState /\ s.pc = "failed" /\ s.user = flow[f].user
  BY <1>1, <1>2 DEF FlowState, Pc
<1>4. flow' = [flow EXCEPT ![f] = s]
  BY <1>1, <1>2 DEF Fail, ConnectionLost
<1>5. QED
  BY <1>2, <1>3, <1>4, MovesOnly DEF Step

LEMMA ConnectionRefusedStep ==
    ASSUME IInv, NEW r \in requests, ConnectionRefused(r)
    PROVE  IInv'
<1>1. r \in Request /\ r.flow \in Flow
  BY DEF IInv, TypeOK, Request
<1>2. /\ flow[r.flow] \in FlowState /\ flow \in [Flow -> FlowState]
      /\ requests \subseteq Request /\ requests' \subseteq requests
      /\ flow[r.flow].pc = r.step /\ r.step \in Step
      /\ UNCHANGED <<cache, generated, partials, restarted>>
  BY <1>1 DEF IInv, TypeOK, ConnectionRefused, Request
<1>3. PICK s \in FlowState :
        /\ flow' = [flow EXCEPT ![r.flow] = s]
        /\ s.pc \in {flow[r.flow].pc, "failed"} /\ s.user = flow[r.flow].user
  <2>1. CASE flow' = [flow EXCEPT ![r.flow].tries = @ + 1]
    <3>1. PICK s : s = [flow[r.flow] EXCEPT !.tries = @ + 1]
      OBVIOUS
    <3>2. s \in FlowState /\ s.pc = flow[r.flow].pc /\ s.user = flow[r.flow].user
      BY <1>2, <3>1 DEF FlowState
    <3>3. flow' = [flow EXCEPT ![r.flow] = s]
      BY <1>2, <2>1, <3>1
    <3>4. QED
      BY <3>2, <3>3
  <2>2. CASE flow' = [flow EXCEPT ![r.flow].pc = "failed"]
    <3>1. PICK s : s = [flow[r.flow] EXCEPT !.pc = "failed"]
      OBVIOUS
    <3>2. s \in FlowState /\ s.pc = "failed" /\ s.user = flow[r.flow].user
      BY <1>2, <3>1 DEF FlowState, Pc
    <3>3. flow' = [flow EXCEPT ![r.flow] = s]
      BY <1>2, <2>2, <3>1
    <3>4. QED
      BY <3>2, <3>3
  <2>3. QED
    BY <2>1, <2>2 DEF ConnectionRefused
<1>4. s.pc \in Step => r.flow \in External
  BY <1>1, <1>2 DEF IInv, Callers
<1>5. s.pc \notin {"cosignerNonce", "cosigned"}
  BY <1>2, <1>3 DEF Step
<1>6. QED
  BY <1>1, <1>2, <1>3, <1>4, <1>5, MovesOnly

----------------------------------------------------------------------------
(* The inductive invariant of the nonces *)

\* The initial states satisfy the inductive invariant.
LEMMA InitIInv == Init => IInv
<1> SUFFICES ASSUME Init PROVE IInv
  OBVIOUS
<1>1. \A f \in Flow : flow[f] \in FlowState /\ flow[f].pc = "idle"
  BY DEF Init, NewFlow, FlowState, Pc
<1>2. flow \in [Flow -> FlowState]
  BY <1>1 DEF Init
<1>3. TypeOK
  BY <1>2 DEF Init, TypeOK
<1>4. NonceNeverReused /\ Callers /\ NoncesKnown
  BY <1>1 DEF Init, NonceNeverReused, Callers, NoncesKnown, Step
<1>5. \A f \in Flow : ~Held(f)
  BY <1>1 DEF Held
<1>6. OnePlace
  BY <1>5, NonceAssumption DEF Init, OnePlace, InCache, InFlow, Spent
<1>7. QED
  BY <1>3, <1>4, <1>6 DEF IInv

\* Every step preserves it.
LEMMA StepIInv == IInv /\ [Next]_vars => IInv'
<1> SUFFICES ASSUME IInv, [Next]_vars PROVE IInv'
  OBVIOUS
<1>1. CASE UNCHANGED vars
  BY <1>1 DEF vars, IInv, TypeOK, NonceNeverReused, OnePlace, Callers, NoncesKnown,
              InCache, InFlow, Spent, Held
<1>2. CASE \E f \in Flow : FlowStep(f) \/ Fail(f) \/ ConnectionLost(f)
  BY <1>2, LocalNonceStep, CallStep, CosignerNonceStep, LocalSignatureStep, FailStep
     DEF FlowStep
<1>3. CASE \E r \in requests : ConnectionRefused(r) \/ Serve(r)
  BY <1>3, ConnectionRefusedStep, SignerNonceStep, SignerSignatureStep, SignerMissStep
     DEF Serve
<1>4. CASE \E i \in Signer : Restart(i)
  BY <1>4, RestartStep
<1>5. QED
  BY <1>1, <1>2, <1>3, <1>4 DEF Next

----------------------------------------------------------------------------
(* The flows and the entries of the signer *)

\* A flow that is alone after a step was alone before it.
LEMMA AloneStays ==
    ASSUME \A g \in Flow : flow'[g].tx = flow[g].tx /\ (flow[g].pc # "idle" => flow'[g].pc # "idle")
    PROVE  \A f \in Flow : Alone(f)' => Alone(f)
BY FlowAssumption DEF Alone

\* A step of flow f that sends no request and leaves the signer alone.
LEMMA FlowMoves ==
    ASSUME FlowInv, IInv', NEW f \in Flow, NEW s \in FlowState,
           flow' = [flow EXCEPT ![f] = s],
           requests' \subseteq requests, partials \subseteq partials',
           UNCHANGED <<cache, restarted>>,
           s.tx = flow[f].tx, s.pc # "idle",
           f \in External => s.user = flow[f].user,
           \A r \in requests' : r.flow = f =>
               s.pc \in {r.step, "failed"} /\ s.cosigner = flow[f].cosigner,
           f \in External /\ s.pc \in {"cosignerNonce", "cosigned"} =>
               flow[f].pc \in {"cosignerNonce", "cosigned"},
           Alone(f) /\ s.pc \in {"cosigned", "signerSignature", "done"} => s.cosigner = s.user,
           s.pc = "done" => \E p \in partials' :
               p.nonce = s.user /\ p.tx = s.tx /\ p.cosigner = s.cosigner
    PROVE  FlowInv'
<1>1. /\ TypeOK /\ RequestsMatch /\ CacheMatches /\ CosignerMatches /\ SignatureMade
  BY DEF FlowInv, IInv
<1>2. flow' \in [Flow -> FlowState] /\ flow'[f] = s /\ \A g \in Flow \ {f} : flow'[g] = flow[g]
  BY <1>1, FlowUpdate
<1>3. \A g \in Flow : Alone(g)' => Alone(g)
  BY <1>2, AloneStays
<1>4. RequestsMatch'
  <2> SUFFICES ASSUME NEW r \in requests'
               PROVE  /\ r.flow \in External /\ flow'[r.flow].pc \in {r.step, "failed"}
                      /\ r = RequestOf(r.flow, r.step)'
                      /\ \A q \in requests' : q.flow = r.flow => q = r
    BY DEF RequestsMatch
  <2>1. /\ r.flow \in External /\ flow[r.flow].pc \in {r.step, "failed"}
        /\ r = RequestOf(r.flow, r.step)
        /\ \A q \in requests' : q.flow = r.flow => q = r
    BY <1>1 DEF RequestsMatch
  <2>2. r.flow \in Flow
    BY <2>1, FlowAssumption
  <2>3. CASE r.flow = f
    BY <1>2, <2>1, <2>3 DEF RequestOf
  <2>4. CASE r.flow # f
    BY <1>2, <2>1, <2>2, <2>4 DEF RequestOf
  <2>5. QED
    BY <2>3, <2>4
<1>5. CacheMatches'
  <2>1. \A g \in Flow : /\ Sent(g, "signerNonce")' => Sent(g, "signerNonce")
                        /\ Sent(g, "signerSignature")' => Sent(g, "signerSignature")
    BY DEF Sent
  <2>2. \A g \in External : /\ Stored(g)' => Stored(g)
                            /\ flow'[g].pc = "idle" => flow[g].pc = "idle"
                            /\ flow'[g].tx = flow[g].tx /\ flow'[g].user = flow[g].user
    BY <1>2, <2>1, FlowAssumption DEF Stored
  <2>3. QED
    BY <1>1, <1>3, <2>1, <2>2, FlowAssumption DEF CacheMatches
<1>6. CosignerMatches'
  BY <1>1, <1>2, <1>3 DEF CosignerMatches
<1>7. SignatureMade'
  BY <1>1, <1>2 DEF SignatureMade
<1>8. QED
  BY <1>4, <1>5, <1>6, <1>7 DEF FlowInv

\* The steps of a flow that send no request.
LEMMA FlowStepsKeep ==
    ASSUME FlowInv, IInv', NEW f \in Flow,
           \/ LocalNonce(f) \/ CosignerNonce(f) \/ LocalSignature(f)
           \/ Fail(f) \/ ConnectionLost(f)
    PROVE  FlowInv'
<1>1. /\ TypeOK /\ RequestsMatch /\ CosignerMatches
      /\ flow[f] \in FlowState
  BY DEF FlowInv, IInv, TypeOK
<1>2. \A r \in requests : r.flow = f => f \in External /\ flow[f].pc \in {r.step, "failed"}
  BY <1>1 DEF RequestsMatch
<1>3. \A r \in requests : r.step \in Step
  BY <1>1 DEF TypeOK, Request
<1>4. CASE LocalNonce(f)
  <2>1. PICK n \in FreshNonces : flow' = [flow EXCEPT ![f].pc = "cosignerNonce", ![f].user = n]
    BY <1>4 DEF LocalNonce
  <2>2. PICK s : s = [flow[f] EXCEPT !.pc = "cosignerNonce", !.user = n]
    OBVIOUS
  <2>3. n \in Nonce
    BY DEF FreshNonces
  <2>4. /\ s \in FlowState /\ s.pc = "cosignerNonce" /\ s.tx = flow[f].tx
        /\ s.cosigner = flow[f].cosigner
    BY <1>1, <2>2, <2>3 DEF FlowState, Pc
  <2>5. flow' = [flow EXCEPT ![f] = s]
    BY <1>1, <2>1, <2>2 DEF TypeOK
  <2>6. f \notin External /\ UNCHANGED <<requests, cache, partials, restarted>>
    BY <1>4 DEF LocalNonce
  <2>7. QED
    BY <1>2, <2>4, <2>5, <2>6, FlowMoves
<1>5. CASE CosignerNonce(f)
  <2>1. PICK s : s = [flow[f] EXCEPT !.pc = "cosigned", !.cosigner = flow[f].user]
    OBVIOUS
  <2>2. /\ s \in FlowState /\ s.pc = "cosigned" /\ s.tx = flow[f].tx
        /\ s.cosigner = flow[f].user /\ s.user = flow[f].user
    BY <1>1, <2>1 DEF FlowState, Pc
  <2>3. /\ flow' = [flow EXCEPT ![f] = s] /\ flow[f].pc = "cosignerNonce"
        /\ UNCHANGED <<requests, cache, partials, restarted>>
    BY <1>1, <1>5, <2>1 DEF CosignerNonce, TypeOK
  <2>4. \A r \in requests : r.flow # f
    BY <1>2, <1>3, <2>3 DEF Step
  <2>5. s.pc # "idle" /\ s.pc # "done" /\ s.cosigner = s.user
    BY <2>2
  <2>6. flow[f].pc \in {"cosignerNonce", "cosigned"}
    BY <2>3
  <2>7. QED
    BY <2>2, <2>3, <2>4, <2>5, <2>6, FlowMoves
<1>6. CASE LocalSignature(f)
  <2>1. PICK s : s = [flow[f] EXCEPT !.pc = "done"]
    OBVIOUS
  <2>2. /\ s \in FlowState /\ s.pc = "done" /\ s.tx = flow[f].tx
        /\ s.cosigner = flow[f].cosigner /\ s.user = flow[f].user
    BY <1>1, <2>1 DEF FlowState, Pc
  <2>3. /\ flow' = [flow EXCEPT ![f] = s] /\ flow[f].pc = "cosigned" /\ f \notin External
        /\ UNCHANGED <<requests, cache, restarted>>
    BY <1>1, <1>6, <2>1 DEF LocalSignature, TypeOK
  <2>4. PICK p : p = [nonce |-> flow[f].user, cosigner |-> flow[f].cosigner, tx |-> flow[f].tx]
    OBVIOUS
  <2>5. partials' = partials \cup {p}
    BY <1>6, <2>4 DEF LocalSignature
  <2>6. p \in partials' /\ p.nonce = s.user /\ p.tx = s.tx /\ p.cosigner = s.cosigner
    BY <2>2, <2>4, <2>5
  <2>7. Alone(f) => s.cosigner = s.user
    BY <1>1, <2>2, <2>3 DEF CosignerMatches
  <2>8. QED
    BY <1>2, <2>2, <2>3, <2>5, <2>6, <2>7, FlowMoves
<1>7. CASE Fail(f) \/ ConnectionLost(f)
  <2>1. PICK s : s = [flow[f] EXCEPT !.pc = "failed"]
    OBVIOUS
  <2>2. /\ s \in FlowState /\ s.pc = "failed" /\ s.tx = flow[f].tx
        /\ s.cosigner = flow[f].cosigner /\ s.user = flow[f].user
    BY <1>1, <2>1 DEF FlowState, Pc
  <2>3. /\ flow' = [flow EXCEPT ![f] = s] /\ requests' \subseteq requests
        /\ UNCHANGED <<cache, partials, restarted>>
    BY <1>1, <1>7, <2>1 DEF Fail, ConnectionLost, TypeOK
  <2>4. QED
    BY <2>2, <2>3, FlowMoves
<1>8. QED
  BY <1>4, <1>5, <1>6, <1>7

LEMMA ConnectionRefusedKeeps ==
    ASSUME FlowInv, IInv', NEW r \in requests, ConnectionRefused(r)
    PROVE  FlowInv'
<1>1. /\ TypeOK /\ RequestsMatch /\ CosignerMatches
      /\ r.flow \in Flow /\ flow[r.flow] \in FlowState
      /\ r.flow \in External /\ r.step \in Step
  BY DEF FlowInv, IInv, TypeOK, Request, RequestsMatch
<1>2. flow[r.flow].pc = r.step /\ UNCHANGED <<cache, partials, restarted>>
  BY DEF ConnectionRefused
<1>3. CASE flow[r.flow].tries < RetryLimit
  <2>1. PICK s : s = [flow[r.flow] EXCEPT !.tries = flow[r.flow].tries + 1]
    OBVIOUS
  <2>2. /\ s \in FlowState /\ s.pc = r.step /\ s.tx = flow[r.flow].tx
        /\ s.cosigner = flow[r.flow].cosigner /\ s.user = flow[r.flow].user
    BY <1>1, <1>2, <2>1 DEF FlowState
  <2>3. flow' = [flow EXCEPT ![r.flow] = s] /\ requests' = requests
    BY <1>1, <1>3, <2>1 DEF ConnectionRefused, TypeOK
  <2>4. \A q \in requests : q.flow = r.flow => q = r
    BY <1>1 DEF RequestsMatch
  <2>5. s.pc \notin {"cosignerNonce", "cosigned", "done", "idle"}
    BY <1>1, <2>2 DEF Step
  <2>6. Alone(r.flow) /\ s.pc = "signerSignature" => s.cosigner = s.user
    BY <1>1, <1>2, <2>2 DEF CosignerMatches
  <2>7. Alone(r.flow) /\ s.pc \in {"cosigned", "signerSignature", "done"} => s.cosigner = s.user
    BY <2>5, <2>6
  <2>8. \A q \in requests' : q.flow = r.flow =>
          s.pc \in {q.step, "failed"} /\ s.cosigner = flow[r.flow].cosigner
    BY <2>2, <2>3, <2>4
  <2>9. s.pc # "idle" /\ s.pc # "done" /\ s.pc \notin {"cosignerNonce", "cosigned"}
    BY <2>5
  <2>10. requests' \subseteq requests /\ partials \subseteq partials' /\ UNCHANGED <<cache, restarted>>
    BY <1>2, <2>3
  <2>11. PICK f \in Flow : f = r.flow
    BY <1>1
  <2>12. /\ s \in FlowState /\ flow' = [flow EXCEPT ![f] = s]
         /\ s.tx = flow[f].tx /\ s.user = flow[f].user
    BY <2>2, <2>3, <2>11
  <2>13. \A q \in requests' : q.flow = f =>
           s.pc \in {q.step, "failed"} /\ s.cosigner = flow[f].cosigner
    BY <2>8, <2>11
  <2>14. Alone(f) /\ s.pc \in {"cosigned", "signerSignature", "done"} => s.cosigner = s.user
    BY <2>7, <2>11
  <2>15. QED
    BY <2>9, <2>10, <2>12, <2>13, <2>14, FlowMoves
<1>4. CASE ~(flow[r.flow].tries < RetryLimit)
  <2>1. PICK s : s = [flow[r.flow] EXCEPT !.pc = "failed"]
    OBVIOUS
  <2>2. /\ s \in FlowState /\ s.pc = "failed" /\ s.tx = flow[r.flow].tx
        /\ s.cosigner = flow[r.flow].cosigner /\ s.user = flow[r.flow].user
    BY <1>1, <2>1 DEF FlowState, Pc
  <2>3. flow' = [flow EXCEPT ![r.flow] = s] /\ requests' = requests \ {r}
    BY <1>1, <1>4, <2>1 DEF ConnectionRefused, TypeOK
  <2>4. QED
    BY <1>1, <1>2, <2>2, <2>3, FlowMoves
<1>5. QED
  BY <1>3, <1>4

\* A call of the signer.
LEMMA CallKeeps ==
    ASSUME FlowInv, IInv', NEW f \in Flow, CallSignerNonce(f) \/ CallSignerSignature(f)
    PROVE  FlowInv'
<1>1. /\ TypeOK /\ RequestsMatch /\ CacheMatches /\ CosignerMatches /\ SignatureMade
      /\ flow[f] \in FlowState
  BY DEF FlowInv, IInv, TypeOK
<1>2. PICK step \in Step :
        /\ Call(f, step)
        /\ step = "signerNonce" => flow[f].pc = "idle"
        /\ step = "signerSignature" => flow[f].pc = "cosigned"
  BY DEF CallSignerNonce, CallSignerSignature, Step
<1>3. /\ f \in External /\ flow[f].pc \in {"idle", "cosigned"}
      /\ UNCHANGED <<cache, partials, restarted>>
  BY DEF CallSignerNonce, CallSignerSignature
<1>4. PICK s : s = [flow[f] EXCEPT !.pc = step, !.tries = 1]
  OBVIOUS
<1>5. /\ s.pc = step /\ s.tx = flow[f].tx /\ s.user = flow[f].user
      /\ s.cosigner = flow[f].cosigner
  BY <1>1, <1>4 DEF FlowState
<1>6. flow' = [flow EXCEPT ![f] = s]
  BY <1>1, <1>2, <1>4 DEF Call, TypeOK
<1>7. /\ flow' \in [Flow -> FlowState] /\ flow'[f] = s
      /\ \A g \in Flow \ {f} : flow'[g] = flow[g]
  <2>1. flow' \in [Flow -> FlowState]
    BY DEF IInv, TypeOK
  <2>2. QED
    BY <1>1, <1>6, <2>1 DEF TypeOK
<1>8. PICK c : c = RequestOf(f, step)
  OBVIOUS
<1>9. requests' = requests \cup {c} /\ c.flow = f /\ c.step = step
  BY <1>2, <1>8 DEF Call, RequestOf
<1>10. \A r \in requests : r.flow # f /\ r.step \in Step /\ r.flow \in Flow
  BY <1>1, <1>3, FlowAssumption DEF RequestsMatch, TypeOK, Request, Step
<1>11. \A g \in Flow : Alone(g)' => Alone(g)
  BY <1>5, <1>7, AloneStays DEF Step
<1>12. RequestsMatch'
  <2>1. c = RequestOf(f, step)'
    BY <1>5, <1>7, <1>8 DEF RequestOf
  <2>2. \A r \in requests : flow'[r.flow] = flow[r.flow] /\ r = RequestOf(r.flow, r.step)'
    BY <1>1, <1>7, <1>10 DEF RequestsMatch, RequestOf
  <2>3. QED
    BY <1>1, <1>3, <1>5, <1>7, <1>9, <1>10, <2>1, <2>2 DEF RequestsMatch
<1>13. CacheMatches'
  <2> SUFFICES ASSUME NEW g \in External, Alone(g)'
               PROVE  /\ flow'[g].pc = "idle" \/ Sent(g, "signerNonce")' =>
                          \A i \in Signer : cache'[i][flow'[g].tx] = NoNonce
                      /\ Stored(g)' => \A i \in Signer :
                          /\ cache'[i][flow'[g].tx] \in {NoNonce, flow'[g].user}
                          /\ Route[g] = {i} /\ i \notin restarted' =>
                              cache'[i][flow'[g].tx] = flow'[g].user
    BY DEF CacheMatches
  <2>1. Alone(g) /\ g \in Flow
    BY <1>11, FlowAssumption
  <2>2. CASE g # f
    <3>1. flow'[g] = flow[g]
      BY <1>7, <2>1, <2>2
    <3>2. /\ Sent(g, "signerNonce")' => Sent(g, "signerNonce")
          /\ Sent(g, "signerSignature")' => Sent(g, "signerSignature")
      BY <1>9, <2>2 DEF Sent
    <3>3. Stored(g)' => Stored(g)
      BY <3>1, <3>2 DEF Stored
    <3>4. QED
      BY <1>1, <1>3, <2>1, <3>1, <3>2, <3>3 DEF CacheMatches
  <2>3. CASE g = f
    <3>1. s.tx = flow[g].tx /\ s.user = flow[g].user /\ flow'[g] = s
      BY <1>5, <1>7, <2>3
    <3>2. flow'[g].pc = "idle" \/ Sent(g, "signerNonce")' => flow[g].pc = "idle"
      BY <1>2, <1>5, <1>9, <1>10, <2>3, <3>1 DEF Sent, Step
    <3>3. Stored(g)' => Stored(g)
      BY <1>2, <1>5, <1>9, <1>10, <2>3, <3>1 DEF Sent, Stored, Step
    <3>4. QED
      BY <1>1, <1>3, <2>1, <3>1, <3>2, <3>3 DEF CacheMatches
  <2>4. QED
    BY <2>2, <2>3
<1>14. CosignerMatches'
  BY <1>1, <1>2, <1>3, <1>5, <1>7, <1>11 DEF CosignerMatches, Step
<1>15. SignatureMade'
  BY <1>1, <1>3, <1>5, <1>7 DEF SignatureMade, Step
<1>16. QED
  BY <1>12, <1>13, <1>14, <1>15 DEF FlowInv

LEMMA RestartKeeps ==
    ASSUME FlowInv, IInv', NEW i \in Signer, Restart(i)
    PROVE  FlowInv'
<1>1. TypeOK /\ RequestsMatch /\ CacheMatches /\ CosignerMatches /\ SignatureMade
  BY DEF FlowInv, IInv
<1>2. UNCHANGED <<flow, requests, partials>> /\ restarted' = restarted \cup {i}
  BY DEF Restart
<1>3. \A j \in Signer, t \in Tx :
        IF j = i THEN cache'[j][t] = NoNonce ELSE cache'[j][t] = cache[j][t]
  BY <1>1 DEF Restart, TypeOK
<1>4. \A f \in Flow : flow[f].tx \in Tx
  BY <1>1 DEF TypeOK, FlowState
<1>5. \A f \in Flow : (Alone(f)' <=> Alone(f)) /\ (Stored(f)' <=> Stored(f))
  BY <1>2 DEF Alone, Stored, Sent
<1>6. RequestsMatch' /\ CosignerMatches' /\ SignatureMade'
  BY <1>1, <1>2, <1>5 DEF RequestsMatch, RequestOf, CosignerMatches, SignatureMade
<1>7. CacheMatches'
  BY <1>1, <1>2, <1>3, <1>4, <1>5, FlowAssumption DEF CacheMatches, Sent
<1>8. QED
  BY <1>6, <1>7 DEF FlowInv

\* A request that is served: the entry of its transaction at one instance and
\* the flow that waits for it change, and the request is gone.
LEMMA ServeKeeps ==
    ASSUME FlowInv, IInv', NEW r \in requests, NEW i \in Signer, i \in Route[r.flow],
           NEW s \in FlowState, Answer(r, s),
           requests' = requests \ {r}, partials \subseteq partials', restarted' = restarted,
           s.tx = flow[r.flow].tx,
           \A j \in Signer, t \in Tx : j # i \/ t # r.tx => cache'[j][t] = cache[j][t],
           \/ /\ r.step = "signerNonce" /\ s.pc = "cosignerNonce"
              /\ cache'[i][r.tx] = s.user
           \/ s.pc \in {"done", "failed"},
           flow[r.flow].pc = r.step /\ Alone(r.flow) /\ s.pc = "done" => s.cosigner = s.user,
           s.pc = "done" => \E p \in partials' :
               p.nonce = s.user /\ p.tx = s.tx /\ p.cosigner = s.cosigner
    PROVE  FlowInv'
<1>1. /\ TypeOK /\ RequestsMatch /\ CacheMatches /\ CosignerMatches /\ SignatureMade
  BY DEF FlowInv, IInv
<1>2. \A f \in Flow : flow[f].tx \in Tx
  BY <1>1 DEF TypeOK, FlowState
<1>3. PICK e \in External : e = r.flow
  BY <1>1 DEF RequestsMatch
<1>4. /\ e \in Flow /\ r.tx = flow[e].tx /\ r.step \in Step
      /\ flow[e].pc \in {r.step, "failed"}
      /\ \A q \in requests' : q.flow # e
  BY <1>1, <1>3, FlowAssumption DEF RequestsMatch, RequestOf, TypeOK, Request
<1>5. /\ \A g \in Flow \ {e} : flow'[g] = flow[g]
      /\ flow'[e] = flow[e] \/ (flow'[e] = s /\ flow[e].pc = r.step)
  BY <1>1, <1>3, <1>4, AnswerUpdate
<1>6. flow[e].pc \notin {"idle", "cosignerNonce", "cosigned", "done"} /\ s.pc # "idle"
  BY <1>4 DEF Step
<1>7. \A g \in Flow : Alone(g)' => Alone(g)
  BY <1>3, <1>5, <1>6, AloneStays
<1>8. RequestsMatch'
  <2>1. \A q \in requests' : q.flow \in Flow /\ q.flow # e
    BY <1>1, <1>4 DEF TypeOK, Request
  <2>2. \A q \in requests' : flow'[q.flow] = flow[q.flow]
    BY <1>5, <2>1
  <2>3. QED
    BY <1>1, <2>2 DEF RequestsMatch, RequestOf
<1>9. CacheMatches'
  <2> SUFFICES ASSUME NEW g \in External, Alone(g)'
               PROVE  /\ flow'[g].pc = "idle" \/ Sent(g, "signerNonce")' =>
                          \A j \in Signer : cache'[j][flow'[g].tx] = NoNonce
                      /\ Stored(g)' => \A j \in Signer :
                          /\ cache'[j][flow'[g].tx] \in {NoNonce, flow'[g].user}
                          /\ Route[g] = {j} /\ j \notin restarted' =>
                              cache'[j][flow'[g].tx] = flow'[g].user
    BY DEF CacheMatches
  <2>1. Alone(g) /\ g \in Flow
    BY <1>7, FlowAssumption
  <2>2. CASE g # e
    <3>1. flow'[g] = flow[g]
      BY <1>5, <2>1, <2>2
    <3>2. flow[g].tx # r.tx
      BY <1>4, <1>6, <2>1, <2>2 DEF Alone
    <3>3. \A j \in Signer : cache'[j][flow[g].tx] = cache[j][flow[g].tx]
      BY <1>2, <2>1, <3>2
    <3>4. /\ Sent(g, "signerNonce")' => Sent(g, "signerNonce")
          /\ Sent(g, "signerSignature")' => Sent(g, "signerSignature")
      BY DEF Sent
    <3>5. Stored(g)' => Stored(g)
      BY <3>1, <3>4 DEF Stored
    <3>6. QED
      BY <1>1, <2>1, <3>1, <3>3, <3>4, <3>5 DEF CacheMatches
  <2>3. CASE g = e
    <3>1. ~Sent(g, "signerNonce")' /\ ~Sent(g, "signerSignature")'
      BY <1>4, <2>3 DEF Sent
    <3>2. CASE flow'[e] = flow[e]
      BY <1>6, <2>3, <3>1, <3>2 DEF Stored
    <3>3. CASE flow'[e] = s
      <4>1. CASE r.step = "signerNonce" /\ s.pc = "cosignerNonce" /\ cache'[i][r.tx] = s.user
        <5>1. Sent(g, "signerNonce")
          BY <1>3, <2>3, <4>1 DEF Sent
        <5>2. \A j \in Signer : cache[j][r.tx] = NoNonce
          BY <1>1, <1>4, <2>1, <2>3, <5>1 DEF CacheMatches
        <5>3. \A j \in Signer : j # i => cache'[j][r.tx] = NoNonce
          BY <1>2, <1>4, <5>2
        <5>4. s.tx = r.tx /\ i \in Route[e]
          BY <1>3, <1>4
        <5>5. \A j \in Signer : Route[g] = {j} => j = i
          BY <2>3, <5>4
        <5>6. QED
          BY <2>3, <3>1, <3>3, <4>1, <5>3, <5>4, <5>5
      <4>2. CASE s.pc \in {"done", "failed"}
        BY <2>3, <3>1, <3>3, <4>2 DEF Stored
      <4>3. QED
        BY <4>1, <4>2
    <3>4. QED
      BY <1>5, <3>2, <3>3
  <2>4. QED
    BY <2>2, <2>3
<1>10. CosignerMatches'
  <2> SUFFICES ASSUME NEW g \in Flow, Alone(g)',
                      flow'[g].pc \in {"cosigned", "signerSignature", "done"}
               PROVE  flow'[g].cosigner = flow'[g].user
    BY DEF CosignerMatches
  <2>1. Alone(g)
    BY <1>7
  <2>2. CASE flow'[g] = flow[g]
    BY <1>1, <2>1, <2>2 DEF CosignerMatches
  <2>3. CASE g = e /\ flow'[e] = s /\ flow[e].pc = r.step
    <3>1. s.pc = "done"
      BY <2>3
    <3>2. QED
      BY <1>3, <2>1, <2>3, <3>1
  <2>4. QED
    BY <1>5, <2>2, <2>3
<1>11. SignatureMade'
  BY <1>1, <1>4, <1>5, <1>6 DEF SignatureMade
<1>12. QED
  BY <1>8, <1>9, <1>10, <1>11 DEF FlowInv

LEMMA SignerNonceKeeps ==
    ASSUME FlowInv, IInv', NEW r \in requests, NEW i \in Signer, SignerNonce(r, i)
    PROVE  FlowInv'
<1>1. TypeOK /\ r \in Request /\ r.flow \in Flow /\ r.tx \in Tx /\ flow[r.flow] \in FlowState
  BY DEF FlowInv, IInv, TypeOK, Request
<1>2. PICK n \in FreshNonces :
        /\ cache' = [cache EXCEPT ![i][r.tx] = n]
        /\ Answer(r, [flow[r.flow] EXCEPT !.pc = "cosignerNonce", !.user = n])
  BY DEF SignerNonce
<1>3. PICK s : s = [flow[r.flow] EXCEPT !.pc = "cosignerNonce", !.user = n]
  OBVIOUS
<1>4. n \in Nonce
  BY DEF FreshNonces
<1>5. s \in FlowState /\ s.pc = "cosignerNonce" /\ s.user = n /\ s.tx = flow[r.flow].tx
  BY <1>1, <1>3, <1>4 DEF FlowState, Pc
<1>6. /\ r.step = "signerNonce" /\ i \in Route[r.flow] /\ requests' = requests \ {r}
      /\ UNCHANGED <<partials, restarted>>
  BY DEF SignerNonce
<1>7. /\ cache'[i][r.tx] = s.user
      /\ \A j \in Signer, t \in Tx : j # i \/ t # r.tx => cache'[j][t] = cache[j][t]
  BY <1>1, <1>2, <1>5 DEF TypeOK
<1>8. Answer(r, s)
  BY <1>2, <1>3
<1>9. QED
  BY <1>5, <1>6, <1>7, <1>8, ServeKeeps

LEMMA SignerSignatureKeeps ==
    ASSUME FlowInv, IInv', NEW r \in requests, NEW i \in Signer, SignerSignature(r, i)
    PROVE  FlowInv'
<1>1. /\ TypeOK /\ r \in Request /\ r.flow \in Flow /\ r.tx \in Tx /\ flow[r.flow] \in FlowState
      /\ r.user \in Nonce \cup {NoNonce}
  BY DEF FlowInv, IInv, TypeOK, Request
<1>2. PICK n : n = cache[i][r.tx]
  OBVIOUS
<1>3. /\ r.step = "signerSignature" /\ i \in Route[r.flow] /\ n # NoNonce
      /\ cache' = [cache EXCEPT ![i][r.tx] = NoNonce]
      /\ requests' = requests \ {r} /\ restarted' = restarted
  BY <1>2 DEF SignerSignature
<1>4. \A j \in Signer, t \in Tx : j # i \/ t # r.tx => cache'[j][t] = cache[j][t]
  BY <1>1, <1>3 DEF TypeOK
<1>5. n \in Nonce
  BY <1>1, <1>2, <1>3 DEF TypeOK
<1>6. CASE /\ partials' = partials \cup {PartialOf(r, n)}
           /\ \E u \in {r.user, n} : Answer(r, Signed(r, n, u))
  <2>1. PICK u \in {r.user, n} : Answer(r, Signed(r, n, u))
    BY <1>6
  <2>2. PICK s : s = Signed(r, n, u)
    OBVIOUS
  <2>3. /\ s \in FlowState /\ s.pc \in {"done", "failed"} /\ s.tx = flow[r.flow].tx
        /\ s.cosigner = flow[r.flow].cosigner
        /\ s.pc = "done" => s.user = n
    BY <1>1, <1>5, <2>2 DEF Signed, FlowState, Pc
  <2>4. r.tx = flow[r.flow].tx /\ r.cosigner = flow[r.flow].cosigner /\ r.flow \in External
    BY DEF FlowInv, RequestsMatch, RequestOf
  <2>5. s.pc = "done" => \E p \in partials' :
          p.nonce = s.user /\ p.tx = s.tx /\ p.cosigner = s.cosigner
    <3>1. PICK p : p = PartialOf(r, n)
      OBVIOUS
    <3>2. p.nonce = n /\ p.tx = r.tx /\ p.cosigner = r.cosigner
      BY <3>1 DEF PartialOf
    <3>3. p \in partials'
      BY <1>6, <3>1
    <3>4. QED
      BY <2>3, <2>4, <3>2, <3>3
  <2>6. flow[r.flow].pc = r.step /\ Alone(r.flow) /\ s.pc = "done" => s.cosigner = s.user
    <3> SUFFICES ASSUME flow[r.flow].pc = r.step, Alone(r.flow), s.pc = "done"
                 PROVE  s.cosigner = s.user
      OBVIOUS
    <3>1. Stored(r.flow)
      BY <1>3 DEF Stored, Sent
    <3>2. n = flow[r.flow].user
      BY <1>2, <1>3, <2>4, <3>1 DEF FlowInv, CacheMatches
    <3>3. flow[r.flow].cosigner = flow[r.flow].user
      BY <1>1, <1>3 DEF FlowInv, CosignerMatches
    <3>4. QED
      BY <2>3, <3>2, <3>3
  <2>7. Answer(r, s) /\ partials \subseteq partials'
    BY <1>6, <2>1, <2>2
  <2>8. QED
    BY <1>3, <1>4, <2>3, <2>5, <2>6, <2>7, ServeKeeps
<1>7. CASE Answer(r, [flow[r.flow] EXCEPT !.pc = "failed"]) /\ UNCHANGED partials
  <2>1. PICK s : s = [flow[r.flow] EXCEPT !.pc = "failed"]
    OBVIOUS
  <2>2. s \in FlowState /\ s.pc = "failed" /\ s.tx = flow[r.flow].tx
    BY <1>1, <2>1 DEF FlowState, Pc
  <2>3. Answer(r, s) /\ partials \subseteq partials'
    BY <1>7, <2>1
  <2>4. QED
    BY <1>3, <1>4, <2>2, <2>3, ServeKeeps
<1>8. QED
  BY <1>2, <1>6, <1>7 DEF SignerSignature

LEMMA SignerMissKeeps ==
    ASSUME FlowInv, IInv', NEW r \in requests, NEW i \in Signer, SignerMiss(r, i)
    PROVE  FlowInv'
<1>1. TypeOK /\ r \in Request /\ r.flow \in Flow /\ flow[r.flow] \in FlowState
  BY DEF FlowInv, IInv, TypeOK, Request
<1>2. PICK s : s = [flow[r.flow] EXCEPT !.pc = "failed"]
  OBVIOUS
<1>3. s \in FlowState /\ s.pc = "failed" /\ s.tx = flow[r.flow].tx
  BY <1>1, <1>2 DEF FlowState, Pc
<1>4. /\ Answer(r, s) /\ i \in Route[r.flow] /\ requests' = requests \ {r}
      /\ UNCHANGED <<cache, partials, restarted>>
  BY <1>2 DEF SignerMiss
<1>5. QED
  BY <1>3, <1>4, ServeKeeps

LEMMA InitFlowInv == Init => FlowInv
<1> SUFFICES ASSUME Init PROVE FlowInv
  OBVIOUS
<1>1. \A f \in Flow : flow[f].pc = "idle" /\ flow[f].tx \in Tx
  BY DEF Init, NewFlow
<1>2. requests = {} /\ \A i \in Signer, t \in Tx : cache[i][t] = NoNonce
  BY DEF Init
<1>3. RequestsMatch /\ CosignerMatches /\ SignatureMade
  BY <1>1, <1>2 DEF RequestsMatch, CosignerMatches, SignatureMade
<1>4. CacheMatches
  BY <1>1, <1>2, FlowAssumption DEF CacheMatches, Stored, Sent
<1>5. QED
  BY <1>3, <1>4, InitIInv DEF FlowInv

LEMMA StepFlowInv == FlowInv /\ [Next]_vars => FlowInv'
<1> SUFFICES ASSUME FlowInv, [Next]_vars PROVE FlowInv'
  OBVIOUS
<1>1. IInv'
  BY StepIInv DEF FlowInv
<1>2. CASE UNCHANGED vars
  <2>1. RequestsMatch'
    BY <1>2 DEF FlowInv, RequestsMatch, RequestOf, vars
  <2>2. CacheMatches'
    BY <1>2 DEF FlowInv, CacheMatches, Stored, Sent, Alone, vars
  <2>3. CosignerMatches' /\ SignatureMade'
    BY <1>2 DEF FlowInv, CosignerMatches, SignatureMade, Alone, vars
  <2>4. QED
    BY <1>1, <2>1, <2>2, <2>3 DEF FlowInv
<1>3. CASE \E f \in Flow : FlowStep(f) \/ Fail(f) \/ ConnectionLost(f)
  BY <1>1, <1>3, FlowStepsKeep, CallKeeps DEF FlowStep
<1>4. CASE \E r \in requests : ConnectionRefused(r) \/ Serve(r)
  BY <1>1, <1>4, ConnectionRefusedKeeps, SignerNonceKeeps, SignerSignatureKeeps,
     SignerMissKeeps DEF Serve
<1>5. CASE \E i \in Signer : Restart(i)
  BY <1>1, <1>5, RestartKeeps
<1>6. QED
  BY <1>2, <1>3, <1>4, <1>5 DEF Next

----------------------------------------------------------------------------
(* The results *)

\* Whatever flows, signers and routes there are, a nonce is in one place.
THEOREM Invariance == Spec => []IInv
BY InitIInv, StepIInv, PTL DEF Spec

\* Every variable has its type in every reachable state.
THEOREM TypeCorrect == Spec => []TypeOK
<1>1. IInv => TypeOK
  BY DEF IInv
<1>2. QED
  BY Invariance, <1>1, PTL

\* No secret nonce that signPsbtWithMusig2ParticipantWasm generates enters two
\* signing sessions, for any number of flows, transactions and instances.
THEOREM NoncesSignOnce == Spec => []NonceNeverReused
<1>1. IInv => NonceNeverReused
  BY DEF IInv
<1>2. QED
  BY Invariance, <1>1, PTL

\* What a flow has sent, what the signer has stored and what a flow has got fit
\* together, for any number of flows, transactions, instances and routes.
THEOREM FlowInvariance == Spec => []FlowInv
BY InitFlowInv, StepFlowInv, PTL DEF Spec

\* A PSBT that signWithCustomSigningFunction or the local step returns has a
\* signature by the nonce it shows, and BitGo's nonce belongs to it if no other
\* flow signs the transaction.
THEOREM DoneMatches == Spec => []DoneMatchesItsNonce
<1>1. FlowInv => DoneMatchesItsNonce
  BY DEF FlowInv, SignatureMade, CosignerMatches, DoneMatchesItsNonce
<1>2. QED
  BY FlowInvariance, <1>1, PTL

\* A flow that is alone and has a sticky session finds its PSBT in
\* PSBT_CACHE_WASM when it asks for the signature, unless a restart emptied it.
THEOREM StickyFinds == Spec => []StickySessionFindsPsbt
<1>1. FlowInv => StickySessionFindsPsbt
  <2> SUFFICES ASSUME FlowInv, NEW r \in requests, NEW i \in Signer \ restarted,
                      r.step = "signerSignature", Alone(r.flow), Route[r.flow] = {i}
               PROVE  cache[i][r.tx] = r.user
    BY DEF StickySessionFindsPsbt
  <2>1. r.flow \in External /\ r.tx = flow[r.flow].tx /\ r.user = flow[r.flow].user
    BY DEF FlowInv, RequestsMatch, RequestOf
  <2>2. Stored(r.flow)
    BY DEF Stored, Sent
  <2>3. QED
    BY <2>1, <2>2 DEF FlowInv, CacheMatches
<1>2. QED
  BY FlowInvariance, <1>1, PTL

=============================================================================
