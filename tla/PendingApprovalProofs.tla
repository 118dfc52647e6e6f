------------------------ MODULE PendingApprovalProofs ------------------------
(***************************************************************************)
(* Proofs about PendingApproval, for any approvers and any number of       *)
(* approvals asked for: the inductive invariant, that only the approver    *)
(* who completes the approval acts on it, and that this approver does.     *)
(***************************************************************************)
EXTENDS PendingApproval, TLAPS

Call == [pc : Pc, tx : Tx \cup {None}, reply : State \cup {None}]

\* A call that moves leaves the other calls where they are.
LEMMA Moves ==
    ASSUME TypeOK, NEW a \in Approver, NEW c \in Call, call' = [call EXCEPT ![a] = c]
    PROVE  /\ call' \in [Approver -> Call]
           /\ call'[a] = c
           /\ \A b \in Approver \ {a} : call'[b] = call[b]
BY DEF TypeOK, Call

LEMMA MovesTo ==
    ASSUME TypeOK, NEW a \in Approver, NEW l \in Pc, Goto(a, l)
    PROVE  /\ call' \in [Approver -> Call]
           /\ call'[a] = [call[a] EXCEPT !.pc = l]
           /\ \A b \in Approver \ {a} : call'[b] = call[b]
<1>1. [call[a] EXCEPT !.pc = l] \in Call
    BY DEF TypeOK, Call
<1> QED BY <1>1, Moves DEF Goto

LEMMA MovesToPut ==
    ASSUME TypeOK, NEW a \in Approver, NEW t \in Tx \cup {None}, PutTx(a, t)
    PROVE  /\ call' \in [Approver -> Call]
           /\ call'[a] = [call[a] EXCEPT !.pc = "put", !.tx = t]
           /\ \A b \in Approver \ {a} : call'[b] = call[b]
<1>1. [call[a] EXCEPT !.pc = "put", !.tx = t] \in Call
    BY DEF TypeOK, Call, Pc
<1> QED BY <1>1, Moves DEF PutTx

LEMMA Returns ==
    ASSUME TypeOK, NEW a \in Approver, Return(a)
    PROVE  /\ call' \in [Approver -> Call]
           /\ call'[a] = Idle
           /\ \A b \in Approver \ {a} : call'[b] = call[b]
<1>1. Idle \in Call
    BY DEF Idle, Call, Pc
<1> QED BY <1>1, Moves DEF Return

\* A call that returns owes nothing.
LEMMA IdleBound ==
    ASSUME NEW a \in Approver, call'[a] = Idle, None \notin State
    PROVE  CallBound(a)'
BY DEF CallBound, Idle, State

\* None is no answer of the server about the approval.
LEMMA NoneIsNoState == None \notin State
BY NamesAssumption

\* Only one call knows that the approval is complete.
LEMMA OneDecider ==
    ASSUME IInv, NEW a \in Approver, NEW b \in Approver \ {a},
           call[a].reply = "approved"
    PROVE  call[b].reply # "approved"
<1>1. CallBound(a) /\ CallBound(b)
    BY DEF IInv
<1> QED BY <1>1 DEF CallBound

\* A step of a's call leaves the bounds of the other calls, when the counters
\* of the request move only with a decider's call.
LEMMA OneCall ==
    ASSUME IInv, NEW a \in Approver, kind' = kind, TypeOK', CallBound(a)',
           \A b \in Approver \ {a} : call'[b] = call[b],
           \A b \in Approver \ {a} :
               call[b].reply = "approved" =>
                   /\ decider' = decider
                   /\ txRequest'.transfers = txRequest.transfers
                   /\ txRequest'.sent = txRequest.sent,
           ServerBound', ApprovedHasTransaction'
    PROVE  IInv'
<1>1. ASSUME NEW b \in Approver PROVE CallBound(b)'
    <2>1. CASE b = a
        BY <2>1
    <2>2. CASE b # a
        <3>1. CallBound(b) /\ call'[b] = call[b]
            BY <2>2 DEF IInv
        <3> QED BY <3>1, <2>2 DEF CallBound
    <2> QED BY <2>1, <2>2
<1> QED BY <1>1 DEF IInv

\* A step of a's call that changes nothing else keeps the invariant.
LEMMA OnlyCall ==
    ASSUME IInv, NEW a \in Approver, TypeOK', CallBound(a)',
           \A b \in Approver \ {a} : call'[b] = call[b],
           UNCHANGED <<kind, approval, txRequest, decider, acted>>
    PROVE  IInv'
<1>1. ServerBound' /\ ApprovedHasTransaction'
    BY DEF IInv, ServerBound, ApprovedHasTransaction
<1> QED BY <1>1, OneCall

----------------------------------------------------------------------------
(* The initial states *)

LEMMA InitIInv == Init => IInv
<1> SUFFICES ASSUME Init PROVE IInv
    OBVIOUS
<1>1. TypeOK
    <2>1. Idle \in Call
        BY DEF Idle, Call, Pc
    <2>2. approval \in [state : State, by : SUBSET Approver, original : BOOLEAN,
                        halfSigned : Tx \cup {None}]
        BY DEF Init, State
    <2>3. call \in [Approver -> Call]
        BY <2>1 DEF Init
    <2> QED BY <2>2, <2>3, KindsAssumption, NumbersAssumption
            DEF Init, TypeOK, Call, State
<1>2. ASSUME NEW a \in Approver PROVE CallBound(a)
    BY NoneIsNoState DEF Init, CallBound, Idle, State
<1>3. ServerBound
    BY DEF Init, ServerBound
<1>4. ApprovedHasTransaction
    BY DEF Init, ApprovedHasTransaction
<1> QED BY <1>1, <1>2, <1>3, <1>4 DEF IInv

----------------------------------------------------------------------------
(* The steps *)

LEMMA StepApprove ==
    ASSUME IInv, NEW a \in Approver, Approve(a)
    PROVE  IInv'
<1> USE DEF Approve, At
<1>1. TypeOK /\ CallBound(a)
    BY DEF IInv
<1>2. /\ call' \in [Approver -> Call]
      /\ call'[a] = [call[a] EXCEPT !.pc = "preApprove"]
      /\ \A b \in Approver \ {a} : call'[b] = call[b]
    BY <1>1, MovesTo DEF Pc
<1>3. TypeOK'
    BY <1>1, <1>2, NumbersAssumption DEF TypeOK, Call
<1>4. call'[a].pc = "preApprove" /\ call'[a].reply = None
    BY <1>1, <1>2 DEF CallBound, TypeOK, Call
<1>5. CallBound(a)'
    BY <1>4, NoneIsNoState DEF CallBound, State
<1> QED BY <1>2, <1>3, <1>5, OnlyCall

\* A transaction is sent for a multisig approval.
LEMMA StepPreApprove ==
    ASSUME IInv, NEW a \in Approver, PreApprove(a)
    PROVE  IInv'
<1> USE DEF At
<1>1. TypeOK /\ CallBound(a) /\ call[a].pc = "preApprove" /\ call[a].reply = None
    BY DEF IInv, CallBound, PreApprove
<1>2. CASE Return(a)
    <2>1. call' \in [Approver -> Call] /\ call'[a] = Idle
          /\ \A b \in Approver \ {a} : call'[b] = call[b]
        BY <1>1, <1>2, Returns
    <2>2. CallBound(a)'
        BY <2>1, IdleBound, NoneIsNoState
    <2>3. TypeOK'
        BY <1>1, <2>1 DEF TypeOK, Call, PreApprove
    <2> QED BY <2>1, <2>2, <2>3, OnlyCall DEF PreApprove
<1>3. ASSUME NEW t \in Tx \cup {None}, PutTx(a, t),
             kind = "multisig" => t \in {"given", "original"}
      PROVE  IInv'
    <2>1. call' \in [Approver -> Call]
          /\ call'[a] = [call[a] EXCEPT !.pc = "put", !.tx = t]
          /\ \A b \in Approver \ {a} : call'[b] = call[b]
        BY <1>1, <1>3, MovesToPut
    <2>2. call'[a].pc = "put" /\ call'[a].reply = None /\ call'[a].tx = t
        BY <1>1, <2>1 DEF TypeOK, Call
    <2>3. kind' = kind
        BY DEF PreApprove
    <2>4. CallBound(a)'
        BY <1>3, <2>2, <2>3, NoneIsNoState DEF CallBound, State
    <2>5. TypeOK'
        BY <1>1, <2>1 DEF TypeOK, Call, PreApprove
    <2> QED BY <2>1, <2>4, <2>5, OnlyCall DEF PreApprove
<1>4. ASSUME NEW l \in {"recreate", "rebuild"}, Goto(a, l),
             l = "recreate" => kind = "lite",
             l = "rebuild" => kind = "multisig" /\ a \in Spender
      PROVE  IInv'
    <2>1. call' \in [Approver -> Call]
          /\ call'[a] = [call[a] EXCEPT !.pc = l]
          /\ \A b \in Approver \ {a} : call'[b] = call[b]
        BY <1>1, <1>4, MovesTo DEF Pc
    <2>2. call'[a].pc = l /\ call'[a].reply = None
        BY <1>1, <2>1 DEF TypeOK, Call
    <2>3. kind' = kind
        BY DEF PreApprove
    <2>4. CallBound(a)'
        BY <1>4, <2>2, <2>3, NoneIsNoState DEF CallBound, State
    <2>5. TypeOK'
        BY <1>1, <2>1 DEF TypeOK, Call, PreApprove
    <2> QED BY <2>1, <2>4, <2>5, OnlyCall DEF PreApprove
<1>5. {"given", "original"} \subseteq Tx
    BY DEF Tx
<1>6. CASE kind \notin {"multisig", "lite"} /\ PutTx(a, None)
    BY <1>3, <1>6
<1>7. CASE PutTx(a, "given")
    BY <1>3, <1>5, <1>7
<1>8. CASE kind = "lite" /\ IF CanRecreate(a) THEN Goto(a, "recreate") ELSE PutTx(a, None)
    BY <1>3, <1>4, <1>8
<1>9. CASE /\ kind = "multisig" /\ HasOriginal
           /\ IF CanRecreate(a) THEN Goto(a, "rebuild")
              ELSE PutTx(a, IF approval.original THEN "original" ELSE None)
    BY <1>3, <1>4, <1>5, <1>9 DEF HasOriginal, CanRecreate
<1> QED BY <1>2, <1>6, <1>7, <1>8, <1>9 DEF PreApprove

LEMMA StepRebuild ==
    ASSUME IInv, NEW a \in Approver, Rebuild(a)
    PROVE  IInv'
<1> USE DEF Rebuild, At
<1>1. TypeOK /\ call[a].reply = None /\ a \in Spender
    BY DEF IInv, CallBound
<1>2. CASE Return(a)
    <2>1. call' \in [Approver -> Call] /\ call'[a] = Idle
          /\ \A b \in Approver \ {a} : call'[b] = call[b]
        BY <1>1, <1>2, Returns
    <2>2. CallBound(a)'
        BY <2>1, IdleBound, NoneIsNoState
    <2>3. TypeOK'
        BY <1>1, <2>1 DEF TypeOK, Call
    <2> QED BY <2>1, <2>2, <2>3, OnlyCall
<1>3. CASE PutTx(a, a)
    <2>0. a \in Tx
        BY DEF Tx
    <2>1. call' \in [Approver -> Call]
          /\ call'[a] = [call[a] EXCEPT !.pc = "put", !.tx = a]
          /\ \A b \in Approver \ {a} : call'[b] = call[b]
        BY <1>1, <1>3, <2>0, MovesToPut
    <2>2. call'[a].pc = "put" /\ call'[a].reply = None /\ call'[a].tx = a
        BY <1>1, <2>1 DEF TypeOK, Call
    <2>3. CallBound(a)'
        BY <1>1, <2>2, NoneIsNoState DEF CallBound, State
    <2>4. TypeOK'
        BY <1>1, <2>1 DEF TypeOK, Call
    <2> QED BY <2>1, <2>3, <2>4, OnlyCall
<1> QED BY <1>2, <1>3

\* Shares are deleted by the decider, or of a request approved later.
LEMMA StepDeleteSignatureShares ==
    ASSUME IInv, NEW a \in Approver, DeleteSignatureShares(a)
    PROVE  IInv'
<1> USE DEF DeleteSignatureShares, At
<1>1. TypeOK /\ CallBound(a) /\ call[a].pc = "recreate"
    BY DEF IInv
<1>2. CASE a \in Listed
    <2>1. call' \in [Approver -> Call] /\ call'[a] = Idle
          /\ \A b \in Approver \ {a} : call'[b] = call[b]
        BY <1>1, <1>2, Returns
    <2>2. CallBound(a)'
        BY <2>1, IdleBound, NoneIsNoState
    <2>3. TypeOK'
        BY <1>1, <1>2, <2>1 DEF TypeOK, Call
    <2> QED BY <1>2, <2>1, <2>2, <2>3, OnlyCall
<1>3. CASE a \notin Listed
    <2>1. call' \in [Approver -> Call]
          /\ call'[a] = [call[a] EXCEPT !.pc = "sign"]
          /\ \A b \in Approver \ {a} : call'[b] = call[b]
        BY <1>1, <1>3, MovesTo DEF Pc
    <2>2. call'[a].pc = "sign" /\ call'[a].reply = call[a].reply
        BY <1>1, <2>1 DEF TypeOK, Call
    <2>3. CallBound(a)'
        BY <1>1, <2>2, NoneIsNoState DEF CallBound, State
    <2>4. txRequest' = [txRequest EXCEPT !.shares = {}]
        BY <1>3
    <2>5. /\ txRequest'.shares = {} /\ txRequest'.transfers = txRequest.transfers
          /\ txRequest'.sent = txRequest.sent
        BY <1>1, <2>4 DEF TypeOK
    <2>6. TypeOK'
        BY <1>1, <2>1, <2>4 DEF TypeOK, Call
    <2>7. ServerBound'
        BY <2>5 DEF IInv, ServerBound
    <2>8. ApprovedHasTransaction'
        BY DEF IInv, ApprovedHasTransaction
    <2> QED BY <2>1, <2>3, <2>5, <2>6, <2>7, <2>8, OneCall
<1> QED BY <1>2, <1>3

\* What is signed after the approval is signed by the decider.
LEMMA StepSignTxRequest ==
    ASSUME IInv, NEW a \in Approver, SignTxRequest(a)
    PROVE  IInv'
<1> USE DEF SignTxRequest, At
<1>1. TypeOK /\ CallBound(a) /\ call[a].pc = "sign"
    BY DEF IInv
<1>2. kind = "lite" \/ (kind = "full" /\ decider = {a})
    BY <1>1 DEF CallBound
<1>3. /\ call' \in [Approver -> Call] /\ CallBound(a)'
      /\ \A b \in Approver \ {a} : call'[b] = call[b]
    <2>1. CASE kind = "lite"
        <3>1. a \in Tx /\ PutTx(a, a)
            BY <2>1 DEF Tx
        <3>2. call' \in [Approver -> Call]
              /\ call'[a] = [call[a] EXCEPT !.pc = "put", !.tx = a]
              /\ \A b \in Approver \ {a} : call'[b] = call[b]
            BY <1>1, <3>1, MovesToPut
        <3>3. call[a].reply = None
            BY <1>1, <2>1 DEF CallBound
        <3>4. call'[a].pc = "put" /\ call'[a].reply = None
            BY <1>1, <3>2, <3>3 DEF TypeOK, Call
        <3>5. CallBound(a)'
            BY <2>1, <3>4, NoneIsNoState DEF CallBound, State
        <3> QED BY <3>2, <3>5
    <2>2. CASE kind # "lite"
        <3>1. Return(a)
            BY <2>2
        <3>2. call' \in [Approver -> Call] /\ call'[a] = Idle
              /\ \A b \in Approver \ {a} : call'[b] = call[b]
            BY <1>1, <3>1, Returns
        <3> QED BY <3>2, IdleBound, NoneIsNoState
    <2> QED BY <2>1, <2>2
<1>4. /\ txRequest'.shares = txRequest.shares \cup {a}
      /\ txRequest'.transfers = txRequest.transfers
      /\ txRequest'.sent = txRequest.sent
      /\ txRequest' \in [shares : SUBSET Approver, transfers : Nat, sent : Nat]
    BY <1>1 DEF TypeOK
<1>5. TypeOK'
    BY <1>1, <1>3, <1>4 DEF TypeOK, Call
<1>6. ServerBound'
    BY <1>2, <1>4 DEF IInv, ServerBound
<1>7. ApprovedHasTransaction'
    BY DEF IInv, ApprovedHasTransaction
<1> QED BY <1>3, <1>4, <1>5, <1>6, <1>7, OneCall

\* The approval that completes it makes its approver the decider; before, the
\* request was as it had been made.
LEMMA StepPutApproved ==
    ASSUME IInv, NEW a \in Approver, PutApproved(a)
    PROVE  IInv'
<1> USE DEF At
<1>1. /\ TypeOK /\ CallBound(a) /\ call[a].pc = "put" /\ approval.state = "pending"
      /\ call[a] \in Call
    BY DEF IInv, PutApproved, TypeOK, Call
<1>2. call[a].reply = None /\ decider = {}
    BY <1>1 DEF CallBound, IInv, ServerBound
<1>3. UNCHANGED <<kind, txRequest, cache, calls, cut, acted>>
    BY DEF PutApproved
<1>4. CASE Goto(a, "answer") /\ UNCHANGED <<approval, decider>>
    <2>1. call' \in [Approver -> Call]
          /\ call'[a] = [call[a] EXCEPT !.pc = "answer"]
          /\ \A b \in Approver \ {a} : call'[b] = call[b]
        BY <1>1, <1>4, MovesTo DEF Pc
    <2>2. call'[a].pc = "answer" /\ call'[a].reply = None
        BY <1>1, <1>2, <2>1 DEF Call
    <2>3. CallBound(a)'
        BY <2>2, NoneIsNoState DEF CallBound, State
    <2>4. TypeOK'
        BY <1>1, <1>3, <1>4, <2>1 DEF TypeOK, Call
    <2> QED BY <1>3, <1>4, <2>1, <2>3, <2>4, OnlyCall
<1>5. ASSUME NEW st \in {"approved", "pending"},
             approval' = [approval EXCEPT !.state = st,
                             !.by = approval.by \cup {a}, !.halfSigned = call[a].tx],
             decider' = IF st = "approved" THEN {a} ELSE decider,
             call' = [call EXCEPT ![a] =
                         [call[a] EXCEPT !.pc = "answer", !.reply = st]]
      PROVE  IInv'
    <2>1. [call[a] EXCEPT !.pc = "answer", !.reply = st] \in Call
        BY <1>1 DEF Call, Pc, State
    <2>2. call' \in [Approver -> Call]
          /\ call'[a] = [call[a] EXCEPT !.pc = "answer", !.reply = st]
          /\ \A b \in Approver \ {a} : call'[b] = call[b]
        BY <1>1, <1>5, <2>1, Moves
    <2>3. call'[a].pc = "answer" /\ call'[a].reply = st
        BY <1>1, <2>2 DEF Call
    <2>4. /\ approval'.state = st /\ approval'.by = approval.by \cup {a}
          /\ approval'.halfSigned = call[a].tx
          /\ approval' \in [state : State, by : SUBSET Approver, original : BOOLEAN,
                            halfSigned : Tx \cup {None}]
        BY <1>1, <1>5 DEF TypeOK, State, Call
    <2>5. /\ txRequest.transfers = 0 /\ txRequest.sent = 0
          /\ kind \in {"full", "lightning"} => acted \cup txRequest.shares \subseteq {}
        BY <1>2 DEF IInv, ServerBound
    <2>6. st = "approved" => decider' = {a}
        BY <1>5
    <2>7. CallBound(a)'
        BY <1>3, <2>3, <2>5, <2>6 DEF CallBound
    <2>8. TypeOK'
        BY <1>1, <1>2, <1>3, <1>5, <2>2, <2>4 DEF TypeOK, Call
    <2>9. ServerBound'
        BY <1>2, <1>3, <1>5, <2>4, <2>5 DEF ServerBound
    <2>10. ApprovedHasTransaction'
        BY <1>1, <1>3, <2>4 DEF ApprovedHasTransaction, CallBound
    <2>11. \A b \in Approver \ {a} : call[b].reply # "approved"
        BY <1>2 DEF IInv, CallBound
    <2> QED BY <1>3, <2>2, <2>7, <2>8, <2>9, <2>10, <2>11, OneCall
<1>6. CASE \E st \in {"approved", "pending"} :
              /\ approval' = [approval EXCEPT !.state = st,
                                !.by = approval.by \cup {a}, !.halfSigned = call[a].tx]
              /\ decider' = IF st = "approved" THEN {a} ELSE decider
              /\ call' = [call EXCEPT ![a] =
                            [call[a] EXCEPT !.pc = "answer", !.reply = st]]
    BY <1>5, <1>6
<1>7. (IF Cardinality(approval.by \cup {a}) >= Required THEN "approved" ELSE "pending")
          \in {"approved", "pending"}
    OBVIOUS
<1> QED BY <1>4, <1>6, <1>7 DEF PutApproved

LEMMA StepRefused ==
    ASSUME IInv, NEW a \in Approver, Refused(a)
    PROVE  IInv'
<1> USE DEF Refused
<1>1. call' \in [Approver -> Call] /\ call'[a] = Idle
      /\ \A b \in Approver \ {a} : call'[b] = call[b]
    BY Returns DEF IInv
<1>2. CallBound(a)'
    BY <1>1, IdleBound, NoneIsNoState
<1>3. TypeOK'
    BY <1>1 DEF IInv, TypeOK, Call
<1> QED BY <1>1, <1>2, <1>3, OnlyCall

\* Whoever is told that the approval is complete is the decider.
LEMMA StepAnswer ==
    ASSUME IInv, NEW a \in Approver, Answer(a)
    PROVE  IInv'
<1> USE DEF At
<1>1. /\ TypeOK /\ CallBound(a) /\ call[a].pc = "answer" /\ call[a] \in Call
      /\ UNCHANGED <<kind, approval, txRequest, calls, decider, cut, acted>>
    BY DEF IInv, Answer, TypeOK, Call
<1>2. cache' \in [Approver -> State]
    BY <1>1 DEF Answer, TypeOK, Call
<1>3. CASE Return(a)
    <2>1. call' \in [Approver -> Call] /\ call'[a] = Idle
          /\ \A b \in Approver \ {a} : call'[b] = call[b]
        BY <1>1, <1>3, Returns
    <2>2. CallBound(a)'
        BY <2>1, IdleBound, NoneIsNoState
    <2>3. TypeOK'
        BY <1>1, <1>2, <2>1 DEF TypeOK, Call
    <2> QED BY <1>1, <2>1, <2>2, <2>3, OnlyCall
<1>4. ASSUME NEW l \in {"transfer", "recreate"}, Goto(a, l), call[a].reply = "approved",
             l = "transfer" => kind = "lightning", l = "recreate" => kind = "full"
      PROVE  IInv'
    <2>1. call' \in [Approver -> Call]
          /\ call'[a] = [call[a] EXCEPT !.pc = l]
          /\ \A b \in Approver \ {a} : call'[b] = call[b]
        BY <1>1, <1>4, MovesTo DEF Pc
    <2>2. call'[a].pc = l /\ call'[a].reply = "approved"
        BY <1>1, <1>4, <2>1 DEF Call
    <2>3. CallBound(a)'
        BY <1>1, <1>4, <2>2 DEF CallBound
    <2>4. TypeOK'
        BY <1>1, <1>2, <2>1 DEF TypeOK, Call
    <2> QED BY <1>1, <2>1, <2>3, <2>4, OnlyCall
<1> QED BY <1>3, <1>4 DEF Answer, IsApproved, AfterApproval

LEMMA StepAddTransfer ==
    ASSUME IInv, NEW a \in Approver, AddTransfer(a)
    PROVE  IInv'
<1> USE DEF AddTransfer, At
<1>1. TypeOK /\ CallBound(a) /\ call[a].pc = "transfer" /\ call[a] \in Call
    BY DEF IInv, TypeOK, Call
<1>2. /\ call[a].reply = "approved" /\ decider = {a} /\ kind = "lightning"
      /\ txRequest.transfers = 0 /\ txRequest.sent = 0
    BY <1>1 DEF CallBound
<1>3. call' \in [Approver -> Call]
      /\ call'[a] = [call[a] EXCEPT !.pc = "pay"]
      /\ \A b \in Approver \ {a} : call'[b] = call[b]
    BY <1>1, MovesTo DEF Pc
<1>4. call'[a].pc = "pay" /\ call'[a].reply = "approved"
    BY <1>1, <1>2, <1>3 DEF Call
<1>5. /\ txRequest'.shares = txRequest.shares /\ txRequest'.transfers = 1
      /\ txRequest'.sent = 0
      /\ txRequest' \in [shares : SUBSET Approver, transfers : Nat, sent : Nat]
    BY <1>1, <1>2 DEF TypeOK
<1>6. CallBound(a)'
    BY <1>2, <1>4, <1>5 DEF CallBound
<1>7. TypeOK'
    BY <1>1, <1>3, <1>5 DEF TypeOK, Call
<1>8. ServerBound'
    BY <1>2, <1>5 DEF IInv, ServerBound
<1>9. ApprovedHasTransaction'
    BY DEF IInv, ApprovedHasTransaction
<1>10. \A b \in Approver \ {a} : call[b].reply # "approved"
    BY <1>2, OneDecider
<1> QED BY <1>3, <1>6, <1>7, <1>8, <1>9, <1>10, OneCall

LEMMA StepSendTxRequest ==
    ASSUME IInv, NEW a \in Approver, SendTxRequest(a)
    PROVE  IInv'
<1> USE DEF SendTxRequest, At
<1>1. TypeOK /\ CallBound(a) /\ call[a].pc = "pay" /\ call[a] \in Call
    BY DEF IInv, TypeOK, Call
<1>2. /\ call[a].reply = "approved" /\ decider = {a}
      /\ txRequest.transfers = 1 /\ txRequest.sent = 0
    BY <1>1 DEF CallBound
<1>3. call' \in [Approver -> Call] /\ call'[a] = Idle
      /\ \A b \in Approver \ {a} : call'[b] = call[b]
    BY <1>1, Returns
<1>4. CallBound(a)'
    BY <1>3, IdleBound, NoneIsNoState
<1>5. /\ txRequest'.shares = txRequest.shares /\ txRequest'.transfers = 1
      /\ txRequest'.sent = 1
      /\ txRequest' \in [shares : SUBSET Approver, transfers : Nat, sent : Nat]
    BY <1>1, <1>2 DEF TypeOK
<1>6. TypeOK'
    BY <1>1, <1>3, <1>5 DEF TypeOK, Call
<1>7. ServerBound'
    BY <1>2, <1>5 DEF IInv, ServerBound
<1>8. ApprovedHasTransaction'
    BY DEF IInv, ApprovedHasTransaction
<1>9. \A b \in Approver \ {a} : call[b].reply # "approved"
    BY <1>2, OneDecider
<1> QED BY <1>3, <1>4, <1>6, <1>7, <1>8, <1>9, OneCall

LEMMA StepFail ==
    ASSUME IInv, NEW a \in Approver, Fail(a)
    PROVE  IInv'
<1> USE DEF Fail
<1>1. call' \in [Approver -> Call] /\ call'[a] = Idle
      /\ \A b \in Approver \ {a} : call'[b] = call[b]
    BY Returns DEF IInv
<1>2. CallBound(a)'
    BY <1>1, IdleBound, NoneIsNoState
<1>3. TypeOK'
    BY <1>1 DEF IInv, TypeOK, Call
<1> QED BY <1>1, <1>2, <1>3, OnlyCall

\* A rejection comes before anybody is the decider, or not at all.
LEMMA StepReject ==
    ASSUME IInv, RejectApproval
    PROVE  IInv'
<1> USE DEF RejectApproval
<1>1. /\ approval'.state = "rejected" /\ approval'.by = approval.by
      /\ approval' \in [state : State, by : SUBSET Approver, original : BOOLEAN,
                        halfSigned : Tx \cup {None}]
    BY DEF IInv, TypeOK, State
<1>2. TypeOK'
    BY <1>1 DEF IInv, TypeOK
<1>3. ServerBound'
    BY <1>1 DEF IInv, ServerBound
<1>4. ApprovedHasTransaction'
    BY <1>1 DEF ApprovedHasTransaction
<1>5. ASSUME NEW a \in Approver PROVE CallBound(a)'
    BY DEF IInv, CallBound
<1> QED BY <1>2, <1>3, <1>4, <1>5 DEF IInv

LEMMA StepGet ==
    ASSUME IInv, NEW a \in Approver, Get(a)
    PROVE  IInv'
<1> USE DEF Get
<1>1. cache' \in [Approver -> State]
    BY DEF IInv, TypeOK
<1>2. TypeOK'
    BY <1>1 DEF IInv, TypeOK
<1>3. ServerBound' /\ ApprovedHasTransaction'
    BY DEF IInv, ServerBound, ApprovedHasTransaction
<1>4. ASSUME NEW b \in Approver PROVE CallBound(b)'
    BY DEF IInv, CallBound
<1> QED BY <1>2, <1>3, <1>4 DEF IInv

LEMMA StutterIInv ==
    ASSUME IInv, UNCHANGED vars
    PROVE  IInv'
<1> USE DEF vars
<1>1. TypeOK' /\ ServerBound' /\ ApprovedHasTransaction'
    BY DEF IInv, TypeOK, ServerBound, ApprovedHasTransaction
<1>2. ASSUME NEW a \in Approver PROVE CallBound(a)'
    BY DEF IInv, CallBound
<1> QED BY <1>1, <1>2 DEF IInv

LEMMA NextIInv ==
    ASSUME IInv, [Next]_vars
    PROVE  IInv'
<1>1. ASSUME NEW a \in Approver, Approve(a) \/ Step(a) \/ Fail(a) \/ Get(a)
      PROVE  IInv'
    BY <1>1, StepApprove, StepPreApprove, StepRebuild, StepDeleteSignatureShares,
       StepSignTxRequest, StepPutApproved, StepRefused, StepAnswer,
       StepAddTransfer, StepSendTxRequest, StepFail, StepGet DEF Step
<1> QED BY <1>1, StepReject, StutterIInv DEF Next

----------------------------------------------------------------------------
(* The theorems *)

\* The invariant holds in every state.
THEOREM Invariance == Spec => []IInv
<1> QED BY InitIInv, NextIInv, PTL DEF Spec

\* The variables keep their types.
THEOREM TypeCorrect == Spec => []TypeOK
<1>1. IInv => TypeOK
    BY DEF IInv
<1> QED BY <1>1, Invariance, PTL

\* Nobody but the approver who completes the approval signs or pays what is
\* acted on after it, and that one pays once.
THEOREM OneActs == Spec => []OnlyTheDeciderActs
<1>1. IInv => OnlyTheDeciderActs
    BY DEF IInv, ServerBound, OnlyTheDeciderActs
<1> QED BY <1>1, Invariance, PTL

\* A multisig approval is never approved without a transaction.
THEOREM TransactionSent == Spec => []ApprovedHasTransaction
<1>1. IInv => ApprovedHasTransaction
    BY DEF IInv
<1> QED BY <1>1, Invariance, PTL

----------------------------------------------------------------------------
(* The decider acts, when every object was constructed with its wallet *)

LEMMA InitDecider == Init => DeciderBound
BY DEF Init, DeciderBound

LEMMA NextDecider ==
    ASSUME IInv, DeciderBound, Listed = {}, [Next]_vars
    PROVE  DeciderBound'
<1> USE DEF At
<1> DEFINE Acted(a) ==
        /\ kind = "full" /\ a \in Spender =>
               call[a].reply = "approved" \/ txRequest.shares = {a}
        /\ kind = "lightning" => call[a].reply = "approved" \/ txRequest.sent = 1
<1>0. TypeOK /\ ServerBound /\ \A a \in Approver : CallBound(a)
    BY DEF IInv
<1>1. DeciderBound <=> \A a \in decider \ cut : Acted(a)
    BY DEF DeciderBound
<1>2. DeciderBound' <=> \A a \in decider' \ cut' : Acted(a)'
    BY DEF DeciderBound
<1>3. decider \subseteq Approver
    BY <1>0 DEF TypeOK
<1> HIDE DEF Acted
\* A step after which the call still knows, or which leaves the call alone.
<1>4. ASSUME UNCHANGED <<kind, decider, txRequest>>, cut \subseteq cut',
             \A a \in decider \ cut' :
                 call[a].reply = "approved" => call'[a].reply = "approved"
      PROVE  DeciderBound'
    <2>1. ASSUME NEW a \in decider' \ cut' PROVE Acted(a)'
        <3>1. Acted(a)
            BY <1>1, <1>4, <2>1
        <3> QED BY <1>4, <2>1, <3>1 DEF Acted
    <2> QED BY <1>2, <2>1
\* A call whose answer is not that the approval is complete.
<1>5. ASSUME UNCHANGED <<kind, decider, txRequest>>, cut \subseteq cut',
             NEW a \in Approver, call[a].reply # "approved" \/ a \in cut',
             \A b \in Approver \ {a} : call'[b] = call[b]
      PROVE  DeciderBound'
    BY <1>3, <1>4, <1>5
<1>6. ASSUME NEW a \in Approver, Approve(a) PROVE DeciderBound'
    <2>1. \A b \in Approver \ {a} : call'[b] = call[b]
        BY <1>0, <1>6, MovesTo DEF Approve, Pc
    <2>2. call[a].reply # "approved"
        BY <1>0, <1>6, NoneIsNoState DEF Approve, CallBound, State
    <2> QED BY <1>5, <1>6, <2>1, <2>2 DEF Approve
<1>7. ASSUME NEW a \in Approver, PreApprove(a) PROVE DeciderBound'
    <2>1. \A b \in Approver \ {a} : call'[b] = call[b]
        BY <1>0, <1>7 DEF PreApprove, Goto, PutTx, Return, TypeOK
    <2>2. call[a].reply # "approved"
        BY <1>0, <1>7, NoneIsNoState DEF PreApprove, CallBound, State
    <2> QED BY <1>5, <1>7, <2>1, <2>2 DEF PreApprove
<1>8. ASSUME NEW a \in Approver, Rebuild(a) PROVE DeciderBound'
    <2>1. \A b \in Approver \ {a} : call'[b] = call[b]
        BY <1>0, <1>8 DEF Rebuild, PutTx, Return, TypeOK
    <2>2. call[a].reply # "approved"
        BY <1>0, <1>8, NoneIsNoState DEF Rebuild, CallBound, State
    <2> QED BY <1>5, <1>8, <2>1, <2>2 DEF Rebuild
<1>9. ASSUME NEW a \in Approver, DeleteSignatureShares(a) PROVE DeciderBound'
    <2>1. Goto(a, "sign")
        BY <1>9 DEF DeleteSignatureShares
    <2>2. /\ call'[a] = [call[a] EXCEPT !.pc = "sign"]
          /\ \A b \in Approver \ {a} : call'[b] = call[b]
        BY <1>0, <2>1, MovesTo DEF Pc
    <2>3. call'[a].reply = call[a].reply
        BY <1>0, <2>2 DEF TypeOK
    <2>4. kind # "lightning" /\ (kind = "full" => decider = {a} /\ call[a].reply = "approved")
        BY <1>0, <1>9 DEF DeleteSignatureShares, CallBound
    <2>5. UNCHANGED <<kind, decider>>
        BY <1>9 DEF DeleteSignatureShares
    <2>6. ASSUME NEW b \in decider' \ cut' PROVE Acted(b)'
        BY <2>3, <2>4, <2>5, <2>6 DEF Acted
    <2> QED BY <1>2, <2>6
<1>10. ASSUME NEW a \in Approver, SignTxRequest(a) PROVE DeciderBound'
    <2>1. kind # "lightning" /\ (kind = "full" => decider = {a} /\ txRequest.shares \subseteq {a})
        BY <1>0, <1>10 DEF SignTxRequest, CallBound, ServerBound
    <2>2. UNCHANGED <<kind, decider>> /\ txRequest'.shares = txRequest.shares \cup {a}
        BY <1>0, <1>10 DEF SignTxRequest, TypeOK
    <2>3. ASSUME NEW b \in decider' \ cut' PROVE Acted(b)'
        BY <2>1, <2>2, <2>3 DEF Acted
    <2> QED BY <1>2, <2>3
<1>11. ASSUME NEW a \in Approver, PutApproved(a) PROVE DeciderBound'
    <2>1. call[a].reply # "approved" /\ decider = {}
        BY <1>0, <1>11, NoneIsNoState DEF PutApproved, CallBound, ServerBound, State
    <2>2. ASSUME NEW b \in decider' \ cut' PROVE Acted(b)'
        <3>1. /\ decider' = {a}
              /\ call' = [call EXCEPT ![a] =
                             [call[a] EXCEPT !.pc = "answer", !.reply = "approved"]]
            BY <1>11, <2>1, <2>2 DEF PutApproved
        <3>2. call'[a].reply = "approved"
            BY <1>0, <3>1 DEF TypeOK
        <3> QED BY <2>2, <3>1, <3>2 DEF Acted
    <2> QED BY <1>2, <2>2
<1>12. ASSUME NEW a \in Approver, Refused(a) PROVE DeciderBound'
    <2>1. \A b \in Approver \ {a} : call'[b] = call[b]
        BY <1>0, <1>12, Returns DEF Refused
    <2>2. call[a].reply # "approved"
        BY <1>0, <1>12, NoneIsNoState DEF Refused, CallBound, State
    <2> QED BY <1>5, <1>12, <2>1, <2>2 DEF Refused
<1>13. ASSUME NEW a \in Approver, Answer(a) PROVE DeciderBound'
    <2>1. UNCHANGED <<kind, decider, txRequest, cut>>
        BY <1>13 DEF Answer
    <2>2. \A b \in Approver \ {a} : call'[b] = call[b]
        BY <1>0, <1>13 DEF Answer, AfterApproval, Goto, Return, TypeOK
    <2>3. CASE call[a].reply # "approved"
        BY <1>5, <2>1, <2>2, <2>3
    <2>4. CASE /\ call[a].reply = "approved"
               /\ kind = "lightning" \/ (kind = "full" /\ a \in Spender)
        <3>1. PICK l \in {"transfer", "recreate"} : Goto(a, l)
            BY <1>13, <2>4, NoneIsNoState
               DEF Answer, IsApproved, AfterApproval, CanRecreate, State
        <3>2. call'[a] = [call[a] EXCEPT !.pc = l]
            BY <1>0, <3>1, MovesTo DEF Pc
        <3>3. call'[a].reply = "approved"
            BY <1>0, <2>4, <3>2 DEF TypeOK
        <3> QED BY <1>3, <1>4, <2>1, <2>2, <3>3
    <2>5. CASE /\ call[a].reply = "approved"
               /\ kind # "lightning" /\ ~(kind = "full" /\ a \in Spender)
        <3>1. decider = {a}
            BY <1>0, <2>5 DEF CallBound
        <3>2. ASSUME NEW b \in decider' \ cut' PROVE Acted(b)'
            BY <2>1, <2>5, <3>1, <3>2 DEF Acted
        <3> QED BY <1>2, <3>2
    <2> QED BY <2>3, <2>4, <2>5
<1>14. ASSUME NEW a \in Approver, AddTransfer(a) PROVE DeciderBound'
    <2>1. /\ call'[a] = [call[a] EXCEPT !.pc = "pay"]
        BY <1>0, <1>14, MovesTo DEF AddTransfer, Pc
    <2>2. call'[a].reply = "approved" /\ decider = {a}
        BY <1>0, <1>14, <2>1 DEF AddTransfer, CallBound, TypeOK
    <2>3. UNCHANGED decider
        BY <1>14 DEF AddTransfer
    <2>4. ASSUME NEW b \in decider' \ cut' PROVE Acted(b)'
        BY <2>2, <2>3, <2>4 DEF Acted
    <2> QED BY <1>2, <2>4
<1>15. ASSUME NEW a \in Approver, SendTxRequest(a) PROVE DeciderBound'
    <2>1. /\ kind = "lightning" /\ decider = {a}
          /\ txRequest.sent = 0
        BY <1>0, <1>15 DEF SendTxRequest, CallBound
    <2>2. UNCHANGED <<kind, decider>> /\ txRequest'.sent = 1
        BY <1>0, <1>15, <2>1 DEF SendTxRequest, TypeOK
    <2>3. ASSUME NEW b \in decider' \ cut' PROVE Acted(b)'
        BY <2>1, <2>2, <2>3 DEF Acted
    <2> QED BY <1>2, <2>3
<1>16. ASSUME NEW a \in Approver, Fail(a) PROVE DeciderBound'
    <2>1. \A b \in Approver \ {a} : call'[b] = call[b]
        BY <1>0, <1>16, Returns DEF Fail
    <2> QED BY <1>5, <1>16, <2>1 DEF Fail
<1>17. ASSUME RejectApproval \/ (\E a \in Approver : Get(a)) \/ UNCHANGED vars
       PROVE  DeciderBound'
    BY <1>4, <1>17 DEF RejectApproval, Get, vars
<1> QED BY <1>6, <1>7, <1>8, <1>9, <1>10, <1>11, <1>12, <1>13, <1>14, <1>15, <1>16,
           <1>17 DEF Next, Step

\* When every object was constructed with its wallet, the approver who
\* completes the approval and of whom no request failed signs or pays.
THEOREM DeciderDoes ==
    ASSUME Listed = {}
    PROVE  Spec => []DeciderActs
<1>1. IInv /\ DeciderBound => DeciderActs
    <2> SUFFICES ASSUME IInv, DeciderBound, NEW a \in decider \ cut, At(a, "idle")
                 PROVE  /\ kind = "full" /\ a \in Spender => txRequest.shares = {a}
                        /\ kind = "lightning" => txRequest.sent = 1
        BY DEF DeciderActs
    <2>1. a \in Approver
        BY DEF IInv, TypeOK
    <2>2. call[a].reply # "approved"
        BY <2>1, NoneIsNoState DEF IInv, CallBound, At, State
    <2> QED BY <2>2 DEF DeciderBound
<1>2. IInv /\ DeciderBound /\ [Next]_vars => DeciderBound'
    BY NextDecider
<1> QED BY <1>1, <1>2, InitDecider, Invariance, PTL DEF Spec
==============================================================================
