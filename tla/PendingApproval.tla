--------------------------- MODULE PendingApproval ---------------------------
(***************************************************************************)
(* One pending approval of a wallet and the objects of sdk-core            *)
(* (pendingApproval/pendingApproval.ts) through which its approvers        *)
(* approve, reject and refetch it.                                         *)
(*                                                                         *)
(* When the signature is made depends on what is approved:                 *)
(*   multisig   a transaction built again and signed before the approval,  *)
(*              or the original one                                        *)
(*   lite       a TSS request, signed again before the approval            *)
(*   full       a TSS request, signed after it has been approved           *)
(*   lightning  a payment, sent after it has been approved                 *)
(*   other      nothing to sign (users, policies)                          *)
(*                                                                         *)
(* An approver is one object and the user behind it, who calls approve one *)
(* call at a time, MaxCalls calls in all; refetching and rejecting may     *)
(* happen at any time.  The server is external.  A request may fail before *)
(* or after its effect, and the process of a call may stop anywhere: both  *)
(* are Fail.  Signing a TSS request is a step here; TxSigning has its      *)
(* rounds.                                                                 *)
(***************************************************************************)
EXTENDS Naturals, FiniteSets

CONSTANTS
    Approver,     \* the objects
    Spender,      \* those whose user can make the transaction again
    Listed,       \* those constructed without a wallet
    Kinds,        \* the kinds of approval considered
    Required,     \* the approvals the server asks for
    MaxCalls,     \* calls of approve in all
    None          \* no transaction; the answer that is not the approval

Kind == {"multisig", "lite", "full", "lightning", "other"}
Tx == Approver \cup {"original", "given"}
State == {"pending", "approved", "rejected"}

ASSUME PartsAssumption == Spender \subseteq Approver /\ Listed \subseteq Approver
ASSUME KindsAssumption == Kinds \subseteq Kind
ASSUME NumbersAssumption == Required \in Nat \ {0} /\ MaxCalls \in Nat
ASSUME FiniteAssumption == IsFiniteSet(Approver)
ASSUME NamesAssumption ==
    {"original", "given"} \cap Approver = {} /\ None \notin Tx \cup State

VARIABLES
    kind,      \* what is approved
    approval,  \* the server's approval: state, approvers, whether it has an
               \* original transaction, the transaction sent last
    txRequest, \* the server's request: whose signature shares it holds, the
               \* transfers added, how often it was sent
    cache,     \* the state in every object's _pendingApproval
    call,      \* every object's approve: where it is, its transaction, the answer
    calls,     \* calls of approve so far
    decider,   \* the approver whose request made it approved, if any
    cut,       \* objects of which a call was cut off by a failure
    acted      \* approvers that have signed the request or paid

vars == <<kind, approval, txRequest, cache, call, calls, decider, cut, acted>>

Pc == {"idle", "preApprove", "rebuild", "recreate", "sign", "put", "answer",
       "transfer", "pay"}
Idle == [pc |-> "idle", tx |-> None, reply |-> None]

At(a, l) == call[a].pc = l
Goto(a, l) == call' = [call EXCEPT ![a] = [call[a] EXCEPT !.pc = l]]
PutTx(a, t) == call' = [call EXCEPT ![a] = [call[a] EXCEPT !.pc = "put", !.tx = t]]
Return(a) == call' = [call EXCEPT ![a] = Idle]

----------------------------------------------------------------------------
(* approve, up to the approval *)

\* canRecreateTransaction, once the wallet is known
CanRecreate(a) == a \in Spender /\ kind # "lightning"

\* populateWallet gives a listed object its wallet, not its TSS utilities.
Approve(a) ==
    /\ At(a, "idle") /\ calls < MaxCalls
    /\ calls' = calls + 1
    /\ Goto(a, "preApprove")
    /\ UNCHANGED <<kind, approval, txRequest, cache, decider, cut, acted>>

\* Mutant of HasOriginal: nobody notices that there is no transaction.
HasOriginalAlways == TRUE

HasOriginal == approval.original

\* preApprove: a transaction that was passed in goes through as it is; else the
\* user makes it again; else the original one is sent (a TSS request has it).
PreApprove(a) ==
    /\ At(a, "preApprove")
    /\ \/ /\ kind \notin {"multisig", "lite"}
          /\ PutTx(a, None)
       \/ /\ kind \in {"multisig", "lite"}
          /\ PutTx(a, "given")
       \/ /\ kind = "lite"
          /\ IF CanRecreate(a) THEN Goto(a, "recreate") ELSE PutTx(a, None)
       \/ /\ kind = "multisig" /\ ~HasOriginal
          /\ Return(a)
       \/ /\ kind = "multisig" /\ HasOriginal
          /\ IF CanRecreate(a)
             THEN Goto(a, "rebuild")
             ELSE PutTx(a, IF approval.original THEN "original" ELSE None)
    /\ UNCHANGED <<kind, approval, txRequest, cache, calls, decider, cut, acted>>

\* recreateAndSignTransaction, which throws when the transaction built now pays
\* a higher pay-as-you-go fee than the original one.
Rebuild(a) ==
    /\ At(a, "rebuild")
    /\ PutTx(a, a) \/ Return(a)
    /\ UNCHANGED <<kind, approval, txRequest, cache, calls, decider, cut, acted>>

----------------------------------------------------------------------------
(* recreateAndSignTSSTransaction, before (lite) or after (full) the approval *)

\* The shares are deleted first.  The utilities of an object constructed
\* without a wallet throw.
DeleteSignatureShares(a) ==
    /\ At(a, "recreate")
    /\ IF a \in Listed
       THEN Return(a) /\ UNCHANGED txRequest
       ELSE Goto(a, "sign") /\ txRequest' = [txRequest EXCEPT !.shares = {}]
    /\ UNCHANGED <<kind, approval, cache, calls, decider, cut, acted>>

SignTxRequest(a) ==
    /\ At(a, "sign")
    /\ txRequest' = [txRequest EXCEPT !.shares = @ \cup {a}]
    /\ acted' = acted \cup {a}
    /\ IF kind = "lite" THEN PutTx(a, a) ELSE Return(a)
    /\ UNCHANGED <<kind, approval, cache, calls, decider, cut>>

----------------------------------------------------------------------------
(* The approval *)

\* The server takes an approval while it is pending, one of each approver, or
\* answers that the transaction has triggered another condition.
PutApproved(a) ==
    /\ At(a, "put") /\ approval.state = "pending" /\ a \notin approval.by
    /\ \/ LET by == approval.by \cup {a}
              state == IF Cardinality(by) >= Required THEN "approved" ELSE "pending"
          IN  /\ approval' = [approval EXCEPT !.state = state, !.by = by,
                                              !.halfSigned = call[a].tx]
              /\ decider' = IF state = "approved" THEN {a} ELSE decider
              /\ call' = [call EXCEPT ![a] =
                            [call[a] EXCEPT !.pc = "answer", !.reply = state]]
       \/ Goto(a, "answer") /\ UNCHANGED <<approval, decider>>
    /\ UNCHANGED <<kind, txRequest, cache, calls, cut, acted>>

\* Mutant of Refused: what the server refuses is sent again.
RefusedAgain(a) ==
    /\ At(a, "put")
    /\ approval.state # "pending" \/ a \in approval.by
    /\ PutTx(a, None)
    /\ UNCHANGED <<kind, approval, txRequest, cache, calls, decider, cut, acted>>

\* The server refuses; approve throws.
Refused(a) ==
    /\ At(a, "put")
    /\ approval.state # "pending" \/ a \in approval.by
    /\ Return(a)
    /\ UNCHANGED <<kind, approval, txRequest, cache, calls, decider, cut, acted>>

\* Mutants of IsApproved: the state is not looked at; it is looked at before
\* the answer is stored.
IsApprovedAlways(a) == TRUE
IsApprovedBefore(a) == cache[a] = "approved"

IsApproved(a) == call[a].reply = "approved"

\* postApprove of an approved request
AfterApproval(a) ==
    IF kind = "lightning" THEN Goto(a, "transfer")
    ELSE IF kind = "full" /\ CanRecreate(a) THEN Goto(a, "recreate")
    ELSE Return(a)

\* The answer is stored and postApprove entered in one step; an answer about
\* another condition is only returned.
Answer(a) ==
    /\ At(a, "answer")
    /\ IF call[a].reply = None
       THEN Return(a) /\ UNCHANGED cache
       ELSE /\ cache' = [cache EXCEPT ![a] = call[a].reply]
            /\ IF IsApproved(a) THEN AfterApproval(a) ELSE Return(a)
    /\ UNCHANGED <<kind, approval, txRequest, calls, decider, cut, acted>>

\* A lightning payment: a transfer is added, then the request is sent.
AddTransfer(a) ==
    /\ At(a, "transfer")
    /\ txRequest' = [txRequest EXCEPT !.transfers = @ + 1]
    /\ acted' = acted \cup {a}
    /\ Goto(a, "pay")
    /\ UNCHANGED <<kind, approval, cache, calls, decider, cut>>

SendTxRequest(a) ==
    /\ At(a, "pay")
    /\ txRequest' = [txRequest EXCEPT !.sent = @ + 1]
    /\ Return(a)
    /\ UNCHANGED <<kind, approval, cache, calls, decider, cut, acted>>

----------------------------------------------------------------------------
(* Failures, and the other operations *)

\* A request of the call fails or loses its answer, or the process stops.
Fail(a) ==
    /\ ~At(a, "idle")
    /\ Return(a)
    /\ cut' = cut \cup {a}
    /\ UNCHANGED <<kind, approval, txRequest, cache, calls, decider, acted>>

\* reject leaves the object as it is.
RejectApproval ==
    /\ approval.state = "pending"
    /\ approval' = [approval EXCEPT !.state = "rejected"]
    /\ UNCHANGED <<kind, txRequest, cache, call, calls, decider, cut, acted>>

Get(a) ==
    /\ cache' = [cache EXCEPT ![a] = approval.state]
    /\ UNCHANGED <<kind, approval, txRequest, call, calls, decider, cut, acted>>

----------------------------------------------------------------------------

Init ==
    /\ kind \in Kinds
    /\ approval \in [state : {"pending"}, by : {{}}, original : BOOLEAN,
                     halfSigned : {None}]
    /\ kind # "multisig" => ~approval.original
    /\ txRequest = [shares |-> {}, transfers |-> 0, sent |-> 0]
    /\ cache = [a \in Approver |-> "pending"]
    /\ call = [a \in Approver |-> Idle]
    /\ calls = 0
    /\ decider = {} /\ cut = {} /\ acted = {}

Step(a) ==
    \/ PreApprove(a) \/ Rebuild(a) \/ DeleteSignatureShares(a) \/ SignTxRequest(a)
    \/ PutApproved(a) \/ Refused(a) \/ Answer(a)
    \/ AddTransfer(a) \/ SendTxRequest(a)

Next ==
    \/ \E a \in Approver : Approve(a) \/ Step(a) \/ Fail(a) \/ Get(a)
    \/ RejectApproval

Spec == Init /\ [][Next]_vars

\* A call goes on: its requests are answered or fail.
FairSpec == Spec /\ \A a \in Approver : WF_vars(Step(a))

----------------------------------------------------------------------------
(* Properties *)

\* Every variable has its type.
TypeOK ==
    /\ kind \in Kind
    /\ approval \in [state : State, by : SUBSET Approver, original : BOOLEAN,
                     halfSigned : Tx \cup {None}]
    /\ txRequest \in [shares : SUBSET Approver, transfers : Nat, sent : Nat]
    /\ cache \in [Approver -> State]
    /\ call \in [Approver -> [pc : Pc, tx : Tx \cup {None}, reply : State \cup {None}]]
    /\ calls \in 0 .. MaxCalls
    /\ decider \in SUBSET approval.by /\ cut \in SUBSET Approver
    /\ acted \in SUBSET Approver

\* What is signed or paid after the approval is signed or paid by one approver,
\* the one whose approval was the last one asked for, and before that by
\* nobody: the others' answers say that the approval is still pending, whatever
\* they refetch meanwhile (pendingApproval.ts:199-204, 459).
OnlyTheDeciderActs ==
    kind \in {"full", "lightning"} =>
        /\ acted \cup txRequest.shares \subseteq decider
        /\ txRequest.transfers <= 1 /\ txRequest.sent <= txRequest.transfers

\* An approver who can sign, whose approval was the last one asked for and of
\* whom no request failed, has signed the request (or paid) when the call
\* returns, and no other approver has deleted the signature ("If type is
\* 'transactionRequestFull', this will sign the txRequestFull if possible",
\* pendingApproval.ts:451).
DeciderActs ==
    \A a \in decider \ cut :
        At(a, "idle") =>
            /\ kind = "full" /\ a \in Spender => txRequest.shares = {a}
            /\ kind = "lightning" => txRequest.sent = 1

\* A multisig approval never becomes approved without a transaction to send
\* (pendingApproval.ts:432-436), nor with one made in the name of an approver
\* who cannot sign.
ApprovedHasTransaction ==
    kind = "multisig" /\ approval.state = "approved" =>
        approval.halfSigned \in Spender \cup {"given", "original"}

\* Every call of approve ends.
CallsEnd == \A a \in Approver : ~At(a, "idle") ~> At(a, "idle")

----------------------------------------------------------------------------
(* The inductive invariant of the proofs *)

\* Where a call is tells what is approved, what the server has answered, and,
\* once it has answered that the approval is complete, who completed it.
CallBound(a) ==
    LET c == call[a]
    IN  /\ c.pc \in {"idle", "preApprove", "rebuild", "put"} => c.reply = None
        /\ c.pc = "rebuild" => kind = "multisig" /\ a \in Spender
        /\ c.pc \in {"recreate", "sign"} =>
               \/ kind = "lite" /\ c.reply = None
               \/ kind = "full" /\ c.reply = "approved"
        /\ c.pc \in {"transfer", "pay"} => kind = "lightning" /\ c.reply = "approved"
        /\ c.reply = "approved" => decider = {a}
        /\ kind = "multisig" /\ c.pc = "put" => c.tx \in Spender \cup {"given", "original"}
        /\ c.reply = "approved" /\ c.pc \in {"answer", "transfer"} =>
               txRequest.transfers = 0 /\ txRequest.sent = 0
        /\ c.pc = "pay" => txRequest.transfers = 1 /\ txRequest.sent = 0

\* The server's side: before somebody has completed the approval nothing has
\* happened to a request that is acted on afterwards.
ServerBound ==
    /\ approval.state = "approved" <=> decider # {}
    /\ decider # {} => \E a \in Approver : decider = {a}
    /\ kind \in {"full", "lightning"} => acted \cup txRequest.shares \subseteq decider
    /\ decider = {} => txRequest.transfers = 0 /\ txRequest.sent = 0
    /\ txRequest.transfers <= 1 /\ txRequest.sent <= txRequest.transfers

\* Who has completed the approval has acted, or is about to.
DeciderBound ==
    \A a \in decider \ cut :
        /\ kind = "full" /\ a \in Spender =>
               call[a].reply = "approved" \/ txRequest.shares = {a}
        /\ kind = "lightning" => call[a].reply = "approved" \/ txRequest.sent = 1

IInv ==
    /\ TypeOK
    /\ \A a \in Approver : CallBound(a)
    /\ ServerBound
    /\ ApprovedHasTransaction
=============================================================================
