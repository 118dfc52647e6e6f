---------------------------- MODULE WalletShares ----------------------------
(***************************************************************************)
(* Acceptance of many wallet shares at once (sdk-core, wallet/wallets.ts). *)
(*                                                                         *)
(* bulkAcceptShare lists the incoming shares, leaves out those without a   *)
(* key to accept, encrypts the keys of the others anew and accepts them in *)
(* batches.  The batches are cut at a payload limit; when the server       *)
(* answers 413 the batch goes back and the limit is halved.  Any other     *)
(* error ends the call, and the caller does not learn what has been        *)
(* accepted until then: he may call again.                                 *)
(*                                                                         *)
(* bulkUpdateWalletShare accepts and rejects in one request, of incoming   *)
(* and outgoing shares, with and without a key.  A share whose key cannot  *)
(* be prepared is left out and reported; the wallets of accepted override  *)
(* shares are then shared with their spenders again.                       *)
(*                                                                         *)
(* Calls run concurrently (two devices, or a call that is repeated while   *)
(* the request of the first is still on its way).  The server is external: *)
(* it takes what it likes of a request, for shares that are still pending, *)
(* or fails; a request whose connection breaks may arrive later.           *)
(***************************************************************************)
EXTENDS Naturals, Sequences, SequencesExt

CONSTANTS
    Share,
    Override,   \* the shares that override the wallet's key
    Keyless,    \* those without a keychain, that need no key of their own either
    Offered,    \* those that the user offers to others: outgoing
    AcceptCall, UpdateCall, NoCall,
    Ids,        \* the sequences of shares that callers ask for
    Size,       \* bytes of a share's entry in the payload
    Envelope,   \* bytes of the payload without entries
    MaxPayload  \* MAX_PAYLOAD_SIZE

Call == AcceptCall \cup UpdateCall

ASSUME SizeAssumption ==
    Size \in [Share -> Nat \ {0}] /\ Envelope \in Nat /\ MaxPayload \in Nat
ASSUME IdsAssumption == Ids \subseteq Seq(Share) \ {<<>>}
ASSUME CallAssumption == NoCall \notin Call /\ AcceptCall \cap UpdateCall = {}
ASSUME OverrideAssumption == Override \subseteq Share
ASSUME KeylessAssumption == Keyless \subseteq Share
ASSUME OfferedAssumption == Offered \subseteq Share

VARIABLES
    status,   \* the server's shares
    by,       \* the call whose entry decided a share
    userKeys, \* user keychains registered for override shares
    late,     \* requests that broke and may still arrive
    pc,
    wanted,   \* what the caller asks for
    reject,   \* the shares that an update rejects
    listed,   \* the entries to send
    todo,     \* those not yet sent (remainingParams)
    batch,    \* those on their way
    offered,  \* those in an answered request, in their order
    limit,
    results,  \* the answers so far: shares that the server has taken
    failed,   \* failedUpdates
    reshare   \* accepted override shares to reshare, and those tried

server == <<status, by, userKeys, late>>
input == <<wanted, reject>>
vars == <<server, pc, input, listed, todo, batch, offered, limit, results, failed, reshare>>

----------------------------------------------------------------------------
(* Entries *)

\* The entries of q that are in T, in their order.
Keep(s, x, T) == IF x \in T THEN Append(s, x) ELSE s
Among(q, T) ==
    LET kept[n \in 0..Len(q)] == IF n = 0 THEN <<>> ELSE Keep(kept[n - 1], q[n], T)
    IN  kept[Len(q)]

\* The bytes of a payload with the entries q.
Payload(q) ==
    LET bytes[n \in 0..Len(q)] == IF n = 0 THEN Envelope ELSE bytes[n - 1] + Size[q[n]]
    IN  bytes[Len(q)]

----------------------------------------------------------------------------
(* The server *)

\* listSharesV2 gives the pending shares, those offered to the user and those
\* the user offers.
Incoming == {s \in Share : status[s] = "incoming"}
Pending == {s \in Share : status[s] \in {"incoming", "outgoing"}}

\* The server decides the shares t of a request of call c.
Decide(c, t) ==
    /\ status' = [s \in Share |->
         IF s \notin t THEN status[s]
         ELSE IF s \in reject[c] THEN "rejected" ELSE "accepted"]
    /\ by' = [s \in Share |-> IF s \in t THEN c ELSE by[s]]

\* A request that was given up arrives after all.
ServeLate ==
    /\ \E r \in late :
        /\ late' = late \ {r}
        /\ \E t \in SUBSET (r.shares \cap Pending) : Decide(r.call, t)
    /\ UNCHANGED <<userKeys, pc, input, listed, todo, batch, offered, limit, results,
                   failed, reshare>>

----------------------------------------------------------------------------
(* Both calls *)

\* The call throws; its request may have been served, or arrives later.
Throw(c) ==
    /\ pc' = [pc EXCEPT ![c] = "failed"]
    /\ UNCHANGED <<input, listed, todo, batch, offered, limit, results, failed, reshare>>

RequestFails(c) ==
    /\ pc[c] = "sent"
    /\ Throw(c)
    /\ UNCHANGED <<status, by, userKeys>>
    /\ late' \in {late, late \cup {[call |-> c, shares |-> ToSet(batch[c])]}}

----------------------------------------------------------------------------
(* bulkAcceptShare *)

\* bulkAcceptShare drops, without a word, the shares that are not incoming and
\* those that have no keychain and need none made.
Acceptable == Incoming \ Keyless

\* listSharesV2, and the keys of all shares, in chunks: a failure ends the call
\* before anything is sent.
ListAndEncrypt(c) ==
    /\ c \in AcceptCall /\ pc[c] = "start"
    /\ LET found == Among(wanted[c], Acceptable)
       IN  \/ /\ found # <<>>
              /\ listed' = [listed EXCEPT ![c] = found]
              /\ todo' = [todo EXCEPT ![c] = found]
              /\ pc' = [pc EXCEPT ![c] = "batch"]
              /\ UNCHANGED <<input, batch, offered, limit, results, failed, reshare>>
           \/ Throw(c)
    /\ UNCHANGED server

\* How many entries go into the next batch: while the payload is within the
\* limit, and always one.
BatchLength(q, l, n) ==
    /\ \A m \in 2..n : Payload(SubSeq(q, 1, m)) <= l
    /\ n < Len(q) => Payload(SubSeq(q, 1, n + 1)) > l

NextBatch(c) ==
    /\ c \in AcceptCall /\ pc[c] = "batch" /\ todo[c] # <<>>
    /\ \E n \in 1..Len(todo[c]) :
        /\ BatchLength(todo[c], limit[c], n)
        /\ batch' = [batch EXCEPT ![c] = SubSeq(todo[c], 1, n)]
        /\ todo' = [todo EXCEPT ![c] = SubSeq(@, n + 1, Len(@))]
    /\ pc' = [pc EXCEPT ![c] = "sent"]
    /\ UNCHANGED <<server, input, listed, offered, limit, results, failed, reshare>>

\* Mutant of BatchAccepted: only the last answer is kept.
LastBatchAccepted(c) ==
    /\ c \in AcceptCall /\ pc[c] = "sent"
    /\ \E t \in SUBSET (ToSet(batch[c]) \cap Pending) :
        /\ Decide(c, t)
        /\ results' = [results EXCEPT ![c] = t]
    /\ offered' = [offered EXCEPT ![c] = @ \o batch[c]]
    /\ batch' = [batch EXCEPT ![c] = <<>>]
    /\ pc' = [pc EXCEPT ![c] = "batch"]
    /\ UNCHANGED <<userKeys, late, input, listed, todo, limit, failed, reshare>>

\* The answer lists the shares that the server has accepted.
BatchAccepted(c) ==
    /\ c \in AcceptCall /\ pc[c] = "sent"
    /\ \E t \in SUBSET (ToSet(batch[c]) \cap Pending) :
        /\ Decide(c, t)
        /\ results' = [results EXCEPT ![c] = @ \cup t]
    /\ offered' = [offered EXCEPT ![c] = @ \o batch[c]]
    /\ batch' = [batch EXCEPT ![c] = <<>>]
    /\ pc' = [pc EXCEPT ![c] = "batch"]
    /\ UNCHANGED <<userKeys, late, input, listed, todo, limit, failed, reshare>>

\* Mutants of BatchTooLarge: all but the first entry of the batch go back; the
\* limit stays as it is.
BatchTooLargeTail(c) ==
    /\ c \in AcceptCall /\ pc[c] = "sent"
    /\ Len(batch[c]) > 1
    /\ todo' = [todo EXCEPT ![c] = Tail(batch[c]) \o @]
    /\ batch' = [batch EXCEPT ![c] = <<>>]
    /\ limit' = [limit EXCEPT ![c] = @ \div 2]
    /\ pc' = [pc EXCEPT ![c] = "batch"]
    /\ UNCHANGED <<server, input, listed, offered, results, failed, reshare>>
BatchTooLargeAgain(c) ==
    /\ c \in AcceptCall /\ pc[c] = "sent"
    /\ Len(batch[c]) > 1
    /\ todo' = [todo EXCEPT ![c] = batch[c] \o @]
    /\ batch' = [batch EXCEPT ![c] = <<>>]
    /\ pc' = [pc EXCEPT ![c] = "batch"]
    /\ UNCHANGED <<server, input, listed, offered, limit, results, failed, reshare>>

\* Status 413, which the server may give at any size: the batch goes back and
\* the limit is halved.  A batch of one throws, as any other error does.
BatchTooLarge(c) ==
    /\ c \in AcceptCall /\ pc[c] = "sent"
    /\ Len(batch[c]) > 1
    /\ todo' = [todo EXCEPT ![c] = batch[c] \o @]
    /\ batch' = [batch EXCEPT ![c] = <<>>]
    /\ limit' = [limit EXCEPT ![c] = @ \div 2]
    /\ pc' = [pc EXCEPT ![c] = "batch"]
    /\ UNCHANGED <<server, input, listed, offered, results, failed, reshare>>

ReturnAccepted(c) ==
    /\ c \in AcceptCall /\ pc[c] = "batch" /\ todo[c] = <<>>
    /\ pc' = [pc EXCEPT ![c] = "done"]
    /\ UNCHANGED <<server, input, listed, todo, batch, offered, limit, results,
                   failed, reshare>>

----------------------------------------------------------------------------
(* bulkUpdateWalletShare *)

\* An override share registers a keychain of the user, also one of k, whose
\* preparation fails after that.
Registered(c, accept, f, k) == {<<c, s>> : s \in k \cup ((accept \ f) \cap Override)}

\* Every share must be listed, as incoming or as outgoing.  The shares are prepared independently: the
\* ones that fail are remembered, the others are sent.
Prepare(c) ==
    /\ c \in UpdateCall /\ pc[c] = "start"
    /\ LET accept == ToSet(wanted[c]) \ reject[c]
       IN  \/ /\ ToSet(wanted[c]) \subseteq Pending
              /\ \E f \in SUBSET accept :
                    /\ failed' = [failed EXCEPT ![c] = f]
                    /\ \E k \in SUBSET (f \cap Override) :
                        userKeys' = userKeys \cup Registered(c, accept, f, k)
                    /\ LET ready == Among(wanted[c], Share \ f)
                       IN  /\ listed' = [listed EXCEPT ![c] = ready]
                           /\ batch' = [batch EXCEPT ![c] = ready]
              /\ pc' = [pc EXCEPT ![c] = "sent"]
              /\ UNCHANGED <<input, todo, offered, limit, results, reshare>>
           \/ Throw(c) /\ UNCHANGED userKeys
    /\ UNCHANGED <<status, by, late>>

\* One request for all; the accepted override shares are resharable now.
Updated(c) ==
    /\ c \in UpdateCall /\ pc[c] = "sent"
    /\ \E t \in SUBSET (ToSet(batch[c]) \cap Pending) :
        /\ Decide(c, t)
        /\ results' = [results EXCEPT ![c] = t]
        /\ reshare' = [reshare EXCEPT ![c] =
             [left |-> (t \ reject[c]) \cap Override, tried |-> {}]]
    /\ offered' = [offered EXCEPT ![c] = batch[c]]
    /\ batch' = [batch EXCEPT ![c] = <<>>]
    /\ pc' = [pc EXCEPT ![c] = "reshare"]
    /\ UNCHANGED <<userKeys, late, input, listed, todo, limit, failed>>

\* Mutant of Reshare: a wallet that cannot be reshared ends the loop.
ReshareFirst(c) ==
    /\ pc[c] = "reshare"
    /\ \E s \in reshare[c].left :
        reshare' = [reshare EXCEPT ![c] = [left  |-> {},
                                           tried |-> reshare[c].tried \cup {s}]]
    /\ UNCHANGED <<server, pc, input, listed, todo, batch, offered, limit, results, failed>>

\* reshareWalletWithSpenders of one wallet; a failure is only logged.
Reshare(c) ==
    /\ pc[c] = "reshare"
    /\ \E s \in reshare[c].left :
        reshare' = [reshare EXCEPT ![c] = [left  |-> reshare[c].left \ {s},
                                           tried |-> reshare[c].tried \cup {s}]]
    /\ UNCHANGED <<server, pc, input, listed, todo, batch, offered, limit, results, failed>>

ReturnUpdated(c) ==
    /\ pc[c] = "reshare" /\ reshare[c].left = {}
    /\ pc' = [pc EXCEPT ![c] = "done"]
    /\ UNCHANGED <<server, input, listed, todo, batch, offered, limit, results,
                   failed, reshare>>

----------------------------------------------------------------------------
Init ==
    /\ status = [s \in Share |-> IF s \in Offered THEN "outgoing" ELSE "incoming"]
    /\ by = [s \in Share |-> NoCall]
    /\ userKeys = {}
    /\ late = {}
    /\ pc = [c \in Call |-> "start"]
    /\ wanted \in [Call -> Ids]
    /\ reject \in [Call -> SUBSET Share]
    /\ \A c \in Call : reject[c] \subseteq ToSet(wanted[c])
    /\ \A c \in AcceptCall : reject[c] = {}
    /\ listed = [c \in Call |-> <<>>]
    /\ todo = listed /\ batch = listed /\ offered = listed
    /\ limit = [c \in Call |-> MaxPayload]
    /\ results = [c \in Call |-> {}]
    /\ failed = results
    /\ reshare = [c \in Call |-> [left |-> {}, tried |-> {}]]

CallStep(c) ==
    \/ RequestFails(c)
    \/ ListAndEncrypt(c) \/ NextBatch(c) \/ BatchAccepted(c) \/ BatchTooLarge(c)
    \/ ReturnAccepted(c)
    \/ Prepare(c) \/ Updated(c) \/ Reshare(c) \/ ReturnUpdated(c)

Next == ServeLate \/ \E c \in Call : CallStep(c)

Spec == Init /\ [][Next]_vars

\* A call goes on, and its requests are answered or break.
Fairness == \A c \in Call : WF_vars(CallStep(c))

FairSpec == Spec /\ Fairness

----------------------------------------------------------------------------
(* Properties *)

\* Every variable has its type.
TypeOK ==
    /\ status \in [Share -> {"incoming", "outgoing", "accepted", "rejected"}]
    /\ by \in [Share -> Call \cup {NoCall}]
    /\ userKeys \subseteq UpdateCall \X Override
    /\ late \subseteq [call : Call, shares : SUBSET Share]
    /\ pc \in [Call -> {"start", "batch", "sent", "reshare", "done", "failed"}]
    /\ wanted \in [Call -> Ids]
    /\ reject \in [Call -> SUBSET Share]
    /\ \A f \in {listed, todo, batch, offered} : f \in [Call -> Seq(Share)]
    /\ limit \in [Call -> Nat]
    /\ results \in [Call -> SUBSET Share]
    /\ failed \in [Call -> SUBSET Share]
    /\ reshare \in [Call -> [left : SUBSET Share, tried : SUBSET Share]]

\* Why bulkAcceptShare does not send a share.
LeftOut(c, s) == c \in AcceptCall /\ (status[s] # "incoming" \/ s \in Keyless)

\* Whatever the server refuses as too large, a call neither loses nor repeats
\* nor reorders an entry: what was answered, what is on its way and what is
\* left are its entries.  When it returns all have been answered, and a share
\* that was asked for and was in no answered request is reported as failed or
\* was left out by bulkAcceptShare, for one of two reasons: it was no incoming
\* share when it was listed, or it has no keychain and needs none.  The shares
\* left out, although they may be pending, are not reported.
EntriesKept ==
    \A c \in Call :
        /\ pc[c] # "failed" => offered[c] \o batch[c] \o todo[c] = listed[c]
        /\ pc[c] = "done" =>
            /\ offered[c] = listed[c]
            /\ \A s \in ToSet(wanted[c]) \ ToSet(offered[c]) :
                s \in failed[c] \/ LeftOut(c, s)

\* A call that returns reports just the shares that its own entries decided,
\* although other calls and late requests compete for them; none of them is
\* one that it reports as failed.
ReportsItsOwn ==
    \A c \in Call : pc[c] = "done" =>
        /\ results[c] = {s \in Share : by[s] = c}
        /\ results[c] \cap failed[c] = {}

\* An accepted override share has a keychain that the same call registered,
\* and when the call returns its wallet has been reshared, or it was tried.
\* Nothing is reshared that was not accepted.
OverridesReshared ==
    \A c \in UpdateCall :
        /\ \A s \in Override :
            by[s] = c /\ status[s] = "accepted" => <<c, s>> \in userKeys
        /\ pc[c] = "done" =>
            {s \in Override : by[s] = c /\ status[s] = "accepted"} = reshare[c].tried
        /\ \A s \in reshare[c].tried : by[s] = c /\ status[s] = "accepted"

\* How far a call is, what the server has not answered yet, and whatever else
\* a step may change that decides how long the call goes on.
Stage == [start |-> 3, batch |-> 2, sent |-> 2, reshare |-> 1, done |-> 0, failed |-> 0]
Unanswered(c) == Len(batch[c]) + Len(todo[c])
Progress(c) == <<pc[c], batch[c], todo[c], limit[c], reshare[c]>>

\* The call c comes closer to its end, in the lexicographic order of its stage,
\* the unanswered entries, the limit, and the batch to send or the wallets to
\* reshare.
Closer(c) ==
    \/ Stage[pc'[c]] < Stage[pc[c]]
    \/ /\ Stage[pc'[c]] = Stage[pc[c]]
       /\ \/ Unanswered(c)' < Unanswered(c)
          \/ /\ Unanswered(c)' = Unanswered(c)
             /\ \/ limit'[c] < limit[c]
                \/ /\ limit'[c] = limit[c]
                   /\ \/ pc[c] = "batch" /\ pc'[c] = "sent"
                      \/ /\ pc[c] = pc'[c]
                         /\ reshare'[c].left \subseteq reshare[c].left
                         /\ reshare'[c].left # reshare[c].left

\* Every step of a call brings it closer to its end and no other step sets it
\* back, whatever the server refuses as too large: the order is well founded, so
\* a call takes finitely many steps, for any sizes and any limit.
CallsComeCloser ==
    [][\A c \in Call : Closer(c) \/ (~CallStep(c) /\ UNCHANGED Progress(c))]_vars

\* Every call comes to an end: halving the limit ends with batches of one.
CallsEnd == \A c \in Call : <>(pc[c] \in {"done", "failed"})

----------------------------------------------------------------------------
(* The inductive invariant behind the safety properties *)

\* A share is decided once, as the deciding call wants it.
DecidedOnce ==
    \A s \in Share :
        /\ s \in Pending <=> by[s] = NoCall
        /\ by[s] \in Call => (status[s] = "rejected" <=> s \in reject[by[s]])

\* The override shares among S that call c accepts have keychains.
HasKeys(c, S) == \A s \in (S \cap Override) \ reject[c] : <<c, s>> \in userKeys

DecidedBy(c) == {s \in Share : by[s] = c}
AcceptedOverrides(c) == {s \in Override : by[s] = c /\ status[s] = "accepted"}

\* A request that arrives late is of a call that has failed.
LateRequests ==
    \A r \in late : pc[r.call] = "failed" /\ (r.call \in UpdateCall => HasKeys(r.call, r.shares))

\* What a call has listed, sent and been told.
Unsent(c) ==
    /\ listed[c] = <<>> /\ todo[c] = <<>> /\ batch[c] = <<>> /\ offered[c] = <<>>
    /\ failed[c] = {}
Listing(c) ==
    /\ offered[c] \o batch[c] \o todo[c] = listed[c]
    /\ pc[c] # "sent" => batch[c] = <<>>
    /\ pc[c] = "done" => todo[c] = <<>>
    /\ ToSet(listed[c]) \cap failed[c] = {}
    /\ pc[c] # "start" =>
        \A s \in ToSet(wanted[c]) \ ToSet(listed[c]) :
            s \in failed[c] \/ LeftOut(c, s)
Reporting(c) ==
    /\ results[c] = DecidedBy(c)
    /\ results[c] \cap failed[c] = {}

\* The batch that is on its way is one entry, or within the limit.
BatchSent(c) ==
    pc[c] = "sent" /\ Len(batch[c]) > 1 => limit[c] > 0

AcceptState(c) ==
    /\ pc[c] # "reshare" /\ failed[c] = {} /\ BatchSent(c)
    /\ pc[c] = "sent" => batch[c] # <<>>

UpdateState(c) ==
    /\ pc[c] # "batch" /\ todo[c] = <<>>
    /\ pc[c] \in {"start", "sent"} => offered[c] = <<>> /\ DecidedBy(c) = {}
    /\ pc[c] \in {"sent", "reshare", "done"} => HasKeys(c, ToSet(listed[c]))
    /\ \A s \in AcceptedOverrides(c) : <<c, s>> \in userKeys
    /\ pc[c] \in {"reshare", "done"} =>
        reshare[c].left \cup reshare[c].tried = AcceptedOverrides(c)
    /\ pc[c] \in {"start", "sent", "failed"} =>
        reshare[c].left = {} /\ reshare[c].tried = {}
    /\ pc[c] = "done" => reshare[c].left = {}

CallState(c) ==
    /\ pc[c] = "start" => Unsent(c)
    /\ pc[c] # "failed" => Listing(c) /\ Reporting(c)
    /\ c \in AcceptCall => AcceptState(c)
    /\ c \in UpdateCall => UpdateState(c)

IInv == TypeOK /\ DecidedOnce /\ LateRequests /\ \A c \in Call : CallState(c)

============================================================================
