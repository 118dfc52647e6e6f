--------------------------- MODULE PasswordChange ---------------------------
(***************************************************************************)
(* BitGoAPI.changePassword: the keychains of a user that open with the old *)
(* password are re-encrypted with the new one and sent to the server, in   *)
(* batches or with the request that changes the login password.  Several   *)
(* devices of the user may do so at once, a call may be repeated after it  *)
(* has failed, and any request or answer may be lost.                      *)
(*                                                                         *)
(* The ciphertext of a keychain is the password that opens it.  The        *)
(* batches are those of packKeychainsFFD: disjoint, and each fits.         *)
(***************************************************************************)
EXTENDS Naturals, FiniteSets

CONSTANTS
    Device,     \* the clients of the user that change the password
    V1Key,      \* v1 keychains
    V2Key,      \* v2 keychains
    Old,        \* the password of the user
    New,        \* the password that a device sets
    Foreign,    \* a password of a wallet that is not the user's
    Absent,     \* the keychain does not exist
    Unreadable, \* keychains whose re-encryption throws
    Fits,       \* the sets of keychains that fit in a batch
    PageLimit,  \* limit of Keychains.list
    MaxRetries, \* maxRetries of a batch
    MaxCalls,   \* bound on the calls of changePassword, of all devices together
    Nobody

Key == V1Key \cup V2Key
Password == {Old, Foreign} \cup {New[d] : d \in Device}

ASSUME KeyAssumption == IsFiniteSet(V1Key) /\ IsFiniteSet(V2Key) /\ V1Key \cap V2Key = {}
ASSUME PasswordAssumption ==
    /\ Old # Foreign /\ Absent \notin Password
    /\ \A d \in Device : New[d] \notin {Old, Foreign}
ASSUME BoundsAssumption ==
    PageLimit \in Nat \ {0} /\ MaxRetries \in Nat \ {0} /\ MaxCalls \in Nat
ASSUME FitsAssumption == Fits \subseteq SUBSET Key
ASSUME NobodyAssumption == Nobody \notin Device

VARIABLES
    login,      \* the login password at the server
    keychain,   \* the keychains at the server
    flow,       \* the call that a device is in
    matched,    \* history: the keychains that were under the old password when a
                \* device began to read them, or when it read them
    batched,    \* history: the devices with a batch that took effect
    changedBy   \* history: the device that changed the login password

vars == <<login, keychain, flow, matched, batched, changedBy>>

----------------------------------------------------------------------------
(* Values *)

Pc == {"idle", "v1", "v2", "check", "batch", "login", "legacy", "done", "failed"}

\* update: the new ciphertexts, Absent where there is none.  listed: the pages
\* read so far.  todo: the keychains that no batch has updated yet.
FlowState == [pc : Pc, calls : Nat, update : [Key -> Password \cup {Absent}],
              listed : SUBSET V2Key, todo : SUBSET Key, batch : SUBSET Key,
              retries : 0 .. MaxRetries]

NewFlow(n) == [pc |-> "idle", calls |-> n, update |-> [k \in Key |-> Absent],
               listed |-> {}, todo |-> {}, batch |-> {}, retries |-> 0]

Existing(K) == {k \in K : keychain[k] # Absent}
UnderOld(K) == {k \in K : keychain[k] = Old}

\* The keychains that device d has a new ciphertext for.
Collected(d) == {k \in Key : flow[d].update[k] # Absent}

Goto(d, pc) == flow' = [flow EXCEPT ![d].pc = pc]

\* The keychains S of the server after the update of device d.
Updated(d, S) == [k \in Key |-> IF k \in S THEN flow[d].update[k] ELSE keychain[k]]

----------------------------------------------------------------------------
(* Collecting the keychains *)

\* The calls that have begun.
Begun == UNION {{d} \X (1 .. flow[d].calls) : d \in Device}
MayBegin == Cardinality(Begun) < MaxCalls

\* verifyPassword; its request may be lost.
Verify(d) ==
    /\ flow[d].pc = "idle" /\ MayBegin
    /\ \E pc \in {"v1", "failed"} :
        /\ pc = "v1" => login = Old
        /\ flow' = [flow EXCEPT ![d].pc = pc, ![d].calls = @ + 1]
    /\ UNCHANGED <<login, keychain, matched, batched, changedBy>>

\* Mutant of Reencrypted: every ciphertext is taken for one of the user's.
ReencryptedAny(d, k) == IF keychain[k] = Absent THEN Absent ELSE New[d]

\* The v1 ciphertext with the new password; one that does not open stays.
Reencrypted(d, k) ==
    IF keychain[k] = Old /\ k \notin Unreadable THEN New[d] ELSE keychain[k]

\* Keychains.updatePassword of v1: all keychains in one answer.
ListV1(d) ==
    /\ flow[d].pc = "v1"
    /\ flow' = [flow EXCEPT ![d].pc = "v2",
                            ![d].update = [k \in Key |-> IF k \in V1Key THEN Reencrypted(d, k) ELSE Absent]]
    /\ matched' = [matched EXCEPT ![d] = @ \cup UnderOld(Key)]
    /\ UNCHANGED <<login, keychain, batched, changedBy>>

\* What Keychains.list may answer: the next keychains, up to the limit.
NextPages(d) ==
    LET rest == Existing(V2Key) \ flow[d].listed
    IN  {p \in SUBSET rest :
           Cardinality(p) = IF Cardinality(rest) > PageLimit THEN PageLimit ELSE Cardinality(rest)}

\* The answer has a nextBatchPrevId.
MorePages(d, p) == ~(Existing(V2Key) \subseteq flow[d].listed \cup p)

\* Keychains.updatePassword of v2: a page is read and re-encrypted; a keychain
\* for which that throws is skipped.
ListV2(d) ==
    /\ flow[d].pc = "v2"
    /\ \E p \in NextPages(d) :
        /\ flow' = [flow EXCEPT
             ![d].pc = IF MorePages(d, p) THEN "v2" ELSE "check",
             ![d].listed = @ \cup p,
             ![d].update = [k \in Key |-> IF k \in UnderOld(p) \ Unreadable THEN New[d] ELSE @[k]]]
        /\ matched' = [matched EXCEPT ![d] = @ \cup UnderOld(p)]
    /\ UNCHANGED <<login, keychain, batched, changedBy>>

----------------------------------------------------------------------------
(* Sending them *)

\* checkBatchingPasswordFlow: the server asks for batches, asks for a single
\* request, or does not answer.  Packing throws if a keychain is too large.
CheckBatching(d) ==
    /\ flow[d].pc = "check"
    /\ \/ Goto(d, "legacy")
       \/ /\ \A k \in Collected(d) : {k} \in Fits
          /\ flow' = [flow EXCEPT
               ![d].pc = IF Collected(d) = {} THEN "login" ELSE "batch",
               ![d].todo = Collected(d)]
    /\ UNCHANGED <<login, keychain, matched, batched, changedBy>>

\* The next batch of packKeychainsFFD.
NextBatch(d) ==
    /\ flow[d].pc = "batch" /\ flow[d].batch = {}
    /\ \E b \in Fits \ {{}} :
        /\ b \subseteq flow[d].todo
        /\ flow' = [flow EXCEPT ![d].batch = b, ![d].retries = 0]
    /\ UNCHANGED <<login, keychain, matched, batched, changedBy>>

BatchDone(d) ==
    flow' = [flow EXCEPT
      ![d].pc = IF flow[d].todo = flow[d].batch THEN "login" ELSE "batch",
      ![d].todo = @ \ flow[d].batch,
      ![d].batch = {}]

\* Mutants of BatchFailed: the count of the retries starts again; a failure is
\* taken for a success after the last one.
BatchFailedRestarted(d) ==
    flow' = [flow EXCEPT ![d].retries = IF @ + 1 < MaxRetries THEN @ + 1 ELSE 0]

BatchFailedUnnoticed(d) ==
    IF flow[d].retries + 1 < MaxRetries
    THEN flow' = [flow EXCEPT ![d].retries = @ + 1]
    ELSE BatchDone(d)

\* After the last retry the error reaches the catch of changePassword, which
\* goes on with the single request.
BatchFailed(d) ==
    flow' = [flow EXCEPT
      ![d].pc = IF flow[d].retries + 1 < MaxRetries THEN "batch" ELSE "legacy",
      ![d].retries = @ + 1]

\* PUT of a batch.  The server may fail for some of the keychains, and tells
\* so unless its answer is lost.
SendBatch(d) ==
    /\ flow[d].pc = "batch" /\ flow[d].batch # {}
    /\ \E S \in SUBSET flow[d].batch :
        /\ keychain' = Updated(d, S)
        /\ batched' = IF S = {} THEN batched ELSE batched \cup {d}
        /\ BatchFailed(d) \/ (S = flow[d].batch /\ BatchDone(d))
    /\ UNCHANGED <<login, matched, changedBy>>

\* The server changes the login password if the old one is right.
Accepted(d) == login = Old /\ login' = New[d] /\ changedBy' = d

\* changepassword after the batches.  The answer may be lost.
ChangeLogin(d) ==
    /\ flow[d].pc = "login"
    /\ \/ Accepted(d) /\ (Goto(d, "done") \/ Goto(d, "failed"))
       \/ login # Old /\ Goto(d, "failed") /\ UNCHANGED <<login, changedBy>>
    /\ UNCHANGED <<keychain, matched, batched>>

\* Mutant of ChangeAll: a rejected request is taken for an accepted one.
ChangeAllUnnoticed(d) ==
    /\ flow[d].pc = "legacy"
    /\ \/ /\ Accepted(d)
          /\ keychain' = Updated(d, Collected(d))
       \/ login # Old /\ UNCHANGED <<login, changedBy, keychain>>
    /\ Goto(d, "done")
    /\ UNCHANGED <<matched, batched>>

\* changepassword with all keychains: all of them and the login password
\* change, or nothing does.
ChangeAll(d) ==
    /\ flow[d].pc = "legacy"
    /\ \/ /\ Accepted(d)
          /\ keychain' = Updated(d, Collected(d))
          /\ Goto(d, "done") \/ Goto(d, "failed")
       \/ login # Old /\ Goto(d, "failed") /\ UNCHANGED <<login, changedBy, keychain>>
    /\ UNCHANGED <<matched, batched>>

\* A request is lost and the call throws.
Fail(d) ==
    /\ flow[d].pc \in {"v1", "v2", "login", "legacy"}
    /\ Goto(d, "failed")
    /\ UNCHANGED <<login, keychain, matched, batched, changedBy>>

\* The user tries once more, with the same passwords.
Again(d) ==
    /\ flow[d].pc = "failed" /\ MayBegin
    /\ flow' = [flow EXCEPT ![d] = NewFlow(@.calls)]
    /\ UNCHANGED <<login, keychain, matched, batched, changedBy>>

\* Another client adds a keychain, under the login password or another one.
AddKeychain(k) ==
    /\ keychain[k] = Absent
    /\ \E p \in {login, Foreign} : keychain' = [keychain EXCEPT ![k] = p]
    /\ UNCHANGED <<login, flow, matched, batched, changedBy>>

----------------------------------------------------------------------------
Step(d) ==
    \/ Verify(d) \/ ListV1(d) \/ ListV2(d) \/ CheckBatching(d)
    \/ NextBatch(d) \/ SendBatch(d) \/ ChangeLogin(d) \/ ChangeAll(d)

Init ==
    /\ login = Old
    /\ keychain \in [Key -> {Old, Foreign, Absent}]
    /\ flow = [d \in Device |-> NewFlow(0)]
    /\ matched = [d \in Device |-> {}]
    /\ batched = {}
    /\ changedBy = Nobody

Next ==
    \/ \E d \in Device : Step(d) \/ Fail(d) \/ Again(d)
    \/ \E k \in V2Key : AddKeychain(k)

Spec == Init /\ [][Next]_vars

\* Every request of a call is answered or fails.
FairSpec == Spec /\ \A d \in Device : WF_vars(Step(d))

----------------------------------------------------------------------------
(* Properties *)

\* Every variable has its type.
TypeOK ==
    /\ login \in Password
    /\ keychain \in [Key -> Password \cup {Absent}]
    /\ flow \in [Device -> FlowState]
    /\ matched \in [Device -> SUBSET Key]
    /\ batched \subseteq Device
    /\ changedBy \in Device \cup {Nobody}

\* Once the login password is the one of a device, every keychain that the
\* device had to find under the old password, in this call or in one that
\* failed before, opens with it; unless another device has sent a batch.  So no
\* partial failure, retry or lost answer leaves a keychain behind.
KeysFollowLogin ==
    \A d \in Device : changedBy = d /\ batched \subseteq {d} =>
        \A k \in matched[d] \ Unreadable : keychain[k] = New[d]

\* A call that returns has changed the login password.
DoneMeansChanged == \A d \in Device : flow[d].pc = "done" => changedBy = d

\* A keychain under a password that is not the user's is left alone.
ForeignKeysUntouched ==
    [][\A k \in Key : keychain[k] = Foreign => keychain'[k] = Foreign]_vars

\* The steps of a call, as far as they are behind it.
Stage == [idle |-> 0, v1 |-> 1, v2 |-> 2, check |-> 3, batch |-> 4, login |-> 5,
          legacy |-> 5, done |-> 6, failed |-> 6]

\* The call of device d advances: to a later stage, by a page, by a batch that
\* took effect, or by an attempt of the current batch.
Advances(d) ==
    LET f == flow[d]  g == flow'[d]
    IN  \/ Stage[g.pc] > Stage[f.pc]
        \/ /\ f.pc = "v2" /\ g.pc = "v2"
           /\ f.listed \subseteq g.listed /\ f.listed # g.listed
        \/ /\ f.pc = "batch" /\ g.pc = "batch"
           /\ \/ g.todo \subseteq f.todo /\ g.todo # f.todo
              \/ /\ g.todo = f.todo
                 /\ \/ f.batch = {} /\ g.batch # {}
                    \/ g.batch = f.batch /\ g.retries > f.retries

\* Every step of a call, and a request that is lost, advances it; no other step
\* changes anything but that the user calls again.  There are finitely many
\* keychains and retries, so no answer of the server keeps a call going for ever.
CallsAdvance ==
    [][\A d \in Device :
         IF Step(d) \/ Fail(d) THEN Advances(d) ELSE Again(d) \/ flow'[d] = flow[d]]_vars

\* Every call returns or throws.
EveryCallEnds == \A d \in Device : flow[d].pc # "idle" ~> flow[d].pc \in {"done", "failed"}

----------------------------------------------------------------------------
(* The inductive invariant behind the safety properties *)

\* The login password is changed by a device whose call is over.
LoginOwner ==
    /\ login = Old <=> changedBy = Nobody
    /\ \A d \in Device : changedBy = d => flow[d].pc \in {"done", "failed", "idle"}

\* The pages and batches of a call.
CallState ==
    \A d \in Device :
        /\ flow[d].pc \in {"idle", "v1"} => flow[d].listed = {}
        /\ flow[d].pc \in {"idle", "v1", "v2", "check", "login"} => flow[d].batch = {}
        /\ flow[d].pc = "batch" =>
            /\ flow[d].batch \subseteq flow[d].todo
            /\ flow[d].todo \subseteq Collected(d)
            /\ flow[d].batch # {} => flow[d].retries < MaxRetries
        /\ flow[d].pc = "login" => flow[d].todo = {}

\* An update is for a keychain that exists; it is foreign exactly if that is.
UpdatesMatch ==
    \A d \in Device : \A k \in Key :
        /\ k \in V2Key => flow[d].update[k] \in {Absent, New[d]}
        /\ flow[d].update[k] # Absent =>
            /\ keychain[k] # Absent
            /\ flow[d].update[k] = Foreign <=> keychain[k] = Foreign

\* Device d has read the keychain k, or has read all.
Late == {"check", "batch", "login", "legacy"}
HasRead(d, k) ==
    \/ flow[d].pc = "v2" /\ (k \in V1Key \/ k \in flow[d].listed)
    \/ flow[d].pc \in Late

\* While device d is the only one with a batch and nobody has changed the login
\* password: the keychains that it had to find are under the old password or
\* its own; those it has read are in its update, or under its own already; and
\* those that no batch is left for are under its own.
Found(d) == matched[d] \ Unreadable
KeysCollected ==
    \A d \in Device : (batched \subseteq {d} /\ changedBy = Nobody) =>
        \A k \in Found(d) :
            /\ keychain[k] \in {Old, New[d]}
            /\ HasRead(d, k) => \/ flow[d].update[k] = New[d]
                                \/ flow[d].update[k] = Absent /\ keychain[k] = New[d]
            /\ (flow[d].pc \in {"batch", "login"} /\ k \notin flow[d].todo) => keychain[k] = New[d]

IInv ==
    /\ TypeOK /\ KeysFollowLogin /\ DoneMeansChanged
    /\ LoginOwner /\ CallState /\ UpdatesMatch /\ KeysCollected

============================================================================
