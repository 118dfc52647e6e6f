------------------------- MODULE PasswordChangeProofs -------------------------
(***************************************************************************)
(* A change of the login password leaves no keychain behind, foreign       *)
(* keychains are never touched, and no call runs in circles.               *)
(*                                                                         *)
(* The argument: KeysCollected follows a device from the moment it reads a *)
(* keychain (ListV1, ListV2) to its last batch (SendBatch), and is lost    *)
(* only when another device sends a batch or the login password changes.   *)
(* In the second case it says what KeysFollowLogin needs: after the        *)
(* batches no keychain is left to update (ChangeLogin), and before them    *)
(* all that are left are in the single request (ChangeAll).                *)
(***************************************************************************)
EXTENDS PasswordChange, FiniteSetTheorems, TLAPS

----------------------------------------------------------------------------
(* Steps that change nothing but the state of one call *)

\* A new record with the fields of a call is a call again.
LEMMA FlowUpdate ==
    ASSUME TypeOK, NEW d \in Device, NEW s \in FlowState,
           flow' = [flow EXCEPT ![d] = s]
    PROVE  /\ flow' \in [Device -> FlowState]
           /\ flow'[d] = s
           /\ \A e \in Device \ {d} : flow'[e] = flow[e]
BY DEF TypeOK

\* The fields of a call.
LEMMA FlowFields ==
    ASSUME TypeOK, NEW d \in Device
    PROVE  /\ flow[d] \in FlowState
           /\ flow[d].pc \in Pc /\ flow[d].calls \in Nat
           /\ flow[d].update \in [Key -> Password \cup {Absent}]
           /\ flow[d].listed \subseteq V2Key
           /\ flow[d].todo \subseteq Key /\ flow[d].batch \subseteq Key
           /\ flow[d].retries \in 0 .. MaxRetries
BY DEF TypeOK, FlowState

\* A step of device d that reads and sends nothing keeps the invariant: it has
\* the update that it had or none, and goes on to the batches only with the
\* keychains that it has collected.
LEMMA OwnStep ==
    ASSUME IInv, NEW d \in Device, NEW s \in FlowState,
           flow' = [flow EXCEPT ![d] = s],
           UNCHANGED <<login, keychain, matched, batched, changedBy>>,
           s.pc \notin {"done", "v2"},
           changedBy = d => s.pc \in {"failed", "idle"},
           s.pc \in {"idle", "v1"} => s.listed = {},
           s.pc \in {"idle", "v1", "check", "login"} => s.batch = {},
           s.pc = "batch" =>
             /\ s.batch \subseteq s.todo
             /\ s.todo \subseteq Collected(d)
             /\ s.batch # {} => s.retries < MaxRetries,
           s.pc = "login" => s.todo = {},
           \A k \in Key : s.update[k] # Absent => s.update[k] = flow[d].update[k],
           s.pc \in Late => flow[d].pc \in Late /\ s.update = flow[d].update,
           s.pc \in {"batch", "login"} =>
             \A k \in Key \ s.todo : \/ k \notin Collected(d)
                                     \/ flow[d].pc = "batch" /\ k \notin flow[d].todo
    PROVE  IInv'
<1> USE DEF IInv
<1>1. /\ flow' \in [Device -> FlowState]
      /\ flow'[d] = s
      /\ \A e \in Device \ {d} : flow'[e] = flow[e]
  BY FlowUpdate
<1>2. \A e \in Device \ {d} : Collected(e)' = Collected(e)
  BY <1>1 DEF Collected
<1>3. s.pc = "batch" => Collected(d)' = Collected(d)
  BY <1>1 DEF Collected, Late
<1>4. TypeOK'
  BY <1>1 DEF TypeOK
<1>5. KeysFollowLogin'
  BY DEF KeysFollowLogin
<1>6. DoneMeansChanged'
  BY <1>1 DEF DoneMeansChanged
<1>7. LoginOwner'
  BY <1>1 DEF LoginOwner
<1>8. CallState'
  <2>1. SUFFICES ASSUME NEW e \in Device
                 PROVE  /\ flow'[e].pc \in {"idle", "v1"} => flow'[e].listed = {}
                        /\ flow'[e].pc \in {"idle", "v1", "v2", "check", "login"} => flow'[e].batch = {}
                        /\ flow'[e].pc = "batch" =>
                             /\ flow'[e].batch \subseteq flow'[e].todo
                             /\ flow'[e].todo \subseteq Collected(e)'
                             /\ flow'[e].batch # {} => flow'[e].retries < MaxRetries
                        /\ flow'[e].pc = "login" => flow'[e].todo = {}
    BY DEF CallState
  <2>2. CASE e = d
    BY <1>1, <1>3, <2>2
  <2>3. CASE e # d
    BY <1>1, <1>2, <2>3 DEF CallState
  <2>4. QED
    BY <2>2, <2>3
<1>9. UpdatesMatch'
  <2>1. SUFFICES ASSUME NEW e \in Device, NEW k \in Key
                 PROVE  /\ k \in V2Key => flow'[e].update[k] \in {Absent, New[e]}
                        /\ flow'[e].update[k] # Absent =>
                             /\ keychain[k] # Absent
                             /\ flow'[e].update[k] = Foreign <=> keychain[k] = Foreign
    BY DEF UpdatesMatch
  <2>2. \/ flow'[e].update[k] = Absent
        \/ flow'[e].update[k] = flow[e].update[k]
    BY <1>1
  <2>3. QED
    BY <2>2 DEF UpdatesMatch
<1>10. KeysCollected'
  <2>1. SUFFICES ASSUME NEW e \in Device, batched \subseteq {e}, changedBy = Nobody,
                        NEW k \in Found(e)
                 PROVE  /\ keychain[k] \in {Old, New[e]}
                        /\ HasRead(e, k)' => \/ flow'[e].update[k] = New[e]
                                             \/ flow'[e].update[k] = Absent /\ keychain[k] = New[e]
                        /\ (flow'[e].pc \in {"batch", "login"} /\ k \notin flow'[e].todo)
                             => keychain[k] = New[e]
    BY DEF KeysCollected, Found
  <2>2. k \in Key
    BY DEF Found, TypeOK
  <2>3. /\ keychain[k] \in {Old, New[e]}
        /\ HasRead(e, k) => \/ flow[e].update[k] = New[e]
                            \/ flow[e].update[k] = Absent /\ keychain[k] = New[e]
        /\ (flow[e].pc \in {"batch", "login"} /\ k \notin flow[e].todo) => keychain[k] = New[e]
    BY <2>1 DEF KeysCollected
  <2>4. CASE e # d
    BY <1>1, <2>3, <2>4 DEF HasRead
  <2>5. CASE e = d
    <3>1. HasRead(e, k)' => s.pc \in Late
      BY <1>1, <2>5 DEF HasRead
    <3>2. s.pc \in Late => HasRead(e, k)
      BY <2>5 DEF HasRead
    <3>3. s.pc \in {"batch", "login"} /\ k \notin s.todo => keychain[k] = New[e]
      <4>1. CASE k \notin Collected(d)
        <5>1. flow[d].update[k] = Absent
          BY <2>2, <4>1 DEF Collected
        <5>2. New[d] # Absent
          BY PasswordAssumption DEF Password
        <5>3. QED
          BY <2>3, <2>5, <3>2, <5>1, <5>2 DEF Late
      <4>2. CASE flow[d].pc = "batch" /\ k \notin flow[d].todo
        BY <2>3, <2>5, <4>2
      <4>3. QED
        BY <2>2, <4>1, <4>2
    <3>4. QED
      BY <1>1, <2>3, <2>5, <3>1, <3>2, <3>3
  <2>6. QED
    BY <2>4, <2>5
<1>11. QED
  BY <1>4, <1>5, <1>6, <1>7, <1>8, <1>9, <1>10

LEMMA VerifyStep ==
    ASSUME IInv, NEW d \in Device, Verify(d)
    PROVE  IInv'
<1>0. PICK pc \in {"v1", "failed"} :
        /\ pc = "v1" => login = Old
        /\ flow' = [flow EXCEPT ![d].pc = pc, ![d].calls = @ + 1]
  BY DEF Verify
<1> DEFINE s == [flow[d] EXCEPT !.pc = pc, !.calls = @ + 1]
<1>1. TypeOK
  BY DEF IInv
<1>2. s \in FlowState /\ flow' = [flow EXCEPT ![d] = s]
  <2>1. flow[d].calls + 1 \in Nat
    BY <1>1, FlowFields
  <2>2. pc \in Pc
    BY <1>0 DEF Pc
  <2>3. s \in FlowState
    BY <1>1, <2>1, <2>2, FlowFields DEF FlowState
  <2>4. QED
    BY <1>0, <1>1, <2>3, FlowFields
<1>3. /\ s.pc \in {"v1", "failed"} /\ (s.pc = "v1" => login = Old)
      /\ s.listed = flow[d].listed /\ s.batch = flow[d].batch
      /\ s.todo = flow[d].todo /\ s.update = flow[d].update
  BY <1>0, <1>1, FlowFields
<1>4. /\ flow[d].pc = "idle"
      /\ UNCHANGED <<login, keychain, matched, batched, changedBy>>
  BY DEF Verify
<1>5. flow[d].listed = {} /\ flow[d].batch = {}
  BY <1>4 DEF IInv, CallState
<1>6. changedBy = d => s.pc \in {"failed", "idle"}
  BY <1>3, NobodyAssumption DEF IInv, LoginOwner
<1> HIDE DEF s
<1>7. QED
  BY <1>2, <1>3, <1>4, <1>5, <1>6, OwnStep DEF Late

LEMMA CheckBatchingStep ==
    ASSUME IInv, NEW d \in Device, CheckBatching(d)
    PROVE  IInv'
<1>1. TypeOK
  BY DEF IInv
<1>2. /\ flow[d].pc = "check" /\ flow[d].batch = {}
      /\ UNCHANGED <<login, keychain, matched, batched, changedBy>>
  BY DEF CheckBatching, IInv, CallState
<1>3. changedBy # d
  BY <1>2 DEF IInv, LoginOwner
<1>4. CASE Goto(d, "legacy")
  <2> DEFINE s == [flow[d] EXCEPT !.pc = "legacy"]
  <2>1. s \in FlowState /\ flow' = [flow EXCEPT ![d] = s]
    BY <1>1, <1>4, FlowFields DEF Goto, FlowState, Pc
  <2>2. s.pc = "legacy" /\ s.update = flow[d].update
    BY <1>1, FlowFields
  <2> HIDE DEF s
  <2>3. QED
    BY <1>2, <1>3, <2>1, <2>2, OwnStep DEF Late
<1>5. CASE flow' = [flow EXCEPT ![d].pc = IF Collected(d) = {} THEN "login" ELSE "batch",
                                ![d].todo = Collected(d)]
  <2> DEFINE s == [flow[d] EXCEPT !.pc = IF Collected(d) = {} THEN "login" ELSE "batch",
                                  !.todo = Collected(d)]
  <2>1. Collected(d) \subseteq Key
    BY DEF Collected
  <2>2. s \in FlowState /\ flow' = [flow EXCEPT ![d] = s]
    BY <1>1, <1>5, <2>1, FlowFields DEF FlowState, Pc
  <2>3. /\ s.pc \in {"login", "batch"} /\ (s.pc = "login" => Collected(d) = {})
        /\ s.todo = Collected(d) /\ s.batch = {} /\ s.update = flow[d].update
    BY <1>1, <1>2, FlowFields
  <2> HIDE DEF s
  <2>4. QED
    BY <1>2, <1>3, <2>2, <2>3, OwnStep DEF Late
<1>6. QED
  BY <1>4, <1>5 DEF CheckBatching

LEMMA NextBatchStep ==
    ASSUME IInv, NEW d \in Device, NextBatch(d)
    PROVE  IInv'
<1>1. TypeOK
  BY DEF IInv
<1>2. /\ flow[d].pc = "batch"
      /\ flow[d].todo \subseteq Collected(d)
      /\ UNCHANGED <<login, keychain, matched, batched, changedBy>>
  BY DEF NextBatch, IInv, CallState
<1>3. changedBy # d
  BY <1>2 DEF IInv, LoginOwner
<1>4. PICK b \in Fits \ {{}} : /\ b \subseteq flow[d].todo
                               /\ flow' = [flow EXCEPT ![d].batch = b, ![d].retries = 0]
  BY DEF NextBatch
<1> DEFINE s == [flow[d] EXCEPT !.batch = b, !.retries = 0]
<1>5. b \subseteq Key
  BY <1>4, FitsAssumption
<1>6. 0 \in 0 .. MaxRetries /\ 0 < MaxRetries
  BY BoundsAssumption
<1>7. s \in FlowState /\ flow' = [flow EXCEPT ![d] = s]
  BY <1>1, <1>4, <1>5, <1>6, FlowFields DEF FlowState
<1>8. /\ s.pc = "batch" /\ s.batch = b /\ s.retries = 0
      /\ s.todo = flow[d].todo /\ s.update = flow[d].update
  BY <1>1, <1>2, FlowFields
<1> HIDE DEF s
<1>9. QED
  BY <1>2, <1>3, <1>4, <1>6, <1>7, <1>8, OwnStep DEF Late

LEMMA FailStep ==
    ASSUME IInv, NEW d \in Device, Fail(d)
    PROVE  IInv'
<1> DEFINE s == [flow[d] EXCEPT !.pc = "failed"]
<1>1. TypeOK
  BY DEF IInv
<1>2. s \in FlowState /\ flow' = [flow EXCEPT ![d] = s]
  BY <1>1, FlowFields DEF Fail, Goto, FlowState, Pc
<1>3. s.pc = "failed" /\ s.update = flow[d].update
  BY <1>1, FlowFields
<1>4. UNCHANGED <<login, keychain, matched, batched, changedBy>>
  BY DEF Fail
<1> HIDE DEF s
<1>5. QED
  BY <1>2, <1>3, <1>4, OwnStep DEF Late

LEMMA AgainStep ==
    ASSUME IInv, NEW d \in Device, Again(d)
    PROVE  IInv'
<1> DEFINE s == NewFlow(flow[d].calls)
<1>1. TypeOK
  BY DEF IInv
<1>2. s \in FlowState /\ flow' = [flow EXCEPT ![d] = s]
  <2>1. flow[d].calls \in Nat /\ 0 \in 0 .. MaxRetries
    BY <1>1, FlowFields, BoundsAssumption
  <2>2. QED
    BY <1>1, <2>1 DEF Again, NewFlow, FlowState, Pc
<1>3. /\ s.pc = "idle" /\ s.listed = {} /\ s.batch = {}
      /\ \A k \in Key : s.update[k] = Absent
  BY DEF NewFlow
<1>4. UNCHANGED <<login, keychain, matched, batched, changedBy>>
  BY DEF Again
<1> HIDE DEF s
<1>5. QED
  BY <1>2, <1>3, <1>4, OwnStep DEF Late

----------------------------------------------------------------------------
(* Steps that read keychains *)

\* A step of device d that reads the keychains M keeps the invariant if its new
\* update fits to the keychains and has those read that were to be found.
LEMMA ReadStep ==
    ASSUME IInv, NEW d \in Device, NEW s \in FlowState, NEW M \in SUBSET UnderOld(Key),
           flow' = [flow EXCEPT ![d] = s],
           matched' = [matched EXCEPT ![d] = @ \cup M],
           UNCHANGED <<login, keychain, batched, changedBy>>,
           flow[d].pc \in {"v1", "v2"}, s.pc \in {"v2", "check"}, s.batch = flow[d].batch,
           \A k \in Key :
             /\ k \in V2Key => s.update[k] \in {Absent, New[d]}
             /\ s.update[k] # Absent =>
                  /\ keychain[k] # Absent
                  /\ s.update[k] = Foreign <=> keychain[k] = Foreign,
           ASSUME batched \subseteq {d}, changedBy = Nobody,
                  NEW k \in (matched[d] \cup M) \ Unreadable,
                  keychain[k] \in {Old, New[d]},
                  k \in V1Key \/ k \in s.listed \/ s.pc = "check"
           PROVE  \/ s.update[k] = New[d]
                  \/ s.update[k] = Absent /\ keychain[k] = New[d]
    PROVE  IInv'
<1> USE DEF IInv
<1>1. /\ flow' \in [Device -> FlowState]
      /\ flow'[d] = s
      /\ \A e \in Device \ {d} : flow'[e] = flow[e]
  BY FlowUpdate
<1>2. /\ matched' \in [Device -> SUBSET Key]
      /\ matched'[d] = matched[d] \cup M
      /\ \A e \in Device \ {d} : matched'[e] = matched[e]
  BY DEF TypeOK, UnderOld
<1>3. changedBy # d
  BY DEF LoginOwner
<1>4. TypeOK'
  BY <1>1, <1>2 DEF TypeOK
<1>5. KeysFollowLogin'
  BY <1>2, <1>3 DEF KeysFollowLogin
<1>6. DoneMeansChanged'
  BY <1>1 DEF DoneMeansChanged
<1>7. LoginOwner'
  BY <1>1, <1>3 DEF LoginOwner
<1>8. CallState'
  <2>1. flow[d].batch = {}
    BY DEF CallState
  <2>2. \A e \in Device \ {d} : Collected(e)' = Collected(e)
    BY <1>1 DEF Collected
  <2>3. QED
    BY <1>1, <2>1, <2>2 DEF CallState
<1>9. UpdatesMatch'
  BY <1>1 DEF UpdatesMatch
<1>10. KeysCollected'
  <2>1. SUFFICES ASSUME NEW e \in Device, batched \subseteq {e}, changedBy = Nobody,
                        NEW k \in Found(e)'
                 PROVE  /\ keychain[k] \in {Old, New[e]}
                        /\ HasRead(e, k)' => \/ flow'[e].update[k] = New[e]
                                             \/ flow'[e].update[k] = Absent /\ keychain[k] = New[e]
                        /\ (flow'[e].pc \in {"batch", "login"} /\ k \notin flow'[e].todo)
                             => keychain[k] = New[e]
    BY DEF KeysCollected
  <2>2. CASE e # d
    <3>1. k \in Found(e)
      BY <1>2, <2>2 DEF Found
    <3>2. QED
      BY <1>1, <2>1, <2>2, <3>1 DEF KeysCollected, HasRead
  <2>3. CASE e = d
    <3>1. k \in (matched[d] \cup M) \ Unreadable
      BY <1>2, <2>3 DEF Found
    <3>2. keychain[k] \in {Old, New[d]}
      BY <2>1, <2>3, <3>1 DEF KeysCollected, Found, UnderOld
    <3>3. HasRead(e, k)' => k \in V1Key \/ k \in s.listed \/ s.pc = "check"
      BY <1>1, <2>3 DEF HasRead, Late
    <3>4. HasRead(e, k)' => \/ s.update[k] = New[d]
                            \/ s.update[k] = Absent /\ keychain[k] = New[d]
      BY <2>1, <2>3, <3>1, <3>2, <3>3
    <3>5. QED
      BY <1>1, <2>3, <3>2, <3>4
  <2>4. QED
    BY <2>2, <2>3
<1>11. QED
  BY <1>4, <1>5, <1>6, <1>7, <1>8, <1>9, <1>10

\* The passwords are told apart.
LEMMA Distinct ==
    ASSUME NEW d \in Device
    PROVE  /\ New[d] # Absent /\ New[d] # Foreign /\ New[d] # Old
           /\ Old # Absent /\ Old # Foreign /\ Foreign # Absent
           /\ New[d] \in Password /\ Old \in Password /\ Foreign \in Password
BY PasswordAssumption DEF Password

LEMMA ListV1Step ==
    ASSUME IInv, NEW d \in Device, ListV1(d)
    PROVE  IInv'
<1> DEFINE u == [k \in Key |-> IF k \in V1Key THEN Reencrypted(d, k) ELSE Absent]
           s == [flow[d] EXCEPT !.pc = "v2", !.update = u]
<1>1. TypeOK
  BY DEF IInv
<1>2. flow[d].pc = "v1" /\ flow[d].listed = {}
  BY DEF ListV1, IInv, CallState
<1>3. \A k \in Key : Reencrypted(d, k) \in Password \cup {Absent}
  BY <1>1, Distinct DEF Reencrypted, TypeOK
<1>4. /\ u \in [Key -> Password \cup {Absent}]
      /\ \A k \in Key : u[k] = IF k \in V1Key THEN Reencrypted(d, k) ELSE Absent
  BY <1>3
<1> HIDE DEF u
<1>5. s \in FlowState
  BY <1>1, <1>4, FlowFields DEF FlowState, Pc
<1>6. flow' = [flow EXCEPT ![d] = s]
  BY <1>1 DEF ListV1, u, TypeOK
<1>7. /\ s.pc = "v2" /\ s.update = u
      /\ s.batch = flow[d].batch /\ s.listed = {}
  BY <1>1, <1>2, FlowFields
<1> HIDE DEF s
<1>8. \A k \in Key :
        /\ k \in V2Key => s.update[k] \in {Absent, New[d]}
        /\ s.update[k] # Absent =>
             /\ keychain[k] # Absent
             /\ s.update[k] = Foreign <=> keychain[k] = Foreign
  BY <1>4, <1>7, KeyAssumption, Distinct DEF Reencrypted
<1>9. ASSUME NEW k \in (matched[d] \cup UnderOld(Key)) \ Unreadable,
             keychain[k] \in {Old, New[d]},
             k \in V1Key \/ k \in s.listed \/ s.pc = "check"
      PROVE  s.update[k] = New[d]
  <2>1. k \in V1Key /\ k \in Key
    BY <1>7, <1>9 DEF Key
  <2>2. QED
    BY <1>4, <1>7, <1>9, <2>1 DEF Reencrypted
<1>10. /\ matched' = [matched EXCEPT ![d] = @ \cup UnderOld(Key)]
       /\ UNCHANGED <<login, keychain, batched, changedBy>>
  BY DEF ListV1
<1>11. QED
  BY <1>2, <1>5, <1>6, <1>7, <1>8, <1>9, <1>10, ReadStep

LEMMA ListV2Step ==
    ASSUME IInv, NEW d \in Device, ListV2(d)
    PROVE  IInv'
<1>1. TypeOK
  BY DEF IInv
<1>2. flow[d].pc = "v2"
  BY DEF ListV2
<1>3. PICK p \in NextPages(d) :
        /\ flow' = [flow EXCEPT
             ![d].pc = IF MorePages(d, p) THEN "v2" ELSE "check",
             ![d].listed = @ \cup p,
             ![d].update = [k \in Key |-> IF k \in UnderOld(p) \ Unreadable THEN New[d] ELSE @[k]]]
        /\ matched' = [matched EXCEPT ![d] = @ \cup UnderOld(p)]
  BY DEF ListV2
<1> DEFINE u == [k \in Key |-> IF k \in UnderOld(p) \ Unreadable THEN New[d] ELSE flow[d].update[k]]
           s == [flow[d] EXCEPT !.pc = IF MorePages(d, p) THEN "v2" ELSE "check",
                                !.listed = @ \cup p, !.update = u]
<1>4. p \subseteq V2Key /\ p \subseteq Key
  BY DEF NextPages, Existing, Key
<1>5. \A k \in Key : flow[d].update[k] \in Password \cup {Absent}
  BY <1>1, FlowFields
<1>6. /\ u \in [Key -> Password \cup {Absent}]
      /\ \A k \in Key : u[k] = IF k \in UnderOld(p) \ Unreadable THEN New[d] ELSE flow[d].update[k]
  BY <1>5, Distinct
<1>7. flow' = [flow EXCEPT ![d] = s]
  BY <1>1, <1>3 DEF TypeOK
<1> HIDE DEF u
<1>8. s \in FlowState
  BY <1>1, <1>4, <1>6, FlowFields DEF FlowState, Pc
<1>9. /\ s.pc \in {"v2", "check"} /\ (s.pc = "check" => ~MorePages(d, p))
      /\ s.update = u
      /\ s.batch = flow[d].batch /\ s.listed = flow[d].listed \cup p
  BY <1>1, FlowFields
<1> HIDE DEF s
<1>10. \A k \in Key :
        /\ k \in V2Key => s.update[k] \in {Absent, New[d]}
        /\ s.update[k] # Absent =>
             /\ keychain[k] # Absent
             /\ s.update[k] = Foreign <=> keychain[k] = Foreign
  BY <1>6, <1>9, Distinct DEF IInv, UpdatesMatch, UnderOld
<1>11. ASSUME batched \subseteq {d}, changedBy = Nobody,
              NEW k \in (matched[d] \cup UnderOld(p)) \ Unreadable,
              keychain[k] \in {Old, New[d]},
              k \in V1Key \/ k \in s.listed \/ s.pc = "check"
       PROVE  \/ s.update[k] = New[d]
              \/ s.update[k] = Absent /\ keychain[k] = New[d]
  <2>1. k \in Key
    BY <1>1, <1>4 DEF TypeOK, UnderOld
  <2>2. CASE k \in UnderOld(p)
    BY <1>6, <1>9, <1>11, <2>1, <2>2
  <2>3. CASE k \notin UnderOld(p)
    <3>1. s.update[k] = flow[d].update[k] /\ k \in Found(d)
      BY <1>6, <1>9, <1>11, <2>1, <2>3 DEF Found
    <3>2. CASE k \in p
      <4>1. keychain[k] = New[d]
        BY <1>11, <2>3, <3>2 DEF UnderOld
      <4>2. flow[d].update[k] \in {Absent, New[d]}
        BY <1>4, <2>1, <3>2 DEF IInv, UpdatesMatch
      <4>3. QED
        BY <3>1, <4>1, <4>2
    <3>3. CASE k \notin p
      <4>1. k \in V1Key \/ k \in flow[d].listed
        <5>1. CASE s.pc = "check"
          <6>1. keychain[k] # Absent
            BY <1>11, Distinct
          <6>2. QED
            BY <1>9, <2>1, <3>3, <5>1, <6>1 DEF MorePages, Existing, Key
        <5>2. QED
          BY <1>9, <1>11, <3>3, <5>1
      <4>2. HasRead(d, k)
        BY <1>2, <4>1 DEF HasRead
      <4>3. QED
        BY <1>11, <3>1, <4>2 DEF IInv, KeysCollected
    <3>4. QED
      BY <3>2, <3>3
  <2>4. QED
    BY <2>2, <2>3
<1>12. UnderOld(p) \in SUBSET UnderOld(Key)
  BY <1>4 DEF UnderOld
<1>13. /\ matched' = [matched EXCEPT ![d] = @ \cup UnderOld(p)]
       /\ UNCHANGED <<login, keychain, batched, changedBy>>
  BY <1>3 DEF ListV2
<1>14. QED
  BY <1>2, <1>7, <1>8, <1>9, <1>10, <1>11, <1>12, <1>13, ReadStep

----------------------------------------------------------------------------
(* Steps that change the server *)

\* Device d alone has sent batches, and nobody has changed the login password.
Alone(d) == batched \subseteq {d} /\ changedBy = Nobody

\* What such a device has collected or updated.
LEMMA CollectedKeys ==
    ASSUME IInv, NEW d \in Device, Alone(d), NEW k \in Found(d),
           flow[d].pc \in Late
    PROVE  /\ k \in Key
           /\ k \in Collected(d) => flow[d].update[k] = New[d]
           /\ k \notin Collected(d) => keychain[k] = New[d]
           /\ flow[d].pc \in {"batch", "login"} /\ k \notin flow[d].todo => keychain[k] = New[d]
<1>1. k \in Key
  BY DEF IInv, TypeOK, Found
<1>2. \/ flow[d].update[k] = New[d]
      \/ flow[d].update[k] = Absent /\ keychain[k] = New[d]
  BY DEF IInv, KeysCollected, Alone, HasRead
<1>3. flow[d].pc \in {"batch", "login"} /\ k \notin flow[d].todo => keychain[k] = New[d]
  BY DEF IInv, KeysCollected, Alone
<1>4. QED
  BY <1>1, <1>2, <1>3, Distinct DEF Collected

\* An update of keychains S that the device has collected: the types of the
\* keychains stay right, foreign ones stay foreign, and so do existing ones.
LEMMA UpdateOfCollected ==
    ASSUME IInv, NEW d \in Device, NEW S \in SUBSET Collected(d),
           keychain' = Updated(d, S)
    PROVE  /\ keychain' \in [Key -> Password \cup {Absent}]
           /\ \A k \in Key :
                /\ k \in S => keychain'[k] = flow[d].update[k]
                /\ k \notin S => keychain'[k] = keychain[k]
                /\ keychain[k] # Absent => keychain'[k] # Absent
                /\ keychain[k] # Absent => (keychain'[k] = Foreign <=> keychain[k] = Foreign)
<1>1. flow[d].update \in [Key -> Password \cup {Absent}]
  BY FlowFields DEF IInv
<1>2. keychain \in [Key -> Password \cup {Absent}]
  BY DEF IInv, TypeOK
<1>3. /\ keychain' \in [Key -> Password \cup {Absent}]
      /\ \A k \in Key : keychain'[k] = IF k \in S THEN flow[d].update[k] ELSE keychain[k]
  BY <1>1, <1>2 DEF Updated
<1>4. \A k \in S : flow[d].update[k] # Absent
  BY DEF Collected
<1>5. QED
  BY <1>3, <1>4 DEF IInv, UpdatesMatch

LEMMA SendBatchStep ==
    ASSUME IInv, NEW d \in Device, SendBatch(d)
    PROVE  IInv'
<1> USE DEF IInv
<1>1. /\ flow[d].pc = "batch" /\ flow[d].batch # {}
      /\ flow[d].batch \subseteq flow[d].todo /\ flow[d].todo \subseteq Collected(d)
      /\ flow[d].retries < MaxRetries /\ changedBy # d
      /\ UNCHANGED <<login, matched, changedBy>>
  BY DEF SendBatch, CallState, LoginOwner
<1>2. PICK S \in SUBSET flow[d].batch :
        /\ keychain' = Updated(d, S)
        /\ batched' = IF S = {} THEN batched ELSE batched \cup {d}
        /\ BatchFailed(d) \/ (S = flow[d].batch /\ BatchDone(d))
  BY DEF SendBatch
<1>3. S \in SUBSET Collected(d)
  BY <1>1
<1>4. /\ keychain' \in [Key -> Password \cup {Absent}]
      /\ \A k \in Key :
           /\ k \in S => keychain'[k] = flow[d].update[k]
           /\ k \notin S => keychain'[k] = keychain[k]
           /\ keychain[k] # Absent => keychain'[k] # Absent
           /\ keychain[k] # Absent => (keychain'[k] = Foreign <=> keychain[k] = Foreign)
  BY <1>2, <1>3, UpdateOfCollected
<1>5. /\ flow[d] \in FlowState
      /\ flow[d].batch \subseteq Key /\ flow[d].todo \subseteq Key
      /\ flow[d].retries \in 0 .. MaxRetries
  BY FlowFields
<1> DEFINE sf == [flow[d] EXCEPT !.pc = IF flow[d].retries + 1 < MaxRetries THEN "batch" ELSE "legacy",
                                 !.retries = @ + 1]
           sd == [flow[d] EXCEPT !.pc = IF flow[d].todo = flow[d].batch THEN "login" ELSE "batch",
                                 !.todo = @ \ flow[d].batch, !.batch = {}]
<1>6. PICK s \in FlowState :
        /\ flow' = [flow EXCEPT ![d] = s]
        /\ s.update = flow[d].update
        /\ \/ /\ s.todo = flow[d].todo /\ s.batch = flow[d].batch
              /\ \/ s.pc = "batch" /\ s.retries < MaxRetries
                 \/ s.pc = "legacy"
           \/ /\ S = flow[d].batch
              /\ s.todo = flow[d].todo \ flow[d].batch /\ s.batch = {}
              /\ \/ s.pc = "batch"
                 \/ s.pc = "login" /\ s.todo = {}
  <2>1. CASE BatchFailed(d)
    <3>1. flow[d].retries + 1 \in 0 .. MaxRetries
      BY <1>1, <1>5, BoundsAssumption
    <3>2. sf \in FlowState /\ flow' = [flow EXCEPT ![d] = sf]
      BY <1>5, <2>1, <3>1 DEF BatchFailed, FlowState, Pc, TypeOK
    <3>3. /\ sf.update = flow[d].update /\ sf.todo = flow[d].todo /\ sf.batch = flow[d].batch
          /\ \/ sf.pc = "batch" /\ sf.retries < MaxRetries
             \/ sf.pc = "legacy"
      BY <1>5 DEF FlowState
    <3> HIDE DEF sf
    <3>4. QED
      BY <3>2, <3>3
  <2>2. CASE S = flow[d].batch /\ BatchDone(d)
    <3>1. sd \in FlowState /\ flow' = [flow EXCEPT ![d] = sd]
      BY <1>5, <2>2 DEF BatchDone, FlowState, Pc, TypeOK
    <3>2. /\ sd.update = flow[d].update
          /\ sd.todo = flow[d].todo \ flow[d].batch /\ sd.batch = {}
          /\ \/ sd.pc = "batch"
             \/ sd.pc = "login" /\ sd.todo = {}
      BY <1>5 DEF FlowState
    <3> HIDE DEF sd
    <3>3. QED
      BY <2>2, <3>1, <3>2
  <2>3. QED
    BY <1>2, <2>1, <2>2
<1> HIDE DEF sf, sd
<1>7. /\ flow' \in [Device -> FlowState]
      /\ flow'[d] = s
      /\ \A e \in Device \ {d} : flow'[e] = flow[e]
  BY <1>6, FlowUpdate
<1>8. \A e \in Device : Collected(e)' = Collected(e)
  BY <1>6, <1>7 DEF Collected
<1>9. TypeOK'
  BY <1>1, <1>2, <1>4, <1>7 DEF TypeOK
<1>10. KeysFollowLogin'
  <2>1. SUFFICES ASSUME NEW e \in Device, changedBy = e, batched' \subseteq {e},
                        NEW k \in matched[e] \ Unreadable
                 PROVE  keychain'[k] = New[e]
    BY <1>1 DEF KeysFollowLogin
  <2>2. S = {} /\ batched' = batched
    BY <1>1, <1>2, <2>1
  <2>3. k \in Key
    BY <2>1 DEF TypeOK
  <2>4. QED
    BY <1>4, <2>1, <2>2, <2>3 DEF KeysFollowLogin
<1>11. DoneMeansChanged'
  BY <1>1, <1>6, <1>7 DEF DoneMeansChanged
<1>12. LoginOwner'
  BY <1>1, <1>7 DEF LoginOwner
<1>13. CallState'
  <2>1. SUFFICES ASSUME NEW e \in Device
                 PROVE  /\ flow'[e].pc \in {"idle", "v1"} => flow'[e].listed = {}
                        /\ flow'[e].pc \in {"idle", "v1", "v2", "check", "login"} => flow'[e].batch = {}
                        /\ flow'[e].pc = "batch" =>
                             /\ flow'[e].batch \subseteq flow'[e].todo
                             /\ flow'[e].todo \subseteq Collected(e)
                             /\ flow'[e].batch # {} => flow'[e].retries < MaxRetries
                        /\ flow'[e].pc = "login" => flow'[e].todo = {}
    BY <1>8 DEF CallState
  <2>2. CASE e = d
    BY <1>1, <1>6, <1>7, <2>2
  <2>3. CASE e # d
    BY <1>7, <2>3 DEF CallState
  <2>4. QED
    BY <2>2, <2>3
<1>14. UpdatesMatch'
  BY <1>4, <1>6, <1>7 DEF UpdatesMatch
<1>15. KeysCollected'
  <2>1. SUFFICES ASSUME NEW e \in Device, batched' \subseteq {e}, changedBy = Nobody,
                        NEW k \in Found(e)
                 PROVE  /\ keychain'[k] \in {Old, New[e]}
                        /\ HasRead(e, k)' => \/ flow'[e].update[k] = New[e]
                                             \/ flow'[e].update[k] = Absent /\ keychain'[k] = New[e]
                        /\ (flow'[e].pc \in {"batch", "login"} /\ k \notin flow'[e].todo)
                             => keychain'[k] = New[e]
    BY <1>1 DEF KeysCollected, Found
  <2>2. Alone(e) /\ k \in Key
    BY <1>2, <2>1 DEF Alone, Found, TypeOK
  <2>3. /\ keychain[k] \in {Old, New[e]}
        /\ HasRead(e, k) => \/ flow[e].update[k] = New[e]
                            \/ flow[e].update[k] = Absent /\ keychain[k] = New[e]
        /\ (flow[e].pc \in {"batch", "login"} /\ k \notin flow[e].todo) => keychain[k] = New[e]
    BY <2>2 DEF KeysCollected, Alone
  <2>4. CASE e # d
    <3>1. S = {}
      BY <1>2, <2>1, <2>4
    <3>2. keychain'[k] = keychain[k]
      BY <1>4, <2>2, <3>1
    <3>3. QED
      BY <1>7, <2>3, <2>4, <3>2 DEF HasRead
  <2>5. CASE e = d
    <3>1. /\ k \in Collected(d) => flow[d].update[k] = New[d]
          /\ k \notin Collected(d) => keychain[k] = New[d]
          /\ k \notin flow[d].todo => keychain[k] = New[d]
      BY <1>1, <2>1, <2>2, <2>5, CollectedKeys DEF Late
    <3>2. k \in S => keychain'[k] = New[d]
      BY <1>3, <1>4, <2>2, <3>1
    <3>3. k \notin S => keychain'[k] = keychain[k]
      BY <1>4, <2>2
    <3>4. HasRead(e, k)
      BY <1>1, <2>5 DEF HasRead, Late
    <3>5. flow'[d].update[k] = flow[d].update[k]
      BY <1>6, <1>7
    <3>6. k \notin flow'[d].todo => keychain'[k] = New[d]
      BY <1>6, <1>7, <3>1, <3>2, <3>3
    <3>7. QED
      BY <2>3, <2>5, <3>2, <3>3, <3>4, <3>5, <3>6
  <2>6. QED
    BY <2>4, <2>5
<1>16. QED
  BY <1>9, <1>10, <1>11, <1>12, <1>13, <1>14, <1>15

\* The device d changes the login password when all that it had to find opens
\* with its own.
LEMMA LoginStep ==
    ASSUME IInv, NEW d \in Device, NEW pc \in {"done", "failed"},
           flow[d].pc \in {"login", "legacy"},
           Accepted(d), Goto(d, pc), UNCHANGED <<matched, batched>>,
           keychain' \in [Key -> Password \cup {Absent}],
           \A k \in Key :
             /\ keychain[k] # Absent => keychain'[k] # Absent
             /\ keychain[k] # Absent => (keychain'[k] = Foreign <=> keychain[k] = Foreign),
           ASSUME Alone(d), NEW k \in Found(d)
           PROVE  keychain'[k] = New[d]
    PROVE  IInv'
<1> USE DEF IInv
<1> DEFINE s == [flow[d] EXCEPT !.pc = pc]
<1>1. s \in FlowState /\ flow' = [flow EXCEPT ![d] = s]
  BY FlowFields DEF Goto, FlowState, Pc
<1>2. s.pc = pc /\ s.update = flow[d].update
  BY FlowFields
<1> HIDE DEF s
<1>3. /\ flow' \in [Device -> FlowState]
      /\ flow'[d] = s
      /\ \A e \in Device \ {d} : flow'[e] = flow[e]
  BY <1>1, FlowUpdate
<1>4. /\ login = Old /\ changedBy = Nobody
      /\ login' = New[d] /\ changedBy' = d /\ d # Nobody
  BY NobodyAssumption DEF Accepted, LoginOwner
<1>5. \A e \in Device \ {d} : Collected(e)' = Collected(e)
  BY <1>3 DEF Collected
<1>6. TypeOK'
  BY <1>3, <1>4, Distinct DEF TypeOK
<1>7. KeysFollowLogin'
  BY <1>4 DEF KeysFollowLogin, Alone, Found
<1>8. DoneMeansChanged'
  BY <1>3, <1>4, NobodyAssumption DEF DoneMeansChanged
<1>9. LoginOwner'
  BY <1>2, <1>3, <1>4, Distinct DEF LoginOwner
<1>10. CallState'
  BY <1>2, <1>3, <1>5 DEF CallState
<1>11. UpdatesMatch'
  BY <1>2, <1>3 DEF UpdatesMatch
<1>12. KeysCollected'
  BY <1>4 DEF KeysCollected
<1>13. QED
  BY <1>6, <1>7, <1>8, <1>9, <1>10, <1>11, <1>12

\* The server refuses to change the login password.
LEMMA RefusedStep ==
    ASSUME IInv, NEW d \in Device, flow[d].pc \in {"login", "legacy"},
           Goto(d, "failed"),
           UNCHANGED <<login, keychain, matched, batched, changedBy>>
    PROVE  IInv'
<1>1. Fail(d)
  BY DEF Fail
<1>2. QED
  BY <1>1, FailStep

LEMMA ChangeLoginStep ==
    ASSUME IInv, NEW d \in Device, ChangeLogin(d)
    PROVE  IInv'
<1>1. flow[d].pc = "login" /\ flow[d].todo = {} /\ UNCHANGED <<keychain, matched, batched>>
  BY DEF ChangeLogin, IInv, CallState
<1>2. CASE login # Old /\ Goto(d, "failed") /\ UNCHANGED <<login, changedBy>>
  BY <1>1, <1>2, RefusedStep
<1>3. CASE Accepted(d) /\ (Goto(d, "done") \/ Goto(d, "failed"))
  <2>1. keychain' \in [Key -> Password \cup {Absent}]
    BY <1>1 DEF IInv, TypeOK
  <2>2. ASSUME Alone(d), NEW k \in Found(d)
        PROVE  keychain'[k] = New[d]
    BY <1>1, <2>2, CollectedKeys DEF Late
  <2>3. QED
    BY <1>1, <1>3, <2>1, <2>2, LoginStep
<1>4. QED
  BY <1>2, <1>3 DEF ChangeLogin

LEMMA ChangeAllStep ==
    ASSUME IInv, NEW d \in Device, ChangeAll(d)
    PROVE  IInv'
<1>1. flow[d].pc = "legacy" /\ UNCHANGED <<matched, batched>>
  BY DEF ChangeAll
<1>2. CASE login # Old /\ Goto(d, "failed") /\ UNCHANGED <<login, changedBy, keychain>>
  BY <1>1, <1>2, RefusedStep
<1>3. CASE /\ Accepted(d)
           /\ keychain' = Updated(d, Collected(d))
           /\ Goto(d, "done") \/ Goto(d, "failed")
  <2>1. /\ keychain' \in [Key -> Password \cup {Absent}]
        /\ \A k \in Key :
             /\ k \in Collected(d) => keychain'[k] = flow[d].update[k]
             /\ k \notin Collected(d) => keychain'[k] = keychain[k]
             /\ keychain[k] # Absent => keychain'[k] # Absent
             /\ keychain[k] # Absent => (keychain'[k] = Foreign <=> keychain[k] = Foreign)
    BY <1>3, UpdateOfCollected
  <2>2. ASSUME Alone(d), NEW k \in Found(d)
        PROVE  keychain'[k] = New[d]
    BY <1>1, <2>1, <2>2, CollectedKeys DEF Late
  <2>3. QED
    BY <1>1, <1>3, <2>1, <2>2, LoginStep
<1>4. QED
  BY <1>2, <1>3 DEF ChangeAll

LEMMA AddKeychainStep ==
    ASSUME IInv, NEW i \in V2Key, AddKeychain(i)
    PROVE  IInv'
<1> USE DEF IInv
<1>1. keychain[i] = Absent /\ i \in Key /\ UNCHANGED <<login, flow, matched, batched, changedBy>>
  BY DEF AddKeychain, Key
<1>2. PICK p \in {login, Foreign} : keychain' = [keychain EXCEPT ![i] = p]
  BY DEF AddKeychain
<1>3. p \in Password
  BY <1>2 DEF TypeOK, Password
<1>4. /\ keychain' \in [Key -> Password \cup {Absent}]
      /\ \A k \in Key : k # i => keychain'[k] = keychain[k]
  BY <1>1, <1>2, <1>3 DEF TypeOK
<1>5. TypeOK'
  BY <1>1, <1>4 DEF TypeOK
<1>6. KeysFollowLogin'
  <2>1. \A d \in Device : matched[d] \subseteq Key /\ New[d] # Absent
    BY Distinct DEF TypeOK
  <2>2. QED
    BY <1>1, <1>4, <2>1 DEF KeysFollowLogin
<1>7. DoneMeansChanged' /\ LoginOwner'
  BY <1>1 DEF DoneMeansChanged, LoginOwner
<1>8. CallState'
  BY <1>1 DEF CallState, Collected
<1>9. UpdatesMatch'
  BY <1>1, <1>4 DEF UpdatesMatch
<1>10. KeysCollected'
  <2>1. \A d \in Device : Found(d) \subseteq Key /\ New[d] # Absent /\ Old # Absent
    BY Distinct DEF TypeOK, Found
  <2>2. \A d \in Device : Found(d)' = Found(d) /\ \A k \in Key : HasRead(d, k)' <=> HasRead(d, k)
    BY <1>1 DEF Found, HasRead
  <2>3. QED
    BY <1>1, <1>4, <2>1, <2>2 DEF KeysCollected
<1>11. QED
  BY <1>5, <1>6, <1>7, <1>8, <1>9, <1>10

----------------------------------------------------------------------------
(* Theorems *)

LEMMA InitIInv == Init => IInv
<1> SUFFICES ASSUME Init PROVE IInv
  OBVIOUS
<1> USE DEF Init, NewFlow
<1>1. TypeOK
  <2>1. 0 \in 0 .. MaxRetries
    BY BoundsAssumption
  <2>2. Old \in Password /\ Foreign \in Password
    BY DEF Password
  <2>3. NewFlow(0) \in FlowState
    BY <2>1 DEF FlowState, Pc
  <2>4. flow \in [Device -> FlowState]
    BY <2>3
  <2>5. QED
    BY <2>2, <2>4 DEF TypeOK
<1>2. KeysFollowLogin /\ DoneMeansChanged /\ LoginOwner
  BY NobodyAssumption DEF KeysFollowLogin, DoneMeansChanged, LoginOwner
<1>3. CallState /\ UpdatesMatch /\ KeysCollected
  BY DEF CallState, UpdatesMatch, KeysCollected, Found
<1>4. QED
  BY <1>1, <1>2, <1>3 DEF IInv

LEMMA NextIInv == IInv /\ [Next]_vars => IInv'
<1> SUFFICES ASSUME IInv, [Next]_vars PROVE IInv'
  OBVIOUS
<1>1. ASSUME NEW d \in Device, Step(d)
      PROVE  IInv'
  BY <1>1, VerifyStep, ListV1Step, ListV2Step, CheckBatchingStep, NextBatchStep,
     SendBatchStep, ChangeLoginStep, ChangeAllStep DEF Step
<1>2. ASSUME NEW d \in Device, Fail(d) \/ Again(d)
      PROVE  IInv'
  BY <1>2, FailStep, AgainStep
<1>3. ASSUME NEW k \in V2Key, AddKeychain(k)
      PROVE  IInv'
  BY <1>3, AddKeychainStep
<1>4. CASE UNCHANGED vars
  BY <1>4 DEF vars, IInv, TypeOK, KeysFollowLogin, DoneMeansChanged, LoginOwner,
     CallState, Collected, UpdatesMatch, KeysCollected, Found, HasRead
<1>5. QED
  BY <1>1, <1>2, <1>3, <1>4 DEF Next

\* The inductive invariant holds: what a device has read is collected, and what
\* it has sent is updated, for any number of devices and keychains.
THEOREM Invariance == Spec => []IInv
BY InitIInv, NextIInv, PTL DEF Spec

\* Every variable keeps its type; in particular the retries of a batch keep
\* their limit.
THEOREM TypeCorrect == Spec => []TypeOK
<1>1. IInv => TypeOK
  BY DEF IInv
<1>2. QED
  BY <1>1, Invariance, PTL

\* No keychain is left behind under a password that is gone: changePassword,
\* whatever fails or is repeated.
THEOREM NoKeychainLeftBehind == Spec => []KeysFollowLogin
<1>1. IInv => KeysFollowLogin
  BY DEF IInv
<1>2. QED
  BY <1>1, Invariance, PTL

\* A call of changePassword that returns has changed the login password.
THEOREM DoneChanged == Spec => []DoneMeansChanged
<1>1. IInv => DoneMeansChanged
  BY DEF IInv
<1>2. QED
  BY <1>1, Invariance, PTL

\* No keychain under a foreign password is changed by changePassword.
THEOREM ForeignSafe == Spec => ForeignKeysUntouched
<1>1. ASSUME IInv, [Next]_vars
      PROVE  [\A k \in Key : keychain[k] = Foreign => keychain'[k] = Foreign]_vars
  <2>1. SUFFICES ASSUME Next, NEW k \in Key, keychain[k] = Foreign
                 PROVE  keychain'[k] = Foreign
    BY <1>1
  <2>2. keychain[k] # Absent
    BY <2>1, PasswordAssumption DEF Password
  <2>3. ASSUME NEW d \in Device, NEW S \in SUBSET Collected(d), keychain' = Updated(d, S)
        PROVE  keychain'[k] = Foreign
    BY <1>1, <2>1, <2>2, <2>3, UpdateOfCollected
  <2>4. ASSUME NEW d \in Device, SendBatch(d)
        PROVE  keychain'[k] = Foreign
    <3>1. flow[d].batch \subseteq Collected(d)
      BY <1>1, <2>4 DEF SendBatch, IInv, CallState
    <3>2. PICK S \in SUBSET flow[d].batch : keychain' = Updated(d, S)
      BY <2>4 DEF SendBatch
    <3>3. QED
      BY <2>3, <3>1, <3>2
  <2>5. ASSUME NEW d \in Device, ChangeAll(d)
        PROVE  keychain'[k] = Foreign
    <3>1. keychain' = Updated(d, Collected(d)) \/ keychain' = keychain
      BY <2>5 DEF ChangeAll
    <3>2. QED
      BY <2>1, <2>3, <3>1
  <2>6. ASSUME NEW i \in V2Key, AddKeychain(i)
        PROVE  keychain'[k] = Foreign
    <3>1. i # k /\ keychain \in [Key -> Password \cup {Absent}]
      BY <1>1, <2>1, <2>2, <2>6 DEF AddKeychain, IInv, TypeOK
    <3>2. QED
      BY <2>1, <2>6, <3>1 DEF AddKeychain
  <2>7. ASSUME keychain' = keychain
        PROVE  keychain'[k] = Foreign
    BY <2>1, <2>7
  <2>8. QED
    BY <2>1, <2>4, <2>5, <2>6, <2>7 DEF Next, Step, Verify, ListV1, ListV2,
       CheckBatching, NextBatch, ChangeLogin, Fail, Again
<1>2. QED
  BY <1>1, Invariance, PTL DEF Spec, ForeignKeysUntouched

----------------------------------------------------------------------------
(* Calls do not run in circles *)

\* The order of the steps of a call.
LEMMA Stages ==
    /\ Stage["idle"] = 0 /\ Stage["v1"] = 1 /\ Stage["v2"] = 2 /\ Stage["check"] = 3
    /\ Stage["batch"] = 4 /\ Stage["login"] = 5 /\ Stage["legacy"] = 5
    /\ Stage["done"] = 6 /\ Stage["failed"] = 6
BY DEF Stage

\* A step to a later stage is an advance.
LEMMA LaterStage ==
    ASSUME TypeOK, NEW d \in Device, NEW s \in FlowState,
           flow' = [flow EXCEPT ![d] = s],
           Stage[s.pc] > Stage[flow[d].pc]
    PROVE  Advances(d)
BY FlowUpdate DEF Advances

\* As far as the program counter alone is changed.
LEMMA GotoLater ==
    ASSUME TypeOK, NEW d \in Device, NEW pc \in Pc, Goto(d, pc),
           Stage[pc] > Stage[flow[d].pc]
    PROVE  Advances(d)
<1> DEFINE s == [flow[d] EXCEPT !.pc = pc]
<1>1. s \in FlowState /\ flow' = [flow EXCEPT ![d] = s] /\ s.pc = pc
  BY FlowFields DEF Goto, FlowState
<1> HIDE DEF s
<1>2. QED
  BY <1>1, LaterStage

\* A page that is not the last one has a keychain that no page had before.
LEMMA PagesAreNew ==
    ASSUME NEW d \in Device, NEW p \in NextPages(d), MorePages(d, p)
    PROVE  ~(p \subseteq flow[d].listed)
<1> DEFINE rest == Existing(V2Key) \ flow[d].listed
<1>1. IsFiniteSet(rest)
  BY KeyAssumption, FS_Subset DEF Existing
<1>2. rest # {}
  BY DEF MorePages
<1>3. Cardinality(rest) \in Nat /\ Cardinality(rest) # 0
  BY <1>1, <1>2, FS_CardinalityType, FS_EmptySet
<1>4. p \subseteq rest /\ Cardinality(p) # 0
  BY <1>3, BoundsAssumption DEF NextPages
<1>5. p # {}
  BY <1>4, FS_EmptySet
<1>6. QED
  BY <1>4, <1>5

LEMMA ListV2Advances ==
    ASSUME IInv, NEW d \in Device, ListV2(d)
    PROVE  Advances(d)
<1>1. TypeOK /\ flow[d].pc = "v2"
  BY DEF IInv, ListV2
<1>2. PICK p \in NextPages(d) :
        flow' = [flow EXCEPT
             ![d].pc = IF MorePages(d, p) THEN "v2" ELSE "check",
             ![d].listed = @ \cup p,
             ![d].update = [k \in Key |-> IF k \in UnderOld(p) \ Unreadable THEN New[d] ELSE @[k]]]
  BY DEF ListV2
<1>3. /\ flow'[d].pc = IF MorePages(d, p) THEN "v2" ELSE "check"
      /\ flow'[d].listed = flow[d].listed \cup p
  BY <1>1, <1>2, FlowFields DEF TypeOK, FlowState
<1>4. CASE MorePages(d, p)
  BY <1>1, <1>3, <1>4, PagesAreNew DEF Advances
<1>5. CASE ~MorePages(d, p)
  BY <1>1, <1>3, <1>5, Stages DEF Advances
<1>6. QED
  BY <1>4, <1>5

LEMMA SendBatchAdvances ==
    ASSUME IInv, NEW d \in Device, SendBatch(d)
    PROVE  Advances(d)
<1>1. /\ TypeOK /\ flow[d].pc = "batch" /\ flow[d].batch # {}
      /\ flow[d].batch \subseteq flow[d].todo
  BY DEF IInv, SendBatch, CallState
<1>2. CASE BatchFailed(d)
  <2>1. /\ flow'[d].pc = IF flow[d].retries + 1 < MaxRetries THEN "batch" ELSE "legacy"
        /\ flow'[d].retries = flow[d].retries + 1
        /\ flow'[d].todo = flow[d].todo /\ flow'[d].batch = flow[d].batch
    BY <1>1, <1>2, FlowFields DEF BatchFailed, TypeOK, FlowState
  <2>2. flow'[d].retries > flow[d].retries
    BY <1>1, <2>1, FlowFields, BoundsAssumption
  <2>3. QED
    BY <1>1, <2>1, <2>2, Stages DEF Advances
<1>3. CASE BatchDone(d)
  <2>1. /\ flow'[d].pc = IF flow[d].todo = flow[d].batch THEN "login" ELSE "batch"
        /\ flow'[d].todo = flow[d].todo \ flow[d].batch
    BY <1>1, <1>3, FlowFields DEF BatchDone, TypeOK, FlowState
  <2>2. flow'[d].todo \subseteq flow[d].todo /\ flow'[d].todo # flow[d].todo
    BY <1>1, <2>1
  <2>3. QED
    BY <1>1, <2>1, <2>2, Stages DEF Advances
<1>4. QED
  BY <1>2, <1>3 DEF SendBatch

LEMMA StepAdvances ==
    ASSUME IInv, NEW d \in Device, Step(d) \/ Fail(d)
    PROVE  Advances(d)
<1>1. TypeOK /\ flow[d] \in FlowState
  BY FlowFields DEF IInv
<1>2. CASE Verify(d)
  <2>1. flow[d].pc = "idle" /\ flow'[d].pc \in {"v1", "failed"}
    BY <1>1, <1>2 DEF Verify, TypeOK, FlowState
  <2>2. QED
    BY <2>1, Stages DEF Advances
<1>3. CASE ListV1(d)
  <2>1. flow[d].pc = "v1" /\ flow'[d].pc = "v2"
    BY <1>1, <1>3 DEF ListV1, TypeOK, FlowState
  <2>2. QED
    BY <2>1, Stages DEF Advances
<1>4. CASE ListV2(d)
  BY <1>4, ListV2Advances
<1>5. CASE CheckBatching(d)
  <2>1. flow[d].pc = "check" /\ flow'[d].pc \in {"legacy", "login", "batch"}
    BY <1>1, <1>5 DEF CheckBatching, Goto, TypeOK, FlowState
  <2>2. QED
    BY <2>1, Stages DEF Advances
<1>6. CASE NextBatch(d)
  <2>1. PICK b \in Fits \ {{}} : flow' = [flow EXCEPT ![d].batch = b, ![d].retries = 0]
    BY <1>6 DEF NextBatch
  <2>2. /\ flow[d].pc = "batch" /\ flow'[d].pc = "batch" /\ flow'[d].todo = flow[d].todo
        /\ flow[d].batch = {} /\ flow'[d].batch # {}
    BY <1>1, <1>6, <2>1 DEF NextBatch, TypeOK, FlowState
  <2>3. QED
    BY <2>2 DEF Advances
<1>7. CASE SendBatch(d)
  BY <1>7, SendBatchAdvances
<1>8. CASE \/ ChangeLogin(d) \/ ChangeAll(d) \/ Fail(d)
  <2>1. flow[d].pc \in {"v1", "v2", "login", "legacy"}
    BY <1>8 DEF ChangeLogin, ChangeAll, Fail
  <2>2. Goto(d, "failed") \/ Goto(d, "done")
    BY <1>8 DEF ChangeLogin, ChangeAll, Fail
  <2>3. QED
    BY <1>1, <2>1, <2>2, Stages, GotoLater DEF Pc
<1>9. QED
  BY <1>2, <1>3, <1>4, <1>5, <1>6, <1>7, <1>8 DEF Step

\* A step of one device leaves the calls of the others alone.
LEMMA OtherCalls ==
    ASSUME IInv, NEW d \in Device, NEW e \in Device \ {d}, Step(e) \/ Fail(e) \/ Again(e)
    PROVE  flow'[d] = flow[d]
<1>1. flow \in [Device -> FlowState]
  BY DEF IInv, TypeOK
<1>2. QED
  BY <1>1 DEF Step, Verify, ListV1, ListV2, CheckBatching, NextBatch, SendBatch,
     BatchFailed, BatchDone, ChangeLogin, ChangeAll, Fail, Again, Goto

\* No call of changePassword runs in circles: every step of it goes on to a later
\* stage, reads a new page, takes keychains off the batches that are left, or
\* uses up one of the retries of a batch, whatever the server answers and
\* whatever other devices do meanwhile.
THEOREM CallsDoAdvance == Spec => CallsAdvance
<1>1. ASSUME IInv, [Next]_vars
      PROVE  [\A d \in Device :
                IF Step(d) \/ Fail(d) THEN Advances(d) ELSE Again(d) \/ flow'[d] = flow[d]]_vars
  <2>1. SUFFICES ASSUME Next, NEW d \in Device, ~(Step(d) \/ Fail(d))
                 PROVE  Again(d) \/ flow'[d] = flow[d]
    BY <1>1, StepAdvances
  <2>2. ASSUME NEW e \in Device, Step(e) \/ Fail(e) \/ Again(e)
        PROVE  Again(d) \/ flow'[d] = flow[d]
    BY <1>1, <2>1, <2>2, OtherCalls
  <2>3. ASSUME NEW k \in V2Key, AddKeychain(k)
        PROVE  flow'[d] = flow[d]
    BY <2>3 DEF AddKeychain
  <2>4. QED
    BY <2>1, <2>2, <2>3 DEF Next
<1>2. QED
  BY <1>1, Invariance, PTL DEF Spec, CallsAdvance

=============================================================================
