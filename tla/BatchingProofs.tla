---------------------------- MODULE BatchingProofs ----------------------------
(***************************************************************************)
(* The two parts of the SDK that cut their data into batches under a limit *)
(* of bytes: wallet shares and keychain updates.                           *)
(*                                                                         *)
(* Wallet shares: whatever is refused, lost, late or decided by somebody   *)
(* else, a call accounts for every share, reports what its own entries     *)
(* decided, and comes to an end.  Keychain updates: every keychain is in   *)
(* one batch, and what the loop counts is the size of all entries.         *)
(*                                                                         *)
(* Entries, payloads and totals (Among, Payload, Total) are recursive      *)
(* functions over data of any size.  Induction is by the least             *)
(* counterexample, which the well-foundedness of the strict subset order   *)
(* gives; a recursion has a function because its finite beginnings do.     *)
(***************************************************************************)
EXTENDS WalletShares, KeychainPacking, SequenceTheorems, FiniteSetTheorems, WellFoundedInduction, TLAPS

----------------------------------------------------------------------------
(* Induction and recursion over the natural numbers *)

\* A set of natural numbers has a least element.
LEMMA LeastElement ==
    ASSUME NEW S, S \subseteq Nat, S # {}
    PROVE  \E n \in S : \A m \in S : n <= m
<1> DEFINE T == {0 .. n : n \in S}
<1>1. T \subseteq FiniteSubsetsOf(Nat) /\ T # {}
  <2>1. \A n \in S : IsFiniteSet(0 .. n)
    BY FS_Interval
  <2>2. \A n \in S : 0 .. n \subseteq Nat
    OBVIOUS
  <2>3. QED
    BY <2>1, <2>2 DEF FiniteSubsetsOf
<1>2. PICK x \in T : \A y \in T : ~(<<y, x>> \in StrictSubsetOrdering(Nat))
  BY <1>1, FS_StrictSubsetOrderingWellFounded, WFMin
<1>3. PICK n \in S : x = 0 .. n
  OBVIOUS
<1>4. ASSUME NEW m \in S, m < n PROVE FALSE
  <2>1. 0 .. m \in T
    OBVIOUS
  <2>2. 0 .. m \subseteq 0 .. n /\ n \in 0 .. n /\ n \notin 0 .. m
    BY <1>4
  <2>3. <<0 .. m, 0 .. n>> \in StrictSubsetOrdering(Nat)
    BY <2>2 DEF StrictSubsetOrdering
  <2>4. QED
    BY <1>2, <1>3, <2>1, <2>3
<1>5. QED
  BY <1>4

\* Induction, for a set in place of a property.
LEMMA InductionOnSets ==
    ASSUME NEW S, S \subseteq Nat, 0 \in S, \A n \in S : n + 1 \in S
    PROVE  S = Nat
<1> SUFFICES ASSUME Nat \ S # {} PROVE FALSE
  OBVIOUS
<1>1. PICK n \in Nat \ S : \A m \in Nat \ S : n <= m
  <2> DEFINE R == Nat \ S
  <2>1. R \subseteq Nat /\ R # {}
    OBVIOUS
  <2> HIDE DEF R
  <2>2. \E n \in R : \A m \in R : n <= m
    BY <2>1, LeastElement
  <2>3. QED
    BY <2>2 DEF R
<1>2. n # 0 /\ n - 1 \in Nat
  OBVIOUS
<1>3. n - 1 \in S
  BY <1>1, <1>2
<1>4. QED
  BY <1>2, <1>3

\* There is a function for every recursion on 0 .. N.
LEMMA Recursion ==
    ASSUME NEW X, NEW a \in X, NEW N \in Nat, NEW step \in [1 .. N -> [X -> X]]
    PROVE  \E f \in [0 .. N -> X] :
             f[0] = a /\ \A n \in 1 .. N : f[n] = step[n][f[n - 1]]
<1> DEFINE Upto(m) == \E f \in [0 .. m -> X] :
             f[0] = a /\ \A n \in 1 .. m : f[n] = step[n][f[n - 1]]
           M == {m \in Nat : m <= N => Upto(m)}
<1>1. 0 \in M
  <2>1. [n \in 0 .. 0 |-> a] \in [0 .. 0 -> X] /\ [n \in 0 .. 0 |-> a][0] = a
    OBVIOUS
  <2>2. 1 .. 0 = {}
    OBVIOUS
  <2>3. Upto(0)
    BY <2>1, <2>2
  <2>4. QED
    BY <2>3
<1>2. ASSUME NEW m \in M PROVE m + 1 \in M
  <2> SUFFICES ASSUME m + 1 <= N PROVE Upto(m + 1)
    OBVIOUS
  <2>1. Upto(m)
    OBVIOUS
  <2>2. PICK f \in [0 .. m -> X] :
           f[0] = a /\ \A n \in 1 .. m : f[n] = step[n][f[n - 1]]
    BY <2>1
  <2>3. f[m] \in X /\ step[m + 1][f[m]] \in X
    <3>1. m \in 0 .. m /\ m + 1 \in 1 .. N
      OBVIOUS
    <3>2. f[m] \in X
      BY <3>1
    <3>3. step[m + 1] \in [X -> X]
      BY <3>1
    <3>4. QED
      BY <3>2, <3>3
  <2>4. PICK g : g = [n \in 0 .. (m + 1) |-> IF n = m + 1 THEN step[m + 1][f[m]] ELSE f[n]]
    OBVIOUS
  <2>5. g \in [0 .. (m + 1) -> X]
    <3>1. \A n \in 0 .. (m + 1) : n # m + 1 => n \in 0 .. m
      OBVIOUS
    <3>2. QED
      BY <2>3, <2>4, <3>1
  <2>6. /\ \A n \in 0 .. m : g[n] = f[n]
        /\ g[m + 1] = step[m + 1][f[m]]
    BY <2>4
  <2>7. g[0] = a
    BY <2>2, <2>6
  <2>8. ASSUME NEW n \in 1 .. (m + 1) PROVE g[n] = step[n][g[n - 1]]
    <3>1. n - 1 \in 0 .. m /\ (n = m + 1 \/ (n \in 1 .. m /\ n \in 0 .. m))
      OBVIOUS
    <3>2. g[n - 1] = f[n - 1]
      BY <2>6, <3>1
    <3>3. CASE n = m + 1
      <4>1. n - 1 = m
        BY <3>3
      <4>2. QED
        BY <2>6, <3>2, <3>3, <4>1
    <3>4. CASE n \in 1 .. m /\ n \in 0 .. m
      BY <2>2, <2>6, <3>2, <3>4
    <3>5. QED
      BY <3>1, <3>3, <3>4
  <2>9. QED
    BY <2>5, <2>7, <2>8
<1>3. M = Nat
  <2>1. M \subseteq Nat
    OBVIOUS
  <2> HIDE DEF M
  <2>2. QED
    BY <1>1, <1>2, <2>1, InductionOnSets
<1>4. QED
  <2>1. N \in M
    BY <1>3
  <2>2. QED
    BY <2>1

----------------------------------------------------------------------------
(* Entries *)

\* The recursion equation of Among.
LEMMA AmongDef ==
    ASSUME NEW q \in Seq(Share), NEW T
    PROVE  \E kept :
             /\ kept = [n \in 0 .. Len(q) |->
                          IF n = 0 THEN <<>> ELSE Keep(kept[n - 1], q[n], T)]
             /\ Among(q, T) = kept[Len(q)]
<1> DEFINE X == Seq(Share)
           N == Len(q)
           step == [n \in 1 .. N |-> [s \in X |-> Keep(s, q[n], T)]]
<1>1. step \in [1 .. N -> [X -> X]]
  BY DEF Keep
<1>2. <<>> \in X
  OBVIOUS
<1>3. PICK a \in X : a = <<>>
  BY <1>2
<1>4. N \in Nat
  OBVIOUS
<1>5. \A n \in 1 .. N : \A s \in X : step[n][s] = Keep(s, q[n], T)
  OBVIOUS
<1> HIDE DEF step, X, N
<1>6. PICK f \in [0 .. N -> X] :
         f[0] = a /\ \A n \in 1 .. N : f[n] = step[n][f[n - 1]]
  BY <1>1, <1>4, Recursion
<1>7. ASSUME NEW n \in 1 .. N PROVE f[n] = Keep(f[n - 1], q[n], T)
  <2>1. n - 1 \in 0 .. N
    BY <1>4
  <2>2. QED
    BY <1>5, <1>6, <2>1
<1>8. f = [n \in 0 .. N |-> IF n = 0 THEN <<>> ELSE Keep(f[n - 1], q[n], T)]
  <2>1. \A n \in 0 .. N : n = 0 \/ n \in 1 .. N
    BY <1>4
  <2>2. f = [n \in 0 .. N |-> f[n]]
    OBVIOUS
  <2>3. \A n \in 0 .. N : f[n] = IF n = 0 THEN <<>> ELSE Keep(f[n - 1], q[n], T)
    BY <1>3, <1>6, <1>7, <2>1
  <2>4. QED
    BY <2>2, <2>3
<1>9. QED
  BY <1>8 DEF Among, N

\* Among keeps the entries in T and no others, of a sequence of any length.
LEMMA AmongFacts ==
    ASSUME NEW q \in Seq(Share), NEW T
    PROVE  Among(q, T) \in Seq(Share) /\ ToSet(Among(q, T)) = ToSet(q) \cap T
<1>1. PICK kept :
         /\ kept = [n \in 0 .. Len(q) |->
                      IF n = 0 THEN <<>> ELSE Keep(kept[n - 1], q[n], T)]
         /\ Among(q, T) = kept[Len(q)]
  BY AmongDef
<1> DEFINE Right(n) == /\ kept[n] \in Seq(Share)
                       /\ ToSet(kept[n]) = {q[i] : i \in 1 .. n} \cap T
           M == {n \in Nat : n <= Len(q) => Right(n)}
<1>2. 0 \in M
  <2>1. kept[0] = <<>>
    BY <1>1
  <2>2. <<>> \in Seq(Share) /\ ToSet(<<>>) = {} /\ 1 .. 0 = {}
    BY DEF ToSet
  <2>3. QED
    BY <2>1, <2>2
<1>3. ASSUME NEW n \in M PROVE n + 1 \in M
  <2> SUFFICES ASSUME n + 1 <= Len(q) PROVE Right(n + 1)
    OBVIOUS
  <2>1. Right(n)
    OBVIOUS
  <2>2. kept[n + 1] = Keep(kept[n], q[n + 1], T)
    BY <1>1
  <2>3. q[n + 1] \in Share
    OBVIOUS
  <2>4. 1 .. (n + 1) = (1 .. n) \cup {n + 1}
    OBVIOUS
  <2>5. {q[i] : i \in 1 .. (n + 1)} = {q[i] : i \in 1 .. n} \cup {q[n + 1]}
    BY <2>4
  <2>6. ToSet(Append(kept[n], q[n + 1])) = ToSet(kept[n]) \cup {q[n + 1]}
    <3>1. /\ Len(Append(kept[n], q[n + 1])) = Len(kept[n]) + 1
          /\ \A i \in 1 .. Len(kept[n]) : Append(kept[n], q[n + 1])[i] = kept[n][i]
          /\ Append(kept[n], q[n + 1])[Len(kept[n]) + 1] = q[n + 1]
          /\ Append(kept[n], q[n + 1]) \in Seq(Share)
      BY <2>1, <2>3, AppendProperties
    <3>2. PICK k \in Nat : k = Len(kept[n])
      BY <2>1
    <3>3. /\ DOMAIN Append(kept[n], q[n + 1]) = 1 .. (k + 1)
          /\ DOMAIN kept[n] = 1 .. k
          /\ 1 .. (k + 1) = (1 .. k) \cup {k + 1}
      BY <2>1, <3>1, <3>2
    <3>4. QED
      BY <3>1, <3>2, <3>3 DEF ToSet
  <2>7. CASE q[n + 1] \in T
    BY <2>1, <2>2, <2>3, <2>5, <2>6, <2>7, AppendProperties DEF Keep
  <2>8. CASE q[n + 1] \notin T
    BY <2>1, <2>2, <2>5, <2>8 DEF Keep
  <2>9. QED
    BY <2>7, <2>8
<1>4. M = Nat
  <2>1. M \subseteq Nat
    OBVIOUS
  <2> HIDE DEF M
  <2>2. QED
    BY <1>2, <1>3, <2>1, InductionOnSets
<1>5. Right(Len(q))
  <2>1. Len(q) \in Nat /\ Len(q) <= Len(q)
    OBVIOUS
  <2> HIDE DEF M
  <2>2. Len(q) \in M
    BY <1>4, <2>1
  <2> USE DEF M
  <2> HIDE DEF Right
  <2>3. QED
    BY <2>1, <2>2
<1>6. ToSet(q) = {q[i] : i \in 1 .. Len(q)}
  BY DEF ToSet
<1>7. Among(q, T) = kept[Len(q)]
  BY <1>1
<1>8. QED
  BY <1>5, <1>6, <1>7

\* The recursion equation of Payload.
LEMMA PayloadDef ==
    ASSUME NEW q \in Seq(Share)
    PROVE  \E bytes :
             /\ bytes = [n \in 0 .. Len(q) |->
                           IF n = 0 THEN Envelope ELSE bytes[n - 1] + Size[q[n]]]
             /\ Payload(q) = bytes[Len(q)]
<1> DEFINE X == Nat
           N == Len(q)
           step == [n \in 1 .. N |-> [b \in X |-> b + Size[q[n]]]]
<1>1. N \in Nat
  OBVIOUS
<1>2. ASSUME NEW n \in 1 .. N PROVE Size[q[n]] \in Nat /\ Size[q[n]] > 0
  BY SizeAssumption
<1>3. step \in [1 .. N -> [X -> X]]
  BY <1>2
<1>4. \A n \in 1 .. N : \A b \in X : step[n][b] = b + Size[q[n]]
  OBVIOUS
<1>5. PICK a \in X : a = Envelope
  BY SizeAssumption
<1> HIDE DEF step, N, X
<1>6. PICK f \in [0 .. N -> X] :
         f[0] = a /\ \A n \in 1 .. N : f[n] = step[n][f[n - 1]]
  BY <1>1, <1>3, Recursion
<1>7. ASSUME NEW n \in 1 .. N PROVE f[n] = f[n - 1] + Size[q[n]]
  <2>1. n - 1 \in 0 .. N
    BY <1>1
  <2>2. QED
    BY <1>4, <1>6, <2>1
<1>8. f = [n \in 0 .. N |-> IF n = 0 THEN Envelope ELSE f[n - 1] + Size[q[n]]]
  <2>1. \A n \in 0 .. N : n = 0 \/ n \in 1 .. N
    BY <1>1
  <2>2. f = [n \in 0 .. N |-> f[n]]
    OBVIOUS
  <2>3. \A n \in 0 .. N : f[n] = IF n = 0 THEN Envelope ELSE f[n - 1] + Size[q[n]]
    BY <1>6, <1>7, <1>5, <2>1
  <2>4. QED
    BY <2>2, <2>3
<1>9. QED
  BY <1>8 DEF Payload, N

\* A payload with entries is not empty, whatever their number.
LEMMA PayloadPositive ==
    ASSUME NEW q \in Seq(Share), q # <<>>
    PROVE  Payload(q) \in Nat /\ Payload(q) > 0
<1>1. PICK bytes :
         /\ bytes = [n \in 0 .. Len(q) |->
                       IF n = 0 THEN Envelope ELSE bytes[n - 1] + Size[q[n]]]
         /\ Payload(q) = bytes[Len(q)]
  BY PayloadDef
<1>2. ASSUME NEW n \in 1 .. Len(q) PROVE Size[q[n]] \in Nat /\ Size[q[n]] > 0
  BY SizeAssumption
<1>3. bytes[0] = Envelope /\ Envelope \in Nat
  BY <1>1, SizeAssumption
<1>4. ASSUME NEW n \in 1 .. Len(q) PROVE bytes[n] = bytes[n - 1] + Size[q[n]]
  BY <1>1
<1>5. Payload(q) = bytes[Len(q)]
  BY <1>1
<1> DEFINE M == {n \in Nat : n <= Len(q) => bytes[n] \in Nat}
<1>6. M = Nat
  <2>1. 0 \in M
    BY <1>3
  <2>2. ASSUME NEW n \in M PROVE n + 1 \in M
    <3> SUFFICES ASSUME n + 1 <= Len(q) PROVE bytes[n + 1] \in Nat
      OBVIOUS
    <3>1. n + 1 \in 1 .. Len(q) /\ bytes[n] \in Nat /\ (n + 1) - 1 = n
      OBVIOUS
    <3>2. bytes[n + 1] = bytes[n] + Size[q[n + 1]] /\ Size[q[n + 1]] \in Nat
      BY <1>2, <1>4, <3>1
    <3>3. QED
      BY <3>1, <3>2
  <2>3. M \subseteq Nat
    OBVIOUS
  <2> HIDE DEF M
  <2>4. QED
    BY <2>1, <2>2, <2>3, InductionOnSets
<1>7. Len(q) \in 1 .. Len(q) /\ Len(q) - 1 \in Nat /\ Len(q) - 1 <= Len(q)
  OBVIOUS
<1>8. bytes[Len(q) - 1] \in Nat
  <2>1. Len(q) - 1 \in M
    BY <1>6, <1>7
  <2>2. QED
    BY <1>7, <2>1
<1>9. QED
  <2>1. PICK b \in Nat : b = bytes[Len(q) - 1]
    BY <1>8
  <2>2. PICK z \in Nat : z = Size[q[Len(q)]] /\ z > 0
    BY <1>2, <1>7
  <2>3. Payload(q) = b + z
    BY <1>4, <1>5, <1>7, <2>1, <2>2
  <2>4. QED
    BY <2>2, <2>3

\* How entries are grouped does not matter.
LEMMA Regroup ==
    ASSUME NEW a \in Seq(Share), NEW b \in Seq(Share), NEW q \in Seq(Share)
    PROVE  (a \o b) \o q = a \o (b \o q)
BY ConcatAssociative

\* The entries of a concatenation are those of its parts.
LEMMA ToSetConcat ==
    ASSUME NEW s \in Seq(Share), NEW t \in Seq(Share)
    PROVE  ToSet(s \o t) = ToSet(s) \cup ToSet(t)
<1>1. PICK k \in Nat, l \in Nat : k = Len(s) /\ l = Len(t)
  OBVIOUS
<1>2. /\ DOMAIN (s \o t) = 1 .. (k + l) /\ DOMAIN s = 1 .. k /\ DOMAIN t = 1 .. l
      /\ \A i \in 1 .. k : (s \o t)[i] = s[i]
      /\ \A i \in 1 .. l : (s \o t)[k + i] = t[i]
  BY <1>1, ConcatProperties
<1>3. ASSUME NEW i \in 1 .. (k + l) PROVE i \in 1 .. k \/ \E j \in 1 .. l : i = k + j
  <2>1. i \in 1 .. k \/ (i - k \in 1 .. l /\ i = k + (i - k))
    OBVIOUS
  <2>2. QED
    BY <2>1
<1>4. (\A i \in 1 .. k : i \in 1 .. (k + l)) /\ (\A i \in 1 .. l : k + i \in 1 .. (k + l))
  OBVIOUS
<1>5. ASSUME NEW x PROVE x \in ToSet(s \o t) <=> x \in ToSet(s) \cup ToSet(t)
  <2>1. x \in ToSet(s \o t) => x \in ToSet(s) \cup ToSet(t)
    BY <1>2, <1>3 DEF ToSet
  <2>2. x \in ToSet(s) \cup ToSet(t) => x \in ToSet(s \o t)
    BY <1>2, <1>4 DEF ToSet
  <2>3. QED
    BY <2>1, <2>2
<1>6. QED
  BY <1>5

\* A batch is the front of the entries, and the rest is left.
LEMMA Split ==
    ASSUME NEW q \in Seq(Share), NEW n \in 1 .. Len(q)
    PROVE  /\ SubSeq(q, 1, n) \in Seq(Share) /\ SubSeq(q, n + 1, Len(q)) \in Seq(Share)
           /\ SubSeq(q, 1, n) \o SubSeq(q, n + 1, Len(q)) = q
           /\ Len(SubSeq(q, 1, n)) = n
           /\ Len(SubSeq(q, n + 1, Len(q))) = Len(q) - n
<1>1. SubSeq(q, 1, n) \o SubSeq(q, n + 1, Len(q)) = SubSeq(q, 1, Len(q))
  <2>1. 1 \in 1 .. (Len(q) + 1) /\ n \in 0 .. Len(q) /\ Len(q) \in n .. Len(q)
    OBVIOUS
  <2>2. QED
    BY <2>1, ConcatAdjacentSubSeq
<1>2. SubSeq(q, 1, Len(q)) = q
  BY SubSeqFull
<1>3. /\ SubSeq(q, 1, n) \in Seq(Share) /\ SubSeq(q, n + 1, Len(q)) \in Seq(Share)
      /\ Len(SubSeq(q, 1, n)) = n /\ Len(SubSeq(q, n + 1, Len(q))) = Len(q) - n
  OBVIOUS
<1>4. QED
  BY <1>1, <1>2, <1>3

----------------------------------------------------------------------------
(* What every step leaves alone *)

\* Nothing that the call d knows changes.
Untouched(d) ==
    /\ pc'[d] = pc[d] /\ limit'[d] = limit[d]
    /\ listed'[d] = listed[d] /\ todo'[d] = todo[d]
    /\ batch'[d] = batch[d] /\ offered'[d] = offered[d]
    /\ results'[d] = results[d] /\ failed'[d] = failed[d] /\ reshare'[d] = reshare[d]

\* What the server has decided and registered stays.
ServerKeeps ==
    /\ userKeys \subseteq userKeys'
    /\ \A s \in Share :
        /\ s \notin Pending => status'[s] = status[s] /\ by'[s] = by[s]
        /\ status[s] # "incoming" => status'[s] # "incoming"

\* None of the decisions is made for the call d.
NoneFor(d) == \A s \in Share : by'[s] = d <=> by[s] = d

\* The state of a call that a step does not concern stays as it is.
LEMMA Bystander ==
    ASSUME IInv, NEW d \in Call, Untouched(d), UNCHANGED input, ServerKeeps, NoneFor(d)
    PROVE  CallState(d)'
<1> USE DEF input
<1>1. CallState(d) /\ DecidedOnce /\ TypeOK
  BY DEF IInv
<1>2. DecidedBy(d)' = DecidedBy(d)
  BY DEF NoneFor, DecidedBy
<1>3. AcceptedOverrides(d)' = AcceptedOverrides(d)
  <2>1. ASSUME NEW s \in Share, by[s] = d PROVE status'[s] = status[s]
    BY <1>1, <2>1, CallAssumption DEF DecidedOnce, ServerKeeps, Pending
  <2>2. QED
    BY <2>1, OverrideAssumption DEF NoneFor, AcceptedOverrides
<1>4. pc[d] = "start" => Unsent(d)'
  BY <1>1 DEF CallState, Unsent, Untouched
<1>5. pc[d] # "failed" => Listing(d)' /\ Reporting(d)'
  <2> SUFFICES ASSUME pc[d] # "failed" PROVE Listing(d)' /\ Reporting(d)'
    OBVIOUS
  <2>1. Listing(d) /\ Reporting(d)
    BY <1>1 DEF CallState
  <2>2. ASSUME NEW s \in ToSet(wanted[d]), status[s] # "incoming"
        PROVE  status'[s] # "incoming"
    <3>1. s \in Share
      <4>1. wanted[d] \in Seq(Share)
        BY <1>1, IdsAssumption DEF TypeOK
      <4>2. QED
        BY <4>1 DEF ToSet
    <3>2. QED
      BY <2>2, <3>1 DEF ServerKeeps
  <2>3. Listing(d)'
    BY <2>1, <2>2 DEF Listing, LeftOut, Untouched
  <2>4. Reporting(d)'
    BY <1>2, <2>1 DEF Reporting, Untouched
  <2>5. QED
    BY <2>3, <2>4
<1>6. d \in AcceptCall => AcceptState(d)'
  BY <1>1 DEF CallState, AcceptState, BatchSent, Untouched
<1>7. d \in UpdateCall => UpdateState(d)'
  <2> SUFFICES ASSUME d \in UpdateCall PROVE UpdateState(d)'
    OBVIOUS
  <2>1. UpdateState(d)
    BY <1>1 DEF CallState
  <2>2. (pc[d] \in {"sent", "reshare", "done"} => HasKeys(d, ToSet(listed[d])))'
    BY <2>1 DEF UpdateState, HasKeys, Untouched, ServerKeeps
  <2>3. \A s \in AcceptedOverrides(d) : <<d, s>> \in userKeys'
    BY <2>1 DEF UpdateState, ServerKeeps
  <2>4. QED
    BY <1>2, <1>3, <2>1, <2>2, <2>3 DEF UpdateState, Untouched
<1>8. QED
  BY <1>4, <1>5, <1>6, <1>7 DEF CallState, Untouched

\* A late request stays one of a call that has failed.
LEMMA LateKept ==
    ASSUME IInv, UNCHANGED input, late' \subseteq late, userKeys \subseteq userKeys',
           \A d \in Call : pc[d] = "failed" => pc'[d] = "failed"
    PROVE  LateRequests'
<1>1. \A r \in late : r.call \in Call
  BY DEF IInv, TypeOK
<1>2. LateRequests
  BY DEF IInv
<1>3. ASSUME NEW r \in late' PROVE (pc[r.call] = "failed")' /\ (r.call \in UpdateCall => HasKeys(r.call, r.shares)')
  <2>1. r \in late /\ r.call \in Call
    BY <1>1
  <2>2. pc[r.call] = "failed" /\ (r.call \in UpdateCall => HasKeys(r.call, r.shares))
    BY <1>2, <2>1 DEF LateRequests
  <2>3. HasKeys(r.call, r.shares) => HasKeys(r.call, r.shares)'
    BY DEF HasKeys, input
  <2>4. QED
    BY <2>1, <2>2, <2>3
<1>4. QED
  BY <1>3 DEF LateRequests

\* A step that the server takes no part in leaves its decisions alone.
LEMMA ServerAlone ==
    ASSUME IInv, UNCHANGED server
    PROVE  /\ ServerKeeps /\ \A d : NoneFor(d)
           /\ UNCHANGED input => DecidedOnce'
<1>1. status' = status /\ by' = by /\ userKeys' = userKeys
  BY DEF server
<1>2. ServerKeeps /\ \A d : NoneFor(d)
  BY <1>1 DEF ServerKeeps, NoneFor
<1>3. UNCHANGED input => DecidedOnce'
  BY <1>1 DEF IInv, DecidedOnce, Pending, input
<1>4. QED
  BY <1>2, <1>3

\* What a request of the call c decides.
LEMMA Decided ==
    ASSUME IInv, NEW c \in Call, NEW t \in SUBSET Pending, Decide(c, t), UNCHANGED input,
           userKeys \subseteq userKeys'
    PROVE  /\ status' \in [Share -> {"incoming", "outgoing", "accepted", "rejected"}]
           /\ by' \in [Share -> Call \cup {NoCall}]
           /\ DecidedOnce' /\ ServerKeeps
           /\ \A d \in Call \ {c} : NoneFor(d)
           /\ DecidedBy(c)' = DecidedBy(c) \cup t
           /\ AcceptedOverrides(c)'
                = AcceptedOverrides(c) \cup ((t \ reject[c]) \cap Override)
           /\ \A s \in t : by[s] = NoCall
<1> USE CallAssumption DEF input
<1>1. TypeOK /\ DecidedOnce /\ t \subseteq Share
  BY DEF IInv, Pending
<1>2. \A s \in t : s \in Pending /\ s \in Share /\ by[s] = NoCall
  BY <1>1 DEF DecidedOnce, Pending
<1>3. ASSUME NEW s \in Share
      PROVE  /\ s \in t => /\ status'[s] = IF s \in reject[c] THEN "rejected" ELSE "accepted"
                           /\ by'[s] = c
             /\ s \notin t => status'[s] = status[s] /\ by'[s] = by[s]
  BY DEF Decide
<1>4. status' \in [Share -> {"incoming", "outgoing", "accepted", "rejected"}]
  BY <1>1 DEF TypeOK, Decide
<1>5. by' \in [Share -> Call \cup {NoCall}]
  BY <1>1 DEF TypeOK, Decide
<1>6. DecidedOnce'
  <2> SUFFICES ASSUME NEW s \in Share
               PROVE  /\ (s \in Pending <=> by[s] = NoCall)'
                      /\ (by[s] \in Call => (status[s] = "rejected" <=> s \in reject[by[s]]))'
    BY DEF DecidedOnce
  <2>1. CASE s \in t
    BY <1>3, <2>1 DEF Pending
  <2>2. CASE s \notin t
    BY <1>1, <1>3, <2>2 DEF DecidedOnce, Pending
  <2>3. QED
    BY <2>1, <2>2
<1>7. ServerKeeps
  BY <1>2, <1>3 DEF ServerKeeps
<1>8. \A d \in Call \ {c} : NoneFor(d)
  BY <1>2, <1>3 DEF NoneFor
<1>9. DecidedBy(c)' = DecidedBy(c) \cup t
  BY <1>1, <1>3 DEF DecidedBy
<1>10. AcceptedOverrides(c)' = AcceptedOverrides(c) \cup ((t \ reject[c]) \cap Override)
  <2>1. ASSUME NEW s \in Override
        PROVE  s \in AcceptedOverrides(c)'
                 <=> s \in AcceptedOverrides(c) \/ (s \in t /\ s \notin reject[c])
    <3>1. s \in Share
      BY OverrideAssumption
    <3>2. CASE s \in t
      BY <1>2, <1>3, <3>1, <3>2 DEF AcceptedOverrides
    <3>3. CASE s \notin t
      BY <1>3, <3>1, <3>3 DEF AcceptedOverrides
    <3>4. QED
      BY <3>2, <3>3
  <2>2. AcceptedOverrides(c)' \subseteq Override /\ AcceptedOverrides(c) \subseteq Override
    BY DEF AcceptedOverrides
  <2>3. QED
    BY <2>1, <2>2
<1>11. QED
  BY <1>2, <1>4, <1>5, <1>6, <1>7, <1>8, <1>9, <1>10

\* The conjuncts of TypeOK that a step of a call may change.
LEMMA Types ==
    ASSUME TypeOK
    PROVE  /\ pc \in [Call -> {"start", "batch", "sent", "reshare", "done", "failed"}]
           /\ listed \in [Call -> Seq(Share)] /\ todo \in [Call -> Seq(Share)]
           /\ batch \in [Call -> Seq(Share)] /\ offered \in [Call -> Seq(Share)]
           /\ limit \in [Call -> Nat]
           /\ results \in [Call -> SUBSET Share] /\ failed \in [Call -> SUBSET Share]
           /\ reshare \in [Call -> [left : SUBSET Share, tried : SUBSET Share]]
           /\ late \subseteq [call : Call, shares : SUBSET Share]
           /\ userKeys \subseteq UpdateCall \X Override
           /\ \A c \in Call : wanted[c] \in Seq(Share) /\ reject[c] \subseteq Share
BY IdsAssumption DEF TypeOK

\* The entries of a sequence of shares are shares.
LEMMA Entries ==
    ASSUME NEW q \in Seq(Share)
    PROVE  ToSet(q) \subseteq Share
BY DEF ToSet

\* A step of the call c keeps the invariant of all calls if it keeps its own.
LEMMA OnlyMine ==
    ASSUME IInv, NEW c \in Call, UNCHANGED input, ServerKeeps,
           \A d \in Call \ {c} : Untouched(d) /\ NoneFor(d), CallState(c)'
    PROVE  \A d \in Call : CallState(d)'
BY Bystander

----------------------------------------------------------------------------
(* One lemma per action *)

\* A call that throws has told nobody anything.
LEMMA Thrown ==
    ASSUME IInv, NEW c \in Call, pc[c] \in {"start", "sent"}, Throw(c),
           UNCHANGED <<status, by, userKeys>>
    PROVE  /\ \A d \in Call : CallState(d)'
           /\ DecidedOnce'
           /\ (late' \subseteq [call : Call, shares : SUBSET Share]) => TypeOK'
           /\ \A d \in Call : pc[d] = "failed" => pc'[d] = "failed"
           /\ pc'[c] = "failed"
<1> USE DEF input
<1>1. TypeOK /\ CallState(c)
  BY DEF IInv
<1>2. /\ pc'[c] = "failed" /\ \A d \in Call \ {c} : pc'[d] = pc[d]
      /\ UNCHANGED <<input, listed, todo, batch, offered, limit, results, failed, reshare>>
  BY <1>1, Types DEF Throw
<1>3. ServerKeeps /\ \A d : NoneFor(d)
  BY DEF ServerKeeps, NoneFor
<1>4. AcceptState(c)' \/ c \notin AcceptCall
  BY <1>1, <1>2 DEF CallState, AcceptState, BatchSent
<1>5. UpdateState(c)' \/ c \notin UpdateCall
  <2>1. AcceptedOverrides(c)' = AcceptedOverrides(c)
    BY DEF AcceptedOverrides
  <2>2. QED
    BY <1>1, <1>2, <2>1 DEF CallState, UpdateState
<1>6. CallState(c)'
  BY <1>2, <1>4, <1>5 DEF CallState
<1>7. \A d \in Call \ {c} : Untouched(d) /\ NoneFor(d)
  BY <1>2, <1>3 DEF Untouched
<1>8. DecidedOnce'
  BY DEF IInv, DecidedOnce, Pending, Throw
<1>9. (late' \subseteq [call : Call, shares : SUBSET Share]) => TypeOK'
  <2>1. pc' \in [Call -> {"start", "batch", "sent", "reshare", "done", "failed"}]
    BY <1>1, Types DEF Throw
  <2>2. QED
    BY <1>1, <1>2, <2>1 DEF TypeOK
<1>10. QED
  BY <1>2, <1>3, <1>6, <1>7, <1>8, <1>9, OnlyMine

LEMMA RequestFailsKeeps ==
    ASSUME IInv, NEW c \in Call, RequestFails(c)
    PROVE  IInv'
<1>1. TypeOK /\ CallState(c) /\ LateRequests
  BY DEF IInv
<1>2. pc[c] = "sent" /\ Throw(c) /\ UNCHANGED <<status, by, userKeys>>
  BY DEF RequestFails
<1>3. PICK r : /\ r = [call |-> c, shares |-> ToSet(batch[c])]
               /\ late' \in {late, late \cup {r}}
  BY DEF RequestFails
<1>4. late' \subseteq [call : Call, shares : SUBSET Share]
  BY <1>1, <1>3, Types, Entries
<1>5. c \in UpdateCall => HasKeys(c, ToSet(batch[c]))
  <2> SUFFICES ASSUME c \in UpdateCall PROVE HasKeys(c, ToSet(batch[c]))
    OBVIOUS
  <2>1. HasKeys(c, ToSet(listed[c])) /\ offered[c] = <<>> /\ todo[c] = <<>>
    BY <1>1, <1>2 DEF CallState, UpdateState
  <2>2. offered[c] \o batch[c] \o todo[c] = listed[c]
    BY <1>1, <1>2 DEF CallState, Listing
  <2>3. batch[c] = listed[c]
    BY <1>1, <2>1, <2>2, Types, ConcatEmptySeq
  <2>4. QED
    BY <2>1, <2>3
<1>6. LateRequests'
  <2>1. UNCHANGED <<reject, userKeys>>
    BY <1>2 DEF Throw, input
  <2>2. ASSUME NEW x \in late'
        PROVE  pc'[x.call] = "failed" /\ (x.call \in UpdateCall => HasKeys(x.call, x.shares)')
    <3>1. CASE x \in late
      <4>1. x.call \in Call /\ pc[x.call] = "failed"
            /\ (x.call \in UpdateCall => HasKeys(x.call, x.shares))
        BY <1>1, <3>1, Types DEF LateRequests
      <4>2. pc'[x.call] = "failed"
        BY <1>2, <4>1, Thrown
      <4>3. QED
        BY <2>1, <4>1, <4>2 DEF HasKeys
    <3>2. CASE x = r
      <4>1. x.call = c /\ x.shares = ToSet(batch[c])
        BY <1>3, <3>2
      <4>2. pc'[c] = "failed"
        BY <1>2, Thrown
      <4>3. HasKeys(c, ToSet(batch[c])) => HasKeys(c, x.shares)'
        BY <2>1, <4>1 DEF HasKeys
      <4>4. QED
        BY <1>5, <4>1, <4>2, <4>3
    <3>3. QED
      BY <1>3, <3>1, <3>2
  <2>3. QED
    BY <2>2 DEF LateRequests
<1>7. QED
  BY <1>2, <1>4, <1>6, Thrown DEF IInv

LEMMA ListAndEncryptKeeps ==
    ASSUME IInv, NEW c \in Call, ListAndEncrypt(c)
    PROVE  IInv'
<1> USE DEF input
<1>1. TypeOK /\ CallState(c) /\ LateRequests
  BY DEF IInv
<1>2. c \in AcceptCall /\ c \notin UpdateCall /\ pc[c] = "start" /\ UNCHANGED server
  BY CallAssumption DEF ListAndEncrypt
<1>3. UNCHANGED <<status, by, userKeys, late>>
  BY <1>2 DEF server
<1>4. CASE Throw(c)
  <2>1. late' \subseteq [call : Call, shares : SUBSET Share]
    BY <1>1, <1>3, Types
  <2>2. UNCHANGED input
    BY <1>4 DEF Throw
  <2>3. \A d \in Call : pc[d] = "failed" => pc'[d] = "failed"
    BY <1>2, <1>3, <1>4, Thrown
  <2>4. LateRequests'
    BY <1>3, <2>2, <2>3, LateKept
  <2>5. QED
    BY <1>2, <1>3, <1>4, <2>1, <2>4, Thrown DEF IInv
<1>5. CASE ~Throw(c)
  <2>1. PICK found : found = Among(wanted[c], Acceptable)
    OBVIOUS
  <2>2. /\ listed' = [listed EXCEPT ![c] = found]
        /\ todo' = [todo EXCEPT ![c] = found]
        /\ pc' = [pc EXCEPT ![c] = "batch"]
        /\ UNCHANGED <<input, batch, offered, limit, results, failed, reshare>>
    BY <1>5, <2>1 DEF ListAndEncrypt
  <2>3. found \in Seq(Share) /\ ToSet(found) = ToSet(wanted[c]) \cap Acceptable
    BY <1>1, <2>1, AmongFacts, Types
  <2>4. TypeOK'
    <3>1. /\ listed' \in [Call -> Seq(Share)] /\ todo' \in [Call -> Seq(Share)]
          /\ pc' \in [Call -> {"start", "batch", "sent", "reshare", "done", "failed"}]
      BY <1>1, <2>2, <2>3, Types
    <3>2. QED
      BY <1>1, <1>3, <2>2, <3>1 DEF TypeOK
  <2>5. /\ pc'[c] = "batch" /\ listed'[c] = found /\ todo'[c] = found
        /\ \A d \in Call \ {c} : Untouched(d)
    BY <1>1, <2>2, Types DEF Untouched
  <2>6. DecidedBy(c)' = DecidedBy(c)
    BY <1>3 DEF DecidedBy
  <2>7. batch'[c] = <<>> /\ offered'[c] = <<>> /\ failed'[c] = {}
    BY <1>1, <1>2, <2>2 DEF CallState, Unsent
  <2>8. Listing(c)'
    <3>1. offered'[c] \o batch'[c] \o todo'[c] = listed'[c]
      BY <2>3, <2>5, <2>7, ConcatEmptySeq, EmptySeq
    <3>2. \A s \in ToSet(wanted[c]) \ ToSet(found) : LeftOut(c, s)
      BY <1>1, <1>2, <2>3, Types, Entries DEF Acceptable, Incoming, LeftOut
    <3>3. QED
      BY <1>2, <1>3, <2>2, <2>5, <2>7, <3>1, <3>2 DEF Listing, LeftOut
  <2>9. Reporting(c)' /\ AcceptState(c)'
    BY <1>1, <1>2, <2>2, <2>5, <2>6, <2>7
       DEF CallState, Reporting, AcceptState, BatchSent
  <2>10. CallState(c)'
    BY <1>2, <2>5, <2>8, <2>9 DEF CallState
  <2>11. \A d \in Call : CallState(d)'
    BY <1>2, <2>2, <2>5, <2>10, OnlyMine, ServerAlone
  <2>12. LateRequests'
    <3>1. \A d \in Call : pc[d] = "failed" => pc'[d] = "failed"
      BY <1>2, <2>5 DEF Untouched
    <3>2. QED
      BY <1>3, <2>2, <3>1, LateKept
  <2>13. QED
    BY <1>2, <2>2, <2>4, <2>11, <2>12, ServerAlone DEF IInv
<1>6. QED
  BY <1>4, <1>5

\* The next batch and what is left of the entries are the entries that were
\* left; a batch of more than one is within the limit, so the limit is not 0.
LEMMA NextBatchKeeps ==
    ASSUME IInv, NEW c \in Call, NextBatch(c)
    PROVE  IInv'
<1> USE DEF input
<1>1. TypeOK /\ CallState(c) /\ LateRequests
  BY DEF IInv
<1>2. c \in AcceptCall /\ c \notin UpdateCall /\ pc[c] = "batch"
  BY CallAssumption DEF NextBatch
<1>3. UNCHANGED <<status, by, userKeys, late>> /\ UNCHANGED server
  BY DEF NextBatch, server
<1>4. PICK n \in 1 .. Len(todo[c]) :
        /\ BatchLength(todo[c], limit[c], n)
        /\ batch' = [batch EXCEPT ![c] = SubSeq(todo[c], 1, n)]
        /\ todo' = [todo EXCEPT ![c] = SubSeq(@, n + 1, Len(@))]
  BY DEF NextBatch
<1>5. PICK b, q : b = SubSeq(todo[c], 1, n) /\ q = SubSeq(todo[c], n + 1, Len(todo[c]))
  OBVIOUS
<1>6. todo[c] \in Seq(Share) /\ offered[c] \in Seq(Share) /\ limit[c] \in Nat
  BY <1>1, Types
<1>7. b \in Seq(Share) /\ q \in Seq(Share) /\ b \o q = todo[c] /\ Len(b) = n
  BY <1>5, <1>6, Split
<1>8. /\ pc' = [pc EXCEPT ![c] = "sent"] /\ batch' = [batch EXCEPT ![c] = b]
      /\ todo' = [todo EXCEPT ![c] = q]
      /\ UNCHANGED <<input, listed, offered, limit, results, failed, reshare>>
  BY <1>1, <1>4, <1>5, Types DEF NextBatch
<1>9. TypeOK'
  <2>1. /\ batch' \in [Call -> Seq(Share)] /\ todo' \in [Call -> Seq(Share)]
        /\ pc' \in [Call -> {"start", "batch", "sent", "reshare", "done", "failed"}]
    BY <1>1, <1>7, <1>8, Types
  <2>2. QED
    BY <1>1, <1>3, <1>8, <2>1 DEF TypeOK
<1>10. /\ pc'[c] = "sent" /\ batch'[c] = b /\ todo'[c] = q
       /\ \A d \in Call \ {c} : Untouched(d)
  BY <1>1, <1>8, Types DEF Untouched
<1>11. DecidedBy(c)' = DecidedBy(c)
  BY <1>3 DEF DecidedBy
<1>12. Listing(c)'
  <2>1. Listing(c) /\ batch[c] = <<>>
    BY <1>1, <1>2 DEF CallState, Listing
  <2>2. offered[c] \o batch[c] \o todo[c] = listed[c]
    BY <2>1 DEF Listing
  <2>3. offered[c] \o todo[c] = listed[c]
    BY <1>6, <2>1, <2>2, ConcatEmptySeq
  <2>4. offered[c] \o b \o q = listed[c]
    <3>1. (offered[c] \o b) \o q = offered[c] \o (b \o q)
      BY <1>6, <1>7, Regroup
    <3>2. offered[c] \o (b \o q) = listed[c]
      BY <1>7, <2>3, Zenon
    <3>3. QED
      BY <3>1, <3>2, Zenon
  <2>5. QED
    BY <1>2, <1>3, <1>8, <1>10, <2>1, <2>4 DEF Listing, LeftOut
<1>13. AcceptState(c)'
  <2>1. Len(b) > 1 => limit[c] > 0
    <3> SUFFICES ASSUME n > 1 PROVE limit[c] > 0
      BY <1>7
    <3>1. 2 \in 2 .. n /\ 2 \in 1 .. Len(todo[c])
      BY <1>6
    <3>2. Payload(SubSeq(todo[c], 1, 2)) <= limit[c]
      BY <1>4, <3>1 DEF BatchLength
    <3>3. SubSeq(todo[c], 1, 2) \in Seq(Share) /\ Len(SubSeq(todo[c], 1, 2)) = 2
      BY <1>6, <3>1, Split
    <3>4. SubSeq(todo[c], 1, 2) # <<>>
      BY <3>3
    <3>5. PICK p \in Nat : p = Payload(SubSeq(todo[c], 1, 2)) /\ p > 0
      BY <3>3, <3>4, PayloadPositive
    <3>6. QED
      BY <1>6, <3>2, <3>5
  <2>2. b # <<>>
    BY <1>7
  <2>3. QED
    BY <1>1, <1>2, <1>8, <1>10, <2>1, <2>2 DEF CallState, AcceptState, BatchSent
<1>14. CallState(c)'
  BY <1>1, <1>2, <1>8, <1>10, <1>11, <1>12, <1>13 DEF CallState, Reporting
<1>15. \A d \in Call : CallState(d)'
  BY <1>3, <1>8, <1>10, <1>14, OnlyMine, ServerAlone
<1>16. LateRequests'
  <2>1. \A d \in Call : pc[d] = "failed" => pc'[d] = "failed"
    BY <1>2, <1>10 DEF Untouched
  <2>2. QED
    BY <1>3, <1>8, <2>1, LateKept
<1>17. QED
  BY <1>3, <1>8, <1>9, <1>15, <1>16, ServerAlone DEF IInv

\* Whatever the server takes of a batch is decided by this call and reported.
LEMMA BatchAcceptedKeeps ==
    ASSUME IInv, NEW c \in Call, BatchAccepted(c)
    PROVE  IInv'
<1> USE DEF input
<1>1. TypeOK /\ CallState(c) /\ LateRequests
  BY DEF IInv
<1>2. c \in AcceptCall /\ c \notin UpdateCall /\ pc[c] = "sent"
  BY CallAssumption DEF BatchAccepted
<1>3. PICK t \in SUBSET (ToSet(batch[c]) \cap Pending) :
        Decide(c, t) /\ results' = [results EXCEPT ![c] = @ \cup t]
  BY DEF BatchAccepted
<1>4. /\ offered' = [offered EXCEPT ![c] = @ \o batch[c]]
      /\ batch' = [batch EXCEPT ![c] = <<>>]
      /\ pc' = [pc EXCEPT ![c] = "batch"]
      /\ UNCHANGED <<userKeys, late, input, listed, todo, limit, failed, reshare>>
  BY DEF BatchAccepted
<1>5. t \in SUBSET Pending /\ t \subseteq Share
  BY <1>3 DEF Pending
<1>6. /\ status' \in [Share -> {"incoming", "outgoing", "accepted", "rejected"}]
      /\ by' \in [Share -> Call \cup {NoCall}]
      /\ DecidedOnce' /\ ServerKeeps
      /\ \A d \in Call \ {c} : NoneFor(d)
      /\ DecidedBy(c)' = DecidedBy(c) \cup t
  BY <1>3, <1>4, <1>5, Decided
<1>7. TypeOK'
  <2>1. /\ batch' \in [Call -> Seq(Share)] /\ offered' \in [Call -> Seq(Share)]
        /\ pc' \in [Call -> {"start", "batch", "sent", "reshare", "done", "failed"}]
        /\ results' \in [Call -> SUBSET Share]
    BY <1>1, <1>3, <1>4, <1>5, Types
  <2>2. QED
    BY <1>1, <1>4, <1>6, <2>1 DEF TypeOK
<1>8. /\ pc'[c] = "batch" /\ batch'[c] = <<>> /\ offered'[c] = offered[c] \o batch[c]
      /\ results'[c] = results[c] \cup t
      /\ \A d \in Call \ {c} : Untouched(d)
  BY <1>1, <1>3, <1>4, Types DEF Untouched
<1>9. Listing(c)'
  <2>1. Listing(c)
    BY <1>1, <1>2 DEF CallState
  <2>2. offered[c] \o batch[c] \in Seq(Share)
    BY <1>1, Types
  <2>3. offered'[c] \o batch'[c] \o todo'[c] = listed'[c]
    BY <1>4, <1>8, <2>1, <2>2, ConcatEmptySeq DEF Listing
  <2>4. \A s \in ToSet(wanted[c]) : status[s] # "incoming" => status'[s] # "incoming"
    BY <1>1, <1>6, Types, Entries DEF ServerKeeps
  <2>5. QED
    BY <1>2, <1>4, <1>8, <2>1, <2>3, <2>4 DEF Listing, LeftOut
<1>10. Reporting(c)' /\ AcceptState(c)'
  BY <1>1, <1>2, <1>4, <1>6, <1>8 DEF CallState, Reporting, AcceptState, BatchSent
<1>11. CallState(c)'
  BY <1>2, <1>8, <1>9, <1>10 DEF CallState
<1>12. \A d \in Call : CallState(d)'
  BY <1>4, <1>6, <1>8, <1>11, OnlyMine
<1>13. LateRequests'
  <2>1. \A d \in Call : pc[d] = "failed" => pc'[d] = "failed"
    BY <1>2, <1>8 DEF Untouched
  <2>2. QED
    BY <1>4, <2>1, LateKept
<1>14. QED
  BY <1>6, <1>7, <1>12, <1>13 DEF IInv

\* A batch that is too large goes back in front of what is left.
LEMMA BatchTooLargeKeeps ==
    ASSUME IInv, NEW c \in Call, BatchTooLarge(c)
    PROVE  IInv'
<1> USE DEF input
<1>1. TypeOK /\ CallState(c) /\ LateRequests
  BY DEF IInv
<1>2. c \in AcceptCall /\ c \notin UpdateCall /\ pc[c] = "sent"
  BY CallAssumption DEF BatchTooLarge
<1>3. UNCHANGED <<status, by, userKeys, late>> /\ UNCHANGED server
  BY DEF BatchTooLarge, server
<1>4. /\ todo' = [todo EXCEPT ![c] = batch[c] \o @]
      /\ batch' = [batch EXCEPT ![c] = <<>>]
      /\ limit' = [limit EXCEPT ![c] = @ \div 2]
      /\ pc' = [pc EXCEPT ![c] = "batch"]
      /\ UNCHANGED <<input, listed, offered, results, failed, reshare>>
  BY DEF BatchTooLarge
<1>5. TypeOK'
  <2>1. limit[c] \div 2 \in Nat
    <3>1. limit[c] \in Nat
      BY <1>1, Types
    <3>2. QED
      BY <3>1
  <2>2. batch[c] \o todo[c] \in Seq(Share)
    BY <1>1, Types
  <2>3. /\ batch' \in [Call -> Seq(Share)] /\ todo' \in [Call -> Seq(Share)]
        /\ pc' \in [Call -> {"start", "batch", "sent", "reshare", "done", "failed"}]
        /\ limit' \in [Call -> Nat]
    BY <1>1, <1>4, <2>1, <2>2, Types
  <2>4. QED
    BY <1>1, <1>3, <1>4, <2>3 DEF TypeOK
<1>6. /\ pc'[c] = "batch" /\ batch'[c] = <<>> /\ todo'[c] = batch[c] \o todo[c]
      /\ \A d \in Call \ {c} : Untouched(d)
  BY <1>1, <1>4, Types DEF Untouched
<1>7. DecidedBy(c)' = DecidedBy(c)
  BY <1>3 DEF DecidedBy
<1>8. Listing(c)'
  <2>1. Listing(c)
    BY <1>1, <1>2 DEF CallState
  <2>2. offered[c] \in Seq(Share) /\ batch[c] \in Seq(Share) /\ todo[c] \in Seq(Share)
    BY <1>1, Types
  <2>3. offered[c] \o (batch[c] \o todo[c]) = listed[c]
    <3>1. (offered[c] \o batch[c]) \o todo[c] = offered[c] \o (batch[c] \o todo[c])
      BY <2>2, Regroup
    <3>2. QED
      BY <2>1, <3>1, Zenon DEF Listing
  <2>4. offered'[c] \o batch'[c] \o todo'[c] = listed'[c]
    BY <1>4, <1>6, <2>2, <2>3, ConcatEmptySeq
  <2>5. QED
    BY <1>2, <1>3, <1>4, <1>6, <2>1, <2>4 DEF Listing, LeftOut
<1>9. Reporting(c)' /\ AcceptState(c)'
  BY <1>1, <1>2, <1>4, <1>6, <1>7 DEF CallState, Reporting, AcceptState, BatchSent
<1>10. CallState(c)'
  BY <1>2, <1>6, <1>8, <1>9 DEF CallState
<1>11. \A d \in Call : CallState(d)'
  BY <1>3, <1>4, <1>6, <1>10, OnlyMine, ServerAlone
<1>12. LateRequests'
  <2>1. \A d \in Call : pc[d] = "failed" => pc'[d] = "failed"
    BY <1>2, <1>6 DEF Untouched
  <2>2. QED
    BY <1>3, <1>4, <2>1, LateKept
<1>13. QED
  BY <1>3, <1>4, <1>5, <1>11, <1>12, ServerAlone DEF IInv

LEMMA ReturnAcceptedKeeps ==
    ASSUME IInv, NEW c \in Call, ReturnAccepted(c)
    PROVE  IInv'
<1> USE DEF input
<1>1. TypeOK /\ CallState(c) /\ LateRequests
  BY DEF IInv
<1>2. c \in AcceptCall /\ c \notin UpdateCall /\ pc[c] = "batch" /\ todo[c] = <<>>
  BY CallAssumption DEF ReturnAccepted
<1>3. /\ pc' = [pc EXCEPT ![c] = "done"] /\ UNCHANGED <<status, by, userKeys, late>>
      /\ UNCHANGED server
      /\ UNCHANGED <<input, listed, todo, batch, offered, limit, results, failed, reshare>>
  BY DEF ReturnAccepted, server
<1>4. TypeOK'
  <2>1. pc' \in [Call -> {"start", "batch", "sent", "reshare", "done", "failed"}]
    BY <1>1, <1>3, Types
  <2>2. QED
    BY <1>1, <1>3, <2>1 DEF TypeOK
<1>5. pc'[c] = "done" /\ \A d \in Call \ {c} : Untouched(d)
  BY <1>1, <1>3, Types DEF Untouched
<1>6. DecidedBy(c)' = DecidedBy(c)
  BY <1>3 DEF DecidedBy
<1>7. Listing(c)' /\ Reporting(c)' /\ AcceptState(c)'
  <2>1. Listing(c) /\ Reporting(c) /\ AcceptState(c)
    BY <1>1, <1>2 DEF CallState
  <2>2. Listing(c)'
    BY <1>2, <1>3, <1>5, <2>1 DEF Listing, LeftOut
  <2>3. Reporting(c)' /\ AcceptState(c)'
    BY <1>2, <1>3, <1>5, <1>6, <2>1 DEF Reporting, AcceptState, BatchSent
  <2>4. QED
    BY <2>2, <2>3
<1>8. CallState(c)'
  BY <1>2, <1>5, <1>7 DEF CallState
<1>9. \A d \in Call : CallState(d)'
  BY <1>3, <1>5, <1>8, OnlyMine, ServerAlone
<1>10. LateRequests'
  <2>1. \A d \in Call : pc[d] = "failed" => pc'[d] = "failed"
    BY <1>2, <1>5 DEF Untouched
  <2>2. QED
    BY <1>3, <2>1, LateKept
<1>11. QED
  BY <1>3, <1>4, <1>9, <1>10, ServerAlone DEF IInv

\* Every override share that is sent has a keychain by then.
LEMMA PrepareKeeps ==
    ASSUME IInv, NEW c \in Call, Prepare(c)
    PROVE  IInv'
<1> USE DEF input
<1>1. TypeOK /\ CallState(c) /\ LateRequests
  BY DEF IInv
<1>2. c \in UpdateCall /\ c \notin AcceptCall /\ pc[c] = "start"
  BY CallAssumption DEF Prepare
<1>3. UNCHANGED <<status, by, late>>
  BY DEF Prepare
<1>4. CASE Throw(c) /\ UNCHANGED userKeys
  <2>1. late' \subseteq [call : Call, shares : SUBSET Share]
    BY <1>1, <1>3, Types
  <2>2. UNCHANGED input
    BY <1>4 DEF Throw
  <2>3. \A d \in Call : pc[d] = "failed" => pc'[d] = "failed"
    BY <1>2, <1>3, <1>4, Thrown
  <2>4. LateRequests'
    BY <1>3, <1>4, <2>2, <2>3, LateKept
  <2>5. QED
    BY <1>2, <1>3, <1>4, <2>1, <2>4, Thrown DEF IInv
<1>5. CASE ~(Throw(c) /\ UNCHANGED userKeys)
  <2> DEFINE accept == ToSet(wanted[c]) \ reject[c]
  <2>1. PICK f \in SUBSET accept, k \in SUBSET Override :
          /\ k \subseteq f
          /\ failed' = [failed EXCEPT ![c] = f]
          /\ userKeys' = userKeys \cup Registered(c, accept, f, k)
          /\ listed' = [listed EXCEPT ![c] = Among(wanted[c], Share \ f)]
          /\ batch' = [batch EXCEPT ![c] = Among(wanted[c], Share \ f)]
    BY <1>5 DEF Prepare
  <2>2. /\ pc' = [pc EXCEPT ![c] = "sent"]
        /\ UNCHANGED <<input, todo, offered, limit, results, reshare>>
    BY <1>5 DEF Prepare
  <2>3. PICK ready : ready = Among(wanted[c], Share \ f)
    OBVIOUS
  <2>4. /\ ready \in Seq(Share) /\ ToSet(ready) = ToSet(wanted[c]) \ f
        /\ f \subseteq Share
    <3>1. wanted[c] \in Seq(Share) /\ ToSet(wanted[c]) \subseteq Share
      BY <1>1, Types, Entries
    <3>2. ready \in Seq(Share) /\ ToSet(ready) = ToSet(wanted[c]) \cap (Share \ f)
      BY <2>3, <3>1, AmongFacts
    <3>3. QED
      BY <3>1, <3>2
  <2>5. userKeys' \subseteq UpdateCall \X Override /\ userKeys \subseteq userKeys'
    <3>1. \A s \in k \cup ((accept \ f) \cap Override) : <<c, s>> \in UpdateCall \X Override
      BY <1>2
    <3>2. Registered(c, accept, f, k) \subseteq UpdateCall \X Override
      BY <3>1 DEF Registered
    <3>3. QED
      BY <1>1, <2>1, <3>2, Types
  <2>6. TypeOK'
    <3>1. /\ listed' \in [Call -> Seq(Share)] /\ batch' \in [Call -> Seq(Share)]
          /\ pc' \in [Call -> {"start", "batch", "sent", "reshare", "done", "failed"}]
          /\ failed' \in [Call -> SUBSET Share]
      BY <1>1, <2>1, <2>2, <2>3, <2>4, Types
    <3>2. QED
      BY <1>1, <1>3, <2>2, <2>5, <3>1 DEF TypeOK
  <2>7. /\ pc'[c] = "sent" /\ listed'[c] = ready /\ batch'[c] = ready /\ failed'[c] = f
        /\ \A d \in Call \ {c} : Untouched(d)
    BY <1>1, <2>1, <2>2, <2>3, Types DEF Untouched
  <2>8. todo'[c] = <<>> /\ offered'[c] = <<>>
    BY <1>1, <1>2, <2>2 DEF CallState, Unsent
  <2>9. DecidedBy(c)' = DecidedBy(c) /\ AcceptedOverrides(c)' = AcceptedOverrides(c)
    BY <1>3 DEF DecidedBy, AcceptedOverrides
  <2>10. Listing(c)'
    <3>1. offered'[c] \o batch'[c] \o todo'[c] = listed'[c]
      BY <2>4, <2>7, <2>8, ConcatEmptySeq, EmptySeq
    <3>2. \A s \in ToSet(wanted[c]) \ ToSet(ready) : s \in f
      BY <2>4
    <3>3. ToSet(ready) \cap f = {}
      BY <2>4
    <3>4. QED
      BY <1>2, <2>2, <2>7, <3>1, <3>2, <3>3 DEF Listing, LeftOut
  <2>11. Reporting(c)'
    BY <1>1, <1>2, <2>2, <2>9 DEF CallState, Reporting, UpdateState
  <2>12. UpdateState(c)'
    <3>1. HasKeys(c, ToSet(listed[c]))'
      <4>1. ASSUME NEW s \in (ToSet(ready) \cap Override) \ reject[c]
            PROVE  <<c, s>> \in userKeys'
        <5>1. s \in (accept \ f) \cap Override
          BY <2>4
        <5>2. QED
          BY <2>1, <5>1 DEF Registered
      <4>2. QED
        BY <2>2, <2>7, <4>1 DEF HasKeys
    <3>2. \A s \in AcceptedOverrides(c) : <<c, s>> \in userKeys'
      BY <1>1, <1>2, <2>5 DEF CallState, UpdateState
    <3>3. QED
      BY <1>1, <1>2, <2>2, <2>7, <2>8, <2>9, <3>1, <3>2 DEF CallState, UpdateState
  <2>13. CallState(c)'
    BY <1>2, <2>7, <2>10, <2>11, <2>12 DEF CallState
  <2>14. ServerKeeps /\ \A d : NoneFor(d)
    BY <1>3, <2>5 DEF ServerKeeps, NoneFor
  <2>15. \A d \in Call : CallState(d)'
    BY <2>2, <2>7, <2>13, <2>14, OnlyMine
  <2>16. LateRequests'
    <3>1. \A d \in Call : pc[d] = "failed" => pc'[d] = "failed"
      BY <1>2, <2>7 DEF Untouched
    <3>2. QED
      BY <1>3, <2>2, <2>5, <3>1, LateKept
  <2>17. DecidedOnce'
    BY <1>3, <2>2 DEF IInv, DecidedOnce, Pending
  <2>18. QED
    BY <2>6, <2>15, <2>16, <2>17 DEF IInv
<1>6. QED
  BY <1>4, <1>5

\* What the server takes of the one request is reported, and what it accepts of
\* the override shares is left to reshare.
LEMMA UpdatedKeeps ==
    ASSUME IInv, NEW c \in Call, Updated(c)
    PROVE  IInv'
<1> USE DEF input
<1>1. TypeOK /\ CallState(c) /\ LateRequests
  BY DEF IInv
<1>2. c \in UpdateCall /\ c \notin AcceptCall /\ pc[c] = "sent"
  BY CallAssumption DEF Updated
<1>3. PICK t \in SUBSET (ToSet(batch[c]) \cap Pending) :
        /\ Decide(c, t)
        /\ results' = [results EXCEPT ![c] = t]
        /\ reshare' = [reshare EXCEPT ![c] =
             [left |-> (t \ reject[c]) \cap Override, tried |-> {}]]
  BY DEF Updated
<1>4. /\ offered' = [offered EXCEPT ![c] = batch[c]]
      /\ batch' = [batch EXCEPT ![c] = <<>>]
      /\ pc' = [pc EXCEPT ![c] = "reshare"]
      /\ UNCHANGED <<userKeys, late, input, listed, todo, limit, failed>>
  BY DEF Updated
<1>5. t \in SUBSET Pending /\ t \subseteq Share
  BY <1>3 DEF Pending
<1>6. /\ status' \in [Share -> {"incoming", "outgoing", "accepted", "rejected"}]
      /\ by' \in [Share -> Call \cup {NoCall}]
      /\ DecidedOnce' /\ ServerKeeps
      /\ \A d \in Call \ {c} : NoneFor(d)
      /\ DecidedBy(c)' = DecidedBy(c) \cup t
      /\ AcceptedOverrides(c)'
           = AcceptedOverrides(c) \cup ((t \ reject[c]) \cap Override)
  BY <1>3, <1>4, <1>5, Decided
<1>7. TypeOK'
  <2>1. /\ batch' \in [Call -> Seq(Share)] /\ offered' \in [Call -> Seq(Share)]
        /\ pc' \in [Call -> {"start", "batch", "sent", "reshare", "done", "failed"}]
        /\ results' \in [Call -> SUBSET Share]
    BY <1>1, <1>3, <1>4, <1>5, Types
  <2>2. reshare' \in [Call -> [left : SUBSET Share, tried : SUBSET Share]]
    BY <1>1, <1>3, <1>5, Types
  <2>3. QED
    BY <1>1, <1>4, <1>6, <2>1, <2>2 DEF TypeOK
<1>8. /\ pc'[c] = "reshare" /\ batch'[c] = <<>> /\ offered'[c] = batch[c]
      /\ results'[c] = t
      /\ reshare'[c].left = (t \ reject[c]) \cap Override /\ reshare'[c].tried = {}
      /\ \A d \in Call \ {c} : Untouched(d)
  BY <1>1, <1>3, <1>4, Types DEF Untouched
<1>9. /\ offered[c] = <<>> /\ todo[c] = <<>> /\ DecidedBy(c) = {}
      /\ AcceptedOverrides(c) = {}
  <2>1. offered[c] = <<>> /\ todo[c] = <<>> /\ DecidedBy(c) = {}
    BY <1>1, <1>2 DEF CallState, UpdateState
  <2>2. AcceptedOverrides(c) \subseteq DecidedBy(c)
    BY OverrideAssumption DEF AcceptedOverrides, DecidedBy
  <2>3. QED
    BY <2>1, <2>2
<1>10. batch[c] = listed[c]
  BY <1>1, <1>2, <1>9, Types, ConcatEmptySeq DEF CallState, Listing
<1>11. Listing(c)'
  <2>1. Listing(c)
    BY <1>1, <1>2 DEF CallState
  <2>2. offered'[c] \o batch'[c] \o todo'[c] = listed'[c]
    BY <1>1, <1>4, <1>8, <1>9, <1>10, Types, ConcatEmptySeq
  <2>3. \A s \in ToSet(wanted[c]) : status[s] # "incoming" => status'[s] # "incoming"
    BY <1>1, <1>6, Types, Entries DEF ServerKeeps
  <2>4. QED
    BY <1>2, <1>4, <1>8, <2>1, <2>2, <2>3 DEF Listing, LeftOut
<1>12. Reporting(c)'
  <2>1. ToSet(listed[c]) \cap failed[c] = {}
    BY <1>1, <1>2 DEF CallState, Listing
  <2>2. t \cap failed[c] = {}
    BY <1>3, <1>10, <2>1
  <2>3. QED
    BY <1>4, <1>6, <1>8, <1>9, <2>2 DEF Reporting
<1>13. UpdateState(c)'
  <2>1. HasKeys(c, ToSet(listed[c]))
    BY <1>1, <1>2 DEF CallState, UpdateState
  <2>2. HasKeys(c, ToSet(listed[c]))'
    BY <1>4, <2>1 DEF HasKeys
  <2>3. \A s \in (t \ reject[c]) \cap Override : <<c, s>> \in userKeys
    BY <1>3, <1>10, <2>1 DEF HasKeys
  <2>4. QED
    BY <1>4, <1>6, <1>8, <1>9, <2>2, <2>3 DEF UpdateState
<1>14. CallState(c)'
  BY <1>2, <1>8, <1>11, <1>12, <1>13 DEF CallState
<1>15. \A d \in Call : CallState(d)'
  BY <1>4, <1>6, <1>8, <1>14, OnlyMine
<1>16. LateRequests'
  <2>1. \A d \in Call : pc[d] = "failed" => pc'[d] = "failed"
    BY <1>2, <1>8 DEF Untouched
  <2>2. QED
    BY <1>4, <2>1, LateKept
<1>17. QED
  BY <1>6, <1>7, <1>15, <1>16 DEF IInv

LEMMA ReshareKeeps ==
    ASSUME IInv, NEW c \in Call, Reshare(c)
    PROVE  IInv'
<1> USE DEF input
<1>1. TypeOK /\ CallState(c) /\ LateRequests
  BY DEF IInv
<1>2. pc[c] = "reshare" /\ c \notin AcceptCall /\ c \in UpdateCall
  BY <1>1 DEF Reshare, CallState, AcceptState, Call
<1>3. PICK s \in reshare[c].left :
        reshare' = [reshare EXCEPT ![c] = [left  |-> reshare[c].left \ {s},
                                           tried |-> reshare[c].tried \cup {s}]]
  BY DEF Reshare
<1>4. /\ UNCHANGED <<status, by, userKeys, late>> /\ UNCHANGED server
      /\ UNCHANGED <<pc, input, listed, todo, batch, offered, limit, results, failed>>
  BY DEF Reshare, server
<1>5. TypeOK'
  <2>1. s \in Share /\ reshare[c].left \subseteq Share /\ reshare[c].tried \subseteq Share
    BY <1>1, <1>3, Types
  <2>2. reshare' \in [Call -> [left : SUBSET Share, tried : SUBSET Share]]
    BY <1>1, <1>3, <2>1, Types
  <2>3. QED
    BY <1>1, <1>4, <2>2 DEF TypeOK
<1>6. /\ reshare'[c].left = reshare[c].left \ {s}
      /\ reshare'[c].tried = reshare[c].tried \cup {s}
      /\ \A d \in Call \ {c} : Untouched(d)
  BY <1>1, <1>3, <1>4, Types DEF Untouched
<1>7. DecidedBy(c)' = DecidedBy(c) /\ AcceptedOverrides(c)' = AcceptedOverrides(c)
  BY <1>4 DEF DecidedBy, AcceptedOverrides
<1>8. Listing(c)' /\ Reporting(c)'
  BY <1>1, <1>2, <1>4, <1>7 DEF CallState, Listing, Reporting, LeftOut
<1>9. UpdateState(c)'
  <2>1. UpdateState(c)
    BY <1>1, <1>2 DEF CallState
  <2>2. (HasKeys(c, ToSet(listed[c])))'
    BY <1>2, <1>4, <2>1 DEF UpdateState, HasKeys
  <2>3. QED
    BY <1>2, <1>3, <1>4, <1>6, <1>7, <2>1, <2>2 DEF UpdateState
<1>10. CallState(c)'
  BY <1>2, <1>4, <1>8, <1>9 DEF CallState
<1>11. \A d \in Call : CallState(d)'
  BY <1>4, <1>6, <1>10, OnlyMine, ServerAlone
<1>12. LateRequests'
  BY <1>4, LateKept
<1>13. QED
  BY <1>4, <1>5, <1>11, <1>12, ServerAlone DEF IInv

LEMMA ReturnUpdatedKeeps ==
    ASSUME IInv, NEW c \in Call, ReturnUpdated(c)
    PROVE  IInv'
<1> USE DEF input
<1>1. TypeOK /\ CallState(c) /\ LateRequests
  BY DEF IInv
<1>2. /\ pc[c] = "reshare" /\ reshare[c].left = {}
      /\ c \notin AcceptCall /\ c \in UpdateCall
  BY <1>1 DEF ReturnUpdated, CallState, AcceptState, Call
<1>3. /\ pc' = [pc EXCEPT ![c] = "done"] /\ UNCHANGED <<status, by, userKeys, late>>
      /\ UNCHANGED server
      /\ UNCHANGED <<input, listed, todo, batch, offered, limit, results, failed, reshare>>
  BY DEF ReturnUpdated, server
<1>4. TypeOK'
  <2>1. pc' \in [Call -> {"start", "batch", "sent", "reshare", "done", "failed"}]
    BY <1>1, <1>3, Types
  <2>2. QED
    BY <1>1, <1>3, <2>1 DEF TypeOK
<1>5. pc'[c] = "done" /\ \A d \in Call \ {c} : Untouched(d)
  BY <1>1, <1>3, Types DEF Untouched
<1>6. DecidedBy(c)' = DecidedBy(c) /\ AcceptedOverrides(c)' = AcceptedOverrides(c)
  BY <1>3 DEF DecidedBy, AcceptedOverrides
<1>7. UpdateState(c)
  BY <1>1, <1>2 DEF CallState
<1>8. Listing(c)' /\ Reporting(c)'
  <2>1. Listing(c) /\ Reporting(c) /\ todo[c] = <<>>
    BY <1>1, <1>2, <1>7 DEF CallState, UpdateState
  <2>2. Listing(c)'
    BY <1>2, <1>3, <1>5, <2>1 DEF Listing, LeftOut
  <2>3. Reporting(c)'
    BY <1>3, <1>6, <2>1 DEF Reporting
  <2>4. QED
    BY <2>2, <2>3
<1>9. UpdateState(c)'
  <2>1. (HasKeys(c, ToSet(listed[c])))'
    BY <1>2, <1>3, <1>7 DEF UpdateState, HasKeys
  <2>2. QED
    BY <1>2, <1>3, <1>5, <1>6, <1>7, <2>1 DEF UpdateState
<1>10. CallState(c)'
  BY <1>2, <1>5, <1>8, <1>9 DEF CallState
<1>11. \A d \in Call : CallState(d)'
  BY <1>3, <1>5, <1>10, OnlyMine, ServerAlone
<1>12. LateRequests'
  <2>1. \A d \in Call : pc[d] = "failed" => pc'[d] = "failed"
    BY <1>2, <1>5 DEF Untouched
  <2>2. QED
    BY <1>3, <2>1, LateKept
<1>13. QED
  BY <1>3, <1>4, <1>11, <1>12, ServerAlone DEF IInv

\* A late request decides for a call that reports nothing any more; what it
\* accepts of the override shares has keychains.
LEMMA ServeLateKeeps ==
    ASSUME IInv, ServeLate
    PROVE  IInv'
<1> USE DEF input
<1>1. TypeOK /\ LateRequests
  BY DEF IInv
<1>2. PICK r \in late : /\ late' = late \ {r}
                        /\ \E t \in SUBSET (r.shares \cap Pending) : Decide(r.call, t)
  BY DEF ServeLate
<1>3. PICK t \in SUBSET (r.shares \cap Pending) : Decide(r.call, t)
  BY <1>2
<1>4. UNCHANGED <<userKeys, pc, input, listed, todo, batch, offered, limit, results,
                  failed, reshare>>
  BY DEF ServeLate
<1>5. PICK c \in Call : c = r.call
  BY <1>1, Types
<1>6. pc[c] = "failed" /\ (c \in UpdateCall => HasKeys(c, r.shares)) /\ CallState(c)
  BY <1>1, <1>2, <1>5 DEF LateRequests, IInv
<1>7. Decide(c, t) /\ t \in SUBSET Pending
  BY <1>3, <1>5
<1>8. /\ status' \in [Share -> {"incoming", "outgoing", "accepted", "rejected"}]
      /\ by' \in [Share -> Call \cup {NoCall}]
      /\ DecidedOnce' /\ ServerKeeps
      /\ \A d \in Call \ {c} : NoneFor(d)
      /\ AcceptedOverrides(c)'
           = AcceptedOverrides(c) \cup ((t \ reject[c]) \cap Override)
  BY <1>4, <1>7, Decided
<1>9. TypeOK'
  <2>1. late' \subseteq [call : Call, shares : SUBSET Share]
    BY <1>1, <1>2, Types
  <2>2. QED
    BY <1>1, <1>4, <1>8, <2>1 DEF TypeOK
<1>10. AcceptState(c)' \/ c \notin AcceptCall
  BY <1>4, <1>6 DEF CallState, AcceptState, BatchSent
<1>11. UpdateState(c)' \/ c \notin UpdateCall
  <2> SUFFICES ASSUME c \in UpdateCall PROVE UpdateState(c)'
    OBVIOUS
  <2>1. \A s \in (t \ reject[c]) \cap Override : <<c, s>> \in userKeys
    BY <1>3, <1>6 DEF HasKeys
  <2>2. QED
    BY <1>4, <1>6, <1>8, <2>1 DEF CallState, UpdateState
<1>12. CallState(c)'
  BY <1>4, <1>6, <1>10, <1>11 DEF CallState
<1>13. \A d \in Call : CallState(d)'
  <2>1. \A d \in Call : Untouched(d)
    BY <1>4 DEF Untouched
  <2>2. QED
    BY <1>4, <1>8, <1>12, <2>1, OnlyMine
<1>14. LateRequests'
  BY <1>2, <1>4, LateKept
<1>15. QED
  BY <1>8, <1>9, <1>13, <1>14 DEF IInv

----------------------------------------------------------------------------
(* The inductive invariant *)

LEMMA InitIInv == Init => IInv
<1> SUFFICES ASSUME Init PROVE IInv
  OBVIOUS
<1>1. /\ listed = [c \in Call |-> <<>>] /\ todo = listed /\ batch = listed
      /\ offered = listed /\ results = [c \in Call |-> {}] /\ failed = results
      /\ reshare = [c \in Call |-> [left |-> {}, tried |-> {}]]
      /\ pc = [c \in Call |-> "start"] /\ by = [s \in Share |-> NoCall]
      /\ status = [s \in Share |-> IF s \in Offered THEN "outgoing" ELSE "incoming"]
      /\ userKeys = {} /\ late = {}
      /\ limit = [c \in Call |-> MaxPayload]
      /\ wanted \in [Call -> Ids] /\ reject \in [Call -> SUBSET Share]
  BY DEF Init
<1>2. TypeOK
  <2>1. listed \in [Call -> Seq(Share)] /\ limit \in [Call -> Nat]
    BY <1>1, SizeAssumption
  <2>2. /\ \A f \in {listed, todo, batch, offered} : f \in [Call -> Seq(Share)]
        /\ reshare \in [Call -> [left : SUBSET Share, tried : SUBSET Share]]
    BY <1>1, <2>1
  <2>3. QED
    BY <1>1, <2>1, <2>2 DEF TypeOK
<1>3. DecidedOnce /\ LateRequests
  BY <1>1, CallAssumption DEF DecidedOnce, Pending, LateRequests
<1>4. ASSUME NEW c \in Call PROVE CallState(c)
  <2>1. /\ pc[c] = "start" /\ listed[c] = <<>> /\ todo[c] = <<>> /\ batch[c] = <<>>
        /\ offered[c] = <<>> /\ failed[c] = {} /\ results[c] = {}
        /\ reshare[c].left = {} /\ reshare[c].tried = {}
    BY <1>1
  <2>2. DecidedBy(c) = {} /\ AcceptedOverrides(c) = {}
    BY <1>1, CallAssumption, OverrideAssumption DEF DecidedBy, AcceptedOverrides
  <2>3. Unsent(c)
    BY <2>1 DEF Unsent
  <2>4. Listing(c)
    <3>1. <<>> \o <<>> \o <<>> = <<>>
      OBVIOUS
    <3>2. QED
      BY <2>1, <3>1 DEF Listing
  <2>5. Reporting(c)
    BY <2>1, <2>2 DEF Reporting
  <2>6. AcceptState(c)
    BY <2>1 DEF AcceptState, BatchSent
  <2>7. UpdateState(c)
    BY <2>1, <2>2 DEF UpdateState
  <2>8. QED
    BY <2>3, <2>4, <2>5, <2>6, <2>7 DEF CallState
<1>5. QED
  BY <1>2, <1>3, <1>4 DEF IInv

LEMMA NextIInv == IInv /\ [Next]_vars => IInv'
<1> SUFFICES ASSUME IInv, [Next]_vars PROVE IInv'
  OBVIOUS
<1>1. CASE ServeLate
  BY <1>1, ServeLateKeeps
<1>2. ASSUME NEW c \in Call, CallStep(c) PROVE IInv'
  BY <1>2, RequestFailsKeeps, ListAndEncryptKeeps, NextBatchKeeps, BatchAcceptedKeeps,
     BatchTooLargeKeeps, ReturnAcceptedKeeps, PrepareKeeps, UpdatedKeeps, ReshareKeeps,
     ReturnUpdatedKeeps DEF CallStep
<1>3. CASE UNCHANGED vars
  <2>1. UNCHANGED <<status, by, userKeys, late, pc, wanted, reject, listed, todo, batch,
                    offered, limit, results, failed, reshare>>
    BY <1>3 DEF vars, server, input
  <2>2. TypeOK' /\ DecidedOnce' /\ LateRequests'
    BY <2>1 DEF IInv, TypeOK, DecidedOnce, Pending, LateRequests, HasKeys
  <2>3. UNCHANGED input /\ UNCHANGED server /\ \A d \in Call : Untouched(d)
    BY <2>1 DEF input, server, Untouched
  <2>4. \A d \in Call : CallState(d)'
    BY <2>3, Bystander, ServerAlone
  <2>5. QED
    BY <2>2, <2>4 DEF IInv
<1>4. QED
  BY <1>1, <1>2, <1>3 DEF Next

\* Whatever calls run together, however their requests fail, return or arrive
\* late: what a call has listed, sent and been told fits together.
THEOREM Invariance == Spec => []IInv
<1>1. Init => IInv
  BY InitIInv
<1>2. IInv /\ [Next]_vars => IInv'
  BY NextIInv
<1>3. QED
  BY <1>1, <1>2, PTL DEF Spec

\* Every variable keeps its type.
THEOREM TypeCorrect == Spec => []TypeOK
<1>1. IInv => TypeOK
  BY DEF IInv
<1>2. QED
  BY <1>1, Invariance, PTL

\* However often a batch is refused as too large, a call loses, repeats and
\* reorders no entry.  A share that was asked for and is in no answered request
\* when it returns is reported as failed, or was left out by bulkAcceptShare as
\* not incoming or without a keychain.
THEOREM NoEntryLost == Spec => []EntriesKept
<1>1. IInv => EntriesKept
  <2> SUFFICES ASSUME IInv, NEW c \in Call
               PROVE  /\ pc[c] # "failed" => offered[c] \o batch[c] \o todo[c] = listed[c]
                      /\ pc[c] = "done" =>
                          /\ offered[c] = listed[c]
                          /\ \A s \in ToSet(wanted[c]) \ ToSet(offered[c]) :
                              s \in failed[c] \/ LeftOut(c, s)
    BY DEF EntriesKept
  <2>1. pc[c] # "failed" => Listing(c)
    BY DEF IInv, CallState
  <2>2. ASSUME pc[c] = "done" PROVE offered[c] = listed[c]
    <3>1. batch[c] = <<>> /\ todo[c] = <<>> /\ offered[c] \o batch[c] \o todo[c] = listed[c]
      BY <2>1, <2>2 DEF Listing
    <3>2. offered[c] \in Seq(Share)
      BY Types DEF IInv
    <3>3. QED
      BY <3>1, <3>2, ConcatEmptySeq
  <2>3. QED
    BY <2>1, <2>2 DEF Listing
<1>2. QED
  BY <1>1, Invariance, PTL

\* A call that returns reports the shares that its own entries decided and no
\* others, whoever competes for them.
THEOREM ReportsOnlyItsOwn == Spec => []ReportsItsOwn
<1>1. IInv => ReportsItsOwn
  BY DEF IInv, ReportsItsOwn, CallState, Reporting, DecidedBy
<1>2. QED
  BY <1>1, Invariance, PTL

\* An accepted override share has the keychain that its call registered, also
\* if the request arrived after the call had failed; a call that returns has
\* tried to reshare just the wallets of those.
THEOREM OverridesAreReshared == Spec => []OverridesReshared
<1>1. IInv => OverridesReshared
  <2> SUFFICES ASSUME IInv, NEW c \in UpdateCall
               PROVE  /\ \A s \in Override :
                          by[s] = c /\ status[s] = "accepted" => <<c, s>> \in userKeys
                      /\ pc[c] = "done" =>
                          {s \in Override : by[s] = c /\ status[s] = "accepted"}
                            = reshare[c].tried
                      /\ \A s \in reshare[c].tried : by[s] = c /\ status[s] = "accepted"
    BY DEF OverridesReshared
  <2>1. c \in Call /\ UpdateState(c)
    BY DEF IInv, CallState, Call
  <2>2. pc[c] \in {"start", "batch", "sent", "reshare", "done", "failed"}
    BY <2>1, Types DEF IInv
  <2>3. \A s \in Override :
          by[s] = c /\ status[s] = "accepted" => <<c, s>> \in userKeys
    BY <2>1 DEF UpdateState, AcceptedOverrides
  <2>4. pc[c] = "done" => AcceptedOverrides(c) = reshare[c].tried
    BY <2>1 DEF UpdateState
  <2>5. reshare[c].tried \subseteq AcceptedOverrides(c)
    BY <2>1, <2>2 DEF UpdateState
  <2>6. QED
    BY <2>3, <2>4, <2>5 DEF AcceptedOverrides
<1>2. QED
  BY <1>1, Invariance, PTL

----------------------------------------------------------------------------
(* Every step of a call brings it closer to its end *)

\* The stages are ordered as numbers.
LEMMA Stages ==
    /\ Stage["start"] = 3 /\ Stage["batch"] = 2 /\ Stage["sent"] = 2
    /\ Stage["reshare"] = 1 /\ Stage["done"] = 0 /\ Stage["failed"] = 0
BY DEF Stage

LEMMA StepsComeCloser ==
    ASSUME IInv, NEW c \in Call, CallStep(c)
    PROVE  Closer(c)
<1>1. TypeOK /\ CallState(c)
  BY DEF IInv
<1>2. /\ limit[c] \in Nat
      /\ batch[c] \in Seq(Share) /\ todo[c] \in Seq(Share)
      /\ Len(batch[c]) \in Nat /\ Len(todo[c]) \in Nat
  BY <1>1, Types
<1>3. CASE RequestFails(c)
  <2>1. pc[c] = "sent" /\ pc'[c] = "failed"
    BY <1>1, <1>3, Types DEF RequestFails, Throw
  <2>2. QED
    BY <2>1, Stages DEF Closer
<1>4. CASE ListAndEncrypt(c)
  <2>1. pc[c] = "start" /\ pc'[c] \in {"batch", "failed"}
    BY <1>1, <1>4, Types DEF ListAndEncrypt, Throw
  <2>2. QED
    BY <2>1, Stages DEF Closer
<1>5. CASE NextBatch(c)
  <2>1. PICK n \in 1 .. Len(todo[c]) :
          /\ batch' = [batch EXCEPT ![c] = SubSeq(todo[c], 1, n)]
          /\ todo' = [todo EXCEPT ![c] = SubSeq(@, n + 1, Len(@))]
    BY <1>5 DEF NextBatch
  <2>2. /\ batch'[c] = SubSeq(todo[c], 1, n)
        /\ todo'[c] = SubSeq(todo[c], n + 1, Len(todo[c]))
    BY <1>1, <2>1, Types
  <2>3. Len(batch'[c]) = n /\ Len(todo'[c]) = Len(todo[c]) - n
    BY <1>2, <2>2, Split
  <2>4. Len(batch[c]) = 0
    BY <1>1, <1>5 DEF NextBatch, CallState, Listing
  <2>5. Unanswered(c)' = Unanswered(c)
    BY <1>2, <2>3, <2>4 DEF Unanswered
  <2>6. pc[c] = "batch" /\ pc'[c] = "sent" /\ limit'[c] = limit[c]
    BY <1>1, <1>5, Types DEF NextBatch
  <2>7. QED
    BY <2>5, <2>6, Stages DEF Closer
<1>6. CASE BatchAccepted(c)
  <2>1. pc[c] = "sent" /\ pc'[c] = "batch" /\ batch'[c] = <<>> /\ todo'[c] = todo[c]
    BY <1>1, <1>6, Types DEF BatchAccepted
  <2>2. batch[c] # <<>>
    BY <1>1, <1>6, <2>1 DEF BatchAccepted, CallState, AcceptState
  <2>3. Len(batch[c]) > 0
    BY <1>2, <2>2
  <2>4. Unanswered(c)' < Unanswered(c)
    <3>1. Unanswered(c)' = Len(batch'[c]) + Len(todo'[c])
      BY DEF Unanswered
    <3>2. Len(batch'[c]) = 0 /\ Len(todo'[c]) = Len(todo[c])
      BY <2>1
    <3>3. Unanswered(c) = Len(batch[c]) + Len(todo[c])
      BY DEF Unanswered
    <3>4. PICK m \in Nat, n \in Nat : m = Len(batch[c]) /\ n = Len(todo[c])
      BY <1>2
    <3>5. m > 0 /\ Unanswered(c) = m + n /\ Unanswered(c)' = 0 + n
      BY <2>3, <3>1, <3>2, <3>3, <3>4
    <3>6. QED
      BY <3>5
  <2>5. QED
    BY <2>1, <2>4, Stages DEF Closer
<1>7. CASE BatchTooLarge(c)
  <2>1. /\ pc[c] = "sent" /\ pc'[c] = "batch" /\ Len(batch[c]) > 1
        /\ batch'[c] = <<>> /\ todo'[c] = batch[c] \o todo[c]
        /\ limit'[c] = limit[c] \div 2
    BY <1>1, <1>7, Types DEF BatchTooLarge
  <2>2. limit[c] > 0
    BY <1>1, <1>7, <2>1 DEF BatchTooLarge, CallState, AcceptState, BatchSent
  <2>3. limit'[c] < limit[c]
    BY <1>2, <2>1, <2>2
  <2>4. Len(todo'[c]) = Len(batch[c]) + Len(todo[c])
    BY <1>2, <2>1
  <2>5. Unanswered(c)' = Unanswered(c)
    BY <1>2, <2>1, <2>4 DEF Unanswered
  <2>6. QED
    BY <2>1, <2>3, <2>5, Stages DEF Closer
<1>8. CASE ReturnAccepted(c)
  <2>1. pc[c] = "batch" /\ pc'[c] = "done"
    BY <1>1, <1>8, Types DEF ReturnAccepted
  <2>2. QED
    BY <2>1, Stages DEF Closer
<1>9. CASE Prepare(c)
  <2>1. pc[c] = "start" /\ pc'[c] \in {"sent", "failed"}
    BY <1>1, <1>9, Types DEF Prepare, Throw
  <2>2. QED
    BY <2>1, Stages DEF Closer
<1>10. CASE Updated(c)
  <2>1. pc[c] = "sent" /\ pc'[c] = "reshare"
    BY <1>1, <1>10, Types DEF Updated
  <2>2. QED
    BY <2>1, Stages DEF Closer
<1>11. CASE Reshare(c)
  <2>1. PICK s \in reshare[c].left :
          reshare' = [reshare EXCEPT ![c] = [left  |-> reshare[c].left \ {s},
                                             tried |-> reshare[c].tried \cup {s}]]
    BY <1>11 DEF Reshare
  <2>2. reshare'[c].left = reshare[c].left \ {s}
    BY <1>1, <2>1, Types
  <2>3. pc'[c] = pc[c] /\ limit'[c] = limit[c] /\ batch' = batch /\ todo' = todo
    BY <1>11 DEF Reshare
  <2>4. Unanswered(c)' = Unanswered(c)
    BY <2>3 DEF Unanswered
  <2>5. QED
    BY <2>2, <2>3, <2>4 DEF Closer
<1>12. CASE ReturnUpdated(c)
  <2>1. pc[c] = "reshare" /\ pc'[c] = "done"
    BY <1>1, <1>12, Types DEF ReturnUpdated
  <2>2. QED
    BY <2>1, Stages DEF Closer
<1>13. QED
  BY <1>3, <1>4, <1>5, <1>6, <1>7, <1>8, <1>9, <1>10, <1>11, <1>12 DEF CallStep

\* What decides how long the call c goes on is changed by its own steps only.
LEMMA ProgressIsMine ==
    ASSUME IInv, NEW c \in Call, Next, ~CallStep(c)
    PROVE  UNCHANGED Progress(c)
<1>1. TypeOK
  BY DEF IInv
<1>2. CASE ServeLate
  BY <1>2 DEF ServeLate, Progress
<1>3. ASSUME NEW d \in Call \ {c}, CallStep(d) PROVE UNCHANGED Progress(c)
  <2>1. /\ pc'[c] = pc[c] /\ batch'[c] = batch[c] /\ todo'[c] = todo[c]
        /\ limit'[c] = limit[c] /\ reshare'[c] = reshare[c]
    BY <1>1, <1>3, Types DEF CallStep, RequestFails, Throw, ListAndEncrypt, NextBatch,
       BatchAccepted, BatchTooLarge, ReturnAccepted, Prepare, Updated, Reshare,
       ReturnUpdated
  <2>2. QED
    BY <2>1 DEF Progress
<1>4. QED
  BY <1>2, <1>3 DEF Next

\* Every step of a call brings it closer to its end and no other step sets it
\* back: the reason why every call ends, whatever is refused as too large.
THEOREM CallsDoComeCloser == Spec => CallsComeCloser
<1>1. IInv /\ [Next]_vars =>
        [\A c \in Call : Closer(c) \/ (~CallStep(c) /\ UNCHANGED Progress(c))]_vars
  BY StepsComeCloser, ProgressIsMine
<1>2. QED
  BY <1>1, Invariance, PTL DEF Spec, CallsComeCloser

----------------------------------------------------------------------------
(* packKeychainsFFD: for any number of keychains of any sizes, every one is  *)
(* in one batch, no batch is above the limit, none could have gone to an      *)
(* earlier batch, and it throws before it makes a batch or not at all.        *)

\* Taking an item off a finite set leaves a smaller one.
LEMMA TakeOne ==
    ASSUME NEW S, IsFiniteSet(S), S # {}
    PROVE  /\ One(S) \in S /\ IsFiniteSet(S \ {One(S)}) /\ Cardinality(S) \in Nat
           /\ Cardinality(S \ {One(S)}) \in Nat
           /\ Cardinality(S) = Cardinality(S \ {One(S)}) + 1
<1>1. One(S) \in S
  BY DEF One
<1>2. IsFiniteSet(S \ {One(S)}) /\ Cardinality(S \ {One(S)}) = Cardinality(S) - 1
  BY <1>1, FS_RemoveElement
<1>3. Cardinality(S) \in Nat /\ Cardinality(S \ {One(S)}) \in Nat
  BY <1>2, FS_CardinalityType
<1>4. QED
  BY <1>1, <1>2, <1>3

\* The recursion equation of Total.  The levels of the recursion do not change
\* any more where they are higher than the set is large.
LEMMA TotalDef ==
    ASSUME NEW sz \in [Item -> Nat], NEW S \in SUBSET Item, IsFiniteSet(S)
    PROVE  \E sum :
             /\ sum = [T \in SUBSET S |->
                         IF T = {} THEN 0 ELSE sz[One(T)] + sum[T \ {One(T)}]]
             /\ Total(sz, S) = sum[S]
<1> DEFINE X == [SUBSET S -> Nat]
           N == Cardinality(S) + 1
           Level(g) == [T \in SUBSET S |->
                          IF T = {} THEN 0 ELSE sz[One(T)] + g[T \ {One(T)}]]
           step == [n \in 1 .. N |-> [g \in X |-> Level(g)]]
<1>1. Cardinality(S) \in Nat /\ N \in Nat
  BY FS_CardinalityType
<1>2. ASSUME NEW T \in SUBSET S, T # {}
      PROVE  /\ One(T) \in S /\ T \ {One(T)} \in SUBSET S /\ sz[One(T)] \in Nat
             /\ Cardinality(T) \in Nat /\ Cardinality(T \ {One(T)}) \in Nat
             /\ Cardinality(T) = Cardinality(T \ {One(T)}) + 1
  <2>1. IsFiniteSet(T)
    BY FS_Subset
  <2>2. QED
    BY <1>2, <2>1, TakeOne
<1>3. ASSUME NEW g \in X PROVE Level(g) \in X
  <2>1. ASSUME NEW T \in SUBSET S
        PROVE  (IF T = {} THEN 0 ELSE sz[One(T)] + g[T \ {One(T)}]) \in Nat
    <3>1. CASE T = {}
      BY <3>1
    <3>2. CASE T # {}
      <4>1. T \ {One(T)} \in SUBSET S /\ sz[One(T)] \in Nat
        BY <1>2, <3>2
      <4>2. g[T \ {One(T)}] \in Nat
        BY <4>1
      <4>3. QED
        BY <3>2, <4>1, <4>2
    <3>3. QED
      BY <3>1, <3>2
  <2>2. QED
    BY <2>1
<1>4. PICK a \in X : a = [T \in SUBSET S |-> 0]
  OBVIOUS
<1>5. step \in [1 .. N -> [X -> X]]
  <2> HIDE DEF Level, X
  <2>1. QED
    BY <1>3
<1>6. \A n \in 1 .. N : \A g \in X : step[n][g] = Level(g)
  OBVIOUS
<1> HIDE DEF X, step, N, Level
<1>7. PICK h \in [0 .. N -> X] : h[0] = a /\ \A n \in 1 .. N : h[n] = step[n][h[n - 1]]
  <2>1. PICK p \in [1 .. N -> [X -> X]] : p = step
    BY <1>5
  <2>2. N \in Nat
    BY <1>1
  <2>3. \E h \in [0 .. N -> X] : h[0] = a /\ \A n \in 1 .. N : h[n] = p[n][h[n - 1]]
    BY ONLY a \in X, p \in [1 .. N -> [X -> X]], <2>2, Recursion
  <2>4. QED
    BY <2>1, <2>3
<1>8. ASSUME NEW n \in 1 .. N
      PROVE  /\ n - 1 \in 0 .. N /\ h[n - 1] \in X
             /\ h[n] = Level(h[n - 1])
  <2>1. n - 1 \in 0 .. N
    BY <1>1
  <2>2. QED
    BY <1>6, <1>7, <2>1
<1> USE DEF X, N, Level
<1>9. \A m \in 0 .. N : h[m][{}] = 0
  <2> SUFFICES ASSUME NEW m \in 0 .. N PROVE h[m][{}] = 0
    OBVIOUS
  <2>1. CASE m = 0
    BY <1>4, <1>7, <2>1
  <2>2. CASE m # 0
    <3>1. m \in 1 .. N
      BY <1>1, <2>2
    <3>2. h[m] = Level(h[m - 1])
      BY <1>8, <3>1
    <3>3. QED
      BY <3>2
  <2>3. QED
    BY <2>1, <2>2
<1>10. ASSUME NEW m \in 1 .. N, NEW T \in SUBSET S, T # {}
       PROVE  h[m][T] = sz[One(T)] + h[m - 1][T \ {One(T)}]
  <2>1. h[m] = Level(h[m - 1])
    BY <1>8
  <2>2. QED
    BY <1>10, <2>1
<1> DEFINE Same(n) == \A T \in SUBSET S : \A m \in 0 .. (N - 1) :
                        Cardinality(T) <= n /\ n <= m => h[m + 1][T] = h[m][T]
           M == {n \in Nat : Same(n)}
<1> HIDE DEF X, Level
<1>11. 0 \in M
  <2> SUFFICES ASSUME NEW T \in SUBSET S, NEW m \in 0 .. (N - 1), Cardinality(T) <= 0
               PROVE  h[m + 1][T] = h[m][T]
    OBVIOUS
  <2>1. T = {}
    <3>1. IsFiniteSet(T) /\ Cardinality(T) \in Nat
      BY FS_Subset, FS_CardinalityType
    <3>2. Cardinality(T) = 0
      BY <3>1
    <3>3. QED
      BY <3>1, <3>2, FS_EmptySet
  <2>2. m \in 0 .. N /\ m + 1 \in 0 .. N
    BY <1>1
  <2>3. QED
    BY <1>9, <2>1, <2>2
<1>12. ASSUME NEW n \in M PROVE n + 1 \in M
  <2> SUFFICES ASSUME NEW T \in SUBSET S, NEW m \in 0 .. (N - 1),
                      Cardinality(T) <= n + 1, n + 1 <= m
               PROVE  h[m + 1][T] = h[m][T]
    OBVIOUS
  <2>1. n \in Nat /\ Same(n)
    OBVIOUS
  <2> HIDE DEF M
  <2>2. CASE T = {}
    <3>1. m \in 0 .. N /\ m + 1 \in 0 .. N
      BY <1>1
    <3>2. QED
      BY <1>9, <2>2, <3>1
  <2>3. CASE T # {}
    <3>1. PICK U \in SUBSET S : U = T \ {One(T)}
      BY <1>2, <2>3
    <3>2. Cardinality(U) <= n
      BY <1>2, <2>1, <2>3, <3>1
    <3>3. /\ m \in 1 .. N /\ m + 1 \in 1 .. N /\ m - 1 \in 0 .. (N - 1)
          /\ (m + 1) - 1 = m /\ (m - 1) + 1 = m /\ n <= m - 1
      BY <1>1, <2>1
    <3>4. h[m + 1][T] = sz[One(T)] + h[m][U]
      BY <1>10, <2>3, <3>1, <3>3
    <3>5. h[m][T] = sz[One(T)] + h[m - 1][U]
      BY <1>10, <2>3, <3>1, <3>3
    <3>6. h[m][U] = h[m - 1][U]
      BY <2>1, <3>2, <3>3
    <3>7. QED
      BY <3>4, <3>5, <3>6
  <2>4. QED
    BY <2>2, <2>3
<1>13. Same(Cardinality(S))
  <2>1. M \subseteq Nat
    OBVIOUS
  <2> HIDE DEF M
  <2>2. M = Nat
    BY <1>11, <1>12, <2>1, InductionOnSets
  <2>3. Cardinality(S) \in M
    BY <1>1, <2>2
  <2> USE DEF M
  <2> HIDE DEF Same
  <2>4. QED
    BY <2>3
<1>14. h[N] = [T \in SUBSET S |->
                 IF T = {} THEN 0 ELSE sz[One(T)] + h[N][T \ {One(T)}]]
  <2>1. N \in 1 .. N /\ N - 1 \in 0 .. (N - 1) /\ N - 1 = Cardinality(S) /\ (N - 1) + 1 = N
    BY <1>1
  <2>2. h[N] = Level(h[N - 1])
    BY <1>8, <2>1
  <2>3. \A U \in SUBSET S : h[N][U] = h[N - 1][U]
    <3> SUFFICES ASSUME NEW U \in SUBSET S PROVE h[N][U] = h[N - 1][U]
      OBVIOUS
    <3>1. Cardinality(U) <= Cardinality(S)
      BY FS_Subset
    <3>2. QED
      BY <1>1, <1>13, <2>1, <3>1
  <2>4. \A T \in SUBSET S : T \ {One(T)} \in SUBSET S
    OBVIOUS
  <2> HIDE DEF N
  <2>5. QED
    BY <2>2, <2>3, <2>4 DEF Level
<1>15. QED
  BY <1>14 DEF Total

\* f counts the items of the subsets of S one after the other.
Counts(f, sz, S) ==
    f = [T \in SUBSET S |-> IF T = {} THEN 0 ELSE sz[One(T)] + f[T \ {One(T)}]]

\* What is counted for a set is the same in every larger set, and a number.
LEMMA CountsAgree ==
    ASSUME NEW sz \in [Item -> Nat], NEW S \in SUBSET Item, IsFiniteSet(S),
           NEW T \in SUBSET S, NEW f, Counts(f, sz, S), NEW g, Counts(g, sz, T)
    PROVE  \A U \in SUBSET T : f[U] = g[U] /\ f[U] \in Nat
<1> DEFINE Same(n) == \A U \in SUBSET T : Cardinality(U) <= n => f[U] = g[U] /\ f[U] \in Nat
           M == {n \in Nat : Same(n)}
<1>1. ASSUME NEW U \in SUBSET T
      PROVE  IsFiniteSet(U) /\ Cardinality(U) \in Nat
  <2>1. U \in SUBSET S
    OBVIOUS
  <2>2. QED
    BY <2>1, FS_Subset, FS_CardinalityType
<1>2. f[{}] = 0 /\ g[{}] = 0
  BY DEF Counts
<1>3. ASSUME NEW U \in SUBSET T, U # {}
      PROVE  /\ f[U] = sz[One(U)] + f[U \ {One(U)}]
             /\ g[U] = sz[One(U)] + g[U \ {One(U)}]
             /\ One(U) \in U /\ sz[One(U)] \in Nat
             /\ Cardinality(U) = Cardinality(U \ {One(U)}) + 1
             /\ Cardinality(U \ {One(U)}) \in Nat
  <2>1. U \in SUBSET S /\ U \in SUBSET Item
    OBVIOUS
  <2>2. f[U] = sz[One(U)] + f[U \ {One(U)}]
    BY <1>3, <2>1 DEF Counts
  <2>3. g[U] = sz[One(U)] + g[U \ {One(U)}]
    BY <1>3 DEF Counts
  <2>4. /\ One(U) \in U /\ Cardinality(U) = Cardinality(U \ {One(U)}) + 1
        /\ Cardinality(U \ {One(U)}) \in Nat
    BY <1>1, <1>3, TakeOne
  <2>5. sz[One(U)] \in Nat
    BY <2>1, <2>4
  <2>6. QED
    BY <2>2, <2>3, <2>4, <2>5
<1>4. 0 \in M
  <2> SUFFICES ASSUME NEW U \in SUBSET T, Cardinality(U) <= 0
               PROVE  f[U] = g[U] /\ f[U] \in Nat
    OBVIOUS
  <2>1. U = {}
    <3>1. Cardinality(U) = 0
      BY <1>1
    <3>2. QED
      BY <1>1, <3>1, FS_EmptySet
  <2>2. QED
    BY <1>2, <2>1
<1>5. ASSUME NEW n \in M PROVE n + 1 \in M
  <2> SUFFICES ASSUME NEW U \in SUBSET T, Cardinality(U) <= n + 1
               PROVE  f[U] = g[U] /\ f[U] \in Nat
    OBVIOUS
  <2>1. n \in Nat /\ Same(n)
    OBVIOUS
  <2>2. CASE U = {}
    BY <1>2, <2>2
  <2>3. CASE U # {}
    <3>1. PICK V \in SUBSET T : V = U \ {One(U)}
      OBVIOUS
    <3>2. Cardinality(V) <= n
      BY <1>1, <1>3, <2>1, <2>3, <3>1
    <3>3. f[V] = g[V] /\ f[V] \in Nat
      BY <2>1, <3>2
    <3>4. f[U] = sz[One(U)] + f[V] /\ g[U] = sz[One(U)] + g[V] /\ sz[One(U)] \in Nat
      BY <1>3, <2>3, <3>1
    <3>5. QED
      BY <3>3, <3>4
  <2>4. QED
    BY <2>2, <2>3
<1>6. M = Nat
  <2>1. M \subseteq Nat
    OBVIOUS
  <2> HIDE DEF M
  <2>2. QED
    BY <1>4, <1>5, <2>1, InductionOnSets
<1>7. ASSUME NEW U \in SUBSET T PROVE f[U] = g[U] /\ f[U] \in Nat
  <2>1. Cardinality(U) \in Nat /\ Cardinality(U) <= Cardinality(U)
    BY <1>1
  <2>2. Cardinality(U) \in M
    BY <1>6, <2>1
  <2>3. QED
    BY <2>1, <2>2
<1>8. QED
  BY <1>7

\* A set's total is that of its first item and of the others.
LEMMA TotalOfOne ==
    ASSUME NEW sz \in [Item -> Nat], NEW S \in SUBSET Item, IsFiniteSet(S)
    PROVE  /\ Total(sz, S) \in Nat
           /\ S = {} => Total(sz, S) = 0
           /\ S # {} => Total(sz, S) = sz[One(S)] + Total(sz, S \ {One(S)})
<1>1. PICK f : Counts(f, sz, S) /\ Total(sz, S) = f[S]
  BY TotalDef DEF Counts
<1>2. S \in SUBSET S
  OBVIOUS
<1>3. f[S] \in Nat
  BY <1>1, <1>2, CountsAgree
<1>4. S = {} => f[S] = 0
  BY <1>1 DEF Counts
<1>5. ASSUME S # {} PROVE f[S] = sz[One(S)] + Total(sz, S \ {One(S)})
  <2>1. PICK T \in SUBSET S : T = S \ {One(S)}
    OBVIOUS
  <2>2. T \in SUBSET Item /\ IsFiniteSet(T) /\ T \in SUBSET T
    BY FS_Subset
  <2>3. PICK g : Counts(g, sz, T) /\ Total(sz, T) = g[T]
    BY <2>2, TotalDef DEF Counts
  <2>4. f[T] = g[T]
    BY <1>1, <2>2, <2>3, CountsAgree
  <2>5. f[S] = sz[One(S)] + f[T]
    BY <1>1, <1>2, <1>5, <2>1 DEF Counts
  <2>6. QED
    BY <2>1, <2>3, <2>4, <2>5
<1>6. QED
  BY <1>1, <1>3, <1>4, <1>5

\* Whichever item is counted last, the total is the same: sizes are added, in
\* any order.
LEMMA TotalOfAny ==
    ASSUME NEW sz \in [Item -> Nat], NEW S \in SUBSET Item, IsFiniteSet(S), NEW k \in S
    PROVE  Total(sz, S) = sz[k] + Total(sz, S \ {k})
<1> DEFINE AnyItem(n) == \A U \in SUBSET S : \A x \in U :
                           Cardinality(U) <= n => Total(sz, U) = sz[x] + Total(sz, U \ {x})
           M == {n \in Nat : AnyItem(n)}
<1>1. ASSUME NEW U \in SUBSET S
      PROVE  /\ IsFiniteSet(U) /\ Cardinality(U) \in Nat /\ U \in SUBSET Item
             /\ Total(sz, U) \in Nat /\ \A x \in U : sz[x] \in Nat
  <2>1. IsFiniteSet(U) /\ U \in SUBSET Item
    BY FS_Subset
  <2>2. QED
    BY <2>1, FS_CardinalityType, TotalOfOne
<1>2. 0 \in M
  <2> SUFFICES ASSUME NEW U \in SUBSET S, NEW x \in U, Cardinality(U) <= 0 PROVE FALSE
    OBVIOUS
  <2>1. Cardinality(U) = 0
    BY <1>1
  <2>2. QED
    BY <1>1, <2>1, FS_EmptySet
<1>3. ASSUME NEW n \in M PROVE n + 1 \in M
  <2> SUFFICES ASSUME NEW U \in SUBSET S, NEW x \in U, Cardinality(U) <= n + 1
               PROVE  Total(sz, U) = sz[x] + Total(sz, U \ {x})
    OBVIOUS
  <2>1. n \in Nat /\ AnyItem(n)
    OBVIOUS
  <2> HIDE DEF M
  <2>2. PICK y \in U : y = One(U)
    BY <1>1, TakeOne
  <2>3. Total(sz, U) = sz[y] + Total(sz, U \ {y})
    BY <1>1, <2>2, TotalOfOne
  <2>4. CASE x = y
    BY <2>3, <2>4
  <2>5. CASE x # y
    <3>1. PICK V \in SUBSET S : V = U \ {y}
      OBVIOUS
    <3>2. PICK W \in SUBSET S : W = U \ {x}
      OBVIOUS
    <3>3. PICK Z \in SUBSET S : Z = V \ {x} /\ Z = W \ {y}
      BY <3>1, <3>2
    <3>4. x \in V /\ y \in W
      BY <2>5, <3>1, <3>2
    <3>5. Cardinality(V) <= n /\ Cardinality(W) <= n
      <4>1. Cardinality(U \ {x}) = Cardinality(U) - 1 /\ Cardinality(U \ {y}) = Cardinality(U) - 1
        BY <1>1, FS_RemoveElement
      <4>2. QED
        BY <1>1, <2>1, <3>1, <3>2, <4>1
    <3>6. Total(sz, V) = sz[x] + Total(sz, Z)
      BY <2>1, <3>3, <3>4, <3>5
    <3>7. Total(sz, W) = sz[y] + Total(sz, Z)
      BY <2>1, <3>3, <3>4, <3>5
    <3>8. /\ Total(sz, Z) \in Nat /\ sz[x] \in Nat /\ sz[y] \in Nat
          /\ Total(sz, U) = sz[y] + Total(sz, V)
      BY <1>1, <2>3, <3>1
    <3>9. Total(sz, U) = sz[x] + Total(sz, W)
      BY <3>6, <3>7, <3>8
    <3>10. QED
      BY <3>2, <3>9
  <2>6. QED
    BY <2>4, <2>5
<1>4. M = Nat
  <2>1. M \subseteq Nat
    OBVIOUS
  <2> HIDE DEF M
  <2>2. QED
    BY <1>2, <1>3, <2>1, InductionOnSets
<1>5. S \in SUBSET S
  OBVIOUS
<1>6. Cardinality(S) \in Nat /\ Cardinality(S) <= Cardinality(S)
  BY <1>1, <1>5
<1>7. AnyItem(Cardinality(S))
  <2>1. Cardinality(S) \in M
    BY <1>4, <1>6
  <2> HIDE DEF AnyItem
  <2>2. QED
    BY <2>1
<1>8. QED
  BY <1>5, <1>6, <1>7

\* One more item adds its size.
LEMMA TotalAdds ==
    ASSUME NEW sz \in [Item -> Nat], NEW S \in SUBSET Item, IsFiniteSet(S),
           NEW k \in Item \ S
    PROVE  /\ IsFiniteSet(S \cup {k})
           /\ Total(sz, S \cup {k}) = Total(sz, S) + sz[k]
           /\ Total(sz, {}) = 0 /\ Total(sz, S) \in Nat
<1>1. IsFiniteSet(S \cup {k}) /\ IsFiniteSet({})
  BY FS_AddElement, FS_EmptySet
<1>2. PICK T \in SUBSET Item : T = S \cup {k}
  OBVIOUS
<1>3. k \in T /\ T \ {k} = S /\ IsFiniteSet(T)
  BY <1>1, <1>2
<1>4. Total(sz, T) = sz[k] + Total(sz, S)
  BY <1>3, TotalOfAny
<1>5. Total(sz, S) \in Nat /\ Total(sz, {}) = 0 /\ sz[k] \in Nat
  BY <1>1, TotalOfOne
<1>6. QED
  BY <1>1, <1>2, <1>4, <1>5

\* The fields of a batch.
LEMMA BinFacts ==
    ASSUME NEW s \in Seq(Bin), NEW i \in 1 .. Len(s)
    PROVE  s[i] \in Bin /\ s[i].keys \subseteq Item /\ s[i].sizeBytes \in Nat
<1>1. s[i] \in Bin
  OBVIOUS
<1>2. QED
  BY <1>1 DEF Bin

\* An item goes into a batch that exists.
LEMMA PutStep ==
    ASSUME PackInv, NEW k \in Item, IsNext(k), phase = "packing", phase' = phase, size' = size,
           NEW i \in 1 .. Len(bins), Target(i, k), Put(k, i)
    PROVE  PackInv'
<1>1. /\ PackTypeOK /\ Partition /\ WithinCapacity /\ FirstFit /\ Decreasing /\ Counted
      /\ size[k] \in Nat /\ \A m \in Item : size[m] \in Nat
  BY SizesAssumption DEF PackInv, PackTypeOK
<1>2. k \in left /\ \A m \in left : size[m] <= size[k]
  BY DEF IsNext
<1>3. bins[i] \in Bin /\ bins[i].keys \subseteq Item /\ bins[i].sizeBytes \in Nat
  BY <1>1, BinFacts DEF PackTypeOK
<1>4. PICK b : b = [keys |-> bins[i].keys \cup {k}, sizeBytes |-> bins[i].sizeBytes + size[k]]
  OBVIOUS
<1>5. /\ b \in Bin /\ b.keys = bins[i].keys \cup {k}
      /\ b.sizeBytes = bins[i].sizeBytes + size[k]
  BY <1>1, <1>3, <1>4 DEF Bin
<1>6. bins' = [bins EXCEPT ![i] = b] /\ left' = left \ {k}
  BY <1>4 DEF Put
<1>7. /\ bins' \in Seq(Bin) /\ Len(bins') = Len(bins)
      /\ bins'[i] = b /\ \A j \in 1 .. Len(bins) : j # i => bins'[j] = bins[j]
  BY <1>1, <1>5, <1>6 DEF PackTypeOK
<1>8. \A j \in 1 .. Len(bins) :
        /\ bins[j].sizeBytes \in Nat /\ bins'[j].sizeBytes \in Nat
        /\ bins[j].sizeBytes <= bins'[j].sizeBytes
  <2> SUFFICES ASSUME NEW j \in 1 .. Len(bins)
               PROVE  /\ bins[j].sizeBytes \in Nat /\ bins'[j].sizeBytes \in Nat
                      /\ bins[j].sizeBytes <= bins'[j].sizeBytes
    OBVIOUS
  <2>1. bins[j].sizeBytes \in Nat
    BY <1>1, BinFacts DEF PackTypeOK
  <2>2. QED
    BY <1>1, <1>3, <1>5, <1>7, <2>1
<1>9. bins[i].sizeBytes + size[k] <= Capacity
      /\ \A j \in 1 .. (i - 1) : ~(bins[j].sizeBytes + size[k] <= Capacity)
  BY DEF Target, HasRoom
<1>10. PackTypeOK'
  BY <1>1, <1>6, <1>7 DEF PackTypeOK
<1>11. Partition'
  <2>1. \A m \in Item : m \in left' \/ \E j \in 1 .. Len(bins') : m \in bins'[j].keys
    BY <1>1, <1>5, <1>6, <1>7 DEF Partition
  <2>2. \A j \in 1 .. Len(bins') : bins'[j].keys \cap left' = {}
    BY <1>1, <1>5, <1>6, <1>7 DEF Partition
  <2>3. \A j, l \in 1 .. Len(bins') : j # l => bins'[j].keys \cap bins'[l].keys = {}
    BY <1>1, <1>2, <1>5, <1>7 DEF Partition
  <2>4. QED
    BY <2>1, <2>2, <2>3 DEF Partition
<1>12. WithinCapacity' /\ Counted'
  <2>1. /\ size \in [Item -> Nat] /\ bins[i].keys \in SUBSET Item
        /\ IsFiniteSet(bins[i].keys) /\ k \in Item \ bins[i].keys
    BY <1>1, <1>2, <1>3, SizesAssumption DEF Counted, Partition, PackTypeOK
  <2>2. IsFiniteSet(b.keys) /\ Total(size, b.keys) = Total(size, bins[i].keys) + size[k]
    BY <1>5, <2>1, TotalAdds
  <2>3. b.sizeBytes = Total(size, b.keys) /\ b.sizeBytes <= Capacity
    BY <1>1, <1>5, <1>9, <2>2 DEF WithinCapacity
  <2>4. WithinCapacity'
    BY <1>1, <1>7, <2>3 DEF WithinCapacity
  <2>5. b.keys # {} /\ \A m \in b.keys : size[m] <= b.sizeBytes
    BY <1>1, <1>3, <1>5 DEF Counted
  <2>6. Counted'
    BY <1>1, <1>7, <2>2, <2>5 DEF Counted
  <2>7. QED
    BY <2>4, <2>6
<1>13. Decreasing'
  BY <1>1, <1>2, <1>5, <1>6, <1>7 DEF Decreasing
<1>14. FirstFit'
  <2> SUFFICES ASSUME NEW j \in 1 .. Len(bins'), NEW l \in 1 .. Len(bins'), j < l
               PROVE  /\ \A m \in bins'[l].keys : bins'[j].sizeBytes + size'[m] > Capacity
                      /\ bins'[j].sizeBytes + bins'[l].sizeBytes > Capacity
    BY DEF FirstFit
  <2>1. j \in 1 .. Len(bins) /\ l \in 1 .. Len(bins)
    BY <1>7
  <2>2. /\ \A m \in bins[l].keys : bins[j].sizeBytes + size[m] > Capacity
        /\ bins[j].sizeBytes + bins[l].sizeBytes > Capacity
    BY <1>1, <2>1 DEF FirstFit
  <2>3. bins[l].keys \subseteq Item
    BY <1>1, <2>1, BinFacts DEF PackTypeOK
  <2>4. PICK x \in Nat, v \in Nat :
           x = bins[j].sizeBytes /\ v = bins'[j].sizeBytes /\ x <= v
    BY <1>8, <2>1
  <2>5. PICK y \in Nat, w \in Nat :
           y = bins[l].sizeBytes /\ w = bins'[l].sizeBytes /\ y <= w
    BY <1>8, <2>1
  <2>6. x <= v /\ y <= w
    BY <2>4, <2>5
  <2>7. \A m \in bins[l].keys : bins'[j].sizeBytes + size[m] > Capacity
    <3> SUFFICES ASSUME NEW m \in bins[l].keys
                 PROVE  bins'[j].sizeBytes + size[m] > Capacity
      OBVIOUS
    <3>1. PICK z \in Nat : z = size[m]
      BY <1>1, <2>3
    <3>2. x + z > Capacity
      BY <2>2, <2>4, <3>1
    <3>3. v + z > Capacity
      BY <2>6, <3>2, CapacityAssumption
    <3>4. QED
      BY <2>4, <3>1, <3>3
  <2>8. bins'[j].sizeBytes + bins'[l].sizeBytes > Capacity
    <3>1. x + y > Capacity
      BY <2>2, <2>4, <2>5
    <3>2. v + w > Capacity
      BY <2>6, <3>1, CapacityAssumption
    <3>3. QED
      BY <2>4, <2>5, <3>2
  <2>9. CASE l # i
    BY <1>7, <2>1, <2>7, <2>8, <2>9
  <2>10. CASE l = i
    <3>1. j \in 1 .. (i - 1)
      BY <2>1, <2>10
    <3>2. PICK z \in Nat : z = size[k]
      BY <1>1
    <3>3. ~(x + z <= Capacity)
      BY <1>9, <2>4, <3>1, <3>2
    <3>4. v + z > Capacity
      BY <2>6, <3>3, CapacityAssumption
    <3>5. bins'[j].sizeBytes + size[k] > Capacity
      BY <2>4, <3>2, <3>4
    <3>6. QED
      BY <1>5, <1>7, <2>7, <2>8, <2>10, <3>5
  <2>11. QED
    BY <2>9, <2>10
<1>15. ThrowsAtOnce'
  BY DEF ThrowsAtOnce
<1>16. QED
  BY <1>10, <1>11, <1>12, <1>13, <1>14, <1>15 DEF PackInv

\* An item goes into a batch of its own.
LEMMA NewBinStep ==
    ASSUME PackInv, NEW k \in Item, PutInNewBin(k)
    PROVE  PackInv'
<1>1. /\ PackTypeOK /\ Partition /\ WithinCapacity /\ FirstFit /\ Decreasing /\ Counted
      /\ size[k] \in Nat /\ \A m \in Item : size[m] \in Nat
  BY SizesAssumption DEF PackInv, PackTypeOK
<1>2. /\ k \in left /\ \A m \in left : size[m] <= size[k]
      /\ size[k] <= Capacity /\ phase = "packing" /\ phase' = phase /\ size' = size
      /\ left' = left \ {k}
      /\ \A i \in 1 .. Len(bins) : ~(bins[i].sizeBytes + size[k] <= Capacity)
  BY DEF PutInNewBin, IsNext, HasRoom
<1>3. PICK b : b = [keys |-> {k}, sizeBytes |-> size[k]]
  OBVIOUS
<1>4. b \in Bin /\ b.keys = {k} /\ b.sizeBytes = size[k]
  BY <1>1, <1>3 DEF Bin
<1>5. PICK n \in Nat : n = Len(bins)
  BY <1>1 DEF PackTypeOK
<1>6. bins' = Append(bins, b)
  BY <1>3 DEF PutInNewBin
<1>7. /\ bins' \in Seq(Bin) /\ Len(bins') = n + 1
      /\ bins'[n + 1] = b /\ \A j \in 1 .. n : bins'[j] = bins[j]
  BY <1>1, <1>4, <1>5, <1>6 DEF PackTypeOK
<1>8. PackTypeOK'
  BY <1>1, <1>2, <1>7 DEF PackTypeOK
<1>9. \A j \in 1 .. Len(bins') : j \in 1 .. n \/ j = n + 1
  BY <1>5, <1>7
<1>10. Partition'
  <2>1. \A m \in Item : m \in left' \/ \E j \in 1 .. Len(bins') : m \in bins'[j].keys
    <3>1. \A m \in Item : m \in left \/ \E j \in 1 .. n : m \in bins'[j].keys
      BY <1>1, <1>5, <1>7 DEF Partition
    <3>2. 1 .. n \subseteq 1 .. Len(bins') /\ n + 1 \in 1 .. Len(bins')
      BY <1>5, <1>7
    <3>3. QED
      BY <1>2, <1>4, <1>7, <3>1, <3>2
  <2>2. \A j \in 1 .. Len(bins') : bins'[j].keys \cap left' = {}
    BY <1>1, <1>2, <1>4, <1>5, <1>7, <1>9 DEF Partition
  <2>3. \A j, l \in 1 .. Len(bins') : j # l => bins'[j].keys \cap bins'[l].keys = {}
    BY <1>1, <1>2, <1>4, <1>5, <1>7, <1>9 DEF Partition
  <2>4. QED
    BY <2>1, <2>2, <2>3 DEF Partition
<1>11. WithinCapacity' /\ Counted'
  <2>1. IsFiniteSet({}) /\ {} \in SUBSET Item /\ k \in Item \ {} /\ {} \cup {k} = {k}
    BY FS_EmptySet
  <2>2. size \in [Item -> Nat]
    BY <1>1, SizesAssumption DEF PackTypeOK
  <2>3. IsFiniteSet({k}) /\ Total(size, {k}) = 0 + size[k]
    BY <2>1, <2>2, TotalAdds
  <2>4. IsFiniteSet(b.keys) /\ b.sizeBytes = Total(size, b.keys)
    BY <1>1, <1>4, <2>3
  <2>5. \A j \in 1 .. Len(bins') : j = n + 1 => bins'[j] = b
    BY <1>7
  <2>6. \A j \in 1 .. Len(bins') : j # n + 1 => j \in 1 .. Len(bins) /\ bins'[j] = bins[j]
    BY <1>5, <1>7, <1>9
  <2>7. WithinCapacity'
    BY <1>1, <1>2, <1>4, <2>4, <2>5, <2>6 DEF WithinCapacity
  <2>8. Counted'
    BY <1>1, <1>2, <1>4, <2>4, <2>5, <2>6 DEF Counted
  <2>9. QED
    BY <2>7, <2>8
<1>12. Decreasing'
  BY <1>1, <1>2, <1>4, <1>5, <1>7, <1>9 DEF Decreasing
<1>13. FirstFit'
  <2> SUFFICES ASSUME NEW j \in 1 .. Len(bins'), NEW l \in 1 .. Len(bins'), j < l
               PROVE  /\ \A m \in bins'[l].keys : bins'[j].sizeBytes + size'[m] > Capacity
                      /\ bins'[j].sizeBytes + bins'[l].sizeBytes > Capacity
    BY DEF FirstFit
  <2>1. j \in 1 .. n
    BY <1>5, <1>7
  <2>2. bins'[j] = bins[j] /\ bins[j].sizeBytes \in Nat
    BY <1>1, <1>5, <1>7, <2>1, BinFacts DEF PackTypeOK
  <2>3. CASE l \in 1 .. n
    BY <1>1, <1>2, <1>5, <1>7, <2>1, <2>3 DEF FirstFit
  <2>4. CASE l = n + 1
    BY <1>1, <1>2, <1>4, <1>5, <1>7, <2>1, <2>2, <2>4, CapacityAssumption
  <2>5. QED
    BY <1>9, <2>3, <2>4
<1>14. ThrowsAtOnce'
  BY <1>2 DEF ThrowsAtOnce
<1>15. QED
  BY <1>8, <1>10, <1>11, <1>12, <1>13, <1>14 DEF PackInv

\* The largest item is too large, so nothing is packed yet.
LEMMA TooLargeStep ==
    ASSUME PackInv, NEW k \in Item, TooLarge(k)
    PROVE  PackInv'
<1>1. /\ PackTypeOK /\ WithinCapacity /\ Decreasing /\ Counted
      /\ \A m \in Item : size[m] \in Nat
  BY SizesAssumption DEF PackInv, PackTypeOK
<1>2. k \in left /\ size[k] > Capacity /\ phase' = "thrown" /\ UNCHANGED <<size, left, bins>>
  BY DEF TooLarge, IsNext
<1>3. \A i \in 1 .. Len(bins) : FALSE
  <2> SUFFICES ASSUME NEW i \in 1 .. Len(bins) PROVE FALSE
    OBVIOUS
  <2>1. bins[i] \in Bin
    BY <1>1 DEF PackTypeOK
  <2>2. PICK m \in Item : m \in bins[i].keys
    BY <1>1, <2>1 DEF Counted, Bin
  <2>3. size[k] <= size[m] /\ size[m] <= bins[i].sizeBytes /\ bins[i].sizeBytes <= Capacity
    BY <1>1, <1>2, <2>2 DEF Decreasing, Counted, WithinCapacity
  <2>4. bins[i].sizeBytes \in Nat
    BY <2>1 DEF Bin
  <2>5. QED
    BY <1>1, <1>2, <2>2, <2>3, <2>4, CapacityAssumption
<1>4. bins = <<>>
  BY <1>1, <1>3 DEF PackTypeOK
<1>5. ThrowsAtOnce'
  BY <1>2, <1>4 DEF ThrowsAtOnce
<1>6. QED
  BY <1>2, <1>5 DEF PackInv, PackTypeOK, Partition, WithinCapacity, FirstFit, Decreasing, Counted

----------------------------------------------------------------------------
LEMMA PackInitInv == PackInit => PackInv
BY SizesAssumption
   DEF PackInit, PackInv, PackTypeOK, Partition, WithinCapacity, FirstFit, ThrowsAtOnce,
       Decreasing, Counted

LEMMA PackStepInv == PackInv /\ [PackNext]_packVars => PackInv'
<1> SUFFICES ASSUME PackInv, [PackNext]_packVars PROVE PackInv'
  OBVIOUS
<1>1. CASE UNCHANGED packVars
  BY <1>1 DEF packVars, PackInv, PackTypeOK, Partition, WithinCapacity, FirstFit, ThrowsAtOnce,
              Decreasing, Counted
<1>2. CASE Return
  BY <1>2 DEF Return, PackInv, PackTypeOK, Partition, WithinCapacity, FirstFit, ThrowsAtOnce,
              Decreasing, Counted
<1>3. ASSUME NEW k \in Item, TooLarge(k) PROVE PackInv'
  BY <1>3, TooLargeStep
<1>4. ASSUME NEW k \in Item, PutInTarget(k) PROVE PackInv'
  BY <1>4, PutStep DEF PutInTarget
<1>5. ASSUME NEW k \in Item, PutInNewBin(k) PROVE PackInv'
  BY <1>5, NewBinStep
<1>6. QED
  BY <1>1, <1>2, <1>3, <1>4, <1>5 DEF PackNext

\* The inductive invariant holds for any keychains, sizes and limit.
THEOREM PackInvariance == PackSpec => []PackInv
BY PackInitInv, PackStepInv, PTL DEF PackSpec

\* Every variable has its type.
THEOREM PackTypeCorrect == PackSpec => []PackTypeOK
<1>1. PackInv => PackTypeOK
  BY DEF PackInv
<1>2. QED
  BY PackInvariance, <1>1, PTL

\* Every keychain is still to be packed or in one batch of packKeychainsFFD.
THEOREM PacksEverythingOnce == PackSpec => []Partition
<1>1. PackInv => Partition
  BY DEF PackInv
<1>2. QED
  BY PackInvariance, <1>1, PTL

\* No batch of packKeychainsFFD is above the limit that it counts to.
THEOREM PacksWithinCapacity == PackSpec => []WithinCapacity
<1>1. PackInv => WithinCapacity
  BY DEF PackInv
<1>2. QED
  BY PackInvariance, <1>1, PTL

\* No keychain could have gone to an earlier batch.
THEOREM PacksFirstFit == PackSpec => []FirstFit
<1>1. PackInv => FirstFit
  BY DEF PackInv
<1>2. QED
  BY PackInvariance, <1>1, PTL

\* A keychain that is too large stops the packing before the first batch.
THEOREM ThrowsBeforeABatch == PackSpec => []ThrowsAtOnce
<1>1. PackInv => ThrowsAtOnce
  BY DEF PackInv
<1>2. QED
  BY PackInvariance, <1>1, PTL

============================================================================
