--------------------------- MODULE KeychainPacking ---------------------------
(***************************************************************************)
(* BitGoAPI.packKeychainsFFD: the re-encrypted keychains of a password     *)
(* change are packed into batches, largest first, each into the first      *)
(* batch that has room.  One step is one turn of the loop.                 *)
(*                                                                         *)
(* A keychain is an element of Item, v1 and v2 alike: the two go to two    *)
(* maps of the same batch.                                                 *)
(***************************************************************************)
EXTENDS Integers, Sequences, FiniteSets

CONSTANTS
    Item,       \* the keychains to pack
    Sizes,      \* what the id and the value of a keychain may have of bytes
    Escape,     \* bytes that JSON adds to an entry: quotes, escapes, a comma
    Frame,      \* bytes of the request's body without entries
    Capacity    \* maxBatchSizeBytes

ASSUME SizesAssumption == Sizes \subseteq Nat
ASSUME EscapeAssumption == Escape \in Nat
ASSUME FrameAssumption == Frame \in Nat
ASSUME CapacityAssumption == Capacity \in Nat

VARIABLES
    size,   \* the input: entrySize of every item
    left,   \* the items that are not packed yet
    bins,   \* the batches
    phase

packVars == <<size, left, bins, phase>>

----------------------------------------------------------------------------
Bin == [keys : SUBSET Item, sizeBytes : Nat]

\* The item whose turn it is in the sorted array.
IsNext(k) == k \in left /\ \A m \in left : size[m] <= size[k]

\* Mutant of HasRoom: the size of the item is forgotten.
HasAnyRoom(i, k) == bins[i].sizeBytes < Capacity

HasRoom(i, k) == bins[i].sizeBytes + size[k] <= Capacity

\* Mutant of Target: the last batch with room.
TargetLast(i, k) == HasRoom(i, k) /\ \A j \in (i + 1) .. Len(bins) : ~HasRoom(j, k)

\* bins.find: the first batch with room.
Target(i, k) == HasRoom(i, k) /\ \A j \in 1 .. (i - 1) : ~HasRoom(j, k)

\* Mutant of Put: another item is taken off.
PutOther(k, i) ==
    /\ bins' = [bins EXCEPT ![i] = [keys |-> @.keys \cup {k}, sizeBytes |-> @.sizeBytes + size[k]]]
    /\ \E m \in left : left' = left \ {m}

Put(k, i) ==
    /\ bins' = [bins EXCEPT ![i] = [keys |-> @.keys \cup {k}, sizeBytes |-> @.sizeBytes + size[k]]]
    /\ left' = left \ {k}

\* Mutant of TooLarge: an item of exactly the limit throws.
TooLargeAtLimit(k) ==
    /\ phase = "packing" /\ IsNext(k) /\ size[k] >= Capacity
    /\ phase' = "thrown"
    /\ UNCHANGED <<size, left, bins>>

\* "exceeds the maximum batch size and cannot be processed".
TooLarge(k) ==
    /\ phase = "packing" /\ IsNext(k) /\ size[k] > Capacity
    /\ phase' = "thrown"
    /\ UNCHANGED <<size, left, bins>>

PutInTarget(k) ==
    /\ phase = "packing" /\ IsNext(k) /\ size[k] <= Capacity
    /\ \E i \in 1 .. Len(bins) : Target(i, k) /\ Put(k, i)
    /\ UNCHANGED <<size, phase>>

PutInNewBin(k) ==
    /\ phase = "packing" /\ IsNext(k) /\ size[k] <= Capacity
    /\ \A i \in 1 .. Len(bins) : ~HasRoom(i, k)
    /\ bins' = Append(bins, [keys |-> {k}, sizeBytes |-> size[k]])
    /\ left' = left \ {k}
    /\ UNCHANGED <<size, phase>>

Return ==
    /\ phase = "packing" /\ left = {}
    /\ phase' = "packed"
    /\ UNCHANGED <<size, left, bins>>

----------------------------------------------------------------------------
PackInit == size \in [Item -> Sizes] /\ left = Item /\ bins = <<>> /\ phase = "packing"

PackNext == Return \/ \E k \in Item : TooLarge(k) \/ PutInTarget(k) \/ PutInNewBin(k)

PackSpec == PackInit /\ [][PackNext]_packVars

\* The loop is synchronous: it runs to its end.
FairPackSpec == PackSpec /\ WF_packVars(PackNext)

----------------------------------------------------------------------------
(* Properties *)

\* Every variable has its type.
PackTypeOK ==
    /\ size \in [Item -> Sizes]
    /\ left \subseteq Item
    /\ bins \in Seq(Bin)
    /\ phase \in {"packing", "packed", "thrown"}

\* Each item is in one place: still to be packed, or in one batch.
Partition ==
    /\ \A k \in Item : k \in left \/ \E i \in 1 .. Len(bins) : k \in bins[i].keys
    /\ \A i \in 1 .. Len(bins) : bins[i].keys \cap left = {}
    /\ \A i, j \in 1 .. Len(bins) : i # j => bins[i].keys \cap bins[j].keys = {}

\* The bytes of the items S, whose sizes are sz: one after the other.
One(S) == CHOOSE k \in S : TRUE
Total(sz, S) ==
    LET sum[T \in SUBSET S] == IF T = {} THEN 0 ELSE sz[One(T)] + sum[T \ {One(T)}]
    IN  sum[S]

\* What the loop counts for a batch is the size of all its items, and no batch
\* is larger than the limit.
WithinCapacity ==
    \A i \in 1 .. Len(bins) :
        /\ bins[i].sizeBytes = Total(size, bins[i].keys)
        /\ bins[i].sizeBytes <= Capacity

\* No item could have gone to an earlier batch, and no two batches could be
\* one, so at most one batch is filled to half or less.
FirstFit ==
    \A i, j \in 1 .. Len(bins) : i < j =>
        /\ \A k \in bins[j].keys : bins[i].sizeBytes + size[k] > Capacity
        /\ bins[i].sizeBytes + bins[j].sizeBytes > Capacity

\* It throws before the first batch is made, or not at all.
ThrowsAtOnce == phase = "thrown" => bins = <<>> /\ \E k \in Item : size[k] > Capacity

\* The inductive invariant: besides the above, the items come in decreasing
\* size, and a batch is finite and as large as any of its items.
Decreasing ==
    \A i \in 1 .. Len(bins) : \A k \in bins[i].keys, m \in left : size[m] <= size[k]
Counted ==
    \A i \in 1 .. Len(bins) :
        /\ bins[i].keys # {} /\ IsFiniteSet(bins[i].keys)
        /\ \A k \in bins[i].keys : size[k] <= bins[i].sizeBytes
PackInv ==
    /\ PackTypeOK /\ Partition /\ WithinCapacity /\ FirstFit /\ ThrowsAtOnce
    /\ Decreasing /\ Counted

\* The loop ends, with batches exactly if every item fits in one.
Ends ==
    <>IF \E k \in Item : size[k] > Capacity THEN phase = "thrown" ELSE phase = "packed" /\ left = {}

\* What the comment of processKeychainPasswordUpdatesInBatches says: "to ensure
\* no batch exceeds maxBatchSizeKB".  A batch is sent as the JSON of its maps.
Body(b) == Frame + Total(size, b.keys) + Escape * Cardinality(b.keys)
NoBatchExceedsMaxBatchSize ==
    phase = "packed" => \A i \in 1 .. Len(bins) : Body(bins[i]) <= Capacity

============================================================================
