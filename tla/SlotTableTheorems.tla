------------------------ MODULE SlotTableTheorems ------------------------
(* What the scans and the removal of SlotTable find and preserve, for      *)
(* arrays of any size.                                                     *)
EXTENDS SlotTable, WellFoundedInduction, TLAPS

\* The order on the naturals, as a relation the library calls well-founded.
Precedes == {ss \in Nat \X Nat : ss[1] < ss[2]}

\* No descending chain of naturals: the fact behind every "first slot such that".
LEMMA PrecedesWellFounded == IsWellFoundedOn(Precedes, Nat)
<1>1. Precedes = OpToRel(<, Nat)
  BY Zenon DEF Precedes, OpToRel
<1> QED
  BY <1>1, NatLessThanWellFounded, Zenon

\* A set of slots that is not empty has a first one.
LEMMA MinOfSlots ==
  ASSUME NEW S \in SUBSET Nat, S # {}
  PROVE  Min(S) \in S /\ \A j \in S : Min(S) <= j
<1>1. \E i \in S : \A j \in S : ~ (<<j, i>> \in Precedes)
  BY PrecedesWellFounded, WFMin
<1>2. PICK i \in S : \A j \in S : ~ (<<j, i>> \in Precedes)
  BY <1>1
<1>3. ASSUME NEW j \in S PROVE i <= j
  <2>1. i \in Nat /\ j \in Nat
    OBVIOUS
  <2>2. <<j, i>> \in Nat \X Nat /\ <<j, i>> \notin Precedes
    BY <1>2, <2>1
  <2>3. ~ (j < i)
    BY <2>2 DEF Precedes
  <2> QED
    BY <2>1, <2>3
<1> QED
  BY <1>3 DEF Min

\* A set of slots of an array that is not empty has a last one.
LEMMA MaxOfSlots ==
  ASSUME NEW n \in Nat, NEW S \in SUBSET (0 .. n - 1), S # {}
  PROVE  Max(S) \in S /\ \A j \in S : j <= Max(S)
<1> DEFINE T == {n - 1 - i : i \in S}
<1>1. T \in SUBSET Nat /\ T # {}
  <2>1. \A i \in S : i \in 0 .. n - 1
    OBVIOUS
  <2>2. \A i \in S : n - 1 - i \in Nat
    BY <2>1
  <2> QED
    BY <2>2
<1>2. Min(T) \in T /\ \A j \in T : Min(T) <= j
  BY <1>1, MinOfSlots
<1>3. PICK m \in S : Min(T) = n - 1 - m
  BY <1>2
<1>4. ASSUME NEW j \in S PROVE j <= m
  <2>1. n - 1 - m <= n - 1 - j
    BY <1>2, <1>3
  <2>2. m \in Nat /\ j \in Nat
    OBVIOUS
  <2> QED
    BY <2>1, <2>2
<1>5. \E x \in S : \A y \in S : x >= y
  BY <1>4
<1>6. Max(S) \in S /\ \A y \in S : Max(S) >= y
  BY <1>5 DEF Max
<1> QED
  BY <1>6

\* In a table that is not full the scan sees exactly the slots before the
\* first empty one.
LEMMA FirstFreeSlot ==
  ASSUME NEW n \in Nat, NEW keys, DOMAIN keys = 0 .. n - 1, ~IsFull(keys)
  PROVE  /\ FirstFree(keys) \in 0 .. n - 1
         /\ keys[FirstFree(keys)] = NoPid
         /\ Scanned(keys) = 0 .. FirstFree(keys) - 1
         /\ \A i \in Scanned(keys) : keys[i] # NoPid
<1>1. FreeSlots(keys) \in SUBSET Nat /\ FreeSlots(keys) # {}
  BY DEF FreeSlots, IsFull
<1>2. /\ FirstFree(keys) \in FreeSlots(keys)
      /\ \A j \in FreeSlots(keys) : FirstFree(keys) <= j
  BY <1>1, MinOfSlots DEF FirstFree
<1>3. FirstFree(keys) \in 0 .. n - 1 /\ keys[FirstFree(keys)] = NoPid
  BY <1>2 DEF FreeSlots
<1>4. Scanned(keys) = 0 .. FirstFree(keys) - 1
  <2>1. ASSUME NEW i \in Scanned(keys) PROVE i \in 0 .. FirstFree(keys) - 1
    BY <1>2, <1>3 DEF Scanned
  <2>2. ASSUME NEW i \in 0 .. FirstFree(keys) - 1 PROVE i \in Scanned(keys)
    <3>1. i \in 0 .. n - 1
      BY <1>3
    <3>2. \A j \in FreeSlots(keys) : i < j
      BY <1>1, <1>2, <1>3
    <3> QED
      BY <3>1, <3>2 DEF Scanned
  <2> QED
    BY <2>1, <2>2
<1>5. \A i \in Scanned(keys) : keys[i] # NoPid
  BY DEF Scanned, FreeSlots
<1> QED
  BY <1>3, <1>4, <1>5

\* A scan that finds a pid ends, first or last hit, on a slot that holds it.
LEMMA HitSlot ==
  ASSUME NEW n \in Nat, NEW keys, DOMAIN keys = 0 .. n - 1,
         NEW p, Finds(keys, p)
  PROVE  /\ FirstHit(keys, p) \in 0 .. n - 1 /\ keys[FirstHit(keys, p)] = p
         /\ LastHit(keys, p) \in 0 .. n - 1 /\ keys[LastHit(keys, p)] = p
         /\ LastHit(keys, p) \in Scanned(keys)
         /\ p # NoPid
<1>1. /\ Hits(keys, p) \in SUBSET (0 .. n - 1)
      /\ Hits(keys, p) \in SUBSET Nat
      /\ Hits(keys, p) # {}
  BY DEF Hits, Scanned, Finds
<1>2. FirstHit(keys, p) \in Hits(keys, p)
  BY <1>1, MinOfSlots DEF FirstHit
<1>3. LastHit(keys, p) \in Hits(keys, p)
  BY <1>1, MaxOfSlots DEF LastHit
<1>4. p # NoPid
  BY <1>1, <1>2 DEF Hits, Scanned, FreeSlots
<1> QED
  BY <1>1, <1>2, <1>3, <1>4 DEF Hits

\* The two slots a removal touches are occupied, the last one not before the
\* hole.
LEMMA RemovalSlots ==
  ASSUME NEW n \in Nat, NEW keys, DOMAIN keys = 0 .. n - 1,
         NEW p, CanRemove(keys, p)
  PROVE  /\ FirstFree(keys) - 1 \in 0 .. n - 1
         /\ keys[FirstFree(keys) - 1] # NoPid
         /\ LastHit(keys, p) \in 0 .. FirstFree(keys) - 1
         /\ keys[LastHit(keys, p)] = p /\ p # NoPid
<1>1. Finds(keys, p) /\ ~IsFull(keys)
  BY DEF CanRemove
<1>2. /\ FirstFree(keys) \in 0 .. n - 1
      /\ Scanned(keys) = 0 .. FirstFree(keys) - 1
      /\ \A i \in Scanned(keys) : keys[i] # NoPid
  BY <1>1, FirstFreeSlot
<1>3. /\ LastHit(keys, p) \in Scanned(keys)
      /\ keys[LastHit(keys, p)] = p /\ p # NoPid
  BY <1>1, HitSlot
<1>4. FirstFree(keys) - 1 \in Scanned(keys)
  BY <1>2, <1>3
<1> QED
  BY <1>2, <1>3, <1>4

\* Every entry of the table after a removal is the empty one or was there
\* before: nothing is made up.
LEMMA SwapOutEntries ==
  ASSUME NEW n \in Nat, NEW keys, DOMAIN keys = 0 .. n - 1,
         NEW p, CanRemove(keys, p), NEW empty,
         NEW table, DOMAIN table = 0 .. n - 1
  PROVE  /\ DOMAIN SwapOut(table, keys, p, empty) = 0 .. n - 1
         /\ \A i \in 0 .. n - 1 :
              SwapOut(table, keys, p, empty)[i] \in
                {empty} \cup {table[j] : j \in 0 .. n - 1}
<1>1. FirstFree(keys) - 1 \in 0 .. n - 1
  BY RemovalSlots
<1> QED
  BY <1>1 DEF SwapOut

\* Slots that were empty stay empty: a removal only shortens the table.
LEMMA SwapOutFree ==
  ASSUME NEW n \in Nat, NEW keys, DOMAIN keys = 0 .. n - 1,
         NEW p, CanRemove(keys, p),
         NEW i \in 0 .. n - 1, keys[i] = NoPid
  PROVE  i # LastHit(keys, p) /\ i # FirstFree(keys) - 1
<1> QED
  BY RemovalSlots

\* Removing a pid leaves a compact array without duplicates compact and without
\* duplicates.
LEMMA SwapOutWellFormed ==
  ASSUME NEW n \in Nat, NEW keys, DOMAIN keys = 0 .. n - 1,
         keys = [i \in 0 .. n - 1 |-> keys[i]],
         NEW p, CanRemove(keys, p), Compact(keys), Distinct(keys)
  PROVE  LET new == SwapOut(keys, keys, p, NoPid)
         IN  Compact(new) /\ Distinct(new)
<1> DEFINE h == LastHit(keys, p)
           last == FirstFree(keys) - 1
           new == SwapOut(keys, keys, p, NoPid)
<1>1. /\ last \in 0 .. n - 1 /\ h \in 0 .. last
      /\ keys[last] # NoPid /\ last + 1 = FirstFree(keys)
      /\ FirstFree(keys) \in 0 .. n - 1 /\ keys[FirstFree(keys)] = NoPid
  BY RemovalSlots, FirstFreeSlot DEF CanRemove
<1>2. DOMAIN new = 0 .. n - 1
  BY DEF SwapOut
<1>3. \A i \in 0 .. n - 1 :
        new[i] = IF i = last THEN NoPid ELSE IF i = h THEN keys[last] ELSE keys[i]
  BY <1>1 DEF SwapOut
<1>4. \A i \in 0 .. n - 1 : keys[i] # NoPid <=> i <= last
  <2>1. \A i \in 0 .. n - 1 : keys[i] # NoPid => i <= last
    BY <1>1 DEF Compact
  <2>2. \A i \in 0 .. n - 1 : i <= last => keys[i] # NoPid
    <3>1. Scanned(keys) = 0 .. last
      BY <1>1, FirstFreeSlot DEF CanRemove
    <3> QED
      BY <3>1, FirstFreeSlot DEF CanRemove
  <2> QED
    BY <2>1, <2>2
<1> HIDE DEF new, h, last
<1>5. Compact(new)
  <2>1. ASSUME NEW i \in 0 .. n - 1 PROVE new[i] # NoPid <=> i < last
    <3>1. CASE i = last
      BY <1>1, <1>3, <3>1
    <3>2. CASE i # last /\ i = h
      BY <1>1, <1>3, <3>2
    <3>3. CASE i # last /\ i # h
      BY <1>1, <1>3, <1>4, <3>3
    <3> QED
      BY <3>1, <3>2, <3>3
  <2>2. ASSUME NEW i \in 0 .. n - 1, NEW j \in 0 .. n - 1,
               new[i] # NoPid, new[j] = NoPid
        PROVE  i < j
    <3>1. i < last /\ ~ (j < last)
      BY <2>1, <2>2
    <3> QED
      BY <1>1, <3>1
  <2> QED
    BY <1>2, <2>2 DEF Compact
<1>6. Distinct(new)
  <2> SUFFICES ASSUME NEW i \in 0 .. n - 1, NEW j \in 0 .. n - 1,
                      new[i] = new[j], new[i] # NoPid
               PROVE  i = j
    BY <1>2 DEF Distinct
  <2>1. i # last /\ j # last
    BY <1>3
  <2> QED
    BY <1>1, <1>3, <2>1 DEF Distinct
<1> QED
  BY <1>5, <1>6 DEF new

\* Filling the first empty slot with a new pid keeps the array compact and
\* without duplicates.
LEMMA AppendWellFormed ==
  ASSUME NEW n \in Nat, NEW keys, DOMAIN keys = 0 .. n - 1,
         ~IsFull(keys), Compact(keys), Distinct(keys),
         NEW p, p # NoPid, \A i \in 0 .. n - 1 : keys[i] # p
  PROVE  LET new == [keys EXCEPT ![FirstFree(keys)] = p]
         IN  Compact(new) /\ Distinct(new)
<1> DEFINE f == FirstFree(keys)
           new == [keys EXCEPT ![f] = p]
<1>1. /\ f \in 0 .. n - 1 /\ keys[f] = NoPid
      /\ Scanned(keys) = 0 .. f - 1
      /\ \A i \in Scanned(keys) : keys[i] # NoPid
  BY FirstFreeSlot
<1>2. \A i \in 0 .. n - 1 : keys[i] # NoPid <=> i < f
  BY <1>1 DEF Compact
<1>3. DOMAIN new = 0 .. n - 1
  OBVIOUS
<1>4. \A i \in 0 .. n - 1 : new[i] = IF i = f THEN p ELSE keys[i]
  BY <1>1
<1> HIDE DEF new, f
<1>5. Compact(new)
  BY <1>1, <1>2, <1>3, <1>4 DEF Compact
<1>6. Distinct(new)
  BY <1>1, <1>2, <1>3, <1>4 DEF Distinct
<1> QED
  BY <1>5, <1>6 DEF new, f
==========================================================================
