---------------------------- MODULE SlotTable ----------------------------
(* The two tables nhi keeps in BPF array maps, `shells` and `children`     *)
(* (daemon/src/nhi.bpf.c:11-23), are arrays in which a zero pid marks an   *)
(* empty slot.  Every program walks them from slot 0 and most stop at the  *)
(* first empty slot, so an entry behind a hole is never seen.  This module *)
(* holds the scans and the removal they share.  `keys` is the column of    *)
(* pids of such an array: a function from 0 .. n-1.                        *)
EXTENDS FiniteSetsExt

CONSTANT NoPid  \* the zero pid

FreeSlots(keys) == {i \in DOMAIN keys : keys[i] = NoPid}

IsFull(keys) == FreeSlots(keys) = {}

\* The slots a scan looks at before it stops at the first empty one.
Scanned(keys) == {i \in DOMAIN keys : \A j \in FreeSlots(keys) : i < j}

\* The slots at which such a scan meets the pid p.
Hits(keys, p) == {i \in Scanned(keys) : keys[i] = p}

Finds(keys, p) == Hits(keys, p) # {}

FirstFree(keys) == Min(FreeSlots(keys))
FirstHit(keys, p) == Min(Hits(keys, p))
LastHit(keys, p) == Max(Hits(keys, p))

\* A removal looks for the pid and for the first empty slot in one loop, and
\* moves nothing before it has met the empty slot: a full table loses nobody.
CanRemove(keys, p) == Finds(keys, p) /\ ~IsFull(keys)

\* A plausible slip in the removal: the last entry is moved but not zeroed.
SwapOutKeepingLast(table, keys, p, empty) ==
  [table EXCEPT ![LastHit(keys, p)] = table[FirstFree(keys) - 1]]

\* The last occupied slot moves into the hole and is zeroed.
SwapOut(table, keys, p, empty) ==
  LET last == FirstFree(keys) - 1
  IN  [table EXCEPT ![LastHit(keys, p)] = table[last], ![last] = empty]

\* No entry stands behind a hole.
Compact(keys) ==
  \A i, j \in DOMAIN keys : keys[i] # NoPid /\ keys[j] = NoPid => i < j

\* No pid occupies two slots.
Distinct(keys) ==
  \A i, j \in DOMAIN keys : keys[i] = keys[j] /\ keys[i] # NoPid => i = j
==========================================================================
