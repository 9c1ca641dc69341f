---------------------------- MODULE BoundedQueue ----------------------------
(* What a MemoryBoundLinkedBlockingQueue promises its callers: a first-in  *)
(* first-out queue that takes an item exactly when it fits under the bound *)
(* on the total size, and from which several items are taken in one step.  *)
EXTENDS Naturals, Sequences

CONSTANTS
  Item,      \* what is queued, up to its size
  Size,      \* the size of every item (ObjectContainer.size)
  Bound,     \* memoryBound
  MaxTake    \* the largest number of items asked for at once

VARIABLE items

(* The size of the first n items of s, for every n, and that of all items. *)
Sums(s) ==
  LET sum[n \in 0 .. Len(s)] == IF n = 0 THEN 0 ELSE sum[n - 1] + Size[s[n]]
  IN  sum
Weight(s) == Sums(s)[Len(s)]

Fits(x)   == Weight(items) + Size[x] <= Bound

Init == items = <<>>

Accept(x) == Fits(x) /\ items' = Append(items, x)
Refuse(x) == ~Fits(x) /\ UNCHANGED items

(* The first n items, or all there are.                                    *)
Batch(n) == SubSeq(items, 1, IF n > Len(items) THEN Len(items) ELSE n)
Take(n)  == items' = SubSeq(items, Len(Batch(n)) + 1, Len(items))

Next ==
  \/ \E x \in Item : Accept(x) \/ Refuse(x)
  \/ \E n \in 1 .. MaxTake : Take(n)

Spec == Init /\ [][Next]_items
=============================================================================
