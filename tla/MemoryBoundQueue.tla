-------------------------- MODULE MemoryBoundQueue --------------------------
(***************************************************************************)
(* MemoryBoundLinkedBlockingQueue, step by step.  Its methods are          *)
(* synchronized, but the counter of the memory in use is raised before it  *)
(* is known whether the item fits and lowered again when it does not, and  *)
(* items are taken one by one: all of which other threads could see if     *)
(* they did not wait for the monitor.  The scheduler's shutdownNow may     *)
(* interrupt a thread that takes.                                          *)
(***************************************************************************)
EXTENDS Integers, Sequences, FiniteSets

CONSTANTS
  Item, Size, Bound, MaxTake,   \* as in BoundedQueue
  Thread,                       \* the emitting and the sending threads
  NoThread

ASSUME QueueAssumption ==
  /\ Size \in [Item -> Nat \ {0}]
  /\ Item # {} /\ Bound \in Nat /\ MaxTake \in Nat \ {0}
  /\ NoThread \notin Thread

VARIABLES
  queue,          \* the LinkedBlockingQueue
  currentMemory,  \* the AtomicLong
  monitor,        \* the thread inside a synchronized method, or NoThread
  pc,             \* where a thread is
  arg,            \* the item a thread offers
  sum,            \* what its addAndGet returned
  left,           \* how many items take(n) has still to take
  elements        \* those it has taken, the result of take(n)

vars == <<queue, currentMemory, monitor, pc, arg, sum, left, elements>>

TypeOK ==
  /\ queue \in Seq(Item)
  /\ currentMemory \in Int
  /\ monitor \in Thread \cup {NoThread}
  /\ pc \in [Thread -> {"idle", "offered", "taking", "taken"}]
  /\ arg \in [Thread -> Item]
  /\ sum \in [Thread -> Int]
  /\ left \in [Thread -> 0 .. MaxTake]
  /\ elements \in [Thread -> Seq(Item)]

Init ==
  /\ queue = <<>> /\ currentMemory = 0 /\ monitor = NoThread
  /\ pc = [t \in Thread |-> "idle"]
  /\ arg = [t \in Thread |-> CHOOSE x \in Item : TRUE]
  /\ sum = [t \in Thread |-> 0]
  /\ left = [t \in Thread |-> 0]
  /\ elements = [t \in Thread |-> <<>>]

-----------------------------------------------------------------------------
(* Entering and leaving a synchronized method.                             *)

(* Mutation: the method is not synchronized.                               *)
EnterUnsynchronized(t) == pc[t] = "idle" /\ monitor' = t

Enter(t) == monitor = NoThread /\ pc[t] = "idle" /\ monitor' = t
Leave(t) == monitor' = NoThread /\ pc' = [pc EXCEPT ![t] = "idle"]

(* offer: the size is added first ...                                      *)
Offer(t, x) ==
  /\ Enter(t)
  /\ currentMemory' = currentMemory + Size[x]
  /\ sum' = [sum EXCEPT ![t] = currentMemory + Size[x]]
  /\ arg' = [arg EXCEPT ![t] = x]
  /\ pc' = [pc EXCEPT ![t] = "offered"]
  /\ UNCHANGED <<queue, left, elements>>

(* Mutation: the bound is looked at one item too late.                     *)
EnqueueBelow(t) ==
  /\ pc[t] = "offered" /\ sum[t] - Size[arg[t]] <= Bound
  /\ queue' = Append(queue, arg[t])
  /\ Leave(t)
  /\ UNCHANGED <<currentMemory, arg, sum, left, elements>>

(* ... the item is queued if the sum is under the bound ...                *)
Enqueue(t) ==
  /\ pc[t] = "offered" /\ sum[t] <= Bound
  /\ queue' = Append(queue, arg[t])
  /\ Leave(t)
  /\ UNCHANGED <<currentMemory, arg, sum, left, elements>>

(* Mutation: the memory of a refused item stays taken.                     *)
RejectKept(t) ==
  /\ pc[t] = "offered" /\ sum[t] > Bound
  /\ Leave(t)
  /\ UNCHANGED <<queue, currentMemory, arg, sum, left, elements>>

(* ... and the size is subtracted again if not.                            *)
Reject(t) ==
  /\ pc[t] = "offered" /\ sum[t] > Bound
  /\ currentMemory' = currentMemory - Size[arg[t]]
  /\ Leave(t)
  /\ UNCHANGED <<queue, arg, sum, left, elements>>

(* Mutation: take(n) tries to take n items, however few there are.         *)
TakeAll(t, n) ==
  /\ Enter(t)
  /\ left' = [left EXCEPT ![t] = n]
  /\ elements' = [elements EXCEPT ![t] = <<>>]
  /\ pc' = [pc EXCEPT ![t] = "taking"]
  /\ UNCHANGED <<queue, currentMemory, arg, sum>>

(* take(n): how many items there are is read once.                         *)
Take(t, n) ==
  /\ Enter(t)
  /\ left' = [left EXCEPT ![t] = IF n > Len(queue) THEN Len(queue) ELSE n]
  /\ elements' = [elements EXCEPT ![t] = <<>>]
  /\ pc' = [pc EXCEPT ![t] = "taking"]
  /\ UNCHANGED <<queue, currentMemory, arg, sum>>

(* take(): LinkedBlockingQueue.take would wait for an item, monitor in hand. *)
TakeOne(t) ==
  /\ pc[t] = "taking" /\ left[t] > 0
  /\ queue # <<>>
  /\ queue' = Tail(queue)
  /\ elements' = [elements EXCEPT ![t] = Append(@, Head(queue))]
  /\ pc' = [pc EXCEPT ![t] = "taken"]
  /\ UNCHANGED <<currentMemory, monitor, arg, sum, left>>

Subtract(t) ==
  /\ pc[t] = "taken"
  /\ currentMemory' = currentMemory - Size[elements[t][Len(elements[t])]]
  /\ left' = [left EXCEPT ![t] = @ - 1]
  /\ pc' = [pc EXCEPT ![t] = "taking"]
  /\ UNCHANGED <<queue, monitor, arg, sum, elements>>

(* The elements are the caller's now.                                      *)
Return(t) ==
  /\ pc[t] = "taking" /\ left[t] = 0
  /\ elements' = [elements EXCEPT ![t] = <<>>]
  /\ Leave(t)
  /\ UNCHANGED <<queue, currentMemory, arg, sum, left>>

(* InterruptedException out of LinkedBlockingQueue.take: what was taken so *)
(* far is lost with the list.                                              *)
Interrupt(t) ==
  /\ pc[t] = "taking" /\ left[t] > 0
  /\ left' = [left EXCEPT ![t] = 0]
  /\ elements' = [elements EXCEPT ![t] = <<>>]
  /\ Leave(t)
  /\ UNCHANGED <<queue, currentMemory, arg, sum>>

ThreadNext(t) ==
  \/ \E x \in Item : Offer(t, x)
  \/ \E n \in 1 .. MaxTake : Take(t, n)
  \/ Enqueue(t) \/ Reject(t) \/ TakeOne(t) \/ Subtract(t) \/ Return(t) \/ Interrupt(t)

Next == \E t \in Thread : ThreadNext(t)

Spec == Init /\ [][Next]_vars
-----------------------------------------------------------------------------
(* The items a caller of the queue believes to be in it: those that a take *)
(* in progress has already removed are still there.                        *)
Contents ==
  IF \E t \in Thread : pc[t] \in {"taking", "taken"}
  THEN elements[CHOOSE t \in Thread : pc[t] \in {"taking", "taken"}] \o queue
  ELSE queue

Promise == INSTANCE BoundedQueue WITH items <- Contents

(* The queue does what it promises: no item over the bound, none out of    *)
(* order, none lost or duplicated but by the thread that took it.          *)
Implements == Promise!Spec

(* An item is refused only if it does not fit beside the items that are in *)
(* the queue: never because of what another thread adds and subtracts.     *)
RefusesOnlyWhenFull ==
  [][\A t \in Thread :
       pc[t] = "offered" /\ pc'[t] = "idle" /\ queue' = queue
         => Promise!Weight(queue) + Size[arg[t]] > Bound]_vars

(* The counter neither leaks nor drifts: it is the size of what is queued, *)
(* whenever no method is under way.                                        *)
MemoryExact ==
  monitor = NoThread => currentMemory = Promise!Weight(queue)

(* A take never waits for an item with the monitor in hand, which no offer *)
(* could enter to end the wait: the number of items read at its start is   *)
(* still there when it removes them.                                       *)
TakeFinds ==
  \A t \in Thread : pc[t] = "taking" => left[t] <= Len(queue)

(* Only the thread that holds the monitor is inside a method.              *)
OneInside ==
  \A t \in Thread : pc[t] # "idle" <=> monitor = t

(* Between the removal of an item and the subtraction of its size.         *)
TakenInv ==
  \A t \in Thread : pc[t] = "taken" =>
    /\ left[t] > 0 /\ left[t] - 1 <= Len(queue)
    /\ Len(elements[t]) > 0
=============================================================================
