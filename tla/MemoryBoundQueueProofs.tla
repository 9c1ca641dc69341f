----------------------- MODULE MemoryBoundQueueProofs -----------------------
(* Theorems about MemoryBoundQueue, for every set of threads and items.    *)
EXTENDS MemoryBoundQueue, SequenceTheorems, WellFoundedInduction, TLAPS

IInv == TypeOK /\ OneInside /\ TakeFinds /\ TakenInv

LEMMA QueueInit == Init => IInv
BY QueueAssumption
   DEF Init, IInv, TypeOK, OneInside, TakeFinds, TakenInv

(* Every step of a thread keeps the types of the code.                     *)
LEMMA QueueType ==
  ASSUME TypeOK, TakenInv, TakeFinds, NEW t \in Thread, ThreadNext(t)
  PROVE  TypeOK'
<1> USE QueueAssumption DEF TypeOK
<1>1. ASSUME NEW x \in Item, Offer(t, x) PROVE TypeOK'
  BY <1>1 DEF Offer, Enter
<1>2. ASSUME NEW n \in 1 .. MaxTake, Take(t, n) PROVE TypeOK'
  <2>1. Len(queue) \in Nat
    OBVIOUS
  <2>2. (IF n > Len(queue) THEN Len(queue) ELSE n) \in 0 .. MaxTake
    BY <2>1
  <2>3. QED
    BY <1>2, <2>2 DEF Take, Enter
<1>3. CASE Enqueue(t)
  BY <1>3 DEF Enqueue, Leave
<1>4. CASE Reject(t)
  <2>1. currentMemory - Size[arg[t]] \in Int
    OBVIOUS
  <2>2. QED
    BY <1>4, <2>1 DEF Reject, Leave
<1>5. CASE TakeOne(t)
  <2>1. Tail(queue) \in Seq(Item) /\ Append(elements[t], Head(queue)) \in Seq(Item)
    BY <1>5 DEF TakeOne
  <2>2. QED
    BY <1>5, <2>1 DEF TakeOne
<1>6. CASE Subtract(t)
  <2>1. pc[t] = "taken"
    BY <1>6 DEF Subtract
  <2>2. elements[t] \in Seq(Item) /\ Len(elements[t]) > 0 /\ left[t] - 1 \in 0 .. MaxTake
    BY <2>1 DEF TakenInv
  <2>3. elements[t][Len(elements[t])] \in Item
    BY <2>2
  <2>4. currentMemory - Size[elements[t][Len(elements[t])]] \in Int
    BY <2>3
  <2>5. QED
    BY <1>6, <2>2, <2>4 DEF Subtract
<1>7. CASE Return(t) \/ Interrupt(t)
  <2>1. [elements EXCEPT ![t] = <<>>] \in [Thread -> Seq(Item)]
    <3>1. <<>> \in Seq(Item)
      OBVIOUS
    <3>2. QED
      BY <3>1
  <2>2. [left EXCEPT ![t] = 0] \in [Thread -> 0 .. MaxTake]
    OBVIOUS
  <2>3. elements' \in [Thread -> Seq(Item)] /\ left' \in [Thread -> 0 .. MaxTake]
    BY <1>7, <2>1, <2>2, Zenon DEF Return, Interrupt
  <2>4. QED
    BY <1>7, <2>3 DEF Return, Interrupt, Leave
<1>8. QED
  BY <1>1, <1>2, <1>3, <1>4, <1>5, <1>6, <1>7 DEF ThreadNext

(* A thread that finds itself inside is alone there.                       *)
LEMMA QueueMonitor ==
  ASSUME TypeOK, OneInside, NEW t \in Thread, ThreadNext(t)
  PROVE  OneInside'
<1> USE QueueAssumption DEF TypeOK, OneInside
<1>1. ASSUME NEW x \in Item, Offer(t, x) PROVE OneInside'
  BY <1>1 DEF Offer, Enter
<1>2. ASSUME NEW n \in 1 .. MaxTake, Take(t, n) PROVE OneInside'
  BY <1>2 DEF Take, Enter
<1>3. CASE Enqueue(t) \/ Reject(t) \/ Return(t) \/ Interrupt(t)
  BY <1>3 DEF Enqueue, Reject, Return, Interrupt, Leave
<1>4. CASE TakeOne(t) \/ Subtract(t)
  BY <1>4 DEF TakeOne, Subtract
<1>5. QED
  BY <1>1, <1>2, <1>3, <1>4 DEF ThreadNext

(* What a take has still to remove is in the queue: the others, who could  *)
(* remove it, are outside.                                                 *)
LEMMA QueueTake ==
  ASSUME TypeOK, OneInside, TakeFinds, TakenInv, NEW t \in Thread, ThreadNext(t)
  PROVE  TakeFinds' /\ TakenInv'
<1> USE QueueAssumption DEF TypeOK, OneInside, TakeFinds, TakenInv
<1>1. ASSUME NEW x \in Item, Offer(t, x) PROVE TakeFinds' /\ TakenInv'
  BY <1>1 DEF Offer, Enter
<1>2. ASSUME NEW n \in 1 .. MaxTake, Take(t, n) PROVE TakeFinds' /\ TakenInv'
  <2>1. Len(queue) \in Nat
    OBVIOUS
  <2>2. (IF n > Len(queue) THEN Len(queue) ELSE n) <= Len(queue)
    BY <2>1
  <2>3. QED
    BY <1>2, <2>2 DEF Take, Enter
<1>3. ASSUME NEW u \in Thread, u # t, pc[t] # "idle" PROVE pc[u] = "idle"
  BY <1>3
<1>4. CASE Enqueue(t) \/ Reject(t) \/ Return(t) \/ Interrupt(t)
  <2>1. /\ pc[t] # "idle" /\ pc' = [pc EXCEPT ![t] = "idle"]
    BY <1>4 DEF Enqueue, Reject, Return, Interrupt, Leave
  <2>2. \A u \in Thread : pc'[u] = "idle"
    BY <1>3, <2>1
  <2>3. QED
    BY <2>2
<1>5. CASE TakeOne(t)
  <2>1. /\ pc' = [pc EXCEPT ![t] = "taken"] /\ pc[t] = "taking"
        /\ left' = left /\ left[t] > 0
        /\ queue # <<>> /\ queue' = Tail(queue)
        /\ elements'[t] = Append(elements[t], Head(queue))
    BY <1>5 DEF TakeOne
  <2>2. Len(queue') = Len(queue) - 1 /\ Len(queue) \in Nat /\ Head(queue) \in Item
    BY <2>1
  <2>3. Len(elements'[t]) > 0
    <3>1. Len(Append(elements[t], Head(queue))) = Len(elements[t]) + 1
      BY <2>2
    <3>2. Len(elements[t]) \in Nat
      OBVIOUS
    <3>3. QED
      BY <2>1, <3>1, <3>2
  <2>4. left'[t] - 1 <= Len(queue')
    BY <2>1, <2>2
  <2>5. \A u \in Thread : u # t => pc'[u] = "idle"
    BY <1>3, <2>1
  <2>6. QED
    BY <2>1, <2>4, <2>5, <2>3
<1>6. CASE Subtract(t)
  <2>1. /\ pc' = [pc EXCEPT ![t] = "taking"] /\ pc[t] = "taken"
        /\ queue' = queue /\ left'[t] = left[t] - 1
    BY <1>6 DEF Subtract
  <2>2. \A u \in Thread : u # t => pc'[u] = "idle"
    BY <1>3, <2>1
  <2>3. QED
    BY <2>1, <2>2
<1>7. QED
  BY <1>1, <1>2, <1>4, <1>5, <1>6 DEF ThreadNext

LEMMA QueueStep == IInv /\ [Next]_vars => IInv'
<1> SUFFICES ASSUME IInv, [Next]_vars PROVE IInv'
  OBVIOUS
<1>1. CASE UNCHANGED vars
  BY <1>1 DEF vars, IInv, TypeOK, OneInside, TakeFinds, TakenInv
<1>2. CASE Next
  BY <1>2, QueueType, QueueMonitor, QueueTake DEF Next, IInv
<1>3. QED
  BY <1>1, <1>2

(* However many threads offer and take, no take waits for an item while it *)
(* keeps the others out.                                                   *)
THEOREM TakeNeverBlocks == Spec => []TakeFinds
<1>1. IInv => TakeFinds
  BY DEF IInv
<1>2. QED
  BY <1>1, QueueInit, QueueStep, PTL DEF Spec
-----------------------------------------------------------------------------
(* Induction over the numbers, from the least counterexample.              *)
LEMMA Everywhere ==
  ASSUME NEW S, 0 \in S, \A n \in Nat : n \in S => n + 1 \in S
  PROVE  Nat \subseteq S
<1> DEFINE T == {n \in Nat : n \notin S}
<1>1. SUFFICES ASSUME T # {} PROVE FALSE
  OBVIOUS
<1>2. PICK k \in T : \A j \in T : <<j, k>> \notin OpToRel(<, Nat)
  BY <1>1, NatLessThanWellFounded, WFMin
<1>3. \A j \in T : ~(j < k)
  BY <1>2 DEF OpToRel
<1>4. k \in Nat /\ k # 0
  OBVIOUS
<1>5. k - 1 \in Nat /\ k - 1 < k
  BY <1>4
<1>6. k - 1 \in S
  BY <1>3, <1>5
<1>7. QED
  BY <1>4, <1>5, <1>6

LEMMA UpTo ==
  ASSUME NEW m \in Nat, NEW S, 0 \in S, \A n \in 0 .. m - 1 : n \in S => n + 1 \in S
  PROVE  0 .. m \subseteq S
<1> DEFINE T == {n \in Nat : n <= m => n \in S}
<1>1. 0 \in T
  OBVIOUS
<1>2. \A n \in Nat : n \in T => n + 1 \in T
  OBVIOUS
<1>3. Nat \subseteq T
  <2> HIDE DEF T
  <2>1. QED
    BY <1>1, <1>2, Everywhere
<1>4. QED
  BY <1>3

-----------------------------------------------------------------------------
(* The recursive definition of the sums of a sequence has a solution.      *)
LEMMA SumsExist ==
  ASSUME NEW s \in Seq(Item)
  PROVE  \E f : f = [n \in 0 .. Len(s) |-> IF n = 0 THEN 0 ELSE f[n - 1] + Size[s[n]]]
<1> DEFINE Solves(f, m) == f = [n \in 0 .. m |-> IF n = 0 THEN 0 ELSE f[n - 1] + Size[s[n]]]
           S == {m \in 0 .. Len(s) : \E f : Solves(f, m)}
<1>0. Len(s) \in Nat
  OBVIOUS
<1>1. 0 \in S
  <2>1. Solves([n \in 0 .. 0 |-> 0], 0)
    OBVIOUS
  <2> HIDE DEF Solves
  <2>2. QED
    BY <1>0, <2>1
<1>2. ASSUME NEW m \in 0 .. Len(s) - 1, m \in S PROVE m + 1 \in S
  <2>1. PICK f : Solves(f, m)
    BY <1>2
  <2> DEFINE g == [n \in 0 .. m + 1 |-> IF n = m + 1 THEN f[m] + Size[s[m + 1]] ELSE f[n]]
  <2>2. ASSUME NEW n \in 0 .. m + 1
        PROVE  g[n] = IF n = 0 THEN 0 ELSE g[n - 1] + Size[s[n]]
    <3>1. CASE n = m + 1
      BY <3>1
    <3>2. CASE n # m + 1
      <4>1. n \in 0 .. m /\ (n # 0 => n - 1 \in 0 .. m + 1 /\ n - 1 # m + 1)
        BY <3>2
      <4>2. f[n] = IF n = 0 THEN 0 ELSE f[n - 1] + Size[s[n]]
        BY <2>1, <4>1
      <4>3. QED
        BY <4>1, <4>2
    <3>3. QED
      BY <3>1, <3>2
  <2>3. Solves(g, m + 1)
    BY <2>2
  <2> HIDE DEF Solves, g
  <2>4. QED
    BY <2>3, <1>0
<1>3. Len(s) \in S
  <2> HIDE DEF S
  <2>1. 0 .. Len(s) \subseteq S
    BY <1>0, <1>1, <1>2, UpTo
  <2>2. QED
    BY <1>0, <2>1
<1>4. QED
  BY <1>3

LEMMA SumsDefined ==
  ASSUME NEW s \in Seq(Item)
  PROVE  Promise!Sums(s) = [n \in 0 .. Len(s) |-> IF n = 0 THEN 0 ELSE Promise!Sums(s)[n - 1] + Size[s[n]]]
BY SumsExist DEF Promise!Sums

LEMMA SumsStep ==
  ASSUME NEW s \in Seq(Item)
  PROVE  /\ Promise!Sums(s)[0] = 0
         /\ \A n \in 0 .. Len(s) - 1 :
              /\ Promise!Sums(s)[n + 1] = Promise!Sums(s)[n] + Size[s[n + 1]]
              /\ s[n + 1] \in Item /\ Size[s[n + 1]] \in Nat \ {0}
<1> DEFINE S == Promise!Sums(s)
<1>1. S = [n \in 0 .. Len(s) |-> IF n = 0 THEN 0 ELSE S[n - 1] + Size[s[n]]]
  BY SumsDefined
<1> HIDE DEF S
<1>2. Len(s) \in Nat
  OBVIOUS
<1>3. S[0] = 0
  BY <1>1, <1>2
<1>4. ASSUME NEW n \in 0 .. Len(s) - 1
      PROVE  S[n + 1] = S[n] + Size[s[n + 1]] /\ s[n + 1] \in Item /\ Size[s[n + 1]] \in Nat \ {0}
  <2>1. n + 1 \in 0 .. Len(s) /\ n + 1 # 0 /\ (n + 1) - 1 = n /\ n + 1 \in 1 .. Len(s)
    BY <1>2
  <2>2. S[n + 1] = S[(n + 1) - 1] + Size[s[n + 1]]
    BY <1>1, <2>1, Zenon
  <2>3. s[n + 1] \in Item
    BY <2>1
  <2>4. QED
    BY <2>1, <2>2, <2>3, QueueAssumption
<1>5. QED
  BY <1>3, <1>4 DEF S

LEMMA SumsType ==
  ASSUME NEW s \in Seq(Item)
  PROVE  \A n \in 0 .. Len(s) : Promise!Sums(s)[n] \in Nat
<1> DEFINE S == {n \in 0 .. Len(s) : Promise!Sums(s)[n] \in Nat}
<1>1. Len(s) \in Nat
  OBVIOUS
<1>2. 0 \in S /\ \A n \in 0 .. Len(s) - 1 : n \in S => n + 1 \in S
  BY <1>1, SumsStep
<1>3. 0 .. Len(s) \subseteq S
  <2> HIDE DEF S
  <2>1. QED
    BY <1>1, <1>2, UpTo
<1>4. QED
  BY <1>3

LEMMA WeightType ==
  ASSUME NEW s \in Seq(Item)
  PROVE  Promise!Weight(s) \in Nat
<1>1. Len(s) \in 0 .. Len(s)
  OBVIOUS
<1>2. QED
  BY <1>1, SumsType DEF Promise!Weight

LEMMA WeightEmpty == Promise!Weight(<<>>) = 0
<1>1. <<>> \in Seq(Item) /\ Len(<<>>) = 0
  OBVIOUS
<1>2. QED
  BY <1>1, SumsStep DEF Promise!Weight

(* An item put at the end of a sequence adds its size ...                  *)
LEMMA WeightAppend ==
  ASSUME NEW s \in Seq(Item), NEW x \in Item
  PROVE  Promise!Weight(Append(s, x)) = Promise!Weight(s) + Size[x]
<1> DEFINE t == Append(s, x)
           S == {n \in 0 .. Len(s) : Promise!Sums(t)[n] = Promise!Sums(s)[n]}
<1>1. /\ t \in Seq(Item) /\ Len(t) = Len(s) + 1 /\ Len(s) \in Nat
      /\ \A n \in 1 .. Len(s) : t[n] = s[n]
      /\ t[Len(s) + 1] = x
  BY AppendProperties
<1> HIDE DEF t
<1>2. 0 \in S
  BY <1>1, SumsStep
<1>3. ASSUME NEW n \in 0 .. Len(s) - 1, n \in S PROVE n + 1 \in S
  <2>1. n \in 0 .. Len(t) - 1 /\ t[n + 1] = s[n + 1] /\ n + 1 \in 0 .. Len(s)
    BY <1>1
  <2>2. Promise!Sums(t)[n + 1] = Promise!Sums(t)[n] + Size[t[n + 1]]
    BY <1>1, <2>1, SumsStep
  <2>3. Promise!Sums(s)[n + 1] = Promise!Sums(s)[n] + Size[s[n + 1]]
    BY SumsStep
  <2>4. QED
    BY <1>3, <2>1, <2>2, <2>3
<1>4. 0 .. Len(s) \subseteq S
  <2> HIDE DEF S
  <2>1. QED
    BY <1>1, <1>2, <1>3, UpTo
<1>5. Promise!Sums(t)[Len(s)] = Promise!Sums(s)[Len(s)]
  BY <1>1, <1>4
<1>6. Promise!Sums(t)[Len(s) + 1] = Promise!Sums(t)[Len(s)] + Size[t[Len(s) + 1]]
  <2>1. Len(s) \in 0 .. Len(t) - 1
    BY <1>1
  <2>2. QED
    BY <1>1, <2>1, SumsStep
<1>7. QED
  BY <1>1, <1>5, <1>6 DEF Promise!Weight, t

(* ... and one taken from its beginning takes its size away.               *)
LEMMA WeightTail ==
  ASSUME NEW s \in Seq(Item), s # <<>>
  PROVE  Promise!Weight(s) = Size[Head(s)] + Promise!Weight(Tail(s))
<1> DEFINE t == Tail(s)
           S == {n \in 0 .. Len(t) :
                   Promise!Sums(s)[n + 1] = Size[Head(s)] + Promise!Sums(t)[n]}
<1>1. /\ t \in Seq(Item) /\ Len(t) = Len(s) - 1 /\ Len(s) \in Nat \ {0} /\ Len(t) \in Nat
      /\ \A n \in 1 .. Len(t) : t[n] = s[n + 1]
      /\ Head(s) = s[1] /\ Head(s) \in Item
  BY HeadTailProperties, EmptySeq
<1>2. Size[Head(s)] \in Nat
  BY <1>1, QueueAssumption
<1> HIDE DEF t
<1>3. 0 \in S
  <2>1. 0 \in 0 .. Len(s) - 1 /\ 0 + 1 = 1
    BY <1>1
  <2>2. Promise!Sums(s)[1] = Promise!Sums(s)[0] + Size[s[1]] /\ Promise!Sums(s)[0] = 0
    BY <2>1, SumsStep
  <2>3. Promise!Sums(t)[0] = 0
    BY <1>1, SumsStep
  <2>4. QED
    BY <1>1, <1>2, <2>2, <2>3
<1>4. ASSUME NEW n \in 0 .. Len(t) - 1, n \in S PROVE n + 1 \in S
  <2>1. n + 1 \in 0 .. Len(s) - 1 /\ t[n + 1] = s[(n + 1) + 1] /\ n + 1 \in 0 .. Len(t)
    BY <1>1
  <2>2. Promise!Sums(s)[(n + 1) + 1] = Promise!Sums(s)[n + 1] + Size[s[(n + 1) + 1]]
    BY <2>1, SumsStep
  <2>3. Promise!Sums(t)[n + 1] = Promise!Sums(t)[n] + Size[t[n + 1]] /\ Size[t[n + 1]] \in Nat
    BY <1>1, SumsStep
  <2>4. Promise!Sums(t)[n] \in Nat
    BY <1>1, SumsType
  <2>5. QED
    BY <1>2, <1>4, <2>1, <2>2, <2>3, <2>4
<1>5. 0 .. Len(t) \subseteq S
  <2> HIDE DEF S
  <2>1. QED
    BY <1>1, <1>3, <1>4, UpTo
<1>6. Promise!Sums(s)[Len(t) + 1] = Size[Head(s)] + Promise!Sums(t)[Len(t)]
  BY <1>1, <1>5
<1>7. QED
  BY <1>1, <1>6 DEF Promise!Weight, t

-----------------------------------------------------------------------------
(* What the counter holds besides the size of the queue: the item that a   *)
(* thread offers, or one that it has taken off and not yet subtracted.     *)
Held(t) ==
  CASE pc[t] = "offered" -> Size[arg[t]]
    [] pc[t] = "taken"   -> Size[elements[t][Len(elements[t])]]
    [] OTHER             -> 0

MemoryInv ==
  /\ monitor = NoThread => currentMemory = Promise!Weight(queue)
  /\ \A t \in Thread : pc[t] # "idle" => currentMemory = Promise!Weight(queue) + Held(t)
  /\ \A t \in Thread : pc[t] = "offered" => sum[t] = currentMemory

(* What a take has taken and has still to take is no more than was asked.  *)
BatchInv ==
  \A t \in Thread :
    /\ pc[t] = "taking" => Len(elements[t]) + left[t] <= MaxTake
    /\ pc[t] = "taken" => Len(elements[t]) + left[t] - 1 <= MaxTake

LEMMA BatchStep ==
  ASSUME TypeOK, OneInside, TakenInv, BatchInv, NEW t \in Thread, ThreadNext(t)
  PROVE  BatchInv'
<1> USE QueueAssumption DEF TypeOK, BatchInv
<1>1. ASSUME NEW x \in Item, Offer(t, x) PROVE BatchInv'
  BY <1>1 DEF Offer, Enter
<1>2. ASSUME NEW n \in 1 .. MaxTake, Take(t, n) PROVE BatchInv'
  <2>1. /\ left'[t] <= MaxTake /\ Len(elements'[t]) = 0 /\ left'[t] \in Nat /\ pc'[t] = "taking"
        /\ \A u \in Thread : u # t =>
             left'[u] = left[u] /\ elements'[u] = elements[u] /\ pc'[u] = pc[u]
    <3>1. Len(queue) \in Nat
      OBVIOUS
    <3>2. QED
      BY <1>2, <3>1 DEF Take, Enter
  <2>2. Len(elements'[t]) + left'[t] <= MaxTake
    BY <2>1
  <2>3. QED
    BY <2>1, <2>2
<1>3. CASE Enqueue(t) \/ Reject(t) \/ Return(t) \/ Interrupt(t)
  <2>1. /\ pc'[t] = "idle"
        /\ \A u \in Thread : u # t =>
             left'[u] = left[u] /\ elements'[u] = elements[u] /\ pc'[u] = pc[u]
    BY <1>3 DEF Enqueue, Reject, Return, Interrupt, Leave
  <2>2. QED
    BY <2>1
<1>4. CASE TakeOne(t)
  <2>1. /\ pc[t] = "taking" /\ pc'[t] = "taken" /\ left' = left
        /\ elements'[t] = Append(elements[t], Head(queue))
        /\ \A u \in Thread : u # t => elements'[u] = elements[u] /\ pc'[u] = pc[u]
    BY <1>4 DEF TakeOne
  <2>2. Len(elements'[t]) = Len(elements[t]) + 1 /\ Len(elements[t]) \in Nat
    BY <1>4, <2>1, HeadTailProperties, AppendProperties DEF TakeOne
  <2>3. left[t] \in Nat
    OBVIOUS
  <2>4. Len(elements'[t]) + left'[t] - 1 <= MaxTake
    BY <2>1, <2>2, <2>3
  <2>5. QED
    BY <2>1, <2>4
<1>5. CASE Subtract(t)
  <2>1. /\ pc[t] = "taken" /\ pc'[t] = "taking" /\ left'[t] = left[t] - 1
        /\ elements' = elements
        /\ \A u \in Thread : u # t => left'[u] = left[u] /\ pc'[u] = pc[u]
    BY <1>5 DEF Subtract
  <2>2. Len(elements[t]) \in Nat /\ left[t] \in Nat
    OBVIOUS
  <2>3. Len(elements'[t]) + left'[t] <= MaxTake
    BY <2>1, <2>2
  <2>4. QED
    BY <2>1, <2>3
<1>6. QED
  BY <1>1, <1>2, <1>3, <1>4, <1>5 DEF ThreadNext

(* The counter is raised with an offer, and lowered when the offer is      *)
(* refused or after an item has gone.                                      *)
LEMMA MemoryStep ==
  ASSUME TypeOK, OneInside, OneInside', TakenInv, MemoryInv, NEW t \in Thread, ThreadNext(t)
  PROVE  MemoryInv'
<1> USE QueueAssumption DEF TypeOK
<1> DEFINE W(s) == Promise!Weight(s)
<1>1. \A s \in Seq(Item) : W(s) \in Nat
  BY WeightType
<1>2. \A x \in Item : Size[x] \in Nat
  OBVIOUS
<1> HIDE DEF W
<1>3. /\ monitor = NoThread => currentMemory = W(queue)
      /\ \A u \in Thread : pc[u] # "idle" => currentMemory = W(queue) + Held(u)
      /\ \A u \in Thread : pc[u] = "offered" => sum[u] = currentMemory
  BY DEF MemoryInv, W
<1>4. SUFFICES /\ monitor' = NoThread => currentMemory' = W(queue')
               /\ pc'[t] # "idle" =>
                    monitor' = t /\ currentMemory' = W(queue') + Held(t)'
               /\ pc'[t] = "offered" => sum'[t] = currentMemory'
  <2>1. \A u \in Thread : u # t => pc'[u] = "idle"
    <3>1. monitor' = t \/ monitor' = NoThread
      BY DEF ThreadNext, Offer, Take, Enqueue, Reject, TakeOne, Subtract, Return, Interrupt,
         Enter, Leave, OneInside
    <3>2. QED
      BY <3>1 DEF OneInside
  <2>2. QED
    BY <2>1 DEF MemoryInv, W
<1>5. ASSUME NEW x \in Item, Offer(t, x)
      PROVE  /\ monitor' # NoThread /\ monitor' = t /\ pc'[t] = "offered"
             /\ currentMemory' = W(queue') + Held(t)' /\ sum'[t] = currentMemory'
  <2>1. /\ monitor = NoThread /\ monitor' = t /\ pc'[t] = "offered" /\ queue' = queue
        /\ currentMemory' = currentMemory + Size[x] /\ arg'[t] = x /\ sum'[t] = currentMemory'
    BY <1>5 DEF Offer, Enter
  <2>2. QED
    BY <1>3, <2>1 DEF Held
<1>6. ASSUME NEW n \in 1 .. MaxTake, Take(t, n)
      PROVE  /\ monitor' # NoThread /\ monitor' = t /\ pc'[t] = "taking"
             /\ currentMemory' = W(queue') + Held(t)'
  <2>1. /\ monitor = NoThread /\ monitor' = t /\ pc'[t] = "taking" /\ queue' = queue
        /\ currentMemory' = currentMemory
    BY <1>6 DEF Take, Enter
  <2>2. QED
    BY <1>1, <1>3, <2>1 DEF Held
<1>7. ASSUME Enqueue(t) PROVE pc'[t] = "idle" /\ currentMemory' = W(queue')
  <2>1. /\ pc[t] = "offered" /\ queue' = Append(queue, arg[t]) /\ pc'[t] = "idle"
        /\ currentMemory' = currentMemory /\ arg[t] \in Item
    BY <1>7 DEF Enqueue, Leave
  <2>2. W(queue') = W(queue) + Size[arg[t]]
    BY <2>1, WeightAppend DEF W
  <2>3. QED
    BY <1>3, <2>1, <2>2 DEF Held
<1>8. ASSUME Reject(t) PROVE pc'[t] = "idle" /\ currentMemory' = W(queue')
  <2>1. /\ pc[t] = "offered" /\ queue' = queue /\ pc'[t] = "idle"
        /\ currentMemory' = currentMemory - Size[arg[t]] /\ arg[t] \in Item
    BY <1>8 DEF Reject, Leave
  <2>2. currentMemory = W(queue) + Size[arg[t]]
    BY <1>3, <2>1 DEF Held
  <2>3. W(queue) \in Nat /\ Size[arg[t]] \in Nat
    BY <1>1, <1>2, <2>1
  <2>4. QED
    BY <2>1, <2>2, <2>3
<1>9. ASSUME TakeOne(t)
      PROVE  /\ monitor' = t /\ pc'[t] = "taken"
             /\ currentMemory' = W(queue') + Held(t)'
  <2>1. /\ pc[t] = "taking" /\ pc'[t] = "taken" /\ queue # <<>> /\ queue' = Tail(queue)
        /\ elements'[t] = Append(elements[t], Head(queue)) /\ monitor' = monitor
        /\ currentMemory' = currentMemory
    BY <1>9 DEF TakeOne
  <2>2. W(queue) = Size[Head(queue)] + W(queue') /\ Head(queue) \in Item /\ queue' \in Seq(Item)
    BY <2>1, WeightTail, HeadTailProperties DEF W
  <2>3. elements'[t][Len(elements'[t])] = Head(queue)
    <3>1. elements[t] \in Seq(Item)
      OBVIOUS
    <3>2. QED
      BY <2>1, <2>2, <3>1, AppendProperties
  <2>4. Held(t)' = Size[Head(queue)] /\ Held(t) = 0
    BY <2>1, <2>3 DEF Held
  <2>5. currentMemory = W(queue)
    <3>1. currentMemory = W(queue) + 0 /\ W(queue) \in Nat
      BY <1>1, <1>3, <2>1, <2>4
    <3>2. QED
      BY <3>1
  <2>6. W(queue') \in Nat /\ Size[Head(queue)] \in Nat
    BY <1>1, <1>2, <2>2
  <2>7. currentMemory' = W(queue') + Held(t)'
    BY <2>1, <2>2, <2>4, <2>5, <2>6
  <2>8. QED
    BY <2>1, <2>7 DEF OneInside
<1>10. ASSUME Subtract(t)
       PROVE  /\ monitor' = t /\ pc'[t] = "taking"
              /\ currentMemory' = W(queue') + Held(t)'
  <2>1. /\ pc[t] = "taken" /\ pc'[t] = "taking" /\ queue' = queue
        /\ currentMemory' = currentMemory - Size[elements[t][Len(elements[t])]]
        /\ monitor' = monitor
    BY <1>10 DEF Subtract
  <2>2. elements[t][Len(elements[t])] \in Item
    <3>1. elements[t] \in Seq(Item) /\ Len(elements[t]) > 0
      BY <2>1 DEF TakenInv
    <3>2. QED
      BY <3>1, ElementOfSeq
  <2>3. currentMemory = W(queue) + Size[elements[t][Len(elements[t])]]
    BY <1>3, <2>1 DEF Held
  <2>4. W(queue) \in Nat /\ Size[elements[t][Len(elements[t])]] \in Nat
    BY <1>1, <1>2, <2>2
  <2>5. currentMemory' = W(queue') /\ Held(t)' = 0
    BY <2>1, <2>3, <2>4 DEF Held
  <2>6. QED
    BY <2>1, <2>4, <2>5 DEF OneInside
<1>11. ASSUME Return(t) \/ Interrupt(t) PROVE pc'[t] = "idle" /\ currentMemory' = W(queue')
  <2>1. pc[t] = "taking" /\ pc'[t] = "idle" /\ queue' = queue /\ currentMemory' = currentMemory
    BY <1>11 DEF Return, Interrupt, Leave
  <2>2. currentMemory = W(queue) + 0 /\ W(queue) \in Nat
    BY <1>1, <1>3, <2>1 DEF Held
  <2>3. QED
    BY <2>1, <2>2
<1>12. pc'[t] # "idle" => monitor' # NoThread
  BY DEF OneInside
<1>13. QED
  BY <1>5, <1>6, <1>7, <1>8, <1>9, <1>10, <1>11, <1>12 DEF ThreadNext

FullInv == IInv /\ BatchInv /\ MemoryInv

LEMMA FullInit == Init => FullInv
<1> SUFFICES ASSUME Init PROVE FullInv
  OBVIOUS
<1>1. BatchInv /\ MemoryInv
  BY WeightEmpty DEF Init, BatchInv, MemoryInv
<1>2. QED
  BY <1>1, QueueInit DEF FullInv

LEMMA FullStep == FullInv /\ [Next]_vars => FullInv'
<1> SUFFICES ASSUME FullInv, [Next]_vars PROVE FullInv'
  OBVIOUS
<1>1. IInv'
  BY QueueStep DEF FullInv
<1>2. CASE UNCHANGED vars
  BY <1>1, <1>2 DEF vars, FullInv, BatchInv, MemoryInv, Held
<1>3. ASSUME NEW t \in Thread, ThreadNext(t) PROVE FullInv'
  BY <1>1, <1>3, BatchStep, MemoryStep DEF FullInv, IInv
<1>4. QED
  BY <1>2, <1>3 DEF Next

LEMMA QueueInvariant == Spec => []FullInv
BY FullInit, FullStep, PTL DEF Spec

(* Every thread that is outside finds the counter equal to the size of     *)
(* what is queued: refused offers, and takes that an interrupt ends half   *)
(* way, leave nothing behind.                                              *)
THEOREM CounterExact == Spec => []MemoryExact
<1>1. FullInv => MemoryExact
  BY DEF FullInv, MemoryInv, MemoryExact
<1>2. QED
  BY <1>1, QueueInvariant, PTL

-----------------------------------------------------------------------------
(* The refinement.                                                         *)

Taking(t) == pc[t] \in {"taking", "taken"}

LEMMA ContentsNow ==
  ASSUME OneInside
  PROVE  /\ \A t \in Thread : Taking(t) => Contents = elements[t] \o queue
         /\ (\A t \in Thread : ~Taking(t)) => Contents = queue
<1>1. ASSUME NEW t \in Thread, Taking(t)
      PROVE  (CHOOSE u \in Thread : pc[u] \in {"taking", "taken"}) = t
  BY <1>1 DEF OneInside, Taking
<1>2. QED
  BY <1>1 DEF Contents, Taking

LEMMA ContentsThen ==
  ASSUME OneInside'
  PROVE  /\ \A t \in Thread : Taking(t)' => Contents' = elements'[t] \o queue'
         /\ (\A t \in Thread : ~Taking(t)') => Contents' = queue'
<1>1. ASSUME NEW t \in Thread, Taking(t)'
      PROVE  (CHOOSE u \in Thread : pc'[u] \in {"taking", "taken"}) = t
  BY <1>1 DEF OneInside, Taking
<1>2. QED
  BY <1>1 DEF Contents, Taking

LEMMA Concat ==
  ASSUME NEW s \in Seq(Item), NEW q \in Seq(Item), NEW n \in Nat, n = Len(s)
  PROVE  /\ Len(s \o q) \in Nat /\ Len(s \o q) >= n
         /\ Len(SubSeq(s \o q, 1, n)) = n
         /\ SubSeq(s \o q, n + 1, Len(s \o q)) = q
<1> DEFINE c == s \o q
           d == SubSeq(c, n + 1, Len(c))
<1>1. /\ c \in Seq(Item) /\ Len(c) = n + Len(q) /\ Len(q) \in Nat
      /\ \A i \in 1 .. n + Len(q) : c[i] = IF i <= n THEN s[i] ELSE q[i - n]
  BY ConcatProperties
<1> HIDE DEF c
<1>2. \A i \in 1 .. Len(c) : c[i] \in Item
  BY <1>1, ElementOfSeq
<1>3. Len(SubSeq(c, 1, n)) = n
  <2>1. \A i \in 1 .. n : c[i] \in Item
    BY <1>1, <1>2
  <2>2. Len(SubSeq(c, 1, n)) = IF 1 <= n THEN n - 1 + 1 ELSE 0
    BY <2>1, SubSeqProperties
  <2>3. QED
    BY <2>2
<1>4. /\ d \in Seq(Item)
      /\ Len(d) = IF n + 1 <= Len(c) THEN Len(c) - (n + 1) + 1 ELSE 0
      /\ \A i \in 1 .. Len(c) - (n + 1) + 1 : d[i] = c[n + 1 + i - 1]
  <2>1. \A i \in n + 1 .. Len(c) : c[i] \in Item
    BY <1>1, <1>2
  <2>2. QED
    BY <1>1, <2>1, SubSeqProperties
<1> HIDE DEF d
<1>5. Len(d) = Len(q)
  BY <1>1, <1>4
<1>6. ASSUME NEW i \in 1 .. Len(d) PROVE d[i] = q[i]
  <2>1. i \in 1 .. Len(c) - (n + 1) + 1 /\ n + 1 + i - 1 = n + i /\ i \in Nat /\ i > 0
    BY <1>1, <1>4, <1>5
  <2>2. d[i] = c[n + i]
    BY <1>4, <2>1
  <2>3. n + i \in 1 .. n + Len(q) /\ ~(n + i <= n) /\ (n + i) - n = i
    BY <1>1, <1>5, <2>1
  <2>4. QED
    BY <1>1, <2>2, <2>3
<1>7. d = q
  BY <1>4, <1>5, <1>6, SeqEqual
<1>8. QED
  BY <1>1, <1>3, <1>7 DEF c, d

(* What a caller believes to be queued changes once in every call: when    *)
(* an item is queued, and when a take returns or is interrupted.           *)
LEMMA ImplementsStep ==
  ASSUME FullInv, FullInv', NEW t \in Thread, ThreadNext(t)
  PROVE  Promise!Next \/ Contents' = Contents
<1> USE QueueAssumption
<1>1. TypeOK /\ OneInside /\ OneInside' /\ MemoryInv /\ BatchInv /\ TakenInv
  BY DEF FullInv, IInv
<1>2. /\ queue \in Seq(Item) /\ elements[t] \in Seq(Item) /\ arg[t] \in Item
      /\ Len(elements[t]) \in Nat /\ left[t] \in Nat
  BY <1>1 DEF TypeOK
<1>3. \A u \in Thread : u # t => ~Taking(u) /\ ~Taking(u)'
  <2>1. (monitor = NoThread \/ monitor = t) /\ (monitor' = NoThread \/ monitor' = t)
    BY <1>1 DEF ThreadNext, Offer, Take, Enqueue, Reject, TakeOne, Subtract, Return, Interrupt,
       Enter, Leave, OneInside
  <2>2. QED
    BY <1>1, <2>1 DEF OneInside, Taking
<1>4. /\ Contents = IF Taking(t) THEN elements[t] \o queue ELSE queue
      /\ Contents' = IF Taking(t)' THEN elements'[t] \o queue' ELSE queue'
  BY <1>1, <1>3, ContentsNow, ContentsThen
<1>5. ASSUME NEW x \in Item, Offer(t, x) PROVE Contents' = Contents
  BY <1>1, <1>4, <1>5 DEF Offer, Enter, TypeOK, Taking
<1>6. ASSUME NEW n \in 1 .. MaxTake, Take(t, n) PROVE Contents' = Contents
  <2>1. ~Taking(t) /\ elements'[t] = <<>> /\ queue' = queue
    BY <1>1, <1>6 DEF Take, Enter, TypeOK, Taking
  <2>2. QED
    BY <1>2, <1>4, <2>1, ConcatEmptySeq
<1>7. ASSUME Enqueue(t) PROVE Promise!Accept(arg[t])
  <2>1. /\ pc[t] = "offered" /\ pc'[t] = "idle" /\ queue' = Append(queue, arg[t])
        /\ sum[t] <= Bound
    BY <1>1, <1>7 DEF Enqueue, Leave, TypeOK
  <2>2. sum[t] = Promise!Weight(queue) + Size[arg[t]]
    BY <1>1, <2>1 DEF MemoryInv, Held
  <2>3. QED
    BY <1>4, <2>1, <2>2 DEF Promise!Accept, Promise!Fits, Taking
<1>8. ASSUME Reject(t) PROVE Promise!Refuse(arg[t])
  <2>1. pc[t] = "offered" /\ pc'[t] = "idle" /\ queue' = queue /\ sum[t] > Bound
    BY <1>1, <1>8 DEF Reject, Leave, TypeOK
  <2>2. sum[t] = Promise!Weight(queue) + Size[arg[t]]
    BY <1>1, <2>1 DEF MemoryInv, Held
  <2>3. Promise!Weight(queue) + Size[arg[t]] \in Nat
    BY <1>2, WeightType
  <2>4. ~(Promise!Weight(queue) + Size[arg[t]] <= Bound)
    BY <2>1, <2>2, <2>3
  <2>5. QED
    BY <1>4, <2>1, <2>4 DEF Promise!Refuse, Promise!Fits, Taking
<1>9. ASSUME TakeOne(t) PROVE Contents' = Contents
  <2>1. /\ Taking(t) /\ Taking(t)' /\ queue # <<>> /\ queue' = Tail(queue)
        /\ elements'[t] = Append(elements[t], Head(queue))
    BY <1>1, <1>9 DEF TakeOne, TypeOK, Taking
  <2>2. Head(queue) \in Item /\ Tail(queue) \in Seq(Item) /\ Len(Tail(queue)) = Len(queue) - 1
        /\ \A i \in 1 .. Len(Tail(queue)) : Tail(queue)[i] = queue[i + 1]
        /\ Head(queue) = queue[1] /\ Len(queue) \in Nat \ {0}
    BY <1>2, <2>1, HeadTailProperties, EmptySeq
  <2> DEFINE s == elements[t]
             e == Append(s, Head(queue))
             r == Tail(queue)
  <2>3. /\ e \in Seq(Item) /\ Len(e) = Len(s) + 1 /\ e[Len(s) + 1] = Head(queue)
        /\ \A i \in 1 .. Len(s) : e[i] = s[i]
    BY <1>2, <2>2, AppendProperties
  <2>r. r \in Seq(Item) /\ \A i \in 1 .. Len(r) : r[i] = queue[i + 1]
    BY <2>2
  <2> HIDE DEF s, e, r
  <2>4. /\ e \o r \in Seq(Item) /\ Len(e \o r) = Len(e) + Len(r)
        /\ \A i \in 1 .. Len(e) + Len(r) : (e \o r)[i] = IF i <= Len(e) THEN e[i] ELSE r[i - Len(e)]
    <3>1. e \in Seq(Item) /\ r \in Seq(Item)
      BY <2>r, <2>3
    <3>2. QED
      BY <3>1, ConcatProperties
  <2>5. /\ s \o queue \in Seq(Item) /\ Len(s \o queue) = Len(s) + Len(queue)
        /\ \A i \in 1 .. Len(s) + Len(queue) :
             (s \o queue)[i] = IF i <= Len(s) THEN s[i] ELSE queue[i - Len(s)]
    BY <1>2, ConcatProperties DEF s
  <2>6. Len(r) = Len(queue) - 1 /\ Len(queue) \in Nat /\ Len(s) \in Nat
    BY <1>2, <2>2 DEF r, s
  <2>7. Len(e \o r) = Len(s \o queue)
    BY <2>3, <2>4, <2>5, <2>6
  <2>8. ASSUME NEW i \in 1 .. Len(s) + Len(queue) PROVE (e \o r)[i] = (s \o queue)[i]
    <3>1. CASE i <= Len(s)
      <4>1. i \in 1 .. Len(s) /\ i <= Len(e) /\ i \in 1 .. Len(e) + Len(r)
        BY <2>3, <2>6, <3>1
      <4>2. (e \o r)[i] = s[i]
        BY <2>3, <2>4, <4>1
      <4>3. QED
        BY <2>5, <3>1, <4>2
    <3>2. CASE i = Len(s) + 1
      <4>1. (e \o r)[i] = Head(queue)
        BY <2>3, <2>4, <2>6, <3>2
      <4>2. (s \o queue)[i] = queue[1]
        BY <2>5, <2>6, <3>2
      <4>3. QED
        BY <2>2, <4>1, <4>2
    <3>3. CASE i > Len(s) + 1
      <4>1. i - Len(e) \in 1 .. Len(r) /\ i - Len(s) = (i - Len(e)) + 1
        BY <2>3, <2>6, <3>3
      <4>2. (e \o r)[i] = r[i - Len(e)]
        BY <2>3, <2>4, <2>6, <3>3
      <4>3. (s \o queue)[i] = queue[i - Len(s)]
        BY <2>5, <2>6, <3>3
      <4> DEFINE j == i - Len(e)
      <4>4. j \in 1 .. Len(r) /\ i - Len(s) = j + 1 /\ (e \o r)[i] = r[j]
        BY <4>1, <4>2
      <4> HIDE DEF j
      <4>5. r[j] = queue[j + 1]
        BY <2>r, <4>4
      <4>6. (s \o queue)[i] = queue[j + 1]
        BY <4>3, <4>4, Zenon
      <4>7. QED
        BY <4>4, <4>5, <4>6, Zenon
    <3>4. i <= Len(s) \/ i = Len(s) + 1 \/ i > Len(s) + 1
      BY <2>6
    <3>5. QED
      BY <3>1, <3>2, <3>3, <3>4, Zenon
  <2>9. e \o r = s \o queue
    BY <2>3, <2>4, <2>5, <2>6, <2>7, <2>8, SeqEqual
  <2>10. QED
    BY <1>4, <2>1, <2>9 DEF s, e, r
<1>10. ASSUME Subtract(t) PROVE Contents' = Contents
  BY <1>1, <1>4, <1>10 DEF Subtract, TypeOK, Taking
<1>11. ASSUME Return(t) \/ Interrupt(t) PROVE Promise!Next \/ Contents' = Contents
  <2>1. pc[t] = "taking" /\ pc'[t] = "idle" /\ queue' = queue
    BY <1>1, <1>11 DEF Return, Interrupt, Leave, TypeOK
  <2>2. Contents = elements[t] \o queue /\ Contents' = queue
    BY <1>4, <2>1 DEF Taking
  <2> DEFINE n == Len(elements[t])
  <2>3. n \in Nat /\ n <= MaxTake
    BY <1>1, <1>2, <2>1 DEF BatchInv
  <2>4. CASE n = 0
    <3>1. elements[t] = <<>>
      BY <1>2, <2>4, EmptySeq
    <3>2. QED
      BY <1>2, <2>2, <3>1, ConcatEmptySeq
  <2>5. CASE n # 0
    <3>1. n \in 1 .. MaxTake
      BY <2>3, <2>5
    <3>2. /\ Len(Contents) \in Nat /\ Len(Contents) >= n
          /\ Len(SubSeq(Contents, 1, n)) = n
          /\ SubSeq(Contents, n + 1, Len(Contents)) = queue
      BY <1>2, <2>2, <2>3, Concat
    <3> HIDE DEF n
    <3>3. Promise!Batch(n) = SubSeq(Contents, 1, n)
      <4>1. (IF n > Len(Contents) THEN Len(Contents) ELSE n) = n
        BY <2>3, <3>2
      <4>2. QED
        BY <4>1 DEF Promise!Batch
    <3>4. Promise!Take(n)
      BY <2>2, <3>2, <3>3 DEF Promise!Take
    <3>5. QED
      BY <3>1, <3>4 DEF Promise!Next
  <2>6. QED
    BY <2>4, <2>5
<1>12. QED
  BY <1>2, <1>5, <1>6, <1>7, <1>8, <1>9, <1>10, <1>11 DEF ThreadNext, Promise!Next

(* The queue is the bounded queue that the emitter relies on: it accepts   *)
(* what fits, refuses what does not, gives items back in their order, and  *)
(* loses none but those of an interrupted take.                            *)
THEOREM QueueImplements == Spec => Implements
<1>1. Init => Promise!Init
  <2> SUFFICES ASSUME Init PROVE Contents = <<>>
    BY DEF Promise!Init
  <2>1. OneInside /\ \A t \in Thread : ~Taking(t)
    BY QueueInit DEF Init, IInv, Taking
  <2>2. QED
    BY <2>1, ContentsNow DEF Init
<1>2. FullInv /\ FullInv' /\ [Next]_vars => [Promise!Next]_Contents
  <2> SUFFICES ASSUME FullInv, FullInv', [Next]_vars PROVE Promise!Next \/ Contents' = Contents
    OBVIOUS
  <2>1. CASE UNCHANGED vars
    BY <2>1 DEF vars, Contents
  <2>2. CASE Next
    BY <2>2, ImplementsStep DEF Next
  <2>3. QED
    BY <2>1, <2>2
<1>3. QED
  BY <1>1, <1>2, QueueInvariant, PTL DEF Spec, Implements, Promise!Spec

(* No item is refused because of what another thread has added and not yet *)
(* subtracted.                                                             *)
THEOREM RefusalsJustified == Spec => RefusesOnlyWhenFull
<1>1. ASSUME FullInv, [Next]_vars
      PROVE  \A t \in Thread :
               pc[t] = "offered" /\ pc'[t] = "idle" /\ queue' = queue
                 => Promise!Weight(queue) + Size[arg[t]] > Bound
  <2> SUFFICES ASSUME NEW t \in Thread, pc[t] = "offered", pc'[t] = "idle", queue' = queue
               PROVE  Promise!Weight(queue) + Size[arg[t]] > Bound
    OBVIOUS
  <2>1. TypeOK /\ OneInside /\ MemoryInv
    BY <1>1 DEF FullInv, IInv
  <2>2. sum[t] = Promise!Weight(queue) + Size[arg[t]]
    BY <2>1 DEF MemoryInv, Held
  <2>3. PICK u \in Thread : ThreadNext(u)
    BY <1>1 DEF vars, Next
  <2>4. u = t
    BY <2>1, <2>3 DEF ThreadNext, Offer, Take, Enqueue, Reject, TakeOne, Subtract, Return,
       Interrupt, Enter, Leave, OneInside, TypeOK
  <2>5. ~Enqueue(t)
    <3>1. queue \in Seq(Item) /\ arg[t] \in Item
      BY <2>1 DEF TypeOK
    <3>2. Len(Append(queue, arg[t])) = Len(queue) + 1 /\ Len(queue) \in Nat
      BY <3>1, AppendProperties
    <3>3. QED
      BY <3>2 DEF Enqueue
  <2>6. Reject(t)
    BY <2>1, <2>3, <2>4, <2>5 DEF ThreadNext, Offer, Take, TakeOne, Subtract, Return, Interrupt,
       Enter
  <2>7. QED
    BY <2>2, <2>6 DEF Reject
<1>2. QED
  BY <1>1, QueueInvariant, PTL DEF Spec, RefusesOnlyWhenFull

-----------------------------------------------------------------------------
(* What the refinement is worth to the process that hosts the emitter.     *)
WithinBound == Promise!Weight(queue) <= Bound

LEMMA BoundStep ==
  ASSUME FullInv, WithinBound, NEW t \in Thread, ThreadNext(t)
  PROVE  WithinBound'
<1>1. TypeOK /\ MemoryInv
  BY DEF FullInv, IInv
<1>2. queue \in Seq(Item) /\ Size \in [Item -> Nat \ {0}] /\ Bound \in Nat
  BY <1>1, QueueAssumption DEF TypeOK
<1>3. CASE queue' = queue
  BY <1>3 DEF WithinBound
<1>4. CASE Enqueue(t)
  <2>1. pc[t] = "offered" /\ queue' = Append(queue, arg[t]) /\ sum[t] <= Bound /\ arg[t] \in Item
    BY <1>1, <1>4 DEF Enqueue, TypeOK
  <2>2. sum[t] = Promise!Weight(queue) + Size[arg[t]]
    BY <1>1, <2>1 DEF MemoryInv, Held
  <2>3. QED
    BY <1>2, <2>1, <2>2, WeightAppend DEF WithinBound
<1>5. CASE TakeOne(t)
  <2>1. queue # <<>> /\ queue' = Tail(queue)
    BY <1>5 DEF TakeOne
  <2>2. Tail(queue) \in Seq(Item) /\ Head(queue) \in Item
    BY <1>2, <2>1, HeadTailProperties
  <2>3. Promise!Weight(queue) = Size[Head(queue)] + Promise!Weight(Tail(queue))
    BY <1>2, <2>1, WeightTail
  <2>4. Promise!Weight(Tail(queue)) \in Nat /\ Promise!Weight(queue) \in Nat /\ Size[Head(queue)] \in Nat
    BY <1>2, <2>2, WeightType
  <2>5. QED
    BY <1>2, <2>1, <2>3, <2>4 DEF WithinBound
<1>6. QED
  BY <1>3, <1>4, <1>5 DEF ThreadNext, Offer, Take, Reject, Subtract, Return, Interrupt

(* What is queued never takes more memory than memoryBound, although the   *)
(* counter itself passes the bound whenever an offer is about to fail.     *)
THEOREM MemoryBounded == Spec => []WithinBound
<1>1. Init => WithinBound
  BY WeightEmpty, QueueAssumption DEF Init, WithinBound
<1>2. FullInv /\ WithinBound /\ [Next]_vars => WithinBound'
  <2>1. ASSUME WithinBound, UNCHANGED vars PROVE WithinBound'
    BY <2>1 DEF vars, WithinBound
  <2>2. QED
    BY <2>1, BoundStep DEF Next
<1>3. QED
  BY <1>1, <1>2, QueueInvariant, PTL DEF Spec
=============================================================================
