----------------------- MODULE CloudwatchEmitterProofs -----------------------
(* Theorems about CloudwatchEmitter, for any items, sizes and bounds, any  *)
(* number of events and any number of requests that fail.                  *)
EXTENDS CloudwatchEmitter, TLAPS

Books == [Kind -> [data : Nat, count : Nat]]

(* The parts of TypeOK: where the tasks are, what is queued, the numbers.  *)
Placed ==
  /\ phase \in {"new", "started", "closed"}
  /\ sender \in {"idle", "checkAlerts", "putMetric", "putAlert"} \cup Channel
  /\ publisher \in {"idle", "put"} \cup Kind

Queued ==
  /\ metricQueue \in Seq(Item) /\ alertQueue \in Seq(Item)
  /\ batch \in Seq(Item) /\ Len(batch) <= MaxPut

Numbers ==
  /\ lost \in [Kind -> Nat] /\ collected \in [Kind -> Nat] /\ seen \in [Kind -> Nat]
  /\ put \in Books /\ failed \in Books

Typed == Placed /\ Queued /\ Numbers /\ interrupted \in BOOLEAN

LEMMA TypeParts == TypeOK <=> Typed
BY Zenon DEF TypeOK, Typed, Placed, Queued, Numbers, Books

LEMMA Named ==
  /\ {"metric", "alert", "invalid", "fatal"} \subseteq Kind /\ Channel \subseteq Kind
  /\ AfterKind("metric") = "invalid" /\ AfterKind("invalid") = "alert"
  /\ AfterKind("alert") = "fatal" /\ AfterKind("fatal") = "put"
  /\ Kinds[1] = "metric"
BY DEF Kind, Channel, AfterKind, Kinds

-----------------------------------------------------------------------------
(* Where the tasks are.                                                    *)

LEMMA PlacedStep == Placed /\ [Next]_vars => Placed'
<1> SUFFICES ASSUME Placed, [Next]_vars PROVE Placed'
  OBVIOUS
<1> USE DEF Placed, tasks, queues
<1>1. CASE Emit
  BY <1>1 DEF Emit, EmitMetric, EmitAlert, EmitOther
<1>2. CASE Start \/ Close
  BY <1>2 DEF Start, Close
<1>3. CASE Send
  BY <1>3 DEF Send, SendRun, CheckAlerts, TakeBatch, PutBatch, PutBatchFails, InterruptTake,
     AfterDrain, Channel
<1>4. CASE PublishCounts
  <2>1. CASE PublishRun \/ Publish
    BY <1>4, <2>1, Named DEF PublishRun, Publish
  <2>2. ASSUME NEW k \in Kind, Collect(k) PROVE Placed'
    BY <2>2, Named DEF Collect, Kind
  <2>3. QED
    BY <1>4, <2>1, <2>2 DEF PublishCounts
<1>5. CASE UNCHANGED vars
  BY <1>5 DEF vars
<1>6. QED
  BY <1>1, <1>2, <1>3, <1>4, <1>5 DEF Next

-----------------------------------------------------------------------------
(* The queues.                                                             *)

Smaller(m, n) == IF n < m THEN n ELSE m

(* What is left of a queue after a take, and what was taken.               *)
LEMMA Parts ==
  ASSUME NEW s \in Seq(Item), NEW m \in Nat, NEW n \in Nat, m <= Len(s), n <= Len(s)
  PROVE  /\ SubSeq(s, m + 1, Len(s)) \in Seq(Item)
         /\ Len(SubSeq(s, m + 1, Len(s))) = Len(s) - m
         /\ SubSeq(s, 1, n) \in Seq(Item) /\ Len(SubSeq(s, 1, n)) = n
OBVIOUS

LEMMA TakeParts ==
  ASSUME Queued, NEW q \in Channel, NEW n \in Nat, TakeFrom(q, n)
  PROVE  /\ metricQueue' \in Seq(Item) /\ alertQueue' \in Seq(Item)
         /\ Len(Queue(q)') = Len(Queue(q)) - Smaller(n, Len(Queue(q)))
         /\ \A r \in Channel \ {q} : Queue(r)' = Queue(r)
<1> USE DEF Channel, Queue, Smaller
<1>1. CASE q = "metric"
  <2>1. metricQueue \in Seq(Item) /\ Len(metricQueue) \in Nat
    BY DEF Queued
  <2> DEFINE m == Smaller(n, Len(metricQueue))
  <2>2. m \in Nat /\ m <= Len(metricQueue)
    BY <2>1
  <2>3. MetricQueue!Batch(n) = SubSeq(metricQueue, 1, m)
    BY <2>1 DEF MetricQueue!Batch
  <2>4. Len(MetricQueue!Batch(n)) = m
    BY <2>1, <2>2, <2>3, Parts
  <2>5. metricQueue' = SubSeq(metricQueue, m + 1, Len(metricQueue)) /\ alertQueue' = alertQueue
    BY <1>1, <2>4 DEF TakeFrom, MetricQueue!Take
  <2>6. QED
    BY <1>1, <2>1, <2>2, <2>5, Parts DEF Queued
<1>2. CASE q = "alert"
  <2>1. alertQueue \in Seq(Item) /\ Len(alertQueue) \in Nat
    BY DEF Queued
  <2> DEFINE m == Smaller(n, Len(alertQueue))
  <2>2. m \in Nat /\ m <= Len(alertQueue)
    BY <2>1
  <2>3. AlertQueue!Batch(n) = SubSeq(alertQueue, 1, m)
    BY <2>1 DEF AlertQueue!Batch
  <2>4. Len(AlertQueue!Batch(n)) = m
    BY <2>1, <2>2, <2>3, Parts
  <2>5. alertQueue' = SubSeq(alertQueue, m + 1, Len(alertQueue)) /\ metricQueue' = metricQueue
    BY <1>2, <2>4 DEF TakeFrom, AlertQueue!Take
  <2>6. QED
    BY <1>2, <2>1, <2>2, <2>5, Parts DEF Queued
<1>3. QED
  BY <1>1, <1>2

LEMMA BatchParts ==
  ASSUME Queued, NEW q \in Channel, TakeBatch(q)
  PROVE  /\ batch' \in Seq(Item) /\ Len(batch') <= MaxPut
         /\ Len(batch') = Smaller(MaxPut, Len(Queue(q)))
<1>1. Queue(q) \in Seq(Item) /\ Len(Queue(q)) \in Nat
  BY DEF Queued, Queue
<1>2. Smaller(MaxPut, Len(Queue(q))) \in Nat /\ Smaller(MaxPut, Len(Queue(q))) <= Len(Queue(q))
  BY <1>1, PutAssumption DEF Smaller
<1>3. batch' = SubSeq(Queue(q), 1, Smaller(MaxPut, Len(Queue(q))))
  BY <1>1, PutAssumption DEF TakeBatch, Smaller
<1>4. Len(batch') = Smaller(MaxPut, Len(Queue(q))) /\ batch' \in Seq(Item)
  BY <1>1, <1>2, <1>3, Parts
<1>5. QED
  BY <1>1, <1>4, PutAssumption DEF Smaller

LEMMA AppendParts ==
  ASSUME NEW s \in Seq(Item), NEW x \in Item
  PROVE  Append(s, x) \in Seq(Item) /\ Len(Append(s, x)) = Len(s) + 1
OBVIOUS

(* An event of a channel's class.                                          *)
Emitting(q, x) ==
  \/ q = "metric" /\ EmitMetric(x)
  \/ q = "alert" /\ EmitAlert(x)

LEMMA EmitCases ==
  Emit => \/ \E q \in Channel, x \in Item : Emitting(q, x)
          \/ \E k \in {"invalid", "fatal"} : EmitOther(k)
<1>1. "metric" \in Channel /\ "alert" \in Channel
  BY DEF Channel
<1>2. ASSUME NEW x \in Item, EmitMetric(x) PROVE Emitting("metric", x)
  BY <1>2, Zenon DEF Emitting
<1>3. ASSUME NEW x \in Item, EmitAlert(x) PROVE Emitting("alert", x)
  BY <1>3, Zenon DEF Emitting
<1>4. QED
  BY <1>1, <1>2, <1>3, Zenon DEF Emit

(* One more item, or none.                                                 *)
LEMMA EmitParts ==
  ASSUME Queued, NEW x \in Item, NEW q \in Channel, Emitting(q, x)
  PROVE  /\ metricQueue' \in Seq(Item) /\ alertQueue' \in Seq(Item)
         /\ \A r \in Channel \ {q} : Queue(r)' = Queue(r)
         /\ \/ Len(Queue(q)') = Len(Queue(q)) + 1 /\ lost' = lost
            \/ Queue(q)' = Queue(q) /\ lost' = [lost EXCEPT ![q] = @ + 1]
<1>1. metricQueue \in Seq(Item) /\ alertQueue \in Seq(Item)
  BY DEF Queued
<1>2. CASE q = "metric" /\ EmitMetric(x)
  <2>1. /\ alertQueue' = alertQueue
        /\ \/ metricQueue' = Append(metricQueue, x) /\ lost' = lost
           \/ metricQueue' = metricQueue /\ lost' = [lost EXCEPT !["metric"] = @ + 1]
    BY <1>2 DEF EmitMetric, MetricQueue!Accept, MetricQueue!Refuse, Count
  <2>2. QED
    BY <1>1, <1>2, <2>1, AppendParts DEF Queue, Channel
<1>3. CASE q = "alert" /\ EmitAlert(x)
  <2>1. /\ metricQueue' = metricQueue
        /\ \/ alertQueue' = Append(alertQueue, x) /\ lost' = lost
           \/ alertQueue' = alertQueue /\ lost' = [lost EXCEPT !["alert"] = @ + 1]
    BY <1>3 DEF EmitAlert, AlertQueue!Accept, AlertQueue!Refuse, Count
  <2>2. QED
    BY <1>1, <1>3, <2>1, AppendParts DEF Queue, Channel
<1>4. QED
  BY <1>2, <1>3 DEF Emitting

LEMMA QueuedStep == Queued /\ [Next]_vars => Queued'
<1> SUFFICES ASSUME Queued, [Next]_vars PROVE Queued'
  OBVIOUS
<1> USE DEF tasks, queues
<1>1. CASE Emit
  <2>1. metricQueue' \in Seq(Item) /\ alertQueue' \in Seq(Item)
    <3>1. ASSUME NEW k \in {"invalid", "fatal"}, EmitOther(k)
          PROVE  metricQueue' = metricQueue /\ alertQueue' = alertQueue
      BY <3>1 DEF EmitOther
    <3>2. ASSUME NEW x \in Item, NEW q \in Channel, Emitting(q, x)
          PROVE  metricQueue' \in Seq(Item) /\ alertQueue' \in Seq(Item)
      BY <3>2, EmitParts
    <3>3. metricQueue \in Seq(Item) /\ alertQueue \in Seq(Item)
      BY DEF Queued
    <3>4. QED
      BY <1>1, <3>1, <3>2, <3>3, EmitCases, Zenon
  <2>2. batch' = batch
    BY <1>1 DEF Emit, EmitMetric, EmitAlert, EmitOther
  <2>3. QED
    BY <2>1, <2>2 DEF Queued
<1>2. ASSUME NEW q \in Channel, TakeBatch(q) PROVE Queued'
  <2>1. TakeFrom(q, MaxPut) /\ MaxPut \in Nat
    BY <1>2, PutAssumption DEF TakeBatch
  <2>2. QED
    BY <1>2, <2>1, TakeParts, BatchParts DEF Queued
<1>3. ASSUME NEW q \in Channel, PutBatch(q) \/ PutBatchFails(q) PROVE Queued'
  <2>1. UNCHANGED queues /\ batch' = <<>>
    BY <1>3 DEF PutBatch, PutBatchFails
  <2>2. <<>> \in Seq(Item) /\ Len(<<>>) = 0
    OBVIOUS
  <2>3. QED
    BY <2>1, <2>2, PutAssumption DEF Queued
<1>4. ASSUME NEW q \in Channel, InterruptTake(q) PROVE Queued'
  <2>1. PICK n \in 0 .. MaxPut - 1 : TakeFrom(q, n)
    BY <1>4 DEF InterruptTake
  <2>2. n \in Nat /\ batch' = batch
    BY <1>4, PutAssumption DEF InterruptTake
  <2>3. QED
    BY <2>1, <2>2, TakeParts DEF Queued
<1>5. CASE Start \/ Close \/ SendRun \/ CheckAlerts \/ PublishCounts \/ UNCHANGED vars
  <2>1. UNCHANGED <<metricQueue, alertQueue, batch>>
    BY <1>5 DEF Start, Close, SendRun, CheckAlerts, PublishCounts, PublishRun, Collect, Publish,
       vars
  <2>2. QED
    BY <2>1 DEF Queued
<1>6. QED
  BY <1>1, <1>2, <1>3, <1>4, <1>5 DEF Next, Send

-----------------------------------------------------------------------------
(* The numbers.                                                            *)

LEMMA Counted ==
  ASSUME NEW h \in [Kind -> Nat], NEW k \in Kind
  PROVE  /\ [h EXCEPT ![k] = @ + 1] \in [Kind -> Nat]
         /\ [h EXCEPT ![k] = 0] \in [Kind -> Nat]
         /\ \A m \in Nat : [h EXCEPT ![k] = m] \in [Kind -> Nat]
OBVIOUS

LEMMA AddedData ==
  ASSUME NEW h \in Books, NEW q \in Kind, NEW n \in Nat
  PROVE  /\ [h EXCEPT ![q].data = @ + n] \in Books
         /\ \A k \in Kind :
              /\ [h EXCEPT ![q].data = @ + n][k].data = h[k].data + (IF k = q THEN n ELSE 0)
              /\ [h EXCEPT ![q].data = @ + n][k].count = h[k].count
BY DEF Books

LEMMA BookedType ==
  ASSUME NEW h \in Books, collected \in [Kind -> Nat]
  PROVE  /\ Booked(h) \in Books
         /\ \A k \in Kind : /\ Booked(h)[k].data = h[k].data
                            /\ Booked(h)[k].count = h[k].count + collected[k]
BY DEF Books, Booked

LEMMA NumbersStep == Queued /\ Numbers /\ [Next]_vars => Numbers'
<1> SUFFICES ASSUME Queued, Numbers, [Next]_vars PROVE Numbers'
  OBVIOUS
<1> USE DEF tasks, queues
<1>1. CASE Emit
  <2>1. PICK k \in Kind : /\ seen' = [seen EXCEPT ![k] = @ + 1]
                          /\ lost' = lost \/ lost' = [lost EXCEPT ![k] = @ + 1]
    BY <1>1, Named DEF Emit, EmitMetric, EmitAlert, EmitOther, See, Count
  <2>2. UNCHANGED <<collected, put, failed>>
    BY <1>1 DEF Emit, EmitMetric, EmitAlert, EmitOther
  <2>3. QED
    BY <2>1, <2>2, Counted DEF Numbers
<1>2. ASSUME NEW q \in Channel, PutBatch(q) \/ PutBatchFails(q) PROVE Numbers'
  <2>1. Len(batch) \in Nat /\ q \in Kind
    BY Named DEF Queued
  <2>2. /\ \/ put' = [put EXCEPT ![q].data = @ + Len(batch)] /\ failed' = failed
           \/ failed' = [failed EXCEPT ![q].data = @ + Len(batch)] /\ put' = put
        /\ UNCHANGED <<collected, lost, seen>>
    BY <1>2 DEF PutBatch, PutBatchFails
  <2>3. put' \in Books /\ failed' \in Books
    <3>1. put \in Books /\ failed \in Books
      BY DEF Numbers
    <3>2. /\ [put EXCEPT ![q].data = @ + Len(batch)] \in Books
          /\ [failed EXCEPT ![q].data = @ + Len(batch)] \in Books
      BY <2>1, <3>1, AddedData
    <3>3. QED
      BY <2>2, <3>1, <3>2
  <2>4. QED
    BY <2>2, <2>3, Zenon DEF Numbers
<1>3. ASSUME NEW q \in Channel, InterruptTake(q) PROVE Numbers'
  <2>1. PICK n \in 0 .. MaxPut - 1 : failed' = [failed EXCEPT ![q].data = @ + n]
    BY <1>3 DEF InterruptTake
  <2>2. n \in Nat /\ q \in Kind /\ UNCHANGED <<collected, lost, seen, put>>
    BY <1>3, Named, PutAssumption DEF InterruptTake
  <2>3. QED
    BY <2>1, <2>2, AddedData DEF Numbers
<1>4. ASSUME NEW k \in Kind, Collect(k) PROVE Numbers'
  <2>1. lost[k] \in Nat
    BY DEF Numbers
  <2>2. QED
    BY <1>4, <2>1, Counted DEF Collect, Numbers
<1>5. CASE Publish
  <2>1. Booked(put) \in Books /\ Booked(failed) \in Books /\ Zero \in [Kind -> Nat]
    BY BookedType DEF Numbers, Zero
  <2>2. QED
    BY <1>5, <2>1 DEF Publish, Numbers
<1>6. CASE Start \/ Close \/ SendRun \/ CheckAlerts \/ PublishRun \/ UNCHANGED vars
  BY <1>6 DEF Start, Close, SendRun, CheckAlerts, PublishRun, vars, Numbers
<1>7. ASSUME NEW q \in Channel, TakeBatch(q) PROVE Numbers'
  BY <1>7 DEF TakeBatch, Numbers
<1>8. QED
  BY <1>1, <1>2, <1>3, <1>4, <1>5, <1>6, <1>7 DEF Next, Send, PublishCounts

-----------------------------------------------------------------------------
(* Type correctness.                                                       *)

LEMMA InterruptedStep == interrupted \in BOOLEAN /\ [Next]_vars => interrupted' \in BOOLEAN
<1> SUFFICES ASSUME interrupted \in BOOLEAN, [Next]_vars PROVE interrupted' \in BOOLEAN
  OBVIOUS
<1>1. \/ interrupted' = interrupted \/ interrupted' = FALSE
      \/ interrupted' = (sender # "idle")
  BY DEF Next, vars, Emit, EmitMetric, EmitAlert, EmitOther, Start, Close, Send, SendRun,
     CheckAlerts, TakeBatch, PutBatch, PutBatchFails, InterruptTake, PublishCounts, PublishRun,
     Collect, Publish
<1>2. QED
  BY <1>1, Zenon

LEMMA TypedInit == Init => Typed
<1> SUFFICES ASSUME Init PROVE Typed
  OBVIOUS
<1>1. <<>> \in Seq(Item) /\ Len(<<>>) = 0
  OBVIOUS
<1>2. Queued
  BY <1>1, PutAssumption DEF Init, Queued
<1>3. Numbers
  BY DEF Init, Numbers, Books, Zero
<1>4. Placed
  BY DEF Init, Placed
<1>5. interrupted \in BOOLEAN
  BY Zenon DEF Init
<1>6. QED
  BY <1>2, <1>3, <1>4, <1>5, Zenon DEF Typed

LEMMA TypedStep == Typed /\ [Next]_vars => Typed'
<1> SUFFICES ASSUME Typed, [Next]_vars PROVE Typed'
  OBVIOUS
<1>1. Placed' /\ Queued' /\ Numbers'
  BY PlacedStep, QueuedStep, NumbersStep, Zenon DEF Typed
<1>2. interrupted' \in BOOLEAN
  BY InterruptedStep, Zenon DEF Typed
<1>3. QED
  BY <1>1, <1>2, Zenon DEF Typed

(* The queues hold items, a batch is no larger than a request may be, and  *)
(* no count is ever negative.                                              *)
THEOREM EmitterTyped == Spec => []TypeOK
BY TypedInit, TypedStep, TypeParts, PTL DEF Spec

-----------------------------------------------------------------------------
(* Every event is accounted for once.                                      *)

(* The kinds the publishing task has yet to collect in its run.            *)
Uncollected ==
  CASE publisher = "put"     -> {}
    [] publisher = "fatal"   -> {"fatal"}
    [] publisher = "alert"   -> {"alert", "fatal"}
    [] publisher = "invalid" -> {"invalid", "alert", "fatal"}
    [] OTHER                 -> Kind

CollectInv == \A k \in Uncollected : collected[k] = 0

LEMMA CollectStep == Placed /\ Numbers /\ CollectInv /\ [Next]_vars => CollectInv'
<1> SUFFICES ASSUME Placed, Numbers, CollectInv, [Next]_vars PROVE CollectInv'
  OBVIOUS
<1>1. CASE Emit \/ Start \/ Close \/ Send \/ UNCHANGED vars
  <2>1. UNCHANGED <<publisher, collected>>
    BY <1>1 DEF Emit, EmitMetric, EmitAlert, EmitOther, Start, Close, Send, SendRun, CheckAlerts,
       TakeBatch, PutBatch, PutBatchFails, InterruptTake, vars, tasks
  <2>2. QED
    BY <2>1 DEF CollectInv, Uncollected
<1>2. CASE PublishRun
  BY <1>2, Named DEF PublishRun, CollectInv, Uncollected
<1>3. ASSUME NEW k \in Kind, Collect(k) PROVE CollectInv'
  BY <1>3, Named DEF Collect, CollectInv, Uncollected, Kind, Numbers
<1>4. CASE Publish
  BY <1>4 DEF Publish, CollectInv, Uncollected, Zero
<1>5. QED
  BY <1>1, <1>2, <1>3, <1>4 DEF Next, PublishCounts

(* The events of a channel that wait or have been sent, and the losses.    *)
Losses(k) == lost[k] + collected[k] + put[k].count + failed[k].count
Sum(k) == (IF k \in Channel THEN Waiting(k) ELSE 0) + Losses(k)

LEMMA NumberTypes ==
  ASSUME Numbers, NEW k \in Kind
  PROVE  /\ lost[k] \in Nat /\ collected[k] \in Nat /\ seen[k] \in Nat
         /\ put[k].data \in Nat /\ put[k].count \in Nat
         /\ failed[k].data \in Nat /\ failed[k].count \in Nat
BY DEF Numbers, Books

LEMMA LenTypes ==
  ASSUME Queued, NEW q \in Channel
  PROVE  Len(Queue(q)) \in Nat /\ Len(batch) \in Nat
BY DEF Queued, Queue

LEMMA SumTypes ==
  ASSUME Queued, Numbers, NEW k \in Kind
  PROVE  Losses(k) \in Nat /\ (k \in Channel => Waiting(k) \in Nat)
<1>1. Losses(k) \in Nat
  BY NumberTypes DEF Losses
<1>2. ASSUME k \in Channel PROVE Waiting(k) \in Nat
  BY <1>2, NumberTypes, LenTypes DEF Waiting
<1>3. QED
  BY <1>1, <1>2

(* The same in the next state.                                             *)
LEMMA NextTypes ==
  ASSUME Queued', Numbers', NEW k \in Kind
  PROVE  /\ lost'[k] \in Nat /\ collected'[k] \in Nat /\ seen'[k] \in Nat
         /\ Losses(k)' \in Nat
         /\ k \in Channel => Waiting(k)' \in Nat /\ Len(Queue(k)') \in Nat
<1>1. /\ lost'[k] \in Nat /\ collected'[k] \in Nat /\ seen'[k] \in Nat
      /\ put'[k].data \in Nat /\ put'[k].count \in Nat
      /\ failed'[k].data \in Nat /\ failed'[k].count \in Nat
  BY DEF Numbers, Books
<1>2. ASSUME k \in Channel PROVE Len(Queue(k)') \in Nat /\ Len(batch') \in Nat
  BY DEF Queued, Queue
<1>3. Losses(k)' \in Nat
  BY <1>1 DEF Losses
<1>4. ASSUME k \in Channel PROVE Waiting(k)' \in Nat
  <2>1. Len(Queue(k)') \in Nat /\ Len(batch') \in Nat
    BY <1>2, <1>4
  <2>2. PICK n \in Nat : n = IF Putting(k)' THEN Len(batch') ELSE 0
    BY <2>1
  <2>3. Waiting(k)' = Len(Queue(k)') + n + put'[k].data + failed'[k].data
    BY <2>2 DEF Waiting
  <2>4. QED
    BY <1>1, <2>1, <2>2, <2>3
<1>5. QED
  BY <1>1, <1>2, <1>3, <1>4

(* An event adds one to what was seen and to one place.                    *)
LEMMA EmitSum ==
  ASSUME Queued, Numbers, Queued', Numbers', Emit, NEW k \in Kind, seen[k] = Sum(k)
  PROVE  seen'[k] = Sum(k)'
<1> USE DEF tasks, queues
<1>1. UNCHANGED <<sender, batch, collected, put, failed>>
  BY DEF Emit, EmitMetric, EmitAlert, EmitOther
<1>2. Losses(k)' - Losses(k) = lost'[k] - lost[k]
  BY <1>1, NumberTypes DEF Losses, Numbers
<1>3. ASSUME k \in Channel PROVE Waiting(k)' - Waiting(k) = Len(Queue(k)') - Len(Queue(k))
  BY <1>1, <1>3, NumberTypes, LenTypes DEF Waiting, Putting
<1>4. ASSUME NEW x \in Item, NEW q \in Channel, Emitting(q, x)
      PROVE  seen'[k] = Sum(k)'
  <2>1. seen' = [seen EXCEPT ![q] = @ + 1] /\ q \in Kind
    BY <1>4, Named DEF Emitting, EmitMetric, EmitAlert, See
  <2>2. CASE k # q
    <3>1. lost'[k] = lost[k] /\ seen'[k] = seen[k]
      BY <1>4, <2>1, <2>2, EmitParts DEF Numbers
    <3>2. k \in Channel => Queue(k)' = Queue(k)
      BY <1>4, <2>2, EmitParts
    <3>3. k \in Channel => Len(Queue(k)') = Len(Queue(k))
      BY <3>2, Zenon
    <3>4. QED
      BY <1>2, <1>3, <3>1, <3>3, NumberTypes, LenTypes, SumTypes, NextTypes DEF Sum
  <2>3. CASE k = q
    <3>1. seen'[k] = seen[k] + 1
      BY <2>1, <2>3 DEF Numbers
    <3>2. /\ lost[k] \in Nat /\ Len(Queue(k)) \in Nat
          /\ \/ Len(Queue(k)') = Len(Queue(k)) + 1 /\ lost' = lost
             \/ Queue(k)' = Queue(k) /\ lost' = [lost EXCEPT ![k] = @ + 1]
      BY <1>4, <2>3, EmitParts, NumberTypes, LenTypes
    <3>3. lost'[k] + Len(Queue(k)') = lost[k] + Len(Queue(k)) + 1
      <4>1. CASE Len(Queue(k)') = Len(Queue(k)) + 1 /\ lost' = lost
        BY <3>2, <4>1
      <4>2. CASE Queue(k)' = Queue(k) /\ lost' = [lost EXCEPT ![k] = @ + 1]
        <5>1. Len(Queue(k)') = Len(Queue(k))
          BY <4>2, Zenon
        <5>2. lost'[k] = lost[k] + 1
          BY <2>1, <2>3, <4>2 DEF Numbers
        <5>3. QED
          BY <3>2, <5>1, <5>2
      <4>3. QED
        BY <3>2, <4>1, <4>2
    <3>4. k \in Channel
      BY <2>3
    <3>5. QED
      <4>1. /\ Waiting(k)' - Waiting(k) = Len(Queue(k)') - Len(Queue(k))
            /\ Losses(k)' - Losses(k) = lost'[k] - lost[k]
        BY <1>2, <1>3, <3>4
      <4>2. /\ Waiting(k) \in Nat /\ Losses(k) \in Nat /\ Waiting(k)' \in Nat /\ Losses(k)' \in Nat
            /\ lost'[k] \in Nat /\ Len(Queue(k)') \in Nat
            /\ lost[k] \in Nat /\ Len(Queue(k)) \in Nat /\ seen[k] \in Nat
        BY <3>2, <3>4, SumTypes, NextTypes, NumberTypes
      <4>3. seen[k] = Waiting(k) + Losses(k) /\ Sum(k)' = Waiting(k)' + Losses(k)'
        BY <3>4 DEF Sum
      <4>4. Waiting(k)' + Losses(k)' = Waiting(k) + Losses(k) + 1
        <5>1. PICK w \in Nat, m \in Nat, a \in Nat, c \in Nat :
                 w = Waiting(k)' /\ m = Losses(k)' /\ a = Len(Queue(k)') /\ c = lost'[k]
          BY <4>2
        <5>2. PICK v \in Nat, l \in Nat, b \in Nat, d \in Nat :
                 v = Waiting(k) /\ l = Losses(k) /\ b = Len(Queue(k)) /\ d = lost[k]
          BY <4>2
        <5>3. w - v = a - b /\ m - l = c - d /\ c + a = d + b + 1
          BY <3>3, <4>1, <5>1, <5>2
        <5>4. w + m = v + l + 1
          BY <5>3
        <5>5. QED
          BY <5>1, <5>2, <5>4
      <4>5. QED
        BY <3>1, <4>3, <4>4
  <2>4. QED
    BY <2>2, <2>3
<1>5. ASSUME NEW j \in {"invalid", "fatal"}, EmitOther(j)
      PROVE  seen'[k] = Sum(k)'
  <2>1. /\ seen' = [seen EXCEPT ![j] = @ + 1] /\ lost' = [lost EXCEPT ![j] = @ + 1]
        /\ metricQueue' = metricQueue /\ alertQueue' = alertQueue
    BY <1>5 DEF EmitOther, See, Count
  <2>2. lost'[k] - lost[k] = seen'[k] - seen[k]
    BY <2>1, NumberTypes DEF Numbers
  <2>3. Len(Queue(k)') = Len(Queue(k))
    BY <2>1 DEF Queue
  <2>4. PICK l \in Nat, m \in Nat, a \in Nat, b \in Nat, s \in Nat, t \in Nat :
          /\ l = Losses(k) /\ m = Losses(k)' /\ a = lost[k] /\ b = lost'[k]
          /\ s = seen[k] /\ t = seen'[k]
    BY NumberTypes, SumTypes, NextTypes
  <2>5. m - l = b - a /\ b - a = t - s
    BY <1>2, <2>2, <2>4
  <2>6. CASE k \in Channel
    <3>1. PICK v \in Nat, w \in Nat, x \in Nat : v = Waiting(k) /\ w = Waiting(k)' /\ x = Len(Queue(k))
      BY <2>6, SumTypes, NextTypes, LenTypes
    <3>2. w - v = x - x
      BY <1>3, <2>3, <2>6, <3>1
    <3>3. s = v + l /\ Sum(k)' = w + m
      BY <2>4, <2>6, <3>1 DEF Sum
    <3>4. t = w + m
      BY <2>5, <3>2, <3>3
    <3>5. QED
      BY <2>4, <3>3, <3>4
  <2>7. CASE k \notin Channel
    <3>1. s = 0 + l /\ Sum(k)' = 0 + m
      BY <2>4, <2>7 DEF Sum
    <3>2. t = 0 + m
      BY <2>5, <3>1
    <3>3. QED
      BY <2>4, <3>1, <3>2
  <2>8. QED
    BY <2>6, <2>7
<1>6. QED
  BY <1>4, <1>5, EmitCases, Zenon

(* What is taken from a queue into a batch or into a failed request.       *)
LEMMA TakenSum ==
  ASSUME NEW left \in Nat, NEW before \in Nat, NEW n \in Nat, NEW a \in Nat, NEW b \in Nat,
         left = before - n
  PROVE  /\ left + n + a + b = before + 0 + a + b
         /\ left + 0 + a + (b + n) = before + 0 + a + b
OBVIOUS

(* A step of the sending task moves data from one place to another.        *)
LEMMA SendSum ==
  ASSUME Queued, Numbers, Queued', Numbers', Send, NEW k \in Kind, seen[k] = Sum(k)
  PROVE  seen'[k] = Sum(k)'
<1> USE DEF tasks, queues
<1>1. UNCHANGED <<seen, lost, collected>>
  BY DEF Send, SendRun, CheckAlerts, TakeBatch, PutBatch, PutBatchFails, InterruptTake
<1>2. SUFFICES /\ put'[k].count = put[k].count /\ failed'[k].count = failed[k].count
               /\ k \in Channel => Waiting(k)' = Waiting(k)
  <2>1. ASSUME put'[k].count = put[k].count, failed'[k].count = failed[k].count
        PROVE  Losses(k)' = Losses(k)
    BY <1>1, <2>1 DEF Losses
  <2>2. QED
    BY <1>1, <2>1 DEF Sum
<1>3. CASE SendRun \/ CheckAlerts
  <2>1. UNCHANGED <<metricQueue, alertQueue, batch, put, failed>> /\ (\A q \in Channel : ~Putting(q) /\ ~Putting(q)')
    BY <1>3 DEF SendRun, CheckAlerts, Putting, Channel
  <2>2. QED
    BY <2>1 DEF Waiting, Queue
<1>4. ASSUME NEW q \in Channel, TakeBatch(q)
      PROVE  /\ put'[k].count = put[k].count /\ failed'[k].count = failed[k].count
             /\ k \in Channel => Waiting(k)' = Waiting(k)
  <2>1. TakeFrom(q, MaxPut) /\ MaxPut \in Nat /\ UNCHANGED <<put, failed>>
    BY <1>4, PutAssumption DEF TakeBatch
  <2>2. \A r \in Channel : ~Putting(r)
    BY <1>4 DEF TakeBatch, Putting, Channel
  <2>3. \A r \in Channel : Putting(r)' => r = q
    BY <1>4 DEF TakeBatch, Putting, Channel, AfterDrain
  <2>4. ~Putting(q)' => Len(batch') = 0
    <3>1. ~Putting(q)' => batch' = <<>>
      BY <1>4 DEF TakeBatch, Putting, Channel
    <3>2. Len(<<>>) = 0
      OBVIOUS
    <3>3. QED
      BY <3>1, <3>2, Zenon
  <2>5. CASE k \in Channel \ {q}
    <3>1. Queue(k)' = Queue(k)
      BY <2>1, <2>5, TakeParts
    <3>2. QED
      BY <2>1, <2>2, <2>3, <2>5, <3>1 DEF Waiting
  <2>6. CASE k = q
    <3>1. k \in Channel /\ TakeBatch(k) /\ TakeFrom(k, MaxPut)
      BY <1>4, <2>1, <2>6, Zenon
    <3>2. Len(Queue(k)') = Len(Queue(k)) - Len(batch')
      BY <2>1, <3>1, TakeParts, BatchParts
    <3>3. (IF Putting(k)' THEN Len(batch') ELSE 0) = Len(batch')
      BY <2>4, <2>6
    <3>4. Len(Queue(k)) \in Nat /\ Len(Queue(k)') \in Nat
      BY <3>1, LenTypes, NextTypes
    <3>5. Len(batch') \in Nat
      BY <3>1, <3>4, BatchParts, PutAssumption DEF Smaller
    <3>6. Waiting(k)' = Len(Queue(k)') + Len(batch') + put[k].data + failed[k].data
      BY <2>1, <3>3 DEF Waiting
    <3>7. Waiting(k) = Len(Queue(k)) + 0 + put[k].data + failed[k].data
      BY <2>2, <3>1 DEF Waiting
    <3>8. put[k].data \in Nat /\ failed[k].data \in Nat
      BY NumberTypes
    <3>9. Waiting(k)' = Waiting(k)
      BY <3>2, <3>4, <3>5, <3>6, <3>7, <3>8, TakenSum
    <3>10. QED
      BY <2>1, <3>9
  <2>7. QED
    BY <2>1, <2>5, <2>6
<1>5. ASSUME NEW q \in Channel, PutBatch(q) \/ PutBatchFails(q)
      PROVE  /\ put'[k].count = put[k].count /\ failed'[k].count = failed[k].count
             /\ k \in Channel => Waiting(k)' = Waiting(k)
  <2>1. Len(batch) \in Nat /\ q \in Kind /\ put \in Books /\ failed \in Books
    BY Named DEF Queued, Numbers
  <2>2. ASSUME NEW h \in Books, NEW r \in Kind, NEW n \in Nat
            PROVE  \A j \in Kind :
                     /\ [h EXCEPT ![r].data = @ + n][j].data = h[j].data + (IF j = r THEN n ELSE 0)
                     /\ [h EXCEPT ![r].data = @ + n][j].count = h[j].count
    BY AddedData, Zenon
  <2>3. Len(batch) \in Nat /\ q \in Kind
    BY <2>1
  <2>4. put \in Books
    BY <2>1
  <2>5. failed \in Books
    BY <2>1
  <2>6. /\ \/ put' = [put EXCEPT ![q].data = @ + Len(batch)] /\ failed' = failed
           \/ failed' = [failed EXCEPT ![q].data = @ + Len(batch)] /\ put' = put
        /\ UNCHANGED <<metricQueue, alertQueue>>
    BY <1>5 DEF PutBatch, PutBatchFails
  <2>7. /\ put'[k].count = put[k].count /\ failed'[k].count = failed[k].count
        /\ put'[k].data + failed'[k].data
             = put[k].data + failed[k].data + (IF k = q THEN Len(batch) ELSE 0)
    <3>1. CASE put' = [put EXCEPT ![q].data = @ + Len(batch)] /\ failed' = failed
      <4>1. \A j \in Kind :
              /\ [put EXCEPT ![q].data = @ + Len(batch)][j].data
                   = put[j].data + (IF j = q THEN Len(batch) ELSE 0)
              /\ [put EXCEPT ![q].data = @ + Len(batch)][j].count = put[j].count
        BY <2>3, <2>4, <2>2, Zenon
      <4>2. QED
        BY <2>1, <3>1, <4>1, NumberTypes
    <3>2. CASE failed' = [failed EXCEPT ![q].data = @ + Len(batch)] /\ put' = put
      <4>1. \A j \in Kind :
              /\ [failed EXCEPT ![q].data = @ + Len(batch)][j].data
                   = failed[j].data + (IF j = q THEN Len(batch) ELSE 0)
              /\ [failed EXCEPT ![q].data = @ + Len(batch)][j].count = failed[j].count
        BY <2>3, <2>5, <2>2, Zenon
      <4>2. QED
        BY <2>1, <3>2, <4>1, NumberTypes
    <3>3. QED
      BY <2>6, <3>1, <3>2
  <2>8. \A r \in Channel : ~Putting(r)' /\ (Putting(r) <=> r = q)
    BY <1>5 DEF PutBatch, PutBatchFails, Putting, AfterDrain, Channel
  <2>9. ASSUME k \in Channel PROVE Waiting(k)' = Waiting(k)
    <3>1. Len(Queue(k)') = Len(Queue(k))
      BY <2>6 DEF Queue
    <3>2. Waiting(k)' = Len(Queue(k)) + 0 + put'[k].data + failed'[k].data
      BY <2>8, <2>9, <3>1 DEF Waiting
    <3>3. Waiting(k) = Len(Queue(k)) + (IF k = q THEN Len(batch) ELSE 0) + put[k].data + failed[k].data
      BY <2>8, <2>9 DEF Waiting
    <3>4. put'[k].data \in Nat /\ failed'[k].data \in Nat
      BY DEF Numbers, Books
    <3>5. put[k].data \in Nat /\ failed[k].data \in Nat /\ Len(Queue(k)) \in Nat
      BY <2>9, NumberTypes, LenTypes
    <3>6. PICK n \in Nat : n = IF k = q THEN Len(batch) ELSE 0
      BY <2>1
    <3>7. /\ Waiting(k) = Len(Queue(k)) + n + put[k].data + failed[k].data
          /\ put'[k].data + failed'[k].data = put[k].data + failed[k].data + n
      BY <2>7, <3>3, <3>6
    <3>8. PICK a \in Nat, b \in Nat, c \in Nat, d \in Nat, m \in Nat :
            /\ a = put'[k].data /\ b = failed'[k].data
            /\ c = put[k].data /\ d = failed[k].data /\ m = Len(Queue(k))
      BY <3>4, <3>5
    <3>9. Waiting(k)' = m + 0 + a + b /\ Waiting(k) = m + n + c + d /\ a + b = c + d + n
      BY <3>2, <3>7, <3>8
    <3>10. m + 0 + a + b = m + n + c + d
      BY <3>9
    <3>11. QED
      BY <3>9, <3>10
  <2>10. QED
    BY <2>7, <2>9
<1>6. ASSUME NEW q \in Channel, InterruptTake(q)
      PROVE  /\ put'[k].count = put[k].count /\ failed'[k].count = failed[k].count
             /\ k \in Channel => Waiting(k)' = Waiting(k)
  <2>1. PICK n \in 0 .. MaxPut - 1 :
          n < Len(Queue(q)) /\ TakeFrom(q, n) /\ failed' = [failed EXCEPT ![q].data = @ + n]
    BY <1>6 DEF InterruptTake
  <2>2. n \in Nat /\ q \in Kind /\ put' = put /\ failed \in Books
    BY <1>6, Named, PutAssumption DEF InterruptTake, Numbers
  <2>3. /\ failed'[k].count = failed[k].count
        /\ failed'[k].data = failed[k].data + (IF k = q THEN n ELSE 0)
    BY <2>1, <2>2, AddedData
  <2>4. \A r \in Channel : ~Putting(r)' /\ ~Putting(r)
    BY <1>6 DEF InterruptTake, Putting, AfterDrain, Channel
  <2>5. ASSUME k \in Channel PROVE Waiting(k)' = Waiting(k)
    <3>1. Len(Queue(k)') = Len(Queue(k)) - (IF k = q THEN n ELSE 0)
      <4>1. Smaller(n, Len(Queue(q))) = n
        BY <2>1, <2>2, LenTypes DEF Smaller
      <4>2. CASE k = q
        BY <2>1, <2>2, <4>1, <4>2, TakeParts
      <4>3. CASE k # q
        <5>1. Queue(k)' = Queue(k)
          BY <2>1, <2>2, <2>5, <4>3, TakeParts
        <5>2. Len(Queue(k)') = Len(Queue(k))
          BY <5>1, Zenon
        <5>3. QED
          BY <2>5, <4>3, <5>2, LenTypes
      <4>4. QED
        BY <4>2, <4>3
    <3>2. Waiting(k)' = Len(Queue(k)') + 0 + put[k].data + failed'[k].data
      BY <2>2, <2>4, <2>5 DEF Waiting
    <3>3. Waiting(k) = Len(Queue(k)) + 0 + put[k].data + failed[k].data
      BY <2>4, <2>5 DEF Waiting
    <3>4. PICK m \in Nat : m = IF k = q THEN n ELSE 0
      BY <2>2
    <3>5. Len(Queue(k)') = Len(Queue(k)) - m /\ failed'[k].data = failed[k].data + m
      BY <2>3, <3>1, <3>4
    <3>6. /\ put[k].data \in Nat /\ failed[k].data \in Nat
          /\ Len(Queue(k)) \in Nat /\ Len(Queue(k)') \in Nat
      BY <2>5, NumberTypes, LenTypes, NextTypes
    <3>7. PICK x \in Nat, y \in Nat, a \in Nat, b \in Nat, d \in Nat :
            /\ x = Len(Queue(k)) /\ y = Len(Queue(k)') /\ a = put[k].data
            /\ b = failed[k].data /\ d = failed'[k].data
      BY <3>5, <3>6
    <3>8. y = x - m /\ d = b + m
      BY <3>5, <3>7
    <3>9. Waiting(k)' = y + 0 + a + d /\ Waiting(k) = x + 0 + a + b
      BY <3>2, <3>3, <3>7
    <3>10. y + 0 + a + d = x + 0 + a + b
      BY <3>8
    <3>11. QED
      BY <3>9, <3>10
  <2>6. QED
    BY <2>2, <2>3, <2>5
<1>7. QED
  BY <1>3, <1>4, <1>5, <1>6 DEF Send

(* The counts of a run are collected once and booked once.                 *)
LEMMA PublishSum ==
  ASSUME Queued, Numbers, Queued', Numbers', CollectInv, PublishCounts,
         NEW k \in Kind, seen[k] = Sum(k)
  PROVE  seen'[k] = Sum(k)'
<1> USE DEF tasks, queues
<1>1. UNCHANGED <<seen, sender, batch, metricQueue, alertQueue>>
  BY DEF PublishCounts, PublishRun, Collect, Publish
<1>2. SUFFICES /\ put'[k].data = put[k].data /\ failed'[k].data = failed[k].data
               /\ Losses(k)' = Losses(k)
  <2>1. ASSUME put'[k].data = put[k].data, failed'[k].data = failed[k].data
        PROVE  Waiting(k)' = Waiting(k)
    BY <1>1, <2>1 DEF Waiting, Queue, Putting
  <2>2. QED
    BY <1>1, <2>1 DEF Sum
<1>3. CASE PublishRun
  BY <1>3 DEF PublishRun, Losses
<1>4. ASSUME NEW j \in Kind, Collect(j)
      PROVE  /\ put'[k].data = put[k].data /\ failed'[k].data = failed[k].data
             /\ Losses(k)' = Losses(k)
  <2>1. collected[j] = 0
    BY <1>4 DEF Collect, CollectInv, Uncollected, Kind
  <2>2. lost'[k] + collected'[k] = lost[k] + collected[k]
    BY <1>4, <2>1, NumberTypes DEF Collect, Numbers
  <2>3. UNCHANGED <<put, failed>>
    BY <1>4 DEF Collect
  <2>4. QED
    BY <2>2, <2>3, NumberTypes, NextTypes DEF Losses
<1>5. CASE Publish
  <2>1. /\ \/ put' = Booked(put) /\ failed' = failed
           \/ failed' = Booked(failed) /\ put' = put
        /\ collected'[k] = 0 /\ lost' = lost
    BY <1>5 DEF Publish, Zero
  <2>2. put \in Books /\ failed \in Books /\ collected \in [Kind -> Nat]
    BY DEF Numbers
  <2>3. /\ Booked(put)[k].data = put[k].data /\ Booked(put)[k].count = put[k].count + collected[k]
        /\ Booked(failed)[k].data = failed[k].data
        /\ Booked(failed)[k].count = failed[k].count + collected[k]
    BY <2>2, BookedType
  <2>4. QED
    BY <2>1, <2>3, NumberTypes DEF Losses
<1>6. QED
  BY <1>3, <1>4, <1>5 DEF PublishCounts

(* What holds in every state: the types, the order in which the counts are *)
(* collected, and the sum.                                                 *)
Balanced == \A k \in Kind : seen[k] = Sum(k)
EmitterInv == Typed /\ CollectInv /\ Balanced

LEMMA EmitterInit == Init => EmitterInv
<1> SUFFICES ASSUME Init PROVE EmitterInv
  OBVIOUS
<1>1. CollectInv
  BY DEF Init, CollectInv, Uncollected, Zero, Kind
<1>2. ASSUME NEW k \in Kind PROVE seen[k] = Sum(k)
  <2>1. k \in Channel => Len(Queue(k)) = 0
    BY DEF Init, Queue
  <2>2. ~Putting(k)
    BY DEF Init, Putting
  <2>3. QED
    BY <1>2, <2>1, <2>2 DEF Init, Sum, Waiting, Losses, Zero
<1>3. QED
  BY <1>1, <1>2, TypedInit, Zenon DEF EmitterInv, Balanced

LEMMA EmitterStep == EmitterInv /\ [Next]_vars => EmitterInv'
<1> SUFFICES ASSUME EmitterInv, [Next]_vars PROVE EmitterInv'
  OBVIOUS
<1>1. Placed /\ Queued /\ Numbers /\ CollectInv
  BY Zenon DEF EmitterInv, Typed
<1>2. Placed' /\ Queued' /\ Numbers' /\ CollectInv'
  BY <1>1, PlacedStep, QueuedStep, NumbersStep, CollectStep
<1>3. ASSUME NEW k \in Kind PROVE seen'[k] = Sum(k)'
  <2>1. seen[k] = Sum(k)
    BY <1>3, Zenon DEF EmitterInv, Balanced
  <2>2. CASE Emit
    BY <1>1, <1>2, <2>1, <2>2, EmitSum
  <2>3. CASE Send
    BY <1>1, <1>2, <2>1, <2>3, SendSum
  <2>4. CASE PublishCounts
    BY <1>1, <1>2, <2>1, <2>4, PublishSum
  <2>5. CASE Start \/ Close \/ UNCHANGED vars
    <3>1. UNCHANGED <<seen, lost, collected, put, failed, sender, batch, metricQueue, alertQueue>>
      BY <2>5 DEF Start, Close, vars, tasks, queues
    <3>2. QED
      BY <2>1, <3>1 DEF Sum, Losses, Waiting, Putting, Queue
  <2>6. QED
    BY <2>2, <2>3, <2>4, <2>5 DEF Next
<1>4. Typed'
  BY TypedStep, Zenon DEF EmitterInv
<1>5. QED
  BY <1>2, <1>3, <1>4, Zenon DEF EmitterInv, Balanced

(* For any number of threads, items and failed requests, and whenever the  *)
(* emitter is closed: every event is queued, in a request, put, lost in a  *)
(* request that failed, or counted once.                                   *)
THEOREM EventsAccounted == Spec => []EventsAddUp
<1>1. EmitterInv => EventsAddUp
  <2> SUFFICES ASSUME EmitterInv, NEW k \in Kind
               PROVE  seen[k] = (IF k \in Channel THEN Waiting(k) ELSE 0)
                                + lost[k] + collected[k] + put[k].count + failed[k].count
    BY DEF EventsAddUp
  <2>1. seen[k] = Sum(k) /\ Queued /\ Numbers
    BY Zenon DEF EmitterInv, Balanced, Typed
  <2>2. QED
    BY <2>1, NumberTypes, SumTypes DEF Sum, Losses
<1>2. QED
  BY <1>1, EmitterInit, EmitterStep, PTL DEF Spec
=============================================================================
