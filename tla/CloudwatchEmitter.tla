-------------------------- MODULE CloudwatchEmitter --------------------------
(***************************************************************************)
(* The Druid emitter that forwards metrics and alerts to CloudWatch: any   *)
(* number of Druid threads emit, one scheduled task sends what is queued,  *)
(* another publishes how many events were lost, and the lifecycle starts   *)
(* and closes the emitter.  The two queues are BoundedQueues, which        *)
(* MemoryBoundQueue is shown to implement.                                 *)
(***************************************************************************)
EXTENDS Naturals, Sequences, FiniteSets

CONSTANTS
  Item, Size, Bound,  \* data (MetricDatum) up to their size; batchSize
  MaxPut,             \* MAX_METRICS_PER_CLOUDWATCH_REQUEST
  MaxEvents           \* bound on the events emitted

ASSUME PutAssumption == MaxPut \in Nat \ {0}

VARIABLES
  phase,        \* of the lifecycle: "new", "started" or "closed"
  metricQueue, alertQueue,
  sender,       \* where the sending task is
  batch,        \* what it has taken and not put yet
  publisher,    \* where the publishing task is: "idle", "put" or a kind
  lost,         \* the counters metricLost, invalidLost, alertLost, fatalCount
  collected,    \* their values in the request of the publishing task
  interrupted,  \* may the sending task still see the interrupt of close?
  seen,         \* history: events emitted, by what became of them at first
  put,          \* history: data and counts that CloudWatch took
  failed        \* history: data and counts of requests that failed

vars == <<phase, metricQueue, alertQueue, sender, batch, publisher, lost, collected,
          interrupted, seen, put, failed>>
queues == <<metricQueue, alertQueue>>
tasks  == <<sender, batch, publisher, collected>>

Channel == {"metric", "alert"}
(* The counts in the order in which a request is filled with them.         *)
Kinds == <<"metric", "invalid", "alert", "fatal">>
Kind  == {"metric", "invalid", "alert", "fatal"}
Zero  == [k \in Kind |-> 0]

MetricQueue == INSTANCE BoundedQueue WITH items <- metricQueue, MaxTake <- MaxPut
AlertQueue  == INSTANCE BoundedQueue WITH items <- alertQueue, MaxTake <- MaxPut

Queue(q) == IF q = "metric" THEN metricQueue ELSE alertQueue

TypeOK ==
  /\ phase \in {"new", "started", "closed"}
  /\ metricQueue \in Seq(Item) /\ alertQueue \in Seq(Item)
  /\ sender \in {"idle", "checkAlerts", "putMetric", "putAlert"} \cup Channel
  /\ batch \in Seq(Item) /\ Len(batch) <= MaxPut
  /\ publisher \in {"idle", "put"} \cup Kind
  /\ lost \in [Kind -> Nat] /\ collected \in [Kind -> Nat] /\ seen \in [Kind -> Nat]
  /\ put \in [Kind -> [data : Nat, count : Nat]]
  /\ failed \in [Kind -> [data : Nat, count : Nat]]
  /\ interrupted \in BOOLEAN

Init ==
  /\ phase = "new" /\ metricQueue = <<>> /\ alertQueue = <<>>
  /\ sender = "idle" /\ batch = <<>> /\ publisher = "idle"
  /\ lost = Zero /\ collected = Zero /\ interrupted = FALSE
  /\ seen = Zero
  /\ put = [k \in Kind |-> [data |-> 0, count |-> 0]]
  /\ failed = [k \in Kind |-> [data |-> 0, count |-> 0]]

-----------------------------------------------------------------------------
(* emit, by any thread of Druid and in every phase.                        *)

Count(k) == lost' = [lost EXCEPT ![k] = @ + 1]
Total == seen["metric"] + seen["alert"] + seen["invalid"] + seen["fatal"]
See(k) == Total < MaxEvents /\ seen' = [seen EXCEPT ![k] = @ + 1]

EmitMetric(x) ==
  /\ See("metric")
  /\ \/ MetricQueue!Accept(x) /\ UNCHANGED lost
     \/ MetricQueue!Refuse(x) /\ Count("metric")
  /\ UNCHANGED <<phase, alertQueue, tasks, interrupted, put, failed>>

EmitAlert(x) ==
  /\ See("alert")
  /\ \/ AlertQueue!Accept(x) /\ UNCHANGED lost
     \/ AlertQueue!Refuse(x) /\ Count("alert")
  /\ UNCHANGED <<phase, metricQueue, tasks, interrupted, put, failed>>

(* An event of another class, or an exception on the way to its queue.     *)
EmitOther(k) ==
  /\ See(k) /\ Count(k)
  /\ UNCHANGED <<phase, queues, tasks, interrupted, put, failed>>

-----------------------------------------------------------------------------
(* The lifecycle: close is shutdownNow, which interrupts both tasks and    *)
(* lets no further run of them begin.                                      *)
Start ==
  /\ phase = "new" /\ phase' = "started"
  /\ UNCHANGED <<queues, tasks, lost, interrupted, seen, put, failed>>

Close ==
  /\ phase = "started" /\ phase' = "closed"
  /\ interrupted' = (sender # "idle")
  /\ UNCHANGED <<queues, tasks, lost, seen, put, failed>>

-----------------------------------------------------------------------------
(* sendMetricToCloudwatch, which runs every ten seconds, never twice at a  *)
(* time: drain the metrics, then the alerts.                               *)

SendRun ==
  /\ sender = "idle" /\ phase = "started"
  /\ sender' = IF metricQueue # <<>> THEN "metric" ELSE "checkAlerts"
  /\ UNCHANGED <<phase, queues, batch, publisher, collected, lost, interrupted, seen,
                 put, failed>>

CheckAlerts ==
  /\ sender = "checkAlerts"
  /\ sender' = IF alertQueue # <<>> THEN "alert" ELSE "idle"
  /\ UNCHANGED <<phase, queues, batch, publisher, collected, lost, interrupted, seen,
                 put, failed>>

(* sendToCloudwatch: after its loop, by an empty take or by an exception.  *)
AfterDrain(q) == IF q = "metric" THEN "checkAlerts" ELSE "idle"

TakeFrom(q, n) ==
  \/ q = "metric" /\ MetricQueue!Take(n) /\ UNCHANGED alertQueue
  \/ q = "alert" /\ AlertQueue!Take(n) /\ UNCHANGED metricQueue

(* Mutation: the whole queue goes into one request.                        *)
TakeEverything(q) ==
  /\ sender = q
  /\ TakeFrom(q, Len(Queue(q)))
  /\ batch' = Queue(q)
  /\ sender' = IF batch' = <<>> THEN AfterDrain(q)
               ELSE IF q = "metric" THEN "putMetric" ELSE "putAlert"
  /\ UNCHANGED <<phase, publisher, collected, lost, interrupted, seen, put, failed>>

TakeBatch(q) ==
  /\ sender = q
  /\ TakeFrom(q, MaxPut)
  /\ batch' = SubSeq(Queue(q), 1, IF Len(Queue(q)) < MaxPut THEN Len(Queue(q)) ELSE MaxPut)
  /\ sender' = IF batch' = <<>> THEN AfterDrain(q)
               ELSE IF q = "metric" THEN "putMetric" ELSE "putAlert"
  /\ UNCHANGED <<phase, publisher, collected, lost, interrupted, seen, put, failed>>

Putting(q) == sender = IF q = "metric" THEN "putMetric" ELSE "putAlert"

PutBatch(q) ==
  /\ Putting(q)
  /\ put' = [put EXCEPT ![q].data = @ + Len(batch)]
  /\ batch' = <<>> /\ sender' = q
  /\ UNCHANGED <<phase, queues, publisher, collected, lost, interrupted, seen, failed>>

(* Mutation: the exception escapes, and the scheduler runs the task no more. *)
PutBatchKills(q) ==
  /\ Putting(q)
  /\ failed' = [failed EXCEPT ![q].data = @ + Len(batch)]
  /\ batch' = <<>> /\ sender' = "dead"
  /\ interrupted' \in {interrupted, FALSE}
  /\ UNCHANGED <<phase, queues, publisher, collected, lost, seen, put>>

(* putMetricData throws: the batch is gone, the loop is left.              *)
PutBatchFails(q) ==
  /\ Putting(q)
  /\ failed' = [failed EXCEPT ![q].data = @ + Len(batch)]
  /\ batch' = <<>> /\ sender' = AfterDrain(q)
  /\ interrupted' \in {interrupted, FALSE}
  /\ UNCHANGED <<phase, queues, publisher, collected, lost, seen, put>>

(* The interrupt of close ends a take between two items.                   *)
InterruptTake(q) ==
  /\ sender = q /\ interrupted /\ Queue(q) # <<>>
  /\ \E n \in 0 .. MaxPut - 1 :
       /\ n < Len(Queue(q)) /\ TakeFrom(q, n)
       /\ failed' = [failed EXCEPT ![q].data = @ + n]
  /\ sender' = AfterDrain(q) /\ interrupted' = FALSE
  /\ UNCHANGED <<phase, batch, publisher, collected, lost, seen, put>>

-----------------------------------------------------------------------------
(* publishCountsToCloudwatch, once a minute: getAndSet counter by counter, *)
(* while other threads count on.                                           *)

PublishRun ==
  /\ publisher = "idle" /\ phase = "started"
  /\ publisher' = Kinds[1]
  /\ UNCHANGED <<phase, queues, sender, batch, collected, lost, interrupted, seen, put,
                 failed>>

AfterKind(k) ==
  IF k = Kinds[Len(Kinds)] THEN "put"
  ELSE Kinds[(CHOOSE i \in DOMAIN Kinds : Kinds[i] = k) + 1]

(* Mutation: the counter is read and not reset.                            *)
CollectKept(k) ==
  /\ publisher = k
  /\ collected' = [collected EXCEPT ![k] = lost[k]]
  /\ publisher' = AfterKind(k)
  /\ UNCHANGED <<phase, queues, sender, batch, lost, interrupted, seen, put, failed>>

Collect(k) ==
  /\ publisher = k
  /\ collected' = [collected EXCEPT ![k] = lost[k]]
  /\ lost' = [lost EXCEPT ![k] = 0]
  /\ publisher' = AfterKind(k)
  /\ UNCHANGED <<phase, queues, sender, batch, interrupted, seen, put, failed>>

(* What a request did to the counts it carried.                            *)
Booked(h) == [k \in Kind |-> [h[k] EXCEPT !.count = @ + collected[k]]]

(* Mutation: a request that fails ends the task for good.                  *)
PublishOrDie ==
  /\ publisher = "put"
  /\ \/ put' = Booked(put) /\ UNCHANGED failed /\ publisher' = "idle"
     \/ failed' = Booked(failed) /\ UNCHANGED put /\ publisher' = "dead"
  /\ collected' = Zero
  /\ UNCHANGED <<phase, queues, sender, batch, lost, interrupted, seen>>

Publish ==
  /\ publisher = "put"
  /\ \/ put' = Booked(put) /\ UNCHANGED failed
     \/ failed' = Booked(failed) /\ UNCHANGED put
  /\ collected' = Zero /\ publisher' = "idle"
  /\ UNCHANGED <<phase, queues, sender, batch, lost, interrupted, seen>>

-----------------------------------------------------------------------------
Emit ==
  \/ \E x \in Item : EmitMetric(x) \/ EmitAlert(x)
  \/ \E k \in {"invalid", "fatal"} : EmitOther(k)

Send ==
  \/ SendRun \/ CheckAlerts
  \/ \E q \in Channel :
       TakeBatch(q) \/ PutBatch(q) \/ PutBatchFails(q) \/ InterruptTake(q)

PublishCounts == PublishRun \/ (\E k \in Kind : Collect(k)) \/ Publish

Next == Emit \/ Start \/ Close \/ Send \/ PublishCounts

Spec == Init /\ [][Next]_vars

(* The scheduler keeps running both tasks and CloudWatch answers, somehow. *)
FairSpec == Spec /\ WF_vars(Send) /\ WF_vars(PublishCounts)
-----------------------------------------------------------------------------
Waiting(q) ==
  Len(Queue(q)) + (IF Putting(q) THEN Len(batch) ELSE 0) + put[q].data + failed[q].data

(* Every event is accounted for exactly once, however the emitting threads, *)
(* the two tasks and close interleave: it is queued, in a request, put, in *)
(* a request that failed, or in one of the counts, which in turn is        *)
(* counted, in a request, published, or in a request that failed.          *)
EventsAddUp ==
  \A k \in Kind :
    seen[k] = (IF k \in Channel THEN Waiting(k) ELSE 0)
              + lost[k] + collected[k] + put[k].count + failed[k].count

(* Requests may fail for ever, but each queue is emptied again and again   *)
(* until the emitter is closed, the alerts behind the metrics included.    *)
QueuesDrain ==
  \A q \in Channel :
    phase = "started" /\ Queue(q) # <<>> ~> Queue(q) = <<>> \/ phase = "closed"

(* A loss is reported, or at least goes into a request.                    *)
LossesLeave ==
  \A k \in Kind :
    phase = "started" /\ lost[k] > 0 ~> lost[k] = 0 \/ phase = "closed"
=============================================================================
