---------------------------- MODULE BatcherProofs -----------------------------
(***************************************************************************)
(* Proofs about Batcher, for any number of requests and any batch size: its *)
(* invariants, that everybody gets the rows of its own tensors, and that it *)
(* implements FifoAnswers.                                                  *)
(***************************************************************************)
EXTENDS Batcher, SequenceTheorems, DataLemmas

-------------------------------------------------------------------------------
(* Type correctness *)

\* What Drain leaves: a front of the queue in the batch, the rest in the queue.
LEMMA DrainEffect ==
  ASSUME queue \in Seq(Requests), Drain
  PROVE  \E n \in Nat :
           /\ n <= Len(queue) /\ n <= MaxBatch
           /\ worker' = IF n > 0 THEN "flush" ELSE "test"
           /\ queue # <<>> => n > 0
           /\ n < MaxBatch => n = Len(queue)
           /\ batch' \in Seq(Requests) /\ Len(batch') = n
           /\ \A i \in 1..n : batch'[i] = queue[i]
           /\ queue' \in Seq(Requests) /\ Len(queue') = Len(queue) - n
           /\ \A i \in 1..(Len(queue) - n) : queue'[i] = queue[n + i]
<1> DEFINE n == IF Len(queue) < MaxBatch THEN Len(queue) ELSE MaxBatch
<1>1. n \in Nat /\ n <= Len(queue) /\ n <= MaxBatch
      /\ (queue # <<>> => n > 0) /\ (n < MaxBatch => n = Len(queue))
  BY MaxBatchAssumption
<1>2. batch' = SubSeq(queue, 1, n) /\ queue' = SubSeq(queue, n + 1, Len(queue))
      /\ worker' = IF n > 0 THEN "flush" ELSE "test"
  BY DEF Drain
<1> HIDE DEF n
<1>3. batch' \in Seq(Requests) /\ Len(batch') = n /\ \A i \in 1..n : batch'[i] = queue[i]
  BY <1>1, <1>2, SMTT(30)
<1>4. queue' \in Seq(Requests) /\ Len(queue') = Len(queue) - n
      /\ \A i \in 1..(Len(queue) - n) : queue'[i] = queue[n + i]
  BY <1>1, <1>2, SMTT(30)
<1> QED
  BY <1>1, <1>2, <1>3, <1>4

\* The request of one Submit call.
LEMMA SubmitEffect ==
  ASSUME NEW r \in Requests, Submit(r)
  PROVE  \E req \in PendingRequests : request' = [request EXCEPT ![r] = req]
BY DEF Submit

\* How often a request occurs in a batch.
LEMMA OccurrencesType ==
  ASSUME NEW b \in Seq(Requests), NEW r
  PROVE  Cardinality({i \in DOMAIN b : b[i] = r}) \in Nat
<1>1. IsFiniteSet(1..Len(b))
  BY FS_Interval
<1>2. IsFiniteSet({i \in DOMAIN b : b[i] = r})
  BY <1>1, FS_Subset
<1> QED
  BY <1>2, FS_CardinalityType

LEMMA WaitsType ==
  ASSUME NEW w \in [Requests -> Nat], NEW b \in Seq(Requests)
  PROVE  [r \in Requests |-> w[r] + Cardinality({i \in DOMAIN b : b[i] = r})]
           \in [Requests -> Nat]
<1> DEFINE times(r) == Cardinality({i \in DOMAIN b : b[i] = r})
<1>1. \A r \in Requests : times(r) \in Nat
  BY OccurrencesType
<1> HIDE DEF times
<1>2. [r \in Requests |-> w[r] + times(r)] \in [Requests -> Nat]
  BY <1>1
<1> QED
  BY <1>2 DEF times

LEMMA TypeInit == Init => TypeOK
<1> SUFFICES ASSUME Init
             PROVE  TypeOK
  OBVIOUS
<1>1. QueueTypes
  BY DEF Init, QueueTypes
<1>2. ThreadTypes
  BY DEF Init, ThreadTypes
<1>3. RequestTypes
  BY DEF Init, RequestTypes
<1> QED
  BY <1>1, <1>2, <1>3 DEF TypeOK

\* flush sets the promise of the next request of the batch, to ok or error.
LEMMA DeliverFrame ==
  ASSUME DeliverError \/ DeliverOutput
  PROVE  /\ worker = "deliver" /\ delivered < Len(batch) /\ delivered' = delivered + 1
         /\ UNCHANGED <<queue, stopping, worker, batch, rejected, request, waits,
                       caller, owner>>
BY DEF DeliverError, DeliverOutput, shared

LEMMA DeliverSettles ==
  ASSUME QueueTypes, DeliverError \/ DeliverOutput
  PROVE  /\ batch[delivered + 1] \in Requests
         /\ \E how \in {"ok", "error"} :
              promise' = [promise EXCEPT ![batch[delivered + 1]] =
                            Settled(batch[delivered + 1], how)]
<1>1. delivered < Len(batch)
  BY DeliverFrame
<1>2. batch[delivered + 1] \in Requests
  BY <1>1 DEF QueueTypes
<1>3. CASE DeliverError
  BY <1>2, <1>3 DEF DeliverError
<1>4. CASE DeliverOutput
  BY <1>2, <1>4 DEF DeliverOutput
<1> QED
  BY <1>3, <1>4

\* The shutdown loop sets the promise of the next request of the queue.
LEMMA RejectFrame ==
  ASSUME RejectNext
  PROVE  /\ worker = "rejecting" /\ rejected < Len(queue) /\ rejected' = rejected + 1
         /\ UNCHANGED <<queue, stopping, worker, batch, delivered, request, answer,
                       waits, caller, owner>>
BY DEF RejectNext, shared, flushing

LEMMA RejectSettles ==
  ASSUME QueueTypes, RejectNext
  PROVE  /\ queue[rejected + 1] \in Requests
         /\ promise' = [promise EXCEPT ![queue[rejected + 1]] =
                           Settled(queue[rejected + 1], "shutdown")]
<1>1. rejected < Len(queue)
  BY RejectFrame
<1>2. queue[rejected + 1] \in Requests
  BY <1>1 DEF QueueTypes
<1> QED
  BY <1>2 DEF RejectNext

\* The queue and the batch stay sequences of requests with their cursors inside.
LEMMA QueueTypesNext == IInv /\ [Next]_vars => QueueTypes'
<1> SUFFICES ASSUME QueueTypes, WorkerControl, [Next]_vars
             PROVE  QueueTypes'
  BY DEF IInv, TypeOK
<1>1. CASE UNCHANGED <<queue, rejected, batch, delivered>>
  BY <1>1 DEF QueueTypes
<1>2. ASSUME NEW r \in Requests, Submit(r)
      PROVE  QueueTypes'
  <2>1. queue' = Append(queue, r) /\ UNCHANGED <<rejected, batch, delivered>>
    BY <1>2 DEF Submit, flushing
  <2> QED
    BY <2>1 DEF QueueTypes
<1>3. ASSUME Drain, worker \in {"test", "window", "retest"}
      PROVE  QueueTypes'
  <2>1. delivered' = 0 /\ rejected' = 0
    BY <1>3 DEF Drain, WorkerControl
  <2> QED
    BY <1>3, <2>1, DrainEffect DEF QueueTypes
<1>4. CASE RejectNext
  <2>1. rejected' = rejected + 1 /\ rejected < Len(queue)
        /\ UNCHANGED <<queue, batch, delivered>>
    BY <1>4 DEF RejectNext, shared, flushing
  <2> QED
    BY <2>1 DEF QueueTypes
<1>5. CASE Exit
  <2>1. queue' = <<>> /\ rejected' = 0 /\ UNCHANGED <<batch, delivered>>
    BY <1>5 DEF Exit, flushing
  <2> QED
    BY <2>1 DEF QueueTypes
<1>6. CASE DeliverError \/ DeliverOutput
  <2>1. delivered' = delivered + 1 /\ delivered < Len(batch)
        /\ UNCHANGED <<queue, rejected, batch>>
    BY <1>6 DEF DeliverError, DeliverOutput, shared
  <2> QED
    BY <2>1 DEF QueueTypes
<1>7. CASE FlushReturns
  <2>1. batch' = <<>> /\ delivered' = 0 /\ UNCHANGED <<queue, rejected>>
    BY <1>7 DEF FlushReturns, shared
  <2> QED
    BY <2>1 DEF QueueTypes
<1> QED
  BY <1>1, <1>2, <1>3, <1>4, <1>5, <1>6, <1>7
  DEF Next, vars, shared, flushing, NotifyOne, BeginShutdown, NotifyAll, Join,
      WorkerWaits, WaitForWork, OpenWindow, ReenterWindow, WorkerDrains,
      WindowClosesEarly, WindowTimesOut, WorkerStops, SeeStopping, Flush,
      RecordFlush, Predict, SpuriousWake, Destroyed

LEMMA ThreadTypesNext == IInv /\ [Next]_vars => ThreadTypes'
<1> SUFFICES ASSUME ThreadTypes, [Next]_vars
             PROVE  ThreadTypes'
  BY DEF IInv, TypeOK
<1> USE DEF ThreadTypes
<1>1. ASSUME NEW r \in Requests, Submit(r) \/ NotifyOne(r)
      PROVE  ThreadTypes'
  BY <1>1 DEF Submit, NotifyOne, Roused, shared
<1>2. CASE BeginShutdown \/ NotifyAll \/ Join \/ SpuriousWake
  BY <1>2 DEF BeginShutdown, NotifyAll, Join, SpuriousWake, Roused, shared
<1>3. CASE WorkerWaits \/ WorkerDrains \/ WorkerStops
  BY <1>3 DEF WorkerWaits, WaitForWork, OpenWindow, ReenterWindow, WorkerDrains,
      WindowClosesEarly, WindowTimesOut, Drain, WorkerStops, SeeStopping,
      RejectNext, Exit, shared
<1>4. CASE Flush
  BY <1>4 DEF Flush, RecordFlush, Predict, DeliverError, DeliverOutput, FlushReturns,
      shared
<1>5. CASE UNCHANGED vars
  BY <1>5 DEF vars
<1> QED
  BY <1>1, <1>2, <1>3, <1>4, <1>5 DEF Next, Destroyed

PromiseStates == {"none", "pending", "ok", "error", "shutdown", "set twice"}

LEMMA SettledType ==
  ASSUME promise \in [Requests -> PromiseStates], NEW r \in Requests,
         NEW how \in {"ok", "error", "shutdown"},
         promise' = [promise EXCEPT ![r] = Settled(r, how)]
  PROVE  promise' \in [Requests -> PromiseStates]
<1>1. Settled(r, how) \in PromiseStates
  BY DEF Settled, PromiseStates
<1> QED
  BY <1>1

LEMMA RequestTypesNext == IInv /\ [Next]_vars => RequestTypes'
<1> SUFFICES ASSUME QueueTypes, RequestTypes, [Next]_vars
             PROVE  RequestTypes'
  BY DEF IInv, TypeOK
<1> USE DEF RequestTypes
<1>1. CASE UNCHANGED <<request, promise, waits, answer>>
  BY <1>1
<1>2. ASSUME NEW r \in Requests, Submit(r)
      PROVE  RequestTypes'
  <2>1. PICK req \in PendingRequests : request' = [request EXCEPT ![r] = req]
    BY <1>2, SubmitEffect
  <2>2. promise' = [promise EXCEPT ![r] = "pending"] /\ UNCHANGED <<waits, answer>>
    BY <1>2 DEF Submit
  <2> QED
    BY <2>1, <2>2
<1>3. CASE RejectNext
  <2>1. promise' \in [Requests -> PromiseStates]
    BY <1>3, RejectSettles, SettledType DEF PromiseStates
  <2>2. UNCHANGED <<request, waits, answer>>
    BY <1>3, RejectFrame
  <2> QED
    BY <2>1, <2>2 DEF PromiseStates
<1>4. CASE RecordFlush
  <2>1. waits' = [r \in Requests |->
                    waits[r] + Cardinality({i \in DOMAIN batch : batch[i] = r})]
        /\ UNCHANGED <<request, promise, answer>>
    BY <1>4 DEF RecordFlush, futures
  <2>2. waits' \in [Requests -> Nat]
    BY <2>1, WaitsType DEF QueueTypes
  <2> QED
    BY <2>1, <2>2
<1>5. CASE DeliverError \/ DeliverOutput
  <2>1. promise' \in [Requests -> PromiseStates]
    BY <1>5, DeliverSettles, SettledType DEF PromiseStates
  <2>2. DOMAIN answer' = Requests
    <3>1. CASE DeliverError
      BY <3>1 DEF DeliverError
    <3>2. CASE DeliverOutput
      BY <3>2 DEF DeliverOutput
    <3> QED
      BY <1>5, <3>1, <3>2
  <2>3. UNCHANGED <<request, waits>>
    BY <1>5, DeliverFrame
  <2> QED
    BY <2>1, <2>2, <2>3 DEF PromiseStates
<1> QED
  BY <1>1, <1>2, <1>3, <1>4, <1>5
  DEF Next, vars, futures, NotifyOne, BeginShutdown, NotifyAll, Join,
      WorkerWaits, WaitForWork, OpenWindow, ReenterWindow, WorkerDrains,
      WindowClosesEarly, WindowTimesOut, Drain, WorkerStops, SeeStopping, Exit, Flush,
      Predict, FlushReturns, SpuriousWake, Destroyed

-------------------------------------------------------------------------------
(* Control *)

LEMMA WorkerControlNext == IInv /\ [Next]_vars => WorkerControl'
<1> SUFFICES ASSUME QueueTypes, WorkerControl, OwnerControl, [Next]_vars
             PROVE  WorkerControl'
  BY DEF IInv, TypeOK
<1>1. ASSUME NEW r \in Requests, Submit(r)
      PROVE  WorkerControl'
  <2>1. queue' = Append(queue, r) /\ owner = "live"
        /\ UNCHANGED <<worker, batch, delivered, rejected>>
    BY <1>1 DEF Submit, flushing
  <2> QED
    BY <2>1 DEF WorkerControl, OwnerControl, QueueTypes
<1>2. CASE UNCHANGED <<queue, batch, delivered, rejected>> /\ worker' = Roused
  BY <1>2 DEF WorkerControl, WorkArrived, Roused, QueueTypes
<1>3. CASE UNCHANGED <<queue, worker, batch, delivered, rejected>>
  BY <1>3 DEF WorkerControl
<1>4. CASE WorkerWaits \/ SeeStopping
  BY <1>4 DEF WorkerWaits, WaitForWork, OpenWindow, ReenterWindow, SeeStopping,
     WorkerControl, WorkArrived, WindowOver, shared, flushing
<1>5. CASE WorkerDrains
  <2>1. Drain /\ worker \in {"test", "window", "retest"} /\ queue # <<>>
    BY <1>5, MaxBatchAssumption
       DEF WorkerDrains, WindowClosesEarly, WindowTimesOut, WindowOver, WorkerControl,
           OwnerControl
  <2>2. UNCHANGED <<delivered, rejected>>
    BY <2>1 DEF Drain
  <2>3. worker' = "flush" /\ Len(batch') \in 1..MaxBatch
    BY <2>1, DrainEffect, MaxBatchAssumption DEF QueueTypes
  <2> QED
    BY <2>1, <2>2, <2>3 DEF WorkerControl
<1>6. CASE RejectNext
  BY <1>6, RejectFrame DEF WorkerControl
<1>7. CASE Exit
  BY <1>7 DEF Exit, WorkerControl, flushing
<1>8. CASE RecordFlush \/ Predict
  BY <1>8 DEF RecordFlush, Predict, WorkerControl, shared, flushing
<1>9. CASE DeliverError \/ DeliverOutput
  BY <1>9, DeliverFrame DEF WorkerControl
<1>10. CASE FlushReturns
  BY <1>10 DEF FlushReturns, WorkerControl, shared
<1> QED
  BY <1>1, <1>2, <1>3, <1>4, <1>5, <1>6, <1>7, <1>8, <1>9, <1>10
  DEF Next, vars, shared, flushing, NotifyOne, BeginShutdown, NotifyAll, Join,
      WorkerStops, Flush, SpuriousWake, Destroyed

LEMMA OwnerControlNext == IInv /\ [Next]_vars => OwnerControl'
<1> SUFFICES ASSUME ThreadTypes, OwnerControl, [Next]_vars
             PROVE  OwnerControl'
  BY DEF IInv, TypeOK
<1> USE DEF OwnerControl
<1>1. ASSUME NEW r \in Requests, Submit(r)
      PROVE  OwnerControl'
  <2>1. owner = "live" /\ UNCHANGED <<stopping, worker, owner>>
    BY <1>1 DEF Submit
  <2> QED
    BY <2>1
<1>2. ASSUME NEW r \in Requests, NotifyOne(r)
      PROVE  OwnerControl'
  <2>1. caller[r] = "notifying" /\ UNCHANGED <<stopping, owner>>
        /\ (worker' = worker \/ worker \in {"asleep", "window"})
        /\ (worker' \in {"rejecting", "exited"} => worker' = worker)
    BY <1>2 DEF NotifyOne, shared, Roused
  <2> QED
    BY <2>1
<1>3. CASE BeginShutdown
  BY <1>3 DEF BeginShutdown
<1>4. CASE NotifyAll \/ SpuriousWake
  <2>1. UNCHANGED <<stopping, caller>>
        /\ (owner' = owner \/ (owner = "notifying" /\ owner' = "joining"))
        /\ (worker' = worker \/ (worker' \in {"test", "retest"} /\ worker # "exited"))
    BY <1>4 DEF NotifyAll, SpuriousWake, shared, Roused
  <2> QED
    BY <2>1
<1>5. CASE Join
  BY <1>5 DEF Join, shared
<1>6. CASE WorkerWaits \/ WorkerDrains
  <2>1. UNCHANGED <<stopping, caller, owner>> /\ worker # "exited"
        /\ worker' \in {"asleep", "window", "flush", "test"}
    BY <1>6 DEF WorkerWaits, WaitForWork, OpenWindow, ReenterWindow, WorkerDrains,
       WindowClosesEarly, WindowTimesOut, Drain, shared
  <2> QED
    BY <2>1
<1>7. CASE WorkerStops
  BY <1>7, RejectFrame DEF WorkerStops, SeeStopping, Exit, shared
<1>8. CASE Flush
  <2>1. UNCHANGED <<stopping, caller, owner>> /\ worker # "exited"
        /\ worker' \in {"predict", "deliver", "test"}
    BY <1>8, DeliverFrame DEF Flush, RecordFlush, Predict, FlushReturns, shared
  <2> QED
    BY <2>1
<1>9. CASE UNCHANGED vars
  BY <1>9 DEF vars
<1> QED
  BY <1>1, <1>2, <1>3, <1>4, <1>5, <1>6, <1>7, <1>8, <1>9 DEF Next, Destroyed

\* A wake-up is lost by nobody: whoever makes a condition true notifies later,
\* and a notified worker tests its condition again.
LEMMA NoLostWakeupNext == IInv /\ [Next]_vars => NoLostWakeup'
<1> SUFFICES ASSUME ThreadTypes, NoLostWakeup, OwnerControl, [Next]_vars
             PROVE  NoLostWakeup'
  BY DEF IInv, TypeOK
<1> USE DEF NoLostWakeup
<1>1. ASSUME NEW r \in Requests, Submit(r)
      PROVE  NoLostWakeup'
  <2>1. caller'[r] = "notifying"
    BY <1>1 DEF Submit, ThreadTypes
  <2> QED
    BY <2>1 DEF NotificationDue
<1>2. CASE BeginShutdown
  <2>1. owner' = "notifying"
    BY <1>2 DEF BeginShutdown
  <2> QED
    BY <2>1 DEF NotificationDue
<1>3. CASE worker' \notin {"asleep", "window"}
  BY <1>3
<1>4. CASE WorkerWaits
  BY <1>4 DEF WorkerWaits, WaitForWork, OpenWindow, ReenterWindow, WorkArrived,
     WindowOver, shared
<1>5. CASE UNCHANGED vars
  BY <1>5 DEF vars, NotificationDue, WorkArrived, WindowOver
<1>6. ASSUME NEW r \in Requests, NotifyOne(r)
      PROVE  worker' \notin {"asleep", "window"}
  BY <1>6 DEF NotifyOne, Roused
<1>7. CASE NotifyAll \/ SpuriousWake
  BY <1>7 DEF NotifyAll, SpuriousWake, Roused
<1>8. CASE Join
  BY <1>8 DEF Join
<1>9. CASE WorkerDrains \/ WorkerStops \/ Flush
  BY <1>9, DeliverFrame, RejectFrame
     DEF WorkerDrains, WindowClosesEarly, WindowTimesOut, Drain, WorkerStops,
         SeeStopping, Exit, Flush, RecordFlush, Predict, FlushReturns
<1> QED
  BY <1>1, <1>2, <1>3, <1>4, <1>5, <1>6, <1>7, <1>8, <1>9 DEF Next, Destroyed

-------------------------------------------------------------------------------
(* Promises *)

LEMMA EachOnceNext == IInv /\ [Next]_vars => EachOnce'
<1> SUFFICES ASSUME QueueTypes, WorkerControl, EachOnce, Promises, [Next]_vars
             PROVE  EachOnce'
  BY DEF IInv, TypeOK
<1>1. CASE UNCHANGED <<queue, batch>>
  BY <1>1 DEF EachOnce
<1>2. ASSUME NEW r \in Requests, Submit(r)
      PROVE  EachOnce'
  <2>1. queue' = Append(queue, r) /\ UNCHANGED batch /\ caller[r] = "idle"
    BY <1>2 DEF Submit, flushing
  <2>2. promise[r] = "none"
    BY <2>1 DEF Promises
  <2>3. \A i \in DOMAIN queue : queue[i] # r
    BY <2>2 DEF Promises
  <2>4. \A i \in DOMAIN batch : batch[i] # r
    BY <2>2 DEF Promises
  <2>5. /\ DOMAIN queue' = DOMAIN queue \union {Len(queue) + 1}
        /\ queue'[Len(queue) + 1] = r
        /\ \A i \in DOMAIN queue : queue'[i] = queue[i]
    BY <2>1 DEF QueueTypes
  <2> QED
    BY <2>1, <2>3, <2>4, <2>5 DEF EachOnce
<1>3. CASE WorkerDrains
  <2>1. Drain
    BY <1>3 DEF WorkerDrains, WindowClosesEarly, WindowTimesOut
  <2>2. PICK n \in Nat :
           /\ n <= Len(queue)
           /\ batch' \in Seq(Requests) /\ Len(batch') = n
           /\ \A i \in 1..n : batch'[i] = queue[i]
           /\ queue' \in Seq(Requests) /\ Len(queue') = Len(queue) - n
           /\ \A i \in 1..(Len(queue) - n) : queue'[i] = queue[n + i]
    BY <2>1, DrainEffect DEF QueueTypes
  <2>3. \A i, j \in DOMAIN batch' : batch'[i] = batch'[j] => i = j
    <3>1. DOMAIN queue = 1..Len(queue) /\ DOMAIN batch' = 1..n /\ Len(queue) \in Nat
      BY <2>2 DEF QueueTypes
    <3>2. \A i, j \in 1..Len(queue) : queue[i] = queue[j] => i = j
      BY <3>1 DEF EachOnce
    <3> QED
      BY <2>2, <3>1, <3>2
  <2>4. \A i, j \in DOMAIN queue' : queue'[i] = queue'[j] => i = j
    <3>1. DOMAIN queue = 1..Len(queue) /\ DOMAIN queue' = 1..(Len(queue) - n)
          /\ Len(queue) \in Nat
      BY <2>2 DEF QueueTypes
    <3>2. \A i, j \in 1..Len(queue) : queue[i] = queue[j] => i = j
      BY <3>1 DEF EachOnce
    <3>3. \A i \in DOMAIN queue' : queue'[i] = queue[n + i] /\ n + i \in 1..Len(queue)
      BY <2>2, <3>1
    <3>4. \A i, j \in DOMAIN queue' : queue'[i] = queue'[j] => n + i = n + j
      BY <3>2, <3>3, Zenon
    <3> QED
      BY <2>2, <3>1, <3>4
  <2>5. \A i \in DOMAIN batch', j \in DOMAIN queue' : batch'[i] # queue'[j]
    <3>1. DOMAIN queue = 1..Len(queue) /\ DOMAIN queue' = 1..(Len(queue) - n)
          /\ DOMAIN batch' = 1..n /\ Len(queue) \in Nat
      BY <2>2 DEF QueueTypes
    <3>2. \A i, j \in 1..Len(queue) : queue[i] = queue[j] => i = j
      BY <3>1 DEF EachOnce
    <3> QED
      BY <2>2, <3>1, <3>2
  <2> QED
    BY <2>3, <2>4, <2>5 DEF EachOnce
<1>4. CASE Exit
  BY <1>4 DEF Exit, EachOnce, flushing
<1>5. CASE FlushReturns
  BY <1>5 DEF FlushReturns, EachOnce, shared
<1> QED
  BY <1>1, <1>2, <1>3, <1>4, <1>5, DeliverFrame, RejectFrame
  DEF Next, vars, shared, flushing, NotifyOne, BeginShutdown, NotifyAll, Join,
      WorkerWaits, WaitForWork, OpenWindow, ReenterWindow, WorkerStops, SeeStopping,
      Flush, RecordFlush, Predict, SpuriousWake, Destroyed

\* An unset promise that is set takes the value, and no other promise changes.
LEMMA SettledOnce ==
  ASSUME NEW r \in Requests, NEW how, promise[r] = "pending", RequestTypes,
         promise' = [promise EXCEPT ![r] = Settled(r, how)]
  PROVE  promise'[r] = how /\ \A s \in Requests : s # r => promise'[s] = promise[s]
BY DEF Settled, RequestTypes

LEMMA PromisesNext == IInv /\ [Next]_vars => Promises' /\ PromiseSetOnce'
<1> SUFFICES ASSUME QueueTypes, ThreadTypes, RequestTypes,
                    WorkerControl, OwnerControl, EachOnce, Promises, PromiseSetOnce,
                    [Next]_vars
             PROVE  Promises' /\ PromiseSetOnce'
  BY DEF IInv, TypeOK
<1>1. CASE UNCHANGED <<queue, rejected, batch, delivered, promise, caller>>
  BY <1>1 DEF Promises, PromiseSetOnce
<1>2. ASSUME NEW r \in Requests, Submit(r)
      PROVE  Promises' /\ PromiseSetOnce'
  <2>1. /\ queue' = Append(queue, r) /\ caller[r] = "idle"
        /\ promise' = [promise EXCEPT ![r] = "pending"]
        /\ caller' = [caller EXCEPT ![r] = "notifying"]
        /\ UNCHANGED <<rejected, batch, delivered>>
    BY <1>2 DEF Submit, flushing
  <2>2. promise[r] = "none"
    BY <2>1 DEF Promises
  <2>3. \A i \in DOMAIN queue : queue[i] # r /\ queue[i] \in Requests
    BY <2>2 DEF Promises, QueueTypes
  <2>4. \A i \in DOMAIN batch : batch[i] # r /\ batch[i] \in Requests
    BY <2>2 DEF Promises, QueueTypes
  <2>5. /\ DOMAIN queue' = DOMAIN queue \union {Len(queue) + 1}
        /\ queue'[Len(queue) + 1] = r
        /\ \A i \in DOMAIN queue : queue'[i] = queue[i]
        /\ ~(Len(queue) + 1 <= rejected)
    BY <2>1 DEF QueueTypes
  <2>6. \A s \in Requests : promise'[s] = "none" <=> caller'[s] = "idle"
    BY <2>1 DEF Promises, ThreadTypes, RequestTypes
  <2>7. \A i \in DOMAIN queue' :
          promise'[queue'[i]] = IF i <= rejected' THEN "shutdown" ELSE "pending"
    <3>1. \A i \in DOMAIN queue : promise'[queue[i]] = promise[queue[i]]
      BY <2>1, <2>3
    <3>2. \A i \in DOMAIN queue :
            promise[queue[i]] = IF i <= rejected THEN "shutdown" ELSE "pending"
      BY DEF Promises
    <3>3. promise'[r] = "pending"
      BY <2>1 DEF RequestTypes
    <3> QED
      BY <2>1, <2>5, <3>1, <3>2, <3>3
  <2>8. \A i \in DOMAIN batch' :
          IF i <= delivered' THEN promise'[batch'[i]] \in {"ok", "error"}
          ELSE promise'[batch'[i]] = "pending"
    BY <2>1, <2>4 DEF Promises
  <2>9. \A s \in Requests : promise'[s] = "pending" =>
          \/ \E i \in DOMAIN queue' : queue'[i] = s
          \/ \E i \in DOMAIN batch' : batch'[i] = s
    BY <2>1, <2>5 DEF Promises
  <2>10. PromiseSetOnce'
    BY <2>1 DEF PromiseSetOnce, RequestTypes
  <2> QED
    BY <2>6, <2>7, <2>8, <2>9, <2>10 DEF Promises
<1>3. ASSUME NEW r \in Requests, NotifyOne(r)
      PROVE  Promises' /\ PromiseSetOnce'
  <2>1. /\ caller[r] = "notifying" /\ caller' = [caller EXCEPT ![r] = "returned"]
        /\ UNCHANGED <<queue, rejected, batch, delivered, promise>>
    BY <1>3 DEF NotifyOne, shared, flushing, futures
  <2>2. \A s \in Requests : caller'[s] = "idle" <=> caller[s] = "idle"
    BY <2>1 DEF ThreadTypes
  <2> QED
    BY <2>1, <2>2, ZenonT(60) DEF Promises, PromiseSetOnce
<1>4. CASE WorkerDrains
  <2>1. Drain /\ worker \in {"test", "window", "retest"}
    BY <1>4 DEF WorkerDrains, WindowClosesEarly, WindowTimesOut
  <2>2. PICK n \in Nat :
           /\ n <= Len(queue)
           /\ batch' \in Seq(Requests) /\ Len(batch') = n
           /\ \A i \in 1..n : batch'[i] = queue[i]
           /\ queue' \in Seq(Requests) /\ Len(queue') = Len(queue) - n
           /\ \A i \in 1..(Len(queue) - n) : queue'[i] = queue[n + i]
    BY <2>1, DrainEffect DEF QueueTypes
  <2>3. UNCHANGED <<promise, caller, delivered, rejected>>
        /\ batch = <<>> /\ delivered = 0 /\ rejected = 0
    BY <2>1 DEF Drain, futures, WorkerControl
  <2>4. \A i \in 1..Len(queue) : promise[queue[i]] = "pending"
    BY <2>3 DEF Promises, QueueTypes
  <2>5. DOMAIN queue' = 1..(Len(queue) - n) /\ DOMAIN batch' = 1..n
        /\ DOMAIN queue = 1..Len(queue) /\ DOMAIN batch = {} /\ Len(queue) \in Nat
    BY <2>2, <2>3 DEF QueueTypes
  <2>6. \A i \in DOMAIN queue' :
          promise'[queue'[i]] = IF i <= rejected' THEN "shutdown" ELSE "pending"
    BY <2>2, <2>3, <2>4, <2>5, SMTT(30)
  <2>7. \A i \in DOMAIN batch' :
          IF i <= delivered' THEN promise'[batch'[i]] \in {"ok", "error"}
          ELSE promise'[batch'[i]] = "pending"
    BY <2>2, <2>3, <2>4, <2>5
  <2>8. ASSUME NEW s \in Requests, promise'[s] = "pending"
        PROVE  \/ \E i \in DOMAIN queue' : queue'[i] = s
               \/ \E i \in DOMAIN batch' : batch'[i] = s
    <3>1. PICK i \in 1..Len(queue) : queue[i] = s
      BY <2>3, <2>5, <2>8 DEF Promises
    <3>2. CASE i <= n
      BY <2>2, <2>5, <3>1, <3>2
    <3>3. CASE i > n
      <4>1. i - n \in DOMAIN queue' /\ queue'[i - n] = s
        BY <2>2, <2>5, <3>1, <3>3
      <4> QED
        BY <4>1
    <3> QED
      BY <2>2, <3>1, <3>2, <3>3
  <2> QED
    BY <2>3, <2>6, <2>7, <2>8 DEF Promises, PromiseSetOnce
<1>5. CASE RejectNext
  <2> DEFINE q == queue[rejected + 1]
  <2>1. /\ rejected + 1 \in DOMAIN queue /\ q \in Requests /\ rejected \in Nat
        /\ rejected' = rejected + 1
        /\ UNCHANGED <<queue, batch, delivered, caller>>
    BY <1>5, RejectFrame DEF QueueTypes
  <2>2. promise[q] = "pending"
    BY <2>1 DEF Promises
  <2>3. promise'[q] = "shutdown" /\ \A s \in Requests : s # q => promise'[s] = promise[s]
    BY <1>5, <2>1, <2>2, RejectSettles, SettledOnce
  <2>4. /\ \A i \in DOMAIN queue : i # rejected + 1 => queue[i] # q
        /\ \A i \in DOMAIN batch : batch[i] # q
        /\ \A i \in DOMAIN queue : queue[i] \in Requests /\ i \in Nat
        /\ \A i \in DOMAIN batch : batch[i] \in Requests
    BY <2>1 DEF EachOnce, QueueTypes
  <2> HIDE DEF q
  <2>5. \A s \in Requests : promise'[s] = "none" <=> caller'[s] = "idle"
    BY <2>1, <2>2, <2>3 DEF Promises
  <2>6. \A i \in DOMAIN queue' :
          promise'[queue'[i]] = IF i <= rejected' THEN "shutdown" ELSE "pending"
    <3>1. \A i \in DOMAIN queue :
            promise[queue[i]] = IF i <= rejected THEN "shutdown" ELSE "pending"
      BY DEF Promises
    <3>2. queue[rejected + 1] = q
      BY DEF q
    <3> QED
      BY <2>1, <2>3, <2>4, <3>1, <3>2
  <2>7. \A i \in DOMAIN batch' :
          IF i <= delivered' THEN promise'[batch'[i]] \in {"ok", "error"}
          ELSE promise'[batch'[i]] = "pending"
    BY <2>1, <2>3, <2>4 DEF Promises
  <2>8. \A s \in Requests : promise'[s] = "pending" =>
          \/ \E i \in DOMAIN queue' : queue'[i] = s
          \/ \E i \in DOMAIN batch' : batch'[i] = s
    BY <2>1, <2>3 DEF Promises
  <2>9. PromiseSetOnce'
    BY <2>1, <2>3 DEF PromiseSetOnce
  <2> QED
    BY <2>5, <2>6, <2>7, <2>8, <2>9 DEF Promises
<1>6. CASE Exit
  <2>1. /\ rejected = Len(queue) /\ queue' = <<>> /\ batch = <<>>
        /\ UNCHANGED <<batch, delivered, promise, caller>>
    BY <1>6 DEF Exit, WorkerControl, flushing, futures
  <2>2. \A i \in DOMAIN queue : promise[queue[i]] = "shutdown"
    BY <2>1 DEF Promises, QueueTypes
  <2>3. \A s \in Requests : promise[s] # "pending"
    BY <2>1, <2>2 DEF Promises
  <2>4. DOMAIN queue' = {} /\ DOMAIN batch' = {}
    BY <2>1
  <2>5. \A s \in Requests : promise[s] = "none" <=> caller[s] = "idle"
    BY DEF Promises
  <2> QED
    BY <2>1, <2>3, <2>4, <2>5 DEF Promises, PromiseSetOnce
<1>7. CASE DeliverError \/ DeliverOutput
  <2> DEFINE b == batch[delivered + 1]
  <2>1. /\ delivered + 1 \in DOMAIN batch /\ b \in Requests /\ delivered \in Nat
        /\ delivered' = delivered + 1
        /\ UNCHANGED <<queue, batch, rejected, caller>>
    BY <1>7, DeliverFrame DEF QueueTypes
  <2>2. promise[b] = "pending"
    BY <2>1 DEF Promises
  <2>3. promise'[b] \in {"ok", "error"}
        /\ \A s \in Requests : s # b => promise'[s] = promise[s]
    BY <1>7, <2>1, <2>2, DeliverSettles, SettledOnce
  <2>4. /\ \A i \in DOMAIN batch : i # delivered + 1 => batch[i] # b
        /\ \A i \in DOMAIN queue : queue[i] # b
        /\ \A i \in DOMAIN queue : queue[i] \in Requests
        /\ \A i \in DOMAIN batch : batch[i] \in Requests /\ i \in Nat
    BY <2>1 DEF EachOnce, QueueTypes
  <2> HIDE DEF b
  <2>5. \A s \in Requests : promise'[s] = "none" <=> caller'[s] = "idle"
    BY <2>1, <2>2, <2>3 DEF Promises
  <2>6. \A i \in DOMAIN queue' :
          promise'[queue'[i]] = IF i <= rejected' THEN "shutdown" ELSE "pending"
    BY <2>1, <2>3, <2>4 DEF Promises
  <2>7. \A i \in DOMAIN batch' :
          IF i <= delivered' THEN promise'[batch'[i]] \in {"ok", "error"}
          ELSE promise'[batch'[i]] = "pending"
    <3>1. \A i \in DOMAIN batch : IF i <= delivered THEN promise[batch[i]] \in {"ok", "error"}
                                ELSE promise[batch[i]] = "pending"
      BY DEF Promises
    <3>2. batch[delivered + 1] = b
      BY DEF b
    <3> QED
      BY <2>1, <2>3, <2>4, <3>1, <3>2
  <2>8. \A s \in Requests : promise'[s] = "pending" =>
          \/ \E i \in DOMAIN queue' : queue'[i] = s
          \/ \E i \in DOMAIN batch' : batch'[i] = s
    BY <2>1, <2>3 DEF Promises
  <2>9. PromiseSetOnce'
    BY <2>1, <2>3 DEF PromiseSetOnce
  <2> QED
    BY <2>5, <2>6, <2>7, <2>8, <2>9 DEF Promises
<1>8. CASE FlushReturns
  <2>1. /\ delivered = Len(batch) /\ batch' = <<>>
        /\ UNCHANGED <<queue, rejected, promise, caller>>
    BY <1>8 DEF FlushReturns, shared, futures
  <2>2. \A i \in DOMAIN batch : promise[batch[i]] # "pending"
    BY <2>1 DEF Promises, QueueTypes
  <2>3. \A s \in Requests : promise[s] = "pending" => \E i \in DOMAIN queue : queue[i] = s
    BY <2>2 DEF Promises
  <2>4. DOMAIN batch' = {}
    BY <2>1
  <2>5. \A s \in Requests : promise[s] = "none" <=> caller[s] = "idle"
    BY DEF Promises
  <2>6. \A i \in DOMAIN queue :
          promise[queue[i]] = IF i <= rejected THEN "shutdown" ELSE "pending"
    BY DEF Promises
  <2> QED
    BY <2>1, <2>3, <2>4, <2>5, <2>6 DEF Promises, PromiseSetOnce
<1> QED
  BY <1>1, <1>2, <1>3, <1>4, <1>5, <1>6, <1>7, <1>8
  DEF Next, vars, shared, flushing, futures, BeginShutdown, NotifyAll, Join,
      WorkerWaits, WaitForWork, OpenWindow, ReenterWindow, WorkerStops, SeeStopping,
      Flush, RecordFlush, Predict, SpuriousWake, Destroyed

-------------------------------------------------------------------------------
(* Queue waits *)

\* In a batch without repetitions, a member occurs once and any other request never.
LEMMA OccursOnce ==
  ASSUME NEW b \in Seq(Requests), NEW k \in DOMAIN b,
         \A i, j \in DOMAIN b : b[i] = b[j] => i = j
  PROVE  Cardinality({i \in DOMAIN b : b[i] = b[k]}) = 1
<1>1. {i \in DOMAIN b : b[i] = b[k]} = {k}
  OBVIOUS
<1> QED
  BY <1>1, FS_Singleton

LEMMA OccursNever ==
  ASSUME NEW b \in Seq(Requests), NEW r, \A i \in DOMAIN b : b[i] # r
  PROVE  Cardinality({i \in DOMAIN b : b[i] = r}) = 0
<1>1. {i \in DOMAIN b : b[i] = r} = {}
  OBVIOUS
<1> QED
  BY <1>1, FS_EmptySet

LEMMA WaitsNext == IInv /\ [Next]_vars => Waits' /\ QueueWaitsOnce'
<1> SUFFICES ASSUME QueueTypes, RequestTypes, WorkerControl, EachOnce, Promises,
                    Waits, QueueWaitsOnce, [Next]_vars
             PROVE  Waits' /\ QueueWaitsOnce'
  BY DEF IInv, TypeOK
<1>1. CASE UNCHANGED <<queue, batch, promise, waits>>
           /\ (batch = <<>> \/ (worker = "flush" <=> worker' = "flush"))
  <2>1. DOMAIN batch = {} \/ (worker = "flush" <=> worker' = "flush")
    BY <1>1
  <2>2. QueueWaitsOnce'
    BY <1>1 DEF QueueWaitsOnce
  <2> QED
    BY <1>1, <2>1, <2>2 DEF Waits
<1>2. ASSUME NEW r \in Requests, Submit(r)
      PROVE  Waits' /\ QueueWaitsOnce'
  <2>1. /\ queue' = Append(queue, r) /\ caller[r] = "idle"
        /\ promise' = [promise EXCEPT ![r] = "pending"]
        /\ UNCHANGED <<batch, waits, worker>>
    BY <1>2 DEF Submit, flushing
  <2>2. waits[r] = 0
    BY <2>1 DEF Promises, QueueWaitsOnce
  <2>3. /\ DOMAIN queue' = DOMAIN queue \union {Len(queue) + 1}
        /\ queue'[Len(queue) + 1] = r
        /\ \A i \in DOMAIN queue : queue'[i] = queue[i]
    BY <2>1 DEF QueueTypes
  <2>4. Waits'
    BY <2>1, <2>2, <2>3 DEF Waits
  <2>5. QueueWaitsOnce'
    BY <2>1, <2>2 DEF QueueWaitsOnce, RequestTypes
  <2> QED
    BY <2>4, <2>5
<1>3. CASE WorkerDrains
  <2>1. Drain
    BY <1>3 DEF WorkerDrains, WindowClosesEarly, WindowTimesOut
  <2>2. PICK n \in Nat :
           /\ n <= Len(queue) /\ worker' = IF n > 0 THEN "flush" ELSE "test"
           /\ batch' \in Seq(Requests) /\ Len(batch') = n
           /\ \A i \in 1..n : batch'[i] = queue[i]
           /\ queue' \in Seq(Requests) /\ Len(queue') = Len(queue) - n
           /\ \A i \in 1..(Len(queue) - n) : queue'[i] = queue[n + i]
    BY <2>1, DrainEffect DEF QueueTypes
  <2>3. UNCHANGED <<promise, waits>>
    BY <2>1 DEF Drain, futures
  <2>4. \A i \in 1..Len(queue) : waits[queue[i]] = 0
    BY DEF Waits, QueueTypes
  <2>5. DOMAIN queue' = 1..(Len(queue) - n) /\ DOMAIN batch' = 1..n /\ Len(queue) \in Nat
    BY <2>2 DEF QueueTypes
  <2>6. Waits'
    <3>1. \A i \in 1..(Len(queue) - n) : waits'[queue'[i]] = 0
      BY <2>2, <2>3, <2>4, <2>5
    <3>2. \A i \in 1..n : waits'[batch'[i]] = 0
      BY <2>2, <2>3, <2>4, <2>5
    <3>3. \A i \in 1..n : worker' = "flush"
      BY <2>2
    <3> QED
      BY <2>5, <3>1, <3>2, <3>3 DEF Waits
  <2>7. QueueWaitsOnce'
    BY <2>3 DEF QueueWaitsOnce
  <2> QED
    BY <2>6, <2>7
<1>4. CASE RejectNext
  <2> DEFINE q == queue[rejected + 1]
  <2>1. rejected + 1 \in DOMAIN queue /\ q \in Requests
        /\ UNCHANGED <<queue, batch, worker, waits>>
    BY <1>4, RejectFrame DEF QueueTypes
  <2>2. promise[q] = "pending"
    BY <2>1 DEF Promises, QueueTypes
  <2>3. promise'[q] = "shutdown" /\ \A s \in Requests : s # q => promise'[s] = promise[s]
    BY <1>4, <2>1, <2>2, RejectSettles, SettledOnce
  <2>4. waits[q] = 0
    BY <2>1 DEF Waits
  <2> HIDE DEF q
  <2>5. QueueWaitsOnce'
    BY <2>1, <2>3, <2>4 DEF QueueWaitsOnce
  <2> QED
    BY <2>1, <2>5 DEF Waits
<1>5. CASE Exit
  <2>1. queue' = <<>> /\ batch = <<>> /\ UNCHANGED <<batch, promise, waits>>
    BY <1>5 DEF Exit, WorkerControl, flushing, futures
  <2>2. DOMAIN queue' = {} /\ DOMAIN batch' = {}
    BY <2>1
  <2> QED
    BY <2>1, <2>2 DEF Waits, QueueWaitsOnce
<1>6. CASE RecordFlush
  <2> DEFINE times(r) == Cardinality({i \in DOMAIN batch : batch[i] = r})
  <2>1. worker = "flush" /\ worker' = "predict" /\ delivered = 0
        /\ UNCHANGED <<queue, batch, promise>>
    BY <1>6 DEF RecordFlush, WorkerControl, shared, flushing, futures
  <2>2. waits' = [r \in Requests |-> waits[r] + times(r)]
    BY <1>6 DEF RecordFlush
  <2>3. \A k \in DOMAIN batch : times(batch[k]) = 1
    BY OccursOnce DEF QueueTypes, EachOnce
  <2>4. \A r \in Requests : (\A i \in DOMAIN batch : batch[i] # r) => times(r) = 0
    BY OccursNever DEF QueueTypes
  <2> HIDE DEF times
  <2>5. \A k \in DOMAIN batch : waits'[batch[k]] = 1
    <3> SUFFICES ASSUME NEW k \in DOMAIN batch
                 PROVE  waits'[batch[k]] = 1
      OBVIOUS
    <3>1. batch[k] \in Requests /\ waits[batch[k]] = 0
      BY <2>1 DEF QueueTypes, Waits
    <3> QED
      BY <2>2, <2>3, <3>1
  <2>6. \A r \in Requests : (\A i \in DOMAIN batch : batch[i] # r) => waits'[r] = waits[r]
    <3> SUFFICES ASSUME NEW r \in Requests, \A i \in DOMAIN batch : batch[i] # r
                 PROVE  waits'[r] = waits[r]
      OBVIOUS
    <3>1. times(r) = 0 /\ waits[r] \in Nat
      BY <2>4 DEF RequestTypes
    <3>2. waits'[r] = waits[r] + times(r)
      BY <2>2
    <3> QED
      BY <3>1, <3>2
  <2>7. \A j \in DOMAIN queue : waits'[queue[j]] = 0
    <3> SUFFICES ASSUME NEW j \in DOMAIN queue
                 PROVE  waits'[queue[j]] = 0
      OBVIOUS
    <3>1. queue[j] \in Requests /\ \A i \in DOMAIN batch : batch[i] # queue[j]
      BY DEF QueueTypes, EachOnce
    <3> QED
      BY <2>6, <3>1 DEF Waits
  <2>8. \A k \in DOMAIN batch : promise[batch[k]] = "pending"
    BY <2>1 DEF Promises, QueueTypes
  <2>9. QueueWaitsOnce'
    <3> SUFFICES ASSUME NEW r \in Requests, promise[r] # "pending"
                 PROVE  waits'[r] = waits[r]
      BY <2>1 DEF QueueWaitsOnce
    <3> QED
      BY <2>6, <2>8
  <2> QED
    BY <2>1, <2>5, <2>7, <2>9 DEF Waits
<1>7. CASE DeliverError \/ DeliverOutput
  <2> DEFINE b == batch[delivered + 1]
  <2>1. delivered + 1 \in DOMAIN batch /\ b \in Requests /\ worker = "deliver"
        /\ UNCHANGED <<queue, batch, worker, waits>>
    BY <1>7, DeliverFrame DEF QueueTypes
  <2>2. promise[b] = "pending"
    BY <2>1 DEF Promises, QueueTypes
  <2>3. promise'[b] \in {"ok", "error"}
        /\ \A s \in Requests : s # b => promise'[s] = promise[s]
    BY <1>7, <2>1, <2>2, DeliverSettles, SettledOnce
  <2>4. waits[b] = 1
    BY <2>1 DEF Waits
  <2> HIDE DEF b
  <2>5. QueueWaitsOnce'
    BY <2>1, <2>3, <2>4 DEF QueueWaitsOnce
  <2> QED
    BY <2>1, <2>5 DEF Waits
<1>8. CASE FlushReturns
  <2>1. batch' = <<>> /\ UNCHANGED <<queue, promise, waits>>
    BY <1>8 DEF FlushReturns, shared, futures
  <2>2. DOMAIN batch' = {}
    BY <2>1
  <2> QED
    BY <2>1, <2>2 DEF Waits, QueueWaitsOnce
<1>9. CASE UNCHANGED <<queue, batch, promise, waits>> /\ worker' = Roused
  BY <1>1, <1>9 DEF Roused
<1> QED
  BY <1>1, <1>2, <1>3, <1>4, <1>5, <1>6, <1>7, <1>8, <1>9
  DEF Next, vars, shared, flushing, futures, NotifyOne, BeginShutdown, NotifyAll, Join,
      WorkerWaits, WaitForWork, OpenWindow, ReenterWindow, WorkerStops, SeeStopping,
      Flush, Predict, SpuriousWake, Destroyed

-------------------------------------------------------------------------------
(* The inductive invariant, and what follows from it *)

LEMMA InvInit == Init => IInv
<1> SUFFICES ASSUME Init
             PROVE  IInv
  OBVIOUS
<1>1. TypeOK
  BY TypeInit
<1>2. WorkerControl /\ OwnerControl /\ NoLostWakeup
  BY DEF Init, WorkerControl, OwnerControl, NoLostWakeup
<1>3. DOMAIN queue = {} /\ DOMAIN batch = {}
  BY DEF Init
<1>4. EachOnce /\ Waits
  BY <1>3 DEF EachOnce, Waits
<1>5. Promises /\ PromiseSetOnce /\ QueueWaitsOnce
  BY <1>3 DEF Init, Promises, PromiseSetOnce, QueueWaitsOnce
<1> QED
  BY <1>1, <1>2, <1>4, <1>5 DEF IInv

LEMMA InvNext == IInv /\ [Next]_vars => IInv'
BY QueueTypesNext, ThreadTypesNext, RequestTypesNext, WorkerControlNext,
   OwnerControlNext, NoLostWakeupNext, EachOnceNext, PromisesNext, WaitsNext
   DEF IInv, TypeOK

\* The places of worker_loop, the states of the promises and the notifications on
\* their way agree in every reachable state, for any number of callers.
THEOREM InductiveInvariant == Spec => []IInv
BY InvInit, InvNext, PTL DEF Spec

\* Every variable keeps its type, and the cursors of flush and of the shutdown
\* loop stay inside the batch and the queue.
THEOREM TypeCorrect == Spec => []TypeOK
<1>1. IInv => TypeOK
  BY DEF IInv
<1> QED
  BY <1>1, InductiveInvariant, PTL

\* The worker is never blocked on a condition that holds unless a notification is
\* on its way, though submit() and the destructor notify after they unlock.
THEOREM NoWakeupIsLost == Spec => []NoLostWakeup
<1>1. IInv => NoLostWakeup
  BY DEF IInv
<1> QED
  BY <1>1, InductiveInvariant, PTL

\* set_value is never called twice on a promise: it does not throw in the worker.
THEOREM PromisesAreSetOnce == Spec => []PromiseSetOnce
<1>1. IInv => PromiseSetOnce
  BY DEF IInv
<1> QED
  BY <1>1, InductiveInvariant, PTL

\* flush() gets one to max_batch_size_ requests, no two of them the same.
THEOREM BatchesAreBounded == Spec => []FlushBounds
<1>1. IInv => FlushBounds
  BY DEF IInv, WorkerControl, EachOnce, FlushBounds
<1> QED
  BY <1>1, InductiveInvariant, PTL

\* When ~Batcher has returned, every future obtained from submit() is resolved.
THEOREM NoFutureIsAbandoned == Spec => []NoAbandonedFuture
<1>1. IInv => NoAbandonedFuture
  <2> SUFFICES ASSUME IInv, owner = "gone", NEW r \in Requests
               PROVE  promise[r] # "pending"
    BY DEF NoAbandonedFuture
  <2>1. queue = <<>> /\ batch = <<>>
    BY DEF IInv, OwnerControl, WorkerControl
  <2>2. DOMAIN queue = {} /\ DOMAIN batch = {}
    BY <2>1
  <2> QED
    BY <2>2 DEF IInv, Promises
<1> QED
  BY <1>1, InductiveInvariant, PTL

\* Every request the model answered has one queue wait in the metrics; one that was
\* turned away at shutdown has none.
THEOREM QueueWaitsAreRecordedOnce == Spec => []QueueWaitsOnce
<1>1. IInv => QueueWaitsOnce
  BY DEF IInv
<1> QED
  BY <1>1, InductiveInvariant, PTL

-------------------------------------------------------------------------------
(* Outputs: what a request asks for survives the union of the batch's filters *)

Asked(r) == IF request[r].output_filter = {} THEN Outputs ELSE request[r].output_filter

\* Behind AskedOutputs: who has submitted has a request, and once the model has
\* run its outputs are enough for everybody in the batch.
AskedInv ==
  /\ \A r \in Requests : caller[r] # "idle" => request[r] \in PendingRequests
  /\ worker = "deliver" /\ output # NoOutput =>
       \A i \in DOMAIN batch : Asked(batch[i]) \subseteq DOMAIN output
  /\ AskedOutputs

\* The union of the filters asks for what each of them asks for.
LEMMA UnionAsksForAll ==
  ASSUME \A f \in Filters : f \subseteq Outputs,
         NEW b, \A i \in DOMAIN b : request[b[i]] \in PendingRequests,
         NEW out \in ModelOutputs(Stacked(b), UnionFilter(b)), NEW i \in DOMAIN b
  PROVE  Asked(b[i]) \subseteq DOMAIN out
<1> DEFINE filter(k) == request[b[k]].output_filter
           wanted == IF UnionFilter(b) = {} THEN Outputs ELSE UnionFilter(b)
<1>1. DOMAIN out = wanted
  BY DEF ModelOutputs
<1>2. \A k \in DOMAIN b : filter(k) \subseteq Outputs
  BY DEF PendingRequests
<1>3. CASE {} \in {filter(k) : k \in DOMAIN b}
  <2>1. wanted = Outputs
    BY <1>3 DEF UnionFilter
  <2> QED
    BY <1>1, <1>2, <2>1 DEF Asked
<1>4. CASE {} \notin {filter(k) : k \in DOMAIN b}
  <2>1. UnionFilter(b) = UNION {filter(k) : k \in DOMAIN b}
    BY <1>4 DEF UnionFilter
  <2>2. filter(i) # {} /\ filter(i) \subseteq UnionFilter(b)
    BY <1>4, <2>1
  <2> QED
    BY <1>1, <2>2 DEF Asked
<1> QED
  BY <1>3, <1>4

LEMMA AskedInit == Init => AskedInv
BY DEF Init, AskedInv, AskedOutputs

LEMMA AskedNext ==
  ASSUME \A f \in Filters : f \subseteq Outputs, IInv, AskedInv, [Next]_vars
  PROVE  AskedInv'
<1>0. /\ QueueTypes /\ ThreadTypes /\ RequestTypes /\ Promises
      /\ DOMAIN request = Requests /\ DOMAIN promise = Requests
      /\ DOMAIN caller = Requests /\ DOMAIN answer = Requests
  BY DEF IInv, TypeOK, RequestTypes, ThreadTypes
<1>1. CASE \E r \in Requests : Submit(r)
  <2>1. PICK r \in Requests : Submit(r)
    BY <1>1
  <2>2. PICK req \in PendingRequests : request' = [request EXCEPT ![r] = req]
    BY <2>1, SubmitEffect
  <2>3. /\ promise' = [promise EXCEPT ![r] = "pending"]
        /\ caller' = [caller EXCEPT ![r] = "notifying"]
        /\ UNCHANGED <<worker, batch, output, answer>> /\ caller[r] = "idle"
    BY <2>1 DEF Submit, flushing
  <2>4. promise[r] = "none"
    BY <1>0, <2>3 DEF Promises
  <2>5. \A s \in Requests : s # r =>
          request'[s] = request[s] /\ promise'[s] = promise[s] /\ caller'[s] = caller[s]
    BY <1>0, <2>2, <2>3
  <2>6. request'[r] \in PendingRequests /\ promise'[r] = "pending"
    BY <1>0, <2>2, <2>3
  <2>7. \A i \in DOMAIN batch : batch[i] \in Requests /\ batch[i] # r
    BY <1>0, <2>4 DEF Promises, QueueTypes
  <2>8. (worker = "deliver" /\ output # NoOutput =>
           \A i \in DOMAIN batch : Asked(batch[i]) \subseteq DOMAIN output)'
    BY <2>3, <2>5, <2>7 DEF AskedInv, Asked
  <2>9. AskedOutputs'
    BY <2>3, <2>5, <2>6 DEF AskedInv, AskedOutputs
  <2> QED
    BY <2>5, <2>6, <2>8, <2>9 DEF AskedInv
<1>2. CASE Predict
  <2>1. UNCHANGED <<batch, request, caller, promise, answer>>
        /\ (output' # NoOutput => output' \in ModelOutputs(Stacked(batch), UnionFilter(batch)))
    BY <1>2 DEF Predict, futures
  <2>2. \A i \in DOMAIN batch : batch[i] \in Requests /\ caller[batch[i]] # "idle"
    BY <1>0 DEF Promises, QueueTypes
  <2>3. \A i \in DOMAIN batch : request[batch[i]] \in PendingRequests
    BY <2>2 DEF AskedInv
  <2>4. output' # NoOutput => \A i \in DOMAIN batch : Asked(batch[i]) \subseteq DOMAIN output'
    BY <2>1, <2>3, UnionAsksForAll
  <2> QED
    BY <2>1, <2>4 DEF AskedInv, AskedOutputs, Asked
<1>3. CASE DeliverError \/ DeliverOutput
  <2> DEFINE b == batch[delivered + 1]
  <2>1. /\ b \in Requests /\ worker = "deliver" /\ delivered + 1 \in DOMAIN batch
        /\ UNCHANGED <<worker, batch, request, caller>>
    BY <1>0, <1>3, DeliverFrame DEF QueueTypes
  <2>2. UNCHANGED output
    BY <1>3 DEF DeliverError, DeliverOutput
  <2>3. \A r \in Requests : r # b => promise'[r] = promise[r] /\ answer'[r] = answer[r]
    BY <1>0, <1>3, <2>1 DEF DeliverError, DeliverOutput
  <2>4. promise'[b] = "ok" => Asked(b) \subseteq DOMAIN answer'[b]
    <3>1. CASE DeliverError
      <4>1. promise[b] = "pending"
        BY <1>0, <2>1 DEF Promises, QueueTypes
      <4>2. promise' = [promise EXCEPT ![b] = Settled(b, "error")]
        BY <3>1 DEF DeliverError
      <4>3. promise'[b] = "error"
        BY <1>0, <2>1, <4>1, <4>2, SettledOnce
      <4> QED
        BY <4>3
    <3>2. CASE DeliverOutput
      <4>1. answer'[b] = SliceFor(batch, delivered + 1) /\ output # NoOutput
        BY <1>0, <2>1, <3>2 DEF DeliverOutput
      <4>2. DOMAIN answer'[b] = DOMAIN output
        BY <4>1 DEF SliceFor
      <4> QED
        BY <2>1, <4>1, <4>2 DEF AskedInv
    <3> QED
      BY <1>3, <3>1, <3>2
  <2> HIDE DEF b
  <2>5. AskedOutputs'
    BY <2>1, <2>3, <2>4 DEF AskedInv, AskedOutputs, Asked
  <2> QED
    BY <2>1, <2>2, <2>5 DEF AskedInv, Asked
<1>4. CASE RejectNext
  <2>1. /\ queue[rejected + 1] \in Requests
        /\ promise' = [promise EXCEPT ![queue[rejected + 1]] =
                         Settled(queue[rejected + 1], "shutdown")]
        /\ UNCHANGED <<worker, batch, request, answer, caller>> /\ worker = "rejecting"
    BY <1>0, <1>4, RejectFrame, RejectSettles
  <2>2. Settled(queue[rejected + 1], "shutdown") # "ok"
    BY DEF Settled
  <2>3. \A r \in Requests : promise'[r] = "ok" => promise[r] = "ok"
    BY <1>0, <2>1, <2>2
  <2> QED
    BY <2>1, <2>3 DEF AskedInv, AskedOutputs
<1>5. CASE FlushReturns
  BY <1>5 DEF FlushReturns, AskedInv, AskedOutputs, futures
<1>6. CASE WorkerDrains
  <2>1. worker' # "deliver" /\ UNCHANGED <<request, caller, promise, answer>>
    BY <1>6 DEF WorkerDrains, WindowClosesEarly, WindowTimesOut, Drain, futures
  <2> QED
    BY <2>1 DEF AskedInv, AskedOutputs
<1>7. CASE UNCHANGED <<request, promise, answer, batch, output>>
           /\ worker' \in {worker, "test", "retest", "asleep", "window", "rejecting", "exited", "predict"}
           /\ \A r \in Requests : caller'[r] = "idle" <=> caller[r] = "idle"
  BY <1>7 DEF AskedInv, AskedOutputs, Asked
<1>8. \A r \in Requests : NotifyOne(r) =>
        \A s \in Requests : caller'[s] = "idle" <=> caller[s] = "idle"
  BY <1>0 DEF NotifyOne
<1> QED
  BY <1>1, <1>2, <1>3, <1>4, <1>5, <1>6, <1>7, <1>8
  DEF Next, vars, shared, flushing, futures, NotifyOne, BeginShutdown, NotifyAll, Join,
      WorkerWaits, WaitForWork, OpenWindow, ReenterWindow, WorkerStops, SeeStopping, Exit,
      Flush, RecordFlush, SpuriousWake, Destroyed, Roused

\* Whatever filters the requests of a batch come with, each gets every output it
\* asked for, all of them if it named none, as long as clients only name outputs
\* the model has.
THEOREM AskedOutputsAlways ==
  ASSUME \A f \in Filters : f \subseteq Outputs
  PROVE  Spec => []AskedOutputs
<1>1. IInv /\ AskedInv /\ [Next]_vars => AskedInv'
  BY AskedNext
<1>2. AskedInv => AskedOutputs
  BY DEF AskedInv
<1> QED
  BY <1>1, <1>2, AskedInit, InductiveInvariant, PTL DEF Spec

-------------------------------------------------------------------------------
(* Sums of row counts, and where rows end up when tensors are stacked and cut *)

\* sums are the sums of the first counts, up to n of them.
IsSums(sums, counts, n) ==
  /\ sums \in [0 .. n -> Nat]
  /\ sums[0] = 0
  /\ \A k \in 1 .. n : sums[k] = sums[k - 1] + counts[k]

LEMMA SumsExist ==
  ASSUME NEW counts \in Seq(Nat)
  PROVE  \E sums : IsSums(sums, counts, Len(counts))
<1> DEFINE S == { k \in 0 .. Len(counts) : \E sums : IsSums(sums, counts, k) }
<1>1. Len(counts) \in Nat
  OBVIOUS
<1>2. 0 \in S
  <2>1. IsSums([k \in 0 .. 0 |-> 0], counts, 0)
    BY DEF IsSums
  <2> QED
    BY <1>1, <2>1
<1>3. ASSUME NEW k \in 1 .. Len(counts), k - 1 \in S
      PROVE  k \in S
  <2>1. PICK f : IsSums(f, counts, k - 1)
    BY <1>3
  <2> DEFINE g == [j \in 0 .. k |-> IF j = k THEN f[k - 1] + counts[k] ELSE f[j]]
  <2>2. counts[k] \in Nat /\ f[k - 1] \in Nat
    BY <1>1, <2>1 DEF IsSums
  <2>3. k \in Nat /\ k # 0 /\ k \in 0 .. Len(counts)
    BY <1>1
  <2> DEFINE m == k - 1
  <2>a. /\ m \in Nat /\ f \in [0 .. m -> Nat] /\ f[0] = 0
        /\ \A j \in 1 .. m : f[j] = f[j - 1] + counts[j]
    BY <2>1, <2>3 DEF IsSums
  <2>b. \A j \in 0 .. k : j = k \/ j \in 0 .. m
    BY <2>3
  <2>4. \A j \in 0 .. k : g[j] \in Nat
    BY <2>2, <2>a, <2>b
  <2>5. \A j \in 1 .. k : g[j] = g[j - 1] + counts[j]
    <3> SUFFICES ASSUME NEW j \in 1 .. k
                 PROVE  g[j] = g[j - 1] + counts[j]
      OBVIOUS
    <3>1. g[j - 1] = f[j - 1]
      BY <2>3
    <3>2. CASE j = k
      BY <2>3, <3>1, <3>2
    <3>3. CASE j # k
      <4>1. j \in 1 .. m /\ g[j] = f[j]
        BY <2>3, <3>3
      <4> QED
        BY <2>a, <3>1, <4>1
    <3> QED
      BY <3>2, <3>3
  <2>6. g[0] = 0
    BY <2>1, <2>3 DEF IsSums
  <2>7. g \in [0 .. k -> Nat]
    BY <2>4
  <2> HIDE DEF g
  <2>8. IsSums(g, counts, k)
    BY <2>5, <2>6, <2>7 DEF IsSums
  <2> QED
    BY <2>3, <2>8
<1> HIDE DEF S
<1>4. \A k \in 0 .. Len(counts) : k \in S
  BY <1>1, <1>2, <1>3, NumbersUpTo
<1>5. Len(counts) \in S
  BY <1>1, <1>4
<1> QED
  BY <1>5 DEF S

\* Sums of the same numbers are the same.
LEMMA SumsUnique ==
  ASSUME NEW n \in Nat, NEW c, NEW d, NEW f, NEW g, IsSums(f, c, n), IsSums(g, d, n),
         \A k \in 1 .. n : c[k] = d[k]
  PROVE  \A k \in 0 .. n : f[k] = g[k]
<1> DEFINE S == { k \in 0 .. n : f[k] = g[k] }
<1>1. 0 \in S
  BY DEF IsSums
<1>2. \A k \in 1 .. n : k - 1 \in S => k \in S
  BY DEF IsSums
<1>3. \A k \in 0 .. n : k \in S
  <2> HIDE DEF S
  <2> QED
    BY <1>1, <1>2, NumbersUpTo
<1> QED
  BY <1>3

LEMMA TotalIsSum ==
  ASSUME NEW counts \in Seq(Nat), NEW sums, IsSums(sums, counts, Len(counts))
  PROVE  T!Total(counts) = sums[Len(counts)]
<1> DEFINE body(f) == [k \in 0 .. Len(counts) |-> IF k = 0 THEN 0 ELSE f[k - 1] + counts[k]]
           total == CHOOSE f : f = body(f)
<1>1. T!Total(counts) = total[Len(counts)]
  BY DEF T!Total
<1>2. Len(counts) \in Nat
  OBVIOUS
<1>3. sums = body(sums)
  BY <1>2 DEF IsSums
<1>4. total = body(total)
  BY <1>3
<1> HIDE DEF total
<1> DEFINE S == { k \in 0 .. Len(counts) : total[k] = sums[k] }
<1>5. total[0] = 0 /\ sums[0] = 0
  BY <1>2, <1>4 DEF IsSums
<1>6. \A k \in 1 .. Len(counts) :
        total[k] = total[k - 1] + counts[k] /\ sums[k] = sums[k - 1] + counts[k]
  BY <1>2, <1>4 DEF IsSums
<1>7. 0 \in S
  BY <1>2, <1>5
<1>8. \A k \in 1 .. Len(counts) : k - 1 \in S => k \in S
  BY <1>2, <1>6
<1>9. \A k \in 0 .. Len(counts) : k \in S
  <2> HIDE DEF S
  <2> QED
    BY <1>2, <1>7, <1>8, NumbersUpTo
<1>10. Len(counts) \in S
  <2> HIDE DEF S
  <2> QED
    BY <1>2, <1>9
<1> QED
  BY <1>1, <1>10

\* The sums of all counts give those of the first of them.
LEMMA TotalOfFirst ==
  ASSUME NEW counts \in Seq(Nat), NEW sums, IsSums(sums, counts, Len(counts)),
         NEW n \in 0 .. Len(counts)
  PROVE  T!Total(SubSeq(counts, 1, n)) = sums[n]
<1> DEFINE first == SubSeq(counts, 1, n)
<1>1. first \in Seq(Nat) /\ Len(first) = n /\ n \in Nat
  OBVIOUS
<1>2. \A k \in 1 .. n : first[k] = counts[k]
  OBVIOUS
<1> HIDE DEF first
<1>3. PICK f : IsSums(f, first, n)
  BY <1>1, SumsExist
<1> DEFINE g == [k \in 0 .. n |-> sums[k]]
<1>4. IsSums(g, counts, n)
  <2>0. Len(counts) \in Nat /\ sums \in [0 .. Len(counts) -> Nat] /\ sums[0] = 0
    BY DEF IsSums
  <2>1. g \in [0 .. n -> Nat] /\ g[0] = 0
    BY <1>1, <2>0
  <2>2. \A k \in 1 .. n : g[k] = g[k - 1] + counts[k]
    BY <1>1 DEF IsSums
  <2> HIDE DEF g
  <2> QED
    BY <2>1, <2>2 DEF IsSums
<1>5. f[n] = g[n]
  <2> HIDE DEF g
  <2> QED
    BY <1>1, <1>2, <1>3, <1>4, SumsUnique, SMTT(30)
<1>6. T!Total(first) = f[n]
  BY <1>1, <1>3, TotalIsSum
<1>7. g[n] = sums[n]
  BY <1>1
<1> QED
  BY <1>5, <1>6, <1>7 DEF first

-------------------------------------------------------------------------------
(* Concatenation *)

\* joined[k] is the first k sequences in one.
IsJoined(joined, seqs, S, n) ==
  /\ joined \in [1 .. n -> Seq(S)]
  /\ \A k \in 1 .. n : joined[k] = IF k = 1 THEN seqs[k] ELSE joined[k - 1] \o seqs[k]

LEMMA JoinedExists ==
  ASSUME NEW S, NEW seqs \in Seq(Seq(S))
  PROVE  \E joined : IsJoined(joined, seqs, S, Len(seqs))
<1> DEFINE D == { k \in 0 .. Len(seqs) : \E joined : IsJoined(joined, seqs, S, k) }
<1>1. Len(seqs) \in Nat
  OBVIOUS
<1>2. 0 \in D
  <2>1. IsJoined([k \in 1 .. 0 |-> <<>>], seqs, S, 0)
    BY DEF IsJoined
  <2> QED
    BY <1>1, <2>1
<1>3. ASSUME NEW k \in 1 .. Len(seqs), k - 1 \in D
      PROVE  k \in D
  <2> DEFINE m == k - 1
  <2>1. PICK f : IsJoined(f, seqs, S, m)
    BY <1>3
  <2>2. /\ m \in Nat /\ k \in 0 .. Len(seqs) /\ seqs[k] \in Seq(S)
        /\ \A j \in 1 .. k : j = k \/ j \in 1 .. m
    BY <1>1
  <2>3. /\ f \in [1 .. m -> Seq(S)]
        /\ \A j \in 1 .. m : f[j] = IF j = 1 THEN seqs[j] ELSE f[j - 1] \o seqs[j]
    BY <2>1 DEF IsJoined
  <2> DEFINE last == IF k = 1 THEN seqs[k] ELSE f[k - 1] \o seqs[k]
             g    == [j \in 1 .. k |-> IF j = k THEN last ELSE f[j]]
  <2>4. last \in Seq(S)
    <3>1. CASE k = 1
      BY <2>2, <3>1
    <3>2. CASE k # 1
      <4>1. f[k - 1] \in Seq(S)
        BY <2>2, <2>3, <3>2
      <4> QED
        BY <2>2, <3>2, <4>1, ConcatElements
    <3> QED
      BY <3>1, <3>2
  <2>5. g \in [1 .. k -> Seq(S)]
    <3> HIDE DEF last
    <3> QED
      BY <2>2, <2>3, <2>4
  <2>6. ASSUME NEW j \in 1 .. k
        PROVE  g[j] = IF j = 1 THEN seqs[j] ELSE g[j - 1] \o seqs[j]
    <3>1. j # 1 => g[j - 1] = f[j - 1]
      <4> HIDE DEF last
      <4> QED
        BY <2>2
    <3>2. CASE j = k
      <4>1. g[j] = last
        BY <3>2
      <4> QED
        BY <3>1, <3>2, <4>1
    <3>3. CASE j # k
      <4>1. j \in 1 .. m /\ g[j] = f[j]
        <5> HIDE DEF last
        <5> QED
          BY <2>2, <3>3
      <4> HIDE DEF g
      <4> QED
        BY <2>3, <3>1, <4>1
    <3> QED
      BY <3>2, <3>3
  <2> HIDE DEF g
  <2>7. IsJoined(g, seqs, S, k)
    BY <2>5, <2>6 DEF IsJoined
  <2> QED
    BY <2>2, <2>7
<1> HIDE DEF D
<1>4. \A k \in 0 .. Len(seqs) : k \in D
  BY <1>1, <1>2, <1>3, NumbersUpTo
<1>5. Len(seqs) \in D
  BY <1>1, <1>4
<1> QED
  BY <1>5 DEF D

LEMMA FlattenIsJoined ==
  ASSUME NEW S, NEW seqs \in Seq(Seq(S)), seqs # <<>>
  PROVE  \E joined : /\ IsJoined(joined, seqs, S, Len(seqs))
                     /\ T!FlattenSeq(seqs) = joined[Len(seqs)]
<1> DEFINE body(f) == [k \in 1 .. Len(seqs) |-> IF k = 1 THEN seqs[k] ELSE f[k - 1] \o seqs[k]]
           flat == CHOOSE f : f = body(f)
<1>1. Len(seqs) \in Nat /\ Len(seqs) # 0
  OBVIOUS
<1>2. T!FlattenSeq(seqs) = flat[Len(seqs)]
  BY <1>1 DEF T!FlattenSeq
<1>3. PICK f : IsJoined(f, seqs, S, Len(seqs))
  BY JoinedExists
<1>4. f = body(f)
  BY <1>3 DEF IsJoined
<1>5. flat = body(flat)
  BY <1>4
<1> HIDE DEF flat
<1> DEFINE n == Len(seqs)
           D == { k \in 0 .. n : k = 0 \/ flat[k] = f[k] }
<1>6. /\ \A k \in 1 .. n : flat[k] = IF k = 1 THEN seqs[k] ELSE flat[k - 1] \o seqs[k]
      /\ \A k \in 1 .. n : f[k] = IF k = 1 THEN seqs[k] ELSE f[k - 1] \o seqs[k]
  BY <1>4, <1>5
<1>7. 0 \in D /\ \A k \in 1 .. n : k - 1 \in D => k \in D
  BY <1>1, <1>6
<1>8. \A k \in 0 .. n : k \in D
  <2> HIDE DEF D
  <2> QED
    BY <1>1, <1>7, NumbersUpTo
<1>9. \A k \in 1 .. n : flat[k] = f[k]
  BY <1>8
<1>10. flat[n] = f[n]
  BY <1>1, <1>9
<1> QED
  BY <1>2, <1>3, <1>10

\* The sequences one after the other, up to the k-th: it ends at ends[k].
Placed(whole, seqs, ends, k) ==
  /\ Len(whole) = ends[k]
  /\ \A j \in 1 .. k : \A i \in 1 .. Len(seqs[j]) :
       /\ ends[j - 1] + i \in 1 .. ends[k]
       /\ whole[ends[j - 1] + i] = seqs[j][i]

LEMMA PlacedNext ==
  ASSUME NEW S, NEW seqs, NEW ends, NEW m \in Nat, NEW whole \in Seq(S), Placed(whole, seqs, ends, m),
         NEW t \in Seq(S), t = seqs[m + 1], ends[m] \in Nat, ends[m + 1] = ends[m] + Len(t)
  PROVE  Placed(whole \o t, seqs, ends, m + 1)
<1> DEFINE both == whole \o t
<1>1. Len(whole) \in Nat /\ Len(t) \in Nat /\ Len(whole) = ends[m]
  BY DEF Placed
<1>2. /\ Len(both) = Len(whole) + Len(t)
      /\ \A i \in 1 .. Len(whole) : both[i] = whole[i]
      /\ \A i \in 1 .. Len(t) : both[Len(whole) + i] = t[i]
  BY ConcatElements
<1> HIDE DEF both
<1>3. ASSUME NEW j \in 1 .. m + 1, NEW i \in 1 .. Len(seqs[j])
      PROVE  ends[j - 1] + i \in 1 .. ends[m + 1] /\ both[ends[j - 1] + i] = seqs[j][i]
  <2>1. CASE j = m + 1
    <3>1. j - 1 = m /\ seqs[j] = t /\ i \in 1 .. Len(t)
      BY <1>3, <2>1
    <3>2. both[Len(whole) + i] = t[i] /\ Len(whole) + i \in 1 .. ends[m] + Len(t)
      BY <1>1, <1>2, <3>1
    <3> QED
      BY <1>1, <3>1, <3>2
  <2>2. CASE j # m + 1
    <3>1. j \in 1 .. m
      BY <2>2
    <3>2. ends[j - 1] + i \in 1 .. ends[m] /\ whole[ends[j - 1] + i] = seqs[j][i]
      BY <1>3, <3>1 DEF Placed
    <3>3. both[ends[j - 1] + i] = whole[ends[j - 1] + i]
      BY <1>1, <1>2, <3>2
    <3> QED
      BY <1>1, <3>2, <3>3
  <2> QED
    BY <2>1, <2>2
<1>4. Len(both) = ends[m + 1]
  BY <1>1, <1>2
<1>5. Placed(both, seqs, ends, m + 1)
  BY <1>3, <1>4, Zenon DEF Placed
<1> QED
  BY <1>5 DEF both

\* Where each element of each sequence is in the whole.
LEMMA FlattenElements ==
  ASSUME NEW S, NEW seqs \in Seq(Seq(S)), seqs # <<>>,
         NEW ends, IsSums(ends, [k \in DOMAIN seqs |-> Len(seqs[k])], Len(seqs))
  PROVE  T!FlattenSeq(seqs) \in Seq(S) /\ Placed(T!FlattenSeq(seqs), seqs, ends, Len(seqs))
<1>1. PICK f : IsJoined(f, seqs, S, Len(seqs)) /\ T!FlattenSeq(seqs) = f[Len(seqs)]
  BY FlattenIsJoined
<1>2. /\ Len(seqs) \in Nat /\ Len(seqs) # 0 /\ DOMAIN seqs = 1 .. Len(seqs)
      /\ \A k \in 1 .. Len(seqs) : seqs[k] \in Seq(S)
  OBVIOUS
<1>3. /\ \A k \in 0 .. Len(seqs) : ends[k] \in Nat
      /\ ends[0] = 0
      /\ \A k \in 1 .. Len(seqs) : ends[k] = ends[k - 1] + Len(seqs[k])
  BY <1>2 DEF IsSums
<1>4. /\ \A k \in 1 .. Len(seqs) : f[k] \in Seq(S)
      /\ \A k \in 1 .. Len(seqs) : f[k] = IF k = 1 THEN seqs[k] ELSE f[k - 1] \o seqs[k]
  BY <1>1 DEF IsJoined
<1> DEFINE D == { k \in 0 .. Len(seqs) : k = 0 \/ Placed(f[k], seqs, ends, k) }
<1>5. ASSUME NEW k \in 1 .. Len(seqs), k - 1 \in D
      PROVE  Placed(f[k], seqs, ends, k)
  <2>1. PICK m \in Nat : k = m + 1 /\ k - 1 = m /\ m \in 0 .. Len(seqs)
    <3>1. k - 1 \in Nat /\ k = (k - 1) + 1 /\ k - 1 \in 0 .. Len(seqs)
      BY <1>2
    <3> QED
      BY <3>1
  <2>2. /\ ends[m] \in Nat /\ seqs[m + 1] \in Seq(S)
        /\ ends[m + 1] = ends[m] + Len(seqs[m + 1])
    BY <1>2, <1>3, <2>1
  <2>3. CASE m = 0
    <3>1. k = 1 /\ f[k] = seqs[k] /\ seqs[1] \in Seq(S)
      BY <1>2, <1>4, <2>1, <2>3
    <3>2. Len(seqs[1]) \in Nat /\ ends[1] = Len(seqs[1])
      BY <1>3, <2>1, <2>2, <2>3, <3>1
    <3>3. \A j \in 1 .. 1 : j = 1 /\ j - 1 = 0
      OBVIOUS
    <3>4. Placed(seqs[1], seqs, ends, 1)
      BY <1>3, <3>2, <3>3 DEF Placed
    <3> QED
      BY <3>1, <3>4
  <2>4. CASE m # 0
    <3>1. Placed(f[m], seqs, ends, m) /\ m \in 1 .. Len(seqs)
      BY <1>5, <2>1, <2>4
    <3>2. f[m] \in Seq(S) /\ f[m + 1] = f[m] \o seqs[m + 1]
      <4>1. f[k] = f[k - 1] \o seqs[k]
        <5>1. k # 1
          BY <2>1, <2>4
        <5> QED
          BY <1>4, <5>1
      <4>2. f[m] \in Seq(S)
        BY <1>4, <3>1
      <4> QED
        BY <2>1, <4>1, <4>2
    <3>3. Placed(f[m] \o seqs[m + 1], seqs, ends, m + 1)
      BY <2>2, <3>1, <3>2, PlacedNext
    <3> QED
      BY <2>1, <3>2, <3>3
  <2> QED
    BY <2>3, <2>4
<1>6. 0 \in D /\ \A k \in 1 .. Len(seqs) : k - 1 \in D => k \in D
  BY <1>2, <1>5
<1> HIDE DEF D
<1>7. \A k \in 0 .. Len(seqs) : k \in D
  BY <1>2, <1>6, NumbersUpTo
<1>8. Len(seqs) \in D
  BY <1>2, <1>7
<1>9. Placed(f[Len(seqs)], seqs, ends, Len(seqs))
  BY <1>2, <1>8 DEF D
<1>10. f[Len(seqs)] \in Seq(S)
  BY <1>2, <1>4
<1> QED
  BY <1>1, <1>9, <1>10

-------------------------------------------------------------------------------
(* Stacking *)

\* A tensor that has all its cells.
Whole(t, S) ==
  /\ t.dtype \in {"raw", "string"} /\ t.n_rows \in Nat /\ t.width \in Nat
  /\ t.data \in Seq(S) /\ Len(t.data) = t.n_rows * t.width

\* Copying takes them all, in bytes or one by one.
LEMMA CopiedWhole ==
  ASSUME NEW S, NEW t, Whole(t, S)
  PROVE  T!CopiedCells(t, t.dtype, t.width) = t.data
<1> DEFINE w == t.width
           n == t.n_rows * w
           cell(i) == IF t.dtype = "raw" THEN T!Cell(t.data, i)
                      ELSE IF (i - 1) % w < w
                      THEN T!Cell(t.data, ((i - 1) \div w) * w + ((i - 1) % w) + 1)
                      ELSE Garbage
<1>1. T!CopiedCells(t, t.dtype, t.width) = [i \in 1 .. n |-> cell(i)]
  BY DEF T!CopiedCells
<1>2. t.data \in Seq(S) /\ Len(t.data) = n /\ n \in Nat /\ DOMAIN t.data = 1 .. n /\ w \in Nat
      /\ t.n_rows \in Nat
  BY DEF Whole
<1>3. ASSUME NEW i \in 1 .. n
      PROVE  cell(i) = t.data[i]
  <2>1. T!Cell(t.data, i) = t.data[i]
    BY <1>2, <1>3 DEF T!Cell
  <2>2. w > 0 /\ i - 1 \in Nat
    <3>1. w # 0
      BY <1>2, <1>3, Multiples
    <3> QED
      BY <1>2, <1>3, <3>1
  <2>3. (i - 1) % w < w /\ ((i - 1) \div w) * w + ((i - 1) % w) + 1 = i
    <3>1. /\ (i - 1) \div w \in Nat /\ (i - 1) % w \in 0 .. w - 1
          /\ ((i - 1) \div w) * w + ((i - 1) % w) = i - 1
      BY <1>2, <2>2, Division
    <3> DEFINE p == ((i - 1) \div w) * w
               c == (i - 1) % w
    <3>2. p \in Nat
      BY <1>2, <3>1, Multiples
    <3>3. c \in 0 .. w - 1 /\ p + c = i - 1
      BY <3>1
    <3> HIDE DEF p, c
    <3>4. c < w /\ p + c + 1 = i
      BY <1>2, <1>3, <3>2, <3>3
    <3> QED
      BY <3>4 DEF p, c
  <2> QED
    BY <2>1, <2>3
<1> HIDE DEF cell, n
<1>4. [i \in 1 .. n |-> cell(i)] = [i \in 1 .. n |-> t.data[i]]
  BY <1>3
<1>5. t.data = [i \in 1 .. n |-> t.data[i]]
  BY <1>2
<1> QED
  BY <1>1, <1>4, <1>5

Shapes == [dtype : {"raw", "string"}, n_rows : Nat, width : Nat]

LEMMA TensorIsWhole ==
  ASSUME NEW r, NEW name, request[r].inputs[name] \in Shapes
  PROVE  LET shape == request[r].inputs[name]
             t     == TensorOf(r, name)
         IN /\ Whole(t, {r} \X Nat)
            /\ t.dtype = shape.dtype /\ t.n_rows = shape.n_rows /\ t.width = shape.width
<1> DEFINE shape == request[r].inputs[name]
           n == shape.n_rows * shape.width
           data == [i \in 1 .. n |-> <<r, i>>]
<1>1. shape.dtype \in {"raw", "string"} /\ shape.n_rows \in Nat /\ shape.width \in Nat
  BY DEF Shapes
<1>2. n \in Nat
  BY <1>1, Multiples
<1>3. TensorOf(r, name) = [dtype |-> shape.dtype, n_rows |-> shape.n_rows, width |-> shape.width,
                           data |-> data]
  BY DEF TensorOf
<1>4. data \in Seq({r} \X Nat) /\ Len(data) = n
  <2> HIDE DEF n
  <2>1. \A i \in 1 .. n : <<r, i>> \in {r} \X Nat
    BY <1>2
  <2>2. data \in [1 .. n -> {r} \X Nat]
    BY <2>1
  <2> QED
    BY <1>2, <2>2
<1> HIDE DEF data, n
<1>5. LET t == TensorOf(r, name)
      IN /\ t.dtype = shape.dtype /\ t.n_rows = shape.n_rows /\ t.width = shape.width
         /\ t.data = data
  BY <1>3
<1> QED
  BY <1>1, <1>4, <1>5 DEF Whole, n

\* The requests of b send, under a name, tensors of one dtype and width, with as
\* many rows as the requests count.
Alike(b, name) ==
  \A i \in 1 .. Len(b) :
    /\ name \in DOMAIN request[b[i]].inputs /\ request[b[i]].inputs[name] \in Shapes
    /\ request[b[i]].inputs[name].n_rows = request[b[i]].n_rows
    /\ request[b[i]].inputs[name].dtype = request[b[1]].inputs[name].dtype
    /\ request[b[i]].inputs[name].width = request[b[1]].inputs[name].width

\* The tensors that are stacked are those of all requests.
LEMMA StackedTensors ==
  ASSUME NEW b \in Seq(Requests), b # <<>>, NEW name, Alike(b, name)
  PROVE  T!FlattenSeq([i \in DOMAIN b |-> IF name \in DOMAIN request[b[i]].inputs
                                          THEN <<TensorOf(b[i], name)>> ELSE <<>>])
           = [i \in 1 .. Len(b) |-> TensorOf(b[i], name)]
<1> DEFINE n == Len(b)
           S == { TensorOf(b[i], name) : i \in 1 .. n }
           seqs == [i \in 1 .. n |-> <<TensorOf(b[i], name)>>]
           ends == [k \in 0 .. n |-> k]
           flat == T!FlattenSeq(seqs)
<1>1. n \in Nat /\ n # 0 /\ DOMAIN b = 1 .. n
  OBVIOUS
<1>2. [i \in DOMAIN b |-> IF name \in DOMAIN request[b[i]].inputs
                          THEN <<TensorOf(b[i], name)>> ELSE <<>>] = seqs
  BY <1>1 DEF Alike
<1>3. \A i \in 1 .. n : seqs[i] = <<TensorOf(b[i], name)>> /\ seqs[i] \in Seq(S)
                          /\ Len(seqs[i]) = 1 /\ seqs[i][1] = TensorOf(b[i], name)
  OBVIOUS
<1>4. seqs \in Seq(Seq(S)) /\ Len(seqs) = n /\ seqs # <<>> /\ DOMAIN seqs = 1 .. n
  <2>1. seqs \in [1 .. n -> Seq(S)]
    BY <1>3
  <2> QED
    BY <1>1, <2>1
<1> HIDE DEF seqs, S
<1>5. IsSums(ends, [k \in DOMAIN seqs |-> Len(seqs[k])], n)
  <2>1. \A k \in 0 .. n : ends[k] = k
    BY <1>1
  <2>2. ends \in [0 .. n -> Nat]
    BY <1>1
  <2> HIDE DEF ends, n
  <2>3. \A k \in 1 .. n : [j \in DOMAIN seqs |-> Len(seqs[j])][k] = 1
    BY <1>3, <1>4
  <2>4. \A k \in 1 .. n : ends[k] = ends[k - 1] + 1
    BY <1>1, <2>1
  <2>5. ends[0] = 0
    BY <1>1, <2>1
  <2> QED
    BY <2>2, <2>3, <2>4, <2>5 DEF IsSums
<1>6. flat \in Seq(S) /\ Placed(flat, seqs, ends, n)
  <2> HIDE DEF ends, n
  <2> QED
    BY <1>4, <1>5, FlattenElements
<1>7. Len(flat) = n /\ \A i \in 1 .. n : flat[i] = TensorOf(b[i], name)
  <2>1. Len(flat) = n
    BY <1>1, <1>6 DEF Placed
  <2>2. \A j \in 1 .. n : \A i \in 1 .. Len(seqs[j]) : flat[ends[j - 1] + i] = seqs[j][i]
    BY <1>6 DEF Placed
  <2>3. \A j \in 1 .. n : flat[ends[j - 1] + 1] = TensorOf(b[j], name)
    BY <1>3, <2>2
  <2>4. \A j \in 1 .. n : ends[j - 1] + 1 = j
    BY <1>1
  <2> QED
    BY <2>1, <2>3, <2>4
<1>8. flat = [i \in 1 .. n |-> TensorOf(b[i], name)]
  <2> HIDE DEF flat
  <2> QED
    BY <1>1, <1>6, <1>7
<1> QED
  BY <1>2, <1>8

LEMMA AlikeTensors ==
  ASSUME NEW b \in Seq(Requests), NEW name, Alike(b, name), NEW i \in 1 .. Len(b)
  PROVE  LET t == TensorOf(b[i], name)
         IN /\ Whole(t, Requests \X Nat)
            /\ t.n_rows = request[b[i]].n_rows /\ t.n_rows \in Nat
            /\ t.dtype = TensorOf(b[1], name).dtype /\ t.width = TensorOf(b[1], name).width
<1>1. request[b[i]].inputs[name] \in Shapes /\ request[b[1]].inputs[name] \in Shapes
      /\ b[i] \in Requests
  BY DEF Alike
<1>2. Whole(TensorOf(b[i], name), {b[i]} \X Nat)
  BY <1>1, TensorIsWhole
<1>3. Whole(TensorOf(b[i], name), Requests \X Nat)
  <2>1. Seq({b[i]} \X Nat) \subseteq Seq(Requests \X Nat)
    BY <1>1
  <2> QED
    BY <1>2, <2>1 DEF Whole
<1>4. LET t == TensorOf(b[i], name)
          shape == request[b[i]].inputs[name]
      IN t.dtype = shape.dtype /\ t.n_rows = shape.n_rows /\ t.width = shape.width
  BY DEF TensorOf
<1>5. LET t == TensorOf(b[1], name)
          shape == request[b[1]].inputs[name]
      IN t.dtype = shape.dtype /\ t.width = shape.width
  BY <1>1, TensorIsWhole
<1>6. LET t == TensorOf(b[i], name)
      IN /\ t.n_rows = request[b[i]].n_rows
         /\ t.dtype = TensorOf(b[1], name).dtype /\ t.width = TensorOf(b[1], name).width
  BY <1>4, <1>5 DEF Alike
<1> QED
  BY <1>3, <1>6 DEF Whole

\* What is stacked under a name: as many rows as the requests have together, and
\* row k of the i-th request is found k rows behind those of the ones before it.
LEMMA StackedRows ==
  ASSUME NEW b \in Seq(Requests), b # <<>>, NEW name \in DOMAIN request[b[1]].inputs, Alike(b, name),
         NEW sums, IsSums(sums, RowCountsOf(b), Len(b))
  PROVE  LET t == Stacked(b)[name]
         IN /\ t.n_rows = sums[Len(b)]
            /\ \A i \in 1 .. Len(b) : \A k \in 1 .. request[b[i]].n_rows :
                 T!RowOf(t, sums[i - 1] + k) = T!RowOf(TensorOf(b[i], name), k)
<1> DEFINE n == Len(b)
           w == TensorOf(b[1], name).width
           dtype == TensorOf(b[1], name).dtype
           ts == [i \in 1 .. n |-> TensorOf(b[i], name)]
           seqs == [i \in 1 .. n |-> TensorOf(b[i], name).data]
           rows(i) == request[b[i]].n_rows
           S == Requests \X Nat
           ends == [k \in 0 .. n |-> sums[k] * w]
           t == Stacked(b)[name]
<1>1. n \in Nat /\ n # 0 /\ DOMAIN b = 1 .. n /\ 1 \in 1 .. n
  OBVIOUS
<1>2. \A i \in 1 .. n : /\ Whole(ts[i], S) /\ ts[i].n_rows = rows(i) /\ rows(i) \in Nat
                        /\ ts[i].dtype = dtype /\ ts[i].width = w
  BY AlikeTensors
<1>3. w \in Nat
  BY <1>1, <1>2 DEF Whole
<1>4. ts[1].dtype = dtype /\ ts[1].width = w
  BY <1>1
<1>5. t = T!concat_rows(ts)
  BY StackedTensors DEF Stacked
<1>6. /\ RowCountsOf(b) = [i \in 1 .. n |-> rows(i)]
      /\ RowCountsOf(b) \in Seq(Nat) /\ Len(RowCountsOf(b)) = n
  <2>1. RowCountsOf(b) = [i \in 1 .. n |-> rows(i)]
    BY <1>1 DEF RowCountsOf
  <2>2. RowCountsOf(b) \in [1 .. n -> Nat]
    BY <1>2, <2>1
  <2> QED
    BY <1>1, <2>1, <2>2
<1>7. [k \in DOMAIN ts |-> ts[k].n_rows] = RowCountsOf(b)
  BY <1>2, <1>6
<1>8. [k \in DOMAIN ts |-> T!CopiedCells(ts[k], dtype, w)] = seqs
  <2>1. \A k \in 1 .. n : T!CopiedCells(ts[k], dtype, w) = ts[k].data
    BY <1>2, CopiedWhole
  <2> QED
    BY <2>1
<1> HIDE DEF n, w, dtype, ts, rows
<1>9. /\ t.n_rows = T!Total(RowCountsOf(b)) /\ t.width = w /\ t.data = T!FlattenSeq(seqs)
  <2> HIDE DEF seqs, t
  <2>1. T!concat_rows(ts) =
          [dtype  |-> ts[1].dtype,
           n_rows |-> T!Total([k \in DOMAIN ts |-> ts[k].n_rows]),
           width  |-> ts[1].width,
           data   |-> T!FlattenSeq([k \in DOMAIN ts |->
                                      T!CopiedCells(ts[k], ts[1].dtype, ts[1].width)])]
    BY DEF T!concat_rows
  <2>2. T!concat_rows(ts) = [dtype |-> dtype, n_rows |-> T!Total(RowCountsOf(b)),
                             width |-> w, data |-> T!FlattenSeq(seqs)]
    BY <1>4, <1>7, <1>8, <2>1
  <2> QED
    BY <1>5, <2>2
<1>10. t.n_rows = sums[n]
  BY <1>6, <1>9, TotalIsSum DEF n
<1>11. /\ \A k \in 0 .. n : sums[k] \in Nat
       /\ sums[0] = 0
       /\ \A k \in 1 .. n : sums[k] = sums[k - 1] + rows(k)
  BY <1>1, <1>6 DEF IsSums, n
<1>12. /\ seqs \in Seq(Seq(S)) /\ Len(seqs) = n /\ seqs # <<>> /\ DOMAIN seqs = 1 .. n
       /\ \A i \in 1 .. n : seqs[i] = ts[i].data /\ Len(seqs[i]) = rows(i) * w
  <2>1. \A i \in 1 .. n : seqs[i] = ts[i].data
    BY DEF ts
  <2>2. \A i \in 1 .. n : ts[i].data \in Seq(S) /\ Len(ts[i].data) = rows(i) * w
    BY <1>2 DEF Whole
  <2>3. seqs \in [1 .. n -> Seq(S)]
    BY <2>1, <2>2
  <2> HIDE DEF seqs, S
  <2>4. seqs \in Seq(Seq(S)) /\ Len(seqs) = n /\ DOMAIN seqs = 1 .. n
    BY <1>1, <2>3
  <2>5. seqs # <<>>
    BY <1>1, <2>4
  <2> QED
    BY <2>1, <2>2, <2>4, <2>5
<1> HIDE DEF seqs
<1>13. IsSums(ends, [k \in DOMAIN seqs |-> Len(seqs[k])], n)
  <2>1. \A k \in 0 .. n : ends[k] = sums[k] * w /\ ends[k] \in Nat
    BY <1>3, <1>11, Multiples
  <2>2. ends[0] = 0
    BY <1>1, <1>3, <1>11, <2>1, Multiples
  <2>3. ASSUME NEW k \in 1 .. n
        PROVE  ends[k] = ends[k - 1] + Len(seqs[k])
    <3>1. k \in 0 .. n /\ k - 1 \in 0 .. n
      BY <1>1
    <3>2. sums[k] = sums[k - 1] + rows(k) /\ sums[k - 1] \in Nat /\ rows(k) \in Nat
      BY <1>2, <1>11, <3>1
    <3>3. sums[k] * w = sums[k - 1] * w + rows(k) * w
      BY <1>3, <3>2, Multiples
    <3> QED
      BY <1>12, <2>1, <3>1, <3>3
  <2>4. ends \in [0 .. n -> Nat]
    BY <2>1
  <2> HIDE DEF ends
  <2> QED
    BY <1>12, <2>2, <2>3, <2>4 DEF IsSums
<1>14. t.data \in Seq(S) /\ Placed(t.data, seqs, ends, n)
  <2> HIDE DEF ends, S
  <2> QED
    BY <1>9, <1>12, <1>13, FlattenElements
<1> HIDE DEF t, S
<1>15. ASSUME NEW i \in 1 .. n, NEW k \in 1 .. rows(i)
       PROVE  T!RowOf(t, sums[i - 1] + k) = T!RowOf(ts[i], k)
  <2>1. /\ i - 1 \in 0 .. n /\ sums[i - 1] \in Nat /\ rows(i) \in Nat /\ k - 1 \in Nat
        /\ ends[i - 1] = sums[i - 1] * w
    BY <1>1, <1>2, <1>11
  <2>2. ASSUME NEW c \in 1 .. w
        PROVE  T!Cell(t.data, ((sums[i - 1] + k) - 1) * w + c) = T!Cell(ts[i].data, (k - 1) * w + c)
    <3> DEFINE p == (k - 1) * w + c
    <3>1. ((sums[i - 1] + k) - 1) * w + c = ends[i - 1] + p /\ (k - 1) * w \in Nat
          /\ ends[i - 1] \in Nat
      <4>1. (sums[i - 1] + (k - 1)) * w = sums[i - 1] * w + (k - 1) * w
            /\ (k - 1) * w \in Nat /\ sums[i - 1] * w \in Nat
        BY <1>3, <2>1, Multiples
      <4>2. (sums[i - 1] + k) - 1 = sums[i - 1] + (k - 1)
        BY <2>1
      <4> HIDE DEF ends
      <4> QED
        BY <1>3, <2>1, <4>1, <4>2
    <3>2. p \in 1 .. rows(i) * w
      <4>1. ((k - 1) + 1) * w = (k - 1) * w + 1 * w /\ 1 * w = w /\ (k - 1) + 1 = k
        BY <1>3, <2>1, Multiples
      <4>2. k * w <= rows(i) * w /\ rows(i) * w \in Nat
        <5>1. k \in Nat /\ k <= rows(i) /\ rows(i) \in Nat
          BY <2>1
        <5> QED
          BY <1>3, <5>1, Multiples
      <4> DEFINE start == (k - 1) * w
                 end == rows(i) * w
      <4>3. start \in Nat /\ end \in Nat /\ start + w <= end
        BY <3>1, <4>1, <4>2
      <4> HIDE DEF start, end
      <4>4. start + c \in 1 .. end
        BY <1>3, <4>3
      <4> QED
        BY <4>4 DEF start, end
    <3> HIDE DEF p, ends
    <3>3. p \in 1 .. Len(seqs[i])
      BY <1>12, <3>2
    <3>4. ends[i - 1] + p \in 1 .. ends[n] /\ t.data[ends[i - 1] + p] = seqs[i][p]
          /\ Len(t.data) = ends[n]
      BY <1>14, <3>3 DEF Placed
    <3>5. T!Cell(t.data, ends[i - 1] + p) = seqs[i][p]
      <4>1. DOMAIN t.data = 1 .. ends[n]
        BY <1>14, <3>4
      <4> QED
        BY <3>4, <4>1 DEF T!Cell
    <3>6. T!Cell(ts[i].data, p) = seqs[i][p]
      <4>1. ts[i].data \in Seq(S) /\ ts[i].data = seqs[i]
        BY <1>2, <1>12 DEF Whole
      <4>2. p \in DOMAIN ts[i].data
        BY <3>3, <4>1
      <4> QED
        BY <4>1, <4>2 DEF T!Cell
    <3> QED
      BY <3>1, <3>5, <3>6 DEF p
  <2>3. ts[i].width = w
    BY <1>2
  <2>4. T!RowOf(t, sums[i - 1] + k)
          = [c \in 1 .. w |-> T!Cell(t.data, ((sums[i - 1] + k) - 1) * w + c)]
    BY <1>9, Zenon DEF T!RowOf
  <2>5. T!RowOf(ts[i], k) = [c \in 1 .. w |-> T!Cell(ts[i].data, (k - 1) * w + c)]
    BY <2>3 DEF T!RowOf
  <2> QED
    BY <2>2, <2>4, <2>5
<1> QED
  BY <1>10, <1>15 DEF n, ts, rows, t

\* Sums of natural numbers grow.
LEMMA SumsGrow ==
  ASSUME NEW n \in Nat, NEW counts \in Seq(Nat), Len(counts) = n, NEW sums, IsSums(sums, counts, n)
  PROVE  \A k \in 0 .. n : sums[k] <= sums[n]
<1> DEFINE S == { k \in 0 .. n : sums[n - k] <= sums[n] }
<1>1. \A k \in 0 .. n : sums[k] \in Nat
  BY DEF IsSums
<1>2. 0 \in S
  BY <1>1
<1>3. ASSUME NEW k \in 1 .. n, k - 1 \in S
      PROVE  k \in S
  <2> DEFINE j == n - (k - 1)
  <2>1. j \in 1 .. n /\ j - 1 = n - k /\ j - 1 \in 0 .. n /\ sums[j] <= sums[n]
    BY <1>3
  <2> HIDE DEF j
  <2>2. sums[j] = sums[j - 1] + counts[j] /\ counts[j] \in Nat
    <3>1. \A m \in 1 .. n : counts[m] \in Nat
      OBVIOUS
    <3> QED
      BY <2>1, <3>1 DEF IsSums
  <2>3. sums[j - 1] <= sums[n]
    BY <1>1, <2>1, <2>2
  <2> QED
    BY <2>1, <2>3
<1>4. \A k \in 0 .. n : k \in S
  <2> HIDE DEF S
  <2> QED
    BY <1>2, <1>3, NumbersUpTo
<1>5. ASSUME NEW k \in 0 .. n
      PROVE  sums[k] <= sums[n]
  <2>1. n - k \in 0 .. n /\ n - (n - k) = k
    OBVIOUS
  <2>2. sums[n - (n - k)] <= sums[n]
    BY <1>4, <2>1
  <2> QED
    BY <2>1, <2>2
<1> QED
  BY <1>5

\* slice is what the i-th request is to get of an output t of one column.
IsSlice(slice, t, d, i, counts, sums) ==
  /\ counts \in Seq(Nat) /\ IsSums(sums, counts, Len(counts)) /\ i \in 1 .. Len(counts)
  /\ DOMAIN d = 1 .. sums[Len(counts)]
  /\ t = [dtype |-> "raw", n_rows |-> sums[Len(counts)], width |-> 1, data |-> d]
  /\ slice = [k \in 1 .. counts[i] |-> d[sums[i - 1] + k]]

LEMMA SplitSlice ==
  ASSUME NEW slice, NEW t, NEW d, NEW i, NEW counts, NEW sums,
         IsSlice(slice, t, d, i, counts, sums)
  PROVE  T!split_rows(t, counts)[i] =
           [dtype |-> "raw", n_rows |-> counts[i], width |-> 1, data |-> slice]
<1> DEFINE n == Len(counts)
           before == T!Total(SubSeq(counts, 1, i - 1))
           cells == [k \in 1 .. (counts[i] * t.width) |-> T!Cell(t.data, before * t.width + k)]
<1>0. /\ counts \in Seq(Nat) /\ IsSums(sums, counts, n) /\ i \in 1 .. n
      /\ t = [dtype |-> "raw", n_rows |-> sums[n], width |-> 1, data |-> d]
      /\ DOMAIN d = 1 .. sums[n]
      /\ slice = [k \in 1 .. counts[i] |-> d[sums[i - 1] + k]]
  BY DEF IsSlice
<1>1. n \in Nat /\ DOMAIN counts = 1 .. n /\ counts[i] \in Nat /\ i - 1 \in 0 .. n /\ i \in 0 .. n
  BY <1>0
<1>2. before = sums[i - 1]
  BY <1>0, <1>1, TotalOfFirst
<1>3. T!split_rows(t, counts)[i] = [t EXCEPT !.n_rows = counts[i], !.data = cells]
  <2>1. i \in DOMAIN counts
    BY <1>0, <1>1
  <2> QED
    BY <2>1, Zenon DEF T!split_rows
<1>4. /\ sums[i - 1] \in Nat /\ sums[i] \in Nat /\ sums[n] \in Nat
      /\ sums[i] = sums[i - 1] + counts[i] /\ sums[i] <= sums[n]
  <2>1. sums[i] <= sums[n]
    BY <1>0, <1>1, SumsGrow
  <2>2. \A k \in 0 .. n : sums[k] \in Nat
    BY <1>0 DEF IsSums
  <2>3. n \in 0 .. n
    BY <1>1
  <2> QED
    BY <1>0, <1>1, <2>1, <2>2, <2>3 DEF IsSums
<1>5. t.data = d /\ t.width = 1 /\ counts[i] * 1 = counts[i] /\ before * 1 = sums[i - 1]
  BY <1>0, <1>1, <1>2, <1>4
<1>6. cells = [k \in 1 .. counts[i] |-> T!Cell(d, sums[i - 1] + k)]
  <2> HIDE DEF before
  <2> QED
    BY <1>5
<1>7. \A k \in 1 .. counts[i] : T!Cell(d, sums[i - 1] + k) = d[sums[i - 1] + k]
  <2>1. \A k \in 1 .. counts[i] : sums[i - 1] + k \in 1 .. sums[n]
    BY <1>1, <1>4
  <2> QED
    BY <1>0, <2>1 DEF T!Cell
<1> HIDE DEF cells
<1>8. cells = slice
  BY <1>0, <1>6, <1>7
<1> QED
  BY <1>0, <1>3, <1>8

\* Every input has a shape.
ShapedInputs == \A in \in Inputs : \A name \in DOMAIN in : in[name] \in Shapes

LEMMA PendingShapes ==
  ASSUME ShapedInputs, NEW q \in PendingRequests
  PROVE  /\ \A name \in DOMAIN q.inputs : q.inputs[name] \in Shapes
         /\ DOMAIN q.inputs # {} => \E name \in DOMAIN q.inputs : q.n_rows = q.inputs[name].n_rows
<1>1. PICK in \in Inputs : q \in [inputs : {in}, output_filter : Filters, n_rows : RowCounts(in)]
  BY DEF PendingRequests
<1>2. q.inputs = in /\ q.n_rows \in RowCounts(in)
  BY <1>1
<1> QED
  BY <1>2 DEF ShapedInputs, RowCounts

LEMMA StackableAlike ==
  ASSUME ShapedInputs, NEW b \in Seq(Requests), b # <<>>, Stackable(b),
         \A i \in DOMAIN b : request[b[i]] \in PendingRequests
  PROVE  /\ \A i \in 1 .. Len(b) : DOMAIN request[b[i]].inputs = DOMAIN request[b[1]].inputs
         /\ \A name \in DOMAIN request[b[1]].inputs : Alike(b, name)
<1>1. DOMAIN b = 1 .. Len(b) /\ 1 \in DOMAIN b
  OBVIOUS
<1>2. \A i \in 1 .. Len(b) : SameColumns(b[i], b[1]) /\ Consistent(b[i])
  BY <1>1 DEF Stackable
<1>3. ASSUME NEW name \in DOMAIN request[b[1]].inputs, NEW i \in 1 .. Len(b)
      PROVE  /\ name \in DOMAIN request[b[i]].inputs /\ request[b[i]].inputs[name] \in Shapes
             /\ request[b[i]].inputs[name].n_rows = request[b[i]].n_rows
             /\ request[b[i]].inputs[name].dtype = request[b[1]].inputs[name].dtype
             /\ request[b[i]].inputs[name].width = request[b[1]].inputs[name].width
  <2>1. /\ DOMAIN request[b[i]].inputs = DOMAIN request[b[1]].inputs
        /\ request[b[i]].inputs[name].dtype = request[b[1]].inputs[name].dtype
        /\ request[b[i]].inputs[name].width = request[b[1]].inputs[name].width
    BY <1>2, <1>3 DEF SameColumns
  <2>2. request[b[i]] \in PendingRequests
    BY <1>1
  <2>3. PICK other \in DOMAIN request[b[i]].inputs :
          request[b[i]].n_rows = request[b[i]].inputs[other].n_rows
    BY <1>3, <2>1, <2>2, PendingShapes
  <2>4. request[b[i]].inputs[name].n_rows = request[b[i]].inputs[other].n_rows
    BY <1>2, <1>3, <2>1 DEF Consistent
  <2>5. request[b[i]].inputs[name] \in Shapes
    BY <1>3, <2>1, <2>2, PendingShapes
  <2> QED
    BY <1>3, <2>1, <2>3, <2>4, <2>5
<1> QED
  BY <1>2, <1>3 DEF SameColumns, Alike

\* The slice of a request is what the model would have computed for it alone.
LEMMA SliceIsOwn ==
  ASSUME ShapedInputs, NEW b \in Seq(Requests), b # <<>>, Stackable(b),
         \A i \in DOMAIN b : request[b[i]] \in PendingRequests,
         output \in ModelOutputs(Stacked(b), UnionFilter(b)),
         NEW i \in 1 .. Len(b), NEW oname \in DOMAIN output
  PROVE  SliceFor(b, i)[oname] = OwnOutput(b[i])
<1> DEFINE n == Len(b)
           counts == RowCountsOf(b)
           names == DOMAIN request[b[1]].inputs
           rows == request[b[i]].n_rows
           own == [name \in names |-> TensorOf(b[i], name)]
           stacked == Stacked(b)
<1>1. DOMAIN b = 1 .. n /\ n \in Nat /\ n # 0
  OBVIOUS
<1>2. /\ DOMAIN request[b[i]].inputs = names
      /\ \A name \in names : Alike(b, name)
  BY StackableAlike
<1>3. PICK name \in names :
        output[oname] = ModelOutput(stacked, stacked[name].n_rows)
  <2>1. DOMAIN stacked = names
    BY DEF Stacked
  <2> DEFINE wanted == IF UnionFilter(b) = {} THEN Outputs ELSE UnionFilter(b)
             outs == { [o \in wanted |-> ModelOutput(Stacked(b), Stacked(b)[nm].n_rows)] :
                         nm \in DOMAIN Stacked(b) }
  <2>2. output \in IF wanted \subseteq Outputs THEN outs ELSE {}
    BY DEF ModelOutputs
  <2> HIDE DEF wanted, names
  <2>3. output \in outs
    <3> HIDE DEF outs
    <3> QED
      BY <2>2
  <2>4. PICK nm \in DOMAIN Stacked(b) :
          output = [o \in wanted |-> ModelOutput(Stacked(b), Stacked(b)[nm].n_rows)]
    BY <2>3
  <2> QED
    BY <2>1, <2>4
<1>4. counts \in Seq(Nat) /\ Len(counts) = n /\ counts[i] = rows
  <2>1. \A j \in 1 .. n : request[b[j]].n_rows \in Nat
    BY <1>2, <1>3 DEF Alike, Shapes
  <2>2. counts = [j \in 1 .. n |-> request[b[j]].n_rows]
    BY <1>1 DEF RowCountsOf
  <2> QED
    BY <1>1, <2>1, <2>2
<1>5. PICK sums : IsSums(sums, counts, n)
  BY <1>4, SumsExist
<1>6. \A nm \in names : /\ stacked[nm].n_rows = sums[n]
                        /\ \A k \in 1 .. rows :
                             T!RowOf(stacked[nm], sums[i - 1] + k) = T!RowOf(TensorOf(b[i], nm), k)
  BY <1>2, <1>5, StackedRows
<1>7. DOMAIN stacked = names
  BY DEF Stacked
<1> HIDE DEF stacked, names, counts, n, rows
<1> DEFINE d == [k \in 1 .. sums[n] |-> [nm \in names |-> T!RowOf(stacked[nm], k)]]
<1>8. output[oname] = [dtype |-> "raw", n_rows |-> sums[n], width |-> 1, data |-> d]
  <2>1. stacked[name].n_rows = sums[n]
    BY <1>3, <1>6
  <2> QED
    BY <1>3, <1>7, <2>1 DEF ModelOutput
<1>9. SliceFor(b, i)[oname] = T!split_rows(output[oname], counts)[i]
  BY DEF SliceFor, counts
<1>10. SliceFor(b, i)[oname] =
         [dtype |-> "raw", n_rows |-> rows, width |-> 1,
          data  |-> [k \in 1 .. rows |-> d[sums[i - 1] + k]]]
  <2>1. DOMAIN d = 1 .. sums[n] /\ i \in 1 .. Len(counts)
    BY <1>4 DEF n
  <2> HIDE DEF d
  <2>2. IsSums(sums, counts, Len(counts)) /\ DOMAIN d = 1 .. sums[Len(counts)]
    BY <1>4, <1>5, <2>1
  <2> DEFINE slice == [k \in 1 .. counts[i] |-> d[sums[i - 1] + k]]
  <2>3. IsSlice(slice, output[oname], d, i, counts, sums)
    BY <1>4, <1>8, <2>1, <2>2 DEF IsSlice
  <2>4. T!split_rows(output[oname], counts)[i] =
          [dtype |-> "raw", n_rows |-> counts[i], width |-> 1, data |-> slice]
    <3> HIDE DEF slice
    <3> QED
      BY <2>3, SplitSlice
  <2> QED
    BY <1>4, <1>9, <2>4
<1>11. ASSUME NEW k \in 1 .. rows
       PROVE  d[sums[i - 1] + k] = [nm \in names |-> T!RowOf(own[nm], k)]
  <2>1. sums[i - 1] + k \in 1 .. sums[n]
    <3>1. i \in 0 .. n /\ i - 1 \in 0 .. n /\ n \in 0 .. n /\ i \in 1 .. n
      BY <1>1 DEF n
    <3>2. /\ \A j \in 0 .. n : sums[j] \in Nat
          /\ sums[i] = sums[i - 1] + counts[i]
      BY <1>5, <3>1 DEF IsSums
    <3>3. sums[i] <= sums[n]
      BY <1>1, <1>4, <1>5, <3>1, SumsGrow
    <3>4. counts[i] \in Nat
      BY <1>4, <3>1
    <3> QED
      BY <1>4, <3>1, <3>2, <3>3, <3>4, SMTT(30)
  <2>2. d[sums[i - 1] + k] = [nm \in names |-> T!RowOf(stacked[nm], sums[i - 1] + k)]
    BY <2>1
  <2>3. \A nm \in names : T!RowOf(own[nm], k) = T!RowOf(stacked[nm], sums[i - 1] + k)
    BY <1>6
  <2> QED
    BY <2>2, <2>3
<1>12. OwnOutput(b[i]) =
         [dtype |-> "raw", n_rows |-> rows, width |-> 1,
          data  |-> [k \in 1 .. rows |-> [nm \in names |-> T!RowOf(own[nm], k)]]]
  <2>1. OwnOutput(b[i]) = ModelOutput(own, rows)
    BY <1>2 DEF OwnOutput, rows
  <2>2. DOMAIN own = names
    OBVIOUS
  <2> HIDE DEF own
  <2> QED
    BY <2>1, <2>2 DEF ModelOutput
<1> HIDE DEF d, own
<1>13. [k \in 1 .. rows |-> d[sums[i - 1] + k]]
         = [k \in 1 .. rows |-> [nm \in names |-> T!RowOf(own[nm], k)]]
  BY <1>11
<1> QED
  BY <1>10, <1>12, <1>13

-------------------------------------------------------------------------------
(* Everybody gets rows of its own *)

\* Behind OwnRows: outputs are kept only while they are delivered, they are what
\* the model made of this batch, and who has an answer has its slice of them.
RowsInv ==
  /\ \A r \in Requests : caller[r] # "idle" => request[r] \in PendingRequests
  /\ output # NoOutput =>
       /\ worker = "deliver"
       /\ output \in ModelOutputs(Stacked(batch), UnionFilter(batch))
       /\ \A i \in 1 .. delivered : answer[batch[i]] = SliceFor(batch, i)

LEMMA StackFrame ==
  ASSUME batch' = batch, batch \in Seq(Requests), batch # <<>>,
         \A i \in DOMAIN batch : request'[batch[i]] = request[batch[i]]
  PROVE  Stacked(batch)' = Stacked(batch) /\ UnionFilter(batch)' = UnionFilter(batch)
<1>1. 1 \in DOMAIN batch
  OBVIOUS
<1>2. \A i \in DOMAIN batch : \A name : TensorOf(batch[i], name)' = TensorOf(batch[i], name)
  BY DEF TensorOf
<1>3. Stacked(batch)' = Stacked(batch)
  BY <1>1, <1>2 DEF Stacked
<1>4. UnionFilter(batch)' = UnionFilter(batch)
  <2> DEFINE filters == { request[batch[i]].output_filter : i \in DOMAIN batch }
  <2>1. filters' = filters
    OBVIOUS
  <2>2. UnionFilter(batch) = IF {} \in filters THEN {} ELSE UNION filters
    BY DEF UnionFilter
  <2>3. UnionFilter(batch)' = IF {} \in filters' THEN {} ELSE UNION filters'
    BY DEF UnionFilter
  <2> QED
    BY <2>1, <2>2, <2>3
<1> QED
  BY <1>3, <1>4

LEMMA SliceFrame ==
  ASSUME batch' = batch, output' = output,
         \A i \in DOMAIN batch : request'[batch[i]] = request[batch[i]]
  PROVE  \A i \in DOMAIN batch : SliceFor(batch, i)' = SliceFor(batch, i)
<1>1. RowCountsOf(batch)' = RowCountsOf(batch)
  BY DEF RowCountsOf
<1> QED
  BY <1>1 DEF SliceFor

LEMMA RowsInit == Init => RowsInv
BY DEF Init, RowsInv

LEMMA RowsNext ==
  ASSUME IInv, RowsInv, [Next]_vars
  PROVE  RowsInv'
<1>0. /\ QueueTypes /\ ThreadTypes /\ RequestTypes /\ Promises /\ EachOnce /\ WorkerControl
      /\ DOMAIN request = Requests /\ DOMAIN promise = Requests
      /\ DOMAIN caller = Requests /\ DOMAIN answer = Requests
  BY DEF IInv, TypeOK, RequestTypes, ThreadTypes
<1>1. /\ batch \in Seq(Requests) /\ delivered \in 0 .. Len(batch)
      /\ worker \in {"predict", "deliver"} => batch # <<>>
      /\ \A i \in 1 .. delivered : i \in DOMAIN batch
  BY <1>0, MaxBatchAssumption DEF QueueTypes, WorkerControl
<1>2. CASE \E r \in Requests : Submit(r)
  <2>1. PICK r \in Requests : Submit(r)
    BY <1>2
  <2>2. PICK req \in PendingRequests : request' = [request EXCEPT ![r] = req]
    BY <2>1, SubmitEffect
  <2>3. /\ caller' = [caller EXCEPT ![r] = "notifying"] /\ caller[r] = "idle"
        /\ UNCHANGED <<worker, batch, delivered, output, answer>>
    BY <2>1 DEF Submit, flushing
  <2>4. \A i \in DOMAIN batch : batch[i] \in Requests /\ batch[i] # r
    BY <1>0, <2>3 DEF Promises, QueueTypes
  <2>5. \A i \in DOMAIN batch : request'[batch[i]] = request[batch[i]]
    BY <1>0, <2>2, <2>4
  <2>6. \A s \in Requests : caller'[s] # "idle" => request'[s] \in PendingRequests
    BY <1>0, <2>2, <2>3 DEF RowsInv
  <2>7. ASSUME output # NoOutput
        PROVE  /\ worker' = "deliver"
               /\ output' \in ModelOutputs(Stacked(batch)', UnionFilter(batch)')
               /\ \A i \in 1 .. delivered' : answer'[batch'[i]] = SliceFor(batch, i)'
    <3>1. worker = "deliver" /\ batch # <<>>
      BY <1>1, <2>7 DEF RowsInv
    <3>2. Stacked(batch)' = Stacked(batch) /\ UnionFilter(batch)' = UnionFilter(batch)
      BY <1>1, <2>3, <2>5, <3>1, StackFrame
    <3>3. \A i \in DOMAIN batch : SliceFor(batch, i)' = SliceFor(batch, i)
      BY <2>3, <2>5, SliceFrame
    <3> QED
      BY <1>1, <2>3, <2>7, <3>1, <3>2, <3>3 DEF RowsInv
  <2> QED
    BY <2>3, <2>6, <2>7 DEF RowsInv, ModelOutputs
<1>3. CASE Predict
  <2>1. /\ UNCHANGED <<batch, delivered, request, caller, answer>>
        /\ worker = "predict" /\ worker' = "deliver"
        /\ output' # NoOutput => output' \in ModelOutputs(Stacked(batch), UnionFilter(batch))
    BY <1>3 DEF Predict, futures
  <2>2. delivered' = 0
    BY <1>0, <2>1 DEF WorkerControl
  <2>3. Stacked(batch)' = Stacked(batch) /\ UnionFilter(batch)' = UnionFilter(batch)
    BY <1>1, <2>1, StackFrame
  <2> QED
    BY <2>1, <2>2, <2>3 DEF RowsInv, ModelOutputs
<1>4. CASE DeliverOutput
  <2> DEFINE b == batch[delivered + 1]
  <2>1. /\ worker = "deliver" /\ output # NoOutput /\ delivered + 1 \in DOMAIN batch
        /\ UNCHANGED <<worker, batch, output, request, caller>> /\ delivered' = delivered + 1
        /\ answer' = [answer EXCEPT ![b] = SliceFor(batch, delivered + 1)]
    BY <1>1, <1>4 DEF DeliverOutput
  <2>2. b \in Requests /\ \A i \in 1 .. delivered : batch[i] \in Requests /\ batch[i] # b
    BY <1>0, <1>1, <2>1 DEF EachOnce
  <2>3. answer'[b] = SliceFor(batch, delivered + 1)
        /\ \A i \in 1 .. delivered : answer'[batch[i]] = answer[batch[i]]
    BY <1>0, <2>1, <2>2
  <2> HIDE DEF b
  <2>4. \A i \in 1 .. delivered' : answer'[batch[i]] = SliceFor(batch, i)
    <3>1. \A i \in 1 .. delivered : answer'[batch[i]] = SliceFor(batch, i)
      BY <2>1, <2>3 DEF RowsInv
    <3>2. \A i \in 1 .. delivered' : i \in 1 .. delivered \/ i = delivered + 1
      BY <1>1, <2>1
    <3> QED
      BY <2>3, <3>1, <3>2 DEF b
  <2>5. \A i \in 1 .. delivered' : SliceFor(batch, i)' = SliceFor(batch, i)
    <3>1. \A i \in 1 .. delivered' : i \in DOMAIN batch
      BY <1>1, <2>1
    <3>2. \A i \in DOMAIN batch : SliceFor(batch, i)' = SliceFor(batch, i)
      BY <2>1, SliceFrame
    <3> QED
      BY <3>1, <3>2
  <2>6. Stacked(batch)' = Stacked(batch) /\ UnionFilter(batch)' = UnionFilter(batch)
    BY <1>1, <2>1, StackFrame
  <2> QED
    BY <2>1, <2>4, <2>5, <2>6 DEF RowsInv, ModelOutputs
<1>5. CASE DeliverError \/ FlushReturns
  BY <1>5 DEF DeliverError, FlushReturns, RowsInv, futures
<1>6. CASE WorkerDrains
  <2>1. /\ worker # "deliver" /\ UNCHANGED <<output, request, caller>>
    BY <1>6 DEF WorkerDrains, WindowClosesEarly, WindowTimesOut, Drain, futures
  <2> QED
    BY <2>1 DEF RowsInv
<1>7. CASE /\ UNCHANGED <<request, answer, batch, delivered, output>>
           /\ worker = "deliver" => worker' = "deliver"
           /\ \A r \in Requests : caller'[r] = "idle" <=> caller[r] = "idle"
  <2>1. CASE output = NoOutput
    BY <1>7, <2>1 DEF RowsInv
  <2>2. CASE output # NoOutput
    <3>1. worker = "deliver" /\ batch # <<>>
      BY <1>1, <2>2 DEF RowsInv
    <3>2. Stacked(batch)' = Stacked(batch) /\ UnionFilter(batch)' = UnionFilter(batch)
      BY <1>1, <1>7, <3>1, StackFrame
    <3>3. \A i \in DOMAIN batch : SliceFor(batch, i)' = SliceFor(batch, i)
      BY <1>7, SliceFrame
    <3> QED
      BY <1>1, <1>7, <2>2, <3>1, <3>2, <3>3 DEF RowsInv, ModelOutputs
  <2> QED
    BY <2>1, <2>2
<1>8. \A r \in Requests : NotifyOne(r) =>
        \A s \in Requests : caller'[s] = "idle" <=> caller[s] = "idle"
  BY <1>0 DEF NotifyOne
<1> QED
  BY <1>2, <1>3, <1>4, <1>5, <1>6, <1>7, <1>8
  DEF Next, vars, shared, flushing, futures, NotifyOne, BeginShutdown, NotifyAll, Join,
      WorkerWaits, WaitForWork, OpenWindow, ReenterWindow, WorkerStops, SeeStopping, RejectNext,
      Exit, Flush, RecordFlush, SpuriousWake, Destroyed, Roused

LEMMA RowsAreOwn ==
  ASSUME ShapedInputs, IInv, RowsInv
  PROVE  OwnRows
<1> SUFFICES ASSUME output # NoOutput, Stackable(batch), NEW i \in 1 .. delivered,
                    NEW oname \in DOMAIN output
             PROVE  answer[batch[i]][oname] = OwnOutput(batch[i])
  BY DEF OwnRows
<1>1. /\ batch \in Seq(Requests) /\ batch # <<>> /\ i \in 1 .. Len(batch)
      /\ \A j \in DOMAIN batch : batch[j] \in Requests /\ caller[batch[j]] # "idle"
  <2>1. QueueTypes /\ Promises
    BY DEF IInv, TypeOK
  <2>2. batch \in Seq(Requests) /\ i \in 1 .. Len(batch)
    BY <2>1 DEF QueueTypes
  <2>3. \A j \in DOMAIN batch : batch[j] \in Requests /\ promise[batch[j]] # "none"
    BY <2>1, <2>2 DEF Promises
  <2> QED
    BY <2>1, <2>2, <2>3 DEF Promises
<1>2. \A j \in DOMAIN batch : request[batch[j]] \in PendingRequests
  BY <1>1 DEF RowsInv
<1>3. /\ output \in ModelOutputs(Stacked(batch), UnionFilter(batch))
      /\ answer[batch[i]] = SliceFor(batch, i)
  BY DEF RowsInv
<1> QED
  BY <1>1, <1>2, <1>3, SliceIsOwn

\* For any number of requests with any numbers of rows, inputs and outputs: if a
\* batch can be stacked at all, concat_rows and split_rows give each request the
\* rows the model would have computed for it alone.
THEOREM OwnRowsAlways ==
  ASSUME ShapedInputs
  PROVE  Spec => []OwnRows
<1>1. IInv /\ RowsInv /\ [Next]_vars => RowsInv'
  BY RowsNext
<1>2. IInv /\ RowsInv => OwnRows
  BY RowsAreOwn
<1> QED
  BY <1>1, <1>2, RowsInit, InductiveInvariant, PTL DEF Spec

-------------------------------------------------------------------------------
(* Refinement of FifoAnswers: what is left of a queue as steps eat its front *)

LEMMA SuffixType ==
  ASSUME NEW S, NEW s \in Seq(S), NEW n \in 0..Len(s)
  PROVE  /\ Suffix(s, n) \in Seq(S) /\ Len(Suffix(s, n)) = Len(s) - n
         /\ \A i \in 1..(Len(s) - n) : Suffix(s, n)[i] = s[n + i]
BY SMTT(30) DEF Suffix

LEMMA SuffixWhole ==
  ASSUME NEW S, NEW s \in Seq(S)
  PROVE  Suffix(s, 0) = s
<1>1. Suffix(s, 0) \in Seq(S) /\ Len(Suffix(s, 0)) = Len(s)
      /\ \A i \in 1..Len(s) : Suffix(s, 0)[i] = s[i]
  BY SuffixType
<1> QED
  BY <1>1, SeqEqual

LEMMA SuffixNone ==
  ASSUME NEW S, NEW s \in Seq(S)
  PROVE  Suffix(s, Len(s)) = <<>>
<1>1. Suffix(s, Len(s)) \in Seq(S) /\ Len(Suffix(s, Len(s))) = 0
  BY SuffixType
<1> QED
  BY <1>1, EmptySeq

\* Moving the cursor takes the head off what is left.
LEMMA SuffixStep ==
  ASSUME NEW S, NEW s \in Seq(S), NEW rest \in Seq(S),
         NEW n \in Nat, n < Len(s)
  PROVE  /\ Suffix(s, n) \o rest # <<>>
         /\ Head(Suffix(s, n) \o rest) = s[n + 1]
         /\ Tail(Suffix(s, n) \o rest) = Suffix(s, n + 1) \o rest
<1> DEFINE a == Suffix(s, n)
           b == Suffix(s, n + 1)
<1>0. n \in 0..Len(s) /\ n + 1 \in 0..Len(s)
  BY LenProperties
<1>1. /\ a \in Seq(S) /\ Len(a) = Len(s) - n
      /\ \A i \in 1..(Len(s) - n) : a[i] = s[n + i]
  BY <1>0, SuffixType, Zenon
<1>2. /\ b \in Seq(S) /\ Len(b) = Len(s) - (n + 1)
      /\ \A i \in 1..(Len(s) - (n + 1)) : b[i] = s[(n + 1) + i]
  BY <1>0, SuffixType, Zenon
<1> HIDE DEF a, b
<1>3. /\ a \o rest \in Seq(S) /\ Len(a \o rest) = Len(a) + Len(rest)
      /\ \A i \in 1..(Len(a) + Len(rest)) :
           (a \o rest)[i] = IF i <= Len(a) THEN a[i] ELSE rest[i - Len(a)]
  BY <1>1, ConcatProperties
<1>4. /\ b \o rest \in Seq(S) /\ Len(b \o rest) = Len(b) + Len(rest)
      /\ \A i \in 1..(Len(b) + Len(rest)) :
           (b \o rest)[i] = IF i <= Len(b) THEN b[i] ELSE rest[i - Len(b)]
  BY <1>2, ConcatProperties
<1>5. Len(rest) \in Nat /\ Len(s) \in Nat
  OBVIOUS
<1>6. a \o rest # <<>> /\ Head(a \o rest) = s[n + 1]
  BY <1>1, <1>3, <1>5
<1>7. /\ Tail(a \o rest) \in Seq(S)
      /\ Len(Tail(a \o rest)) = Len(a \o rest) - 1
      /\ \A i \in 1..(Len(a \o rest) - 1) : Tail(a \o rest)[i] = (a \o rest)[i + 1]
  BY <1>3, <1>6
<1>8. Len(Tail(a \o rest)) = Len(b \o rest)
  BY <1>1, <1>2, <1>3, <1>4, <1>5, <1>7
<1>9. ASSUME NEW i \in 1..Len(b \o rest)
      PROVE  Tail(a \o rest)[i] = (b \o rest)[i]
  BY <1>1, <1>2, <1>3, <1>4, <1>5, <1>7, <1>8, <1>9, SMTT(30)
<1>10. Tail(a \o rest) = b \o rest
  BY <1>4, <1>7, <1>8, <1>9, SeqEqual
<1> QED
  BY <1>6, <1>10 DEF a, b

-------------------------------------------------------------------------------
(* Refinement: how each kind of step changes the line *)

LEMMA LineType ==
  ASSUME QueueTypes
  PROVE  /\ Suffix(batch, delivered) \in Seq(Requests)
         /\ Suffix(queue, rejected) \in Seq(Requests)
         /\ Line \in Seq(Requests)
<1>1. Suffix(batch, delivered) \in Seq(Requests) /\ Suffix(queue, rejected) \in Seq(Requests)
  BY SuffixType DEF QueueTypes
<1> QED
  BY <1>1, ConcatProperties DEF Line

\* While the worker is collecting, the line is the queue.
LEMMA LineOfQueue ==
  ASSUME QueueTypes, batch = <<>>, delivered = 0
  PROVE  Line = Suffix(queue, rejected)
<1>1. Suffix(batch, delivered) = <<>>
  BY SuffixNone, EmptySeq
<1> QED
  BY <1>1, LineType, ConcatEmptySeq DEF Line

LEMMA SubmitLine ==
  ASSUME IInv, NEW r \in Requests, Submit(r)
  PROVE  Line' = Append(Line, r)
<1>1. /\ queue \in Seq(Requests) /\ rejected = 0 /\ rejected' = 0
      /\ queue' = Append(queue, r) /\ queue' \in Seq(Requests)
      /\ UNCHANGED <<batch, delivered>>
  <2>1. owner = "live" /\ queue' = Append(queue, r)
        /\ UNCHANGED <<batch, delivered, rejected>>
    BY DEF Submit, flushing
  <2>2. rejected = 0
    BY <2>1 DEF IInv, WorkerControl, OwnerControl
  <2> QED
    BY <2>1, <2>2 DEF IInv, TypeOK, QueueTypes
<1>2. Suffix(queue, rejected) = queue /\ Suffix(queue', rejected') = Append(queue, r)
  BY <1>1, SuffixWhole
<1>3. Suffix(batch, delivered) \in Seq(Requests)
  BY LineType DEF IInv, TypeOK
<1> DEFINE b == Suffix(batch, delivered)
<1>4. Line = b \o queue /\ Line' = b \o Append(queue, r)
  BY <1>1, <1>2 DEF Line
<1> HIDE DEF b
<1>5. b \o Append(queue, r) = Append(b \o queue, r)
  BY <1>1, <1>3, SMTT(30) DEF b
<1> QED
  BY <1>4, <1>5

LEMMA DrainLine ==
  ASSUME QueueTypes, batch = <<>>, delivered = 0, rejected = 0, Drain
  PROVE  Line' = Line
<1>1. PICK n \in Nat :
         /\ n <= Len(queue)
         /\ batch' \in Seq(Requests) /\ Len(batch') = n
         /\ \A i \in 1..n : batch'[i] = queue[i]
         /\ queue' \in Seq(Requests) /\ Len(queue') = Len(queue) - n
         /\ \A i \in 1..(Len(queue) - n) : queue'[i] = queue[n + i]
  BY DrainEffect DEF QueueTypes
<1>2. delivered' = 0 /\ rejected' = 0
  BY DEF Drain
<1>3. Line = queue
  BY LineOfQueue, SuffixWhole DEF QueueTypes
<1>4. Line' = batch' \o queue'
  BY <1>1, <1>2, SuffixWhole DEF Line
<1>5. /\ batch' \o queue' \in Seq(Requests) /\ Len(batch' \o queue') = Len(queue)
      /\ \A i \in 1..Len(queue) : (batch' \o queue')[i] = queue[i]
  <2>1. /\ batch' \o queue' \in Seq(Requests)
        /\ Len(batch' \o queue') = Len(batch') + Len(queue')
        /\ \A i \in 1..(Len(batch') + Len(queue')) :
             (batch' \o queue')[i] =
               IF i <= Len(batch') THEN batch'[i] ELSE queue'[i - Len(batch')]
    BY <1>1, ConcatProperties
  <2>2. Len(queue) \in Nat /\ Len(batch') + Len(queue') = Len(queue)
    BY <1>1 DEF QueueTypes
  <2>3. ASSUME NEW i \in 1..Len(queue)
        PROVE  (batch' \o queue')[i] = queue[i]
    <3>1. CASE i <= n
      BY <1>1, <2>1, <2>2, <3>1
    <3>2. CASE i > n
      <4>1. i - n \in 1..(Len(queue) - n)
        BY <2>2, <3>2
      <4>2. queue'[i - n] = queue[n + (i - n)] /\ n + (i - n) = i
        BY <1>1, <4>1
      <4> QED
        BY <1>1, <2>1, <2>2, <3>2, <4>2
    <3> QED
      BY <2>2, <3>1, <3>2
  <2> QED
    BY <2>1, <2>2, <2>3
<1>6. batch' \o queue' = queue
  BY <1>5, SeqEqual DEF QueueTypes
<1> QED
  BY <1>3, <1>4, <1>6

LEMMA DeliverLine ==
  ASSUME QueueTypes, DeliverError \/ DeliverOutput
  PROVE  Line # <<>> /\ Head(Line) = batch[delivered + 1] /\ Line' = Tail(Line)
<1>1. /\ delivered < Len(batch) /\ delivered' = delivered + 1
      /\ UNCHANGED <<queue, batch, rejected>>
  BY DeliverFrame
<1>2. Suffix(queue, rejected) \in Seq(Requests) /\ batch \in Seq(Requests) /\ delivered \in Nat
  BY LineType DEF QueueTypes
<1> QED
  BY <1>1, <1>2, SuffixStep DEF Line

LEMMA RejectLine ==
  ASSUME QueueTypes, batch = <<>>, delivered = 0, RejectNext
  PROVE  Line # <<>> /\ Head(Line) = queue[rejected + 1] /\ Line' = Tail(Line)
<1>1. /\ rejected < Len(queue) /\ rejected' = rejected + 1
      /\ UNCHANGED <<queue, batch, delivered>>
  BY RejectFrame
<1>2. queue \in Seq(Requests) /\ rejected \in Nat /\ <<>> \in Seq(Requests)
  BY DEF QueueTypes
<1>3. /\ Suffix(queue, rejected) \o <<>> # <<>>
      /\ Head(Suffix(queue, rejected) \o <<>>) = queue[rejected + 1]
      /\ Tail(Suffix(queue, rejected) \o <<>>) = Suffix(queue, rejected + 1) \o <<>>
  BY <1>1, <1>2, SuffixStep
<1>4. QueueTypes'
  BY <1>1 DEF QueueTypes
<1>5. Suffix(queue, rejected) \o <<>> = Suffix(queue, rejected)
      /\ Suffix(queue, rejected + 1) \o <<>> = Suffix(queue, rejected + 1)
  <2>1. Suffix(queue, rejected) \in Seq(Requests) /\ Suffix(queue, rejected + 1) \in Seq(Requests)
    BY <1>1, <1>2, SuffixType
  <2> QED
    BY <2>1, ConcatEmptySeq
<1>6. Line = Suffix(queue, rejected)
  BY LineOfQueue
<1>7. Line' = Suffix(queue, rejected + 1)
  <2>1. Suffix(batch', delivered') = <<>>
    BY <1>1, <1>2, SuffixNone, EmptySeq
  <2>2. Suffix(queue, rejected + 1) \in Seq(Requests)
    BY <1>1, <1>2, SuffixType
  <2> QED
    BY <1>1, <2>1, <2>2, ConcatEmptySeq DEF Line
<1> QED
  BY <1>3, <1>5, <1>6, <1>7

\* Clearing a queue or a batch that is used up leaves the line as it is.
LEMMA ClearLine ==
  ASSUME QueueTypes, QueueTypes',
         \/ /\ rejected = Len(queue) /\ queue' = <<>> /\ rejected' = 0
            /\ UNCHANGED <<batch, delivered>>
         \/ /\ delivered = Len(batch) /\ batch' = <<>> /\ delivered' = 0
            /\ UNCHANGED <<queue, rejected>>
  PROVE  Line' = Line
<1>1. Suffix(<<>>, 0) = <<>>
  <2>1. <<>> \in Seq(Requests) /\ Len(<<>>) = 0
    BY EmptySeq
  <2> QED
    BY <2>1, SuffixNone
<1>2. CASE rejected = Len(queue) /\ queue' = <<>> /\ rejected' = 0
           /\ UNCHANGED <<batch, delivered>>
  <2>1. Suffix(queue, rejected) = <<>>
    BY <1>2, SuffixNone DEF QueueTypes
  <2> QED
    BY <1>1, <1>2, <2>1 DEF Line
<1>3. CASE delivered = Len(batch) /\ batch' = <<>> /\ delivered' = 0
           /\ UNCHANGED <<queue, rejected>>
  <2>1. Suffix(batch, delivered) = <<>>
    BY <1>3, SuffixNone DEF QueueTypes
  <2> QED
    BY <1>1, <1>3, <2>1 DEF Line
<1> QED
  BY <1>2, <1>3

-------------------------------------------------------------------------------
(* Refinement: every step is a step of FifoAnswers or leaves it alone *)

LEMMA InitRefines == Init => Fifo!Init
<1> SUFFICES ASSUME Init
             PROVE  Fifo!Init
  OBVIOUS
<1>1. QueueTypes /\ batch = <<>> /\ delivered = 0 /\ queue = <<>> /\ rejected = 0
  BY DEF Init, QueueTypes
<1>2. Line = <<>>
  BY <1>1, LineOfQueue, SuffixWhole DEF QueueTypes
<1>3. Phase = "open" /\ promise = [r \in Requests |-> "none"]
  BY DEF Init, Phase
<1> QED
  BY <1>2, <1>3 DEF Fifo!Init

\* Serving: the model's answer goes to the head of the line.
LEMMA DeliverRefines ==
  ASSUME IInv, DeliverError \/ DeliverOutput
  PROVE  Fifo!Serve
<1>1. QueueTypes /\ RequestTypes
  BY DEF IInv, TypeOK
<1>2. Line # <<>> /\ Head(Line) = batch[delivered + 1] /\ Line' = Tail(Line)
  BY <1>1, DeliverLine
<1>3. delivered + 1 \in DOMAIN batch /\ ~(delivered + 1 <= delivered)
  BY <1>1, DeliverFrame DEF QueueTypes
<1>4. promise[batch[delivered + 1]] = "pending"
  BY <1>3 DEF IInv, Promises
<1>5. PICK how \in {"ok", "error"} :
        promise' = [promise EXCEPT ![batch[delivered + 1]] =
                      Settled(batch[delivered + 1], how)]
  BY <1>1, DeliverSettles
<1>6. promise' = [promise EXCEPT ![Head(Line)] = how]
  BY <1>2, <1>4, <1>5 DEF Settled
<1>7. Phase \in {"open", "closing"} /\ Phase' = Phase
  BY DeliverFrame DEF IInv, OwnerControl, Phase
<1> QED
  BY <1>2, <1>4, <1>6, <1>7 DEF Fifo!Serve, Fifo!AnswerHead

\* Turning away: the shutdown loop answers the head of the line.
LEMMA RejectRefines ==
  ASSUME IInv, RejectNext
  PROVE  Fifo!TurnAway
<1>1. QueueTypes /\ RequestTypes /\ batch = <<>> /\ delivered = 0
  BY RejectFrame DEF IInv, TypeOK, WorkerControl
<1>2. Line # <<>> /\ Head(Line) = queue[rejected + 1] /\ Line' = Tail(Line)
  BY <1>1, RejectLine
<1>3. rejected + 1 \in DOMAIN queue /\ ~(rejected + 1 <= rejected)
  BY <1>1, RejectFrame DEF QueueTypes
<1>4. promise[queue[rejected + 1]] = "pending"
  BY <1>3 DEF IInv, Promises
<1>5. promise' = [promise EXCEPT ![Head(Line)] = "shutdown"]
  BY <1>1, <1>2, <1>4, RejectSettles DEF Settled
<1>6. Phase = "rejecting" /\ Phase' = Phase
  BY RejectFrame DEF IInv, OwnerControl, Phase
<1> QED
  BY <1>2, <1>4, <1>5, <1>6 DEF Fifo!TurnAway, Fifo!AnswerHead

LEMMA SubmitRefines ==
  ASSUME IInv, NEW r \in Requests, Submit(r)
  PROVE  Fifo!Accept(r)
<1>1. Line' = Append(Line, r)
  BY SubmitLine
<1>2. promise[r] = "none" /\ promise' = [promise EXCEPT ![r] = "pending"]
  BY DEF Submit, IInv, Promises
<1>3. Phase = "open" /\ Phase' = Phase
  <2>1. owner = "live" /\ UNCHANGED <<stopping, worker, owner>>
    BY DEF Submit
  <2> QED
    BY <2>1 DEF IInv, OwnerControl, Phase
<1> QED
  BY <1>1, <1>2, <1>3 DEF Fifo!Accept

\* Steps that move no cursor, queue or batch leave the line as it is.
LEMMA SameLine ==
  ASSUME UNCHANGED <<queue, batch, delivered, rejected>>
  PROVE  Line' = Line
BY DEF Line, Suffix

LEMMA NextRefines == IInv /\ IInv' /\ [Next]_vars => [Fifo!Next]_(Fifo!vars)
<1> SUFFICES ASSUME IInv, IInv', [Next]_vars
             PROVE  Fifo!Next \/ UNCHANGED <<Line, promise, Phase>>
  BY DEF Fifo!vars
<1> USE DEF shared, flushing, futures
<1>0. QueueTypes /\ QueueTypes'
  BY DEF IInv, TypeOK
<1>1. ASSUME NEW r \in Requests, Submit(r)
      PROVE  Fifo!Next
  BY <1>1, SubmitRefines DEF Fifo!Next
<1>2. CASE DeliverError \/ DeliverOutput
  BY <1>2, DeliverRefines DEF Fifo!Next
<1>3. CASE RejectNext
  BY <1>3, RejectRefines DEF Fifo!Next
<1>4. CASE BeginShutdown
  <2>1. Line' = Line /\ UNCHANGED promise
    BY <1>4, SameLine DEF BeginShutdown
  <2>2. Phase = "open" /\ Phase' = "closing"
    BY <1>4 DEF BeginShutdown, IInv, OwnerControl, Phase
  <2> QED
    BY <2>1, <2>2 DEF Fifo!Next, Fifo!Close
<1>5. CASE SeeStopping
  <2>1. Line' = Line /\ UNCHANGED promise
    BY <1>5, SameLine DEF SeeStopping
  <2>2. Phase = "closing" /\ Phase' = "rejecting"
    BY <1>5 DEF SeeStopping, IInv, OwnerControl, Phase
  <2> QED
    BY <2>1, <2>2 DEF Fifo!Next, Fifo!Reject
<1>6. CASE Join
  <2>1. Line' = Line /\ UNCHANGED promise
    BY <1>6, SameLine DEF Join
  <2>2. batch = <<>> /\ delivered = 0 /\ queue = <<>> /\ rejected = 0
    BY <1>6 DEF Join, IInv, WorkerControl
  <2>3. Line = <<>>
    BY <1>0, <2>2, LineOfQueue, SuffixWhole DEF QueueTypes
  <2>4. Phase = "rejecting" /\ Phase' = "closed"
    BY <1>6 DEF Join, Phase
  <2> QED
    BY <2>1, <2>3, <2>4 DEF Fifo!Next, Fifo!Finish
<1>7. CASE WorkerDrains
  <2>1. Drain /\ worker \in {"test", "window", "retest"}
    BY <1>7 DEF WorkerDrains, WindowClosesEarly, WindowTimesOut
  <2>2. Line' = Line
    BY <1>0, <2>1, DrainLine DEF IInv, WorkerControl
  <2>3. UNCHANGED <<promise, Phase>>
    BY <2>1 DEF Drain, Phase
  <2> QED
    BY <2>2, <2>3
<1>8. CASE Exit
  <2>1. Line' = Line
    BY <1>0, <1>8, ClearLine DEF Exit
  <2>2. UNCHANGED <<promise, Phase>>
    BY <1>8 DEF Exit, Phase
  <2> QED
    BY <2>1, <2>2
<1>9. CASE FlushReturns
  <2>1. Line' = Line
    BY <1>0, <1>9, ClearLine DEF FlushReturns
  <2>2. UNCHANGED <<promise, Phase>>
    BY <1>9 DEF FlushReturns, Phase
  <2> QED
    BY <2>1, <2>2
<1>10. CASE /\ UNCHANGED <<queue, batch, delivered, rejected, promise, stopping>>
            /\ \/ worker' = worker
               \/ worker \notin {"rejecting", "exited"} /\ worker' \notin {"rejecting", "exited"}
            /\ owner' = owner \/ (owner # "gone" /\ owner' # "gone")
  BY <1>10, SameLine DEF Phase
<1>11. ASSUME worker' = Roused
       PROVE  \/ worker' = worker
              \/ worker \notin {"rejecting", "exited"} /\ worker' \notin {"rejecting", "exited"}
  BY <1>11 DEF Roused
<1>12. ASSUME NEW r \in Requests, NotifyOne(r)
       PROVE  Fifo!Next \/ UNCHANGED <<Line, promise, Phase>>
  <2>1. worker' = Roused
        /\ UNCHANGED <<queue, batch, delivered, rejected, promise, stopping, owner>>
    BY <1>12 DEF NotifyOne
  <2> QED
    BY <1>10, <1>11, <2>1
<1>13. CASE NotifyAll
  BY <1>10, <1>11, <1>13 DEF NotifyAll
<1>14. CASE SpuriousWake
  BY <1>10, <1>11, <1>14 DEF SpuriousWake
<1>15. CASE WorkerWaits \/ RecordFlush \/ Predict
  BY <1>10, <1>15 DEF WorkerWaits, WaitForWork, OpenWindow, ReenterWindow, RecordFlush,
     Predict
<1>16. CASE UNCHANGED vars
  BY <1>10, <1>16 DEF vars
<1> QED
  BY <1>1, <1>2, <1>3, <1>4, <1>5, <1>6, <1>7, <1>8, <1>9, <1>12, <1>13, <1>14, <1>15,
     <1>16
     DEF Next, WorkerStops, Flush, Destroyed

\* A Batcher never loses, repeats or reorders an answer, and computes none after it
\* has begun to turn requests away: it implements FifoAnswers.
THEOREM Refinement == Spec => ImplementsFifo
<1>1. Init => Fifo!Init
  BY InitRefines
<1>2. IInv /\ IInv' /\ [Next]_vars => [Fifo!Next]_(Fifo!vars)
  BY NextRefines
<1> QED
  BY <1>1, <1>2, InductiveInvariant, PTL DEF Spec, ImplementsFifo, Fifo!Spec

-------------------------------------------------------------------------------
(* The order of answers *)

\* Where one stands in line: first who is left of the batch, then who is left of the
\* queue.
LEMMA LinePlaces ==
  ASSUME QueueTypes
  PROVE  LET left == Len(batch) - delivered
         IN /\ left \in Nat /\ Len(Line) = left + (Len(queue) - rejected)
            /\ \A i \in 1..left : Line[i] = batch[delivered + i]
            /\ \A i \in 1..(Len(queue) - rejected) : Line[left + i] = queue[rejected + i]
<1> DEFINE b == Suffix(batch, delivered)
           q == Suffix(queue, rejected)
<1>1. /\ b \in Seq(Requests) /\ Len(b) = Len(batch) - delivered
      /\ \A i \in 1..Len(b) : b[i] = batch[delivered + i]
  BY SuffixType DEF QueueTypes
<1>2. /\ q \in Seq(Requests) /\ Len(q) = Len(queue) - rejected
      /\ \A i \in 1..Len(q) : q[i] = queue[rejected + i]
  BY SuffixType DEF QueueTypes
<1>3. Line = b \o q
  BY DEF Line
<1> HIDE DEF b, q
<1>4. Len(b) \in Nat /\ Len(q) \in Nat
  BY <1>1, <1>2, LenProperties
<1>5. /\ Len(Line) = Len(b) + Len(q)
      /\ \A i \in 1..(Len(b) + Len(q)) : Line[i] = IF i <= Len(b) THEN b[i] ELSE q[i - Len(b)]
  BY <1>1, <1>2, <1>3, ConcatProperties
<1>6. ASSUME NEW i \in 1..Len(b)
      PROVE  Line[i] = b[i]
  BY <1>4, <1>5
<1>7. ASSUME NEW i \in 1..Len(q)
      PROVE  Line[Len(b) + i] = q[i]
  <2>1. Len(b) + i \in 1..(Len(b) + Len(q)) /\ ~(Len(b) + i <= Len(b)) /\ (Len(b) + i) - Len(b) = i
    BY <1>4
  <2> QED
    BY <1>5, <2>1, Zenon
<1> QED
  BY <1>1, <1>2, <1>4, <1>5, <1>6, <1>7

\* In line are those whose promise is unset, each once.
LEMMA LineIsPending ==
  ASSUME IInv
  PROVE  /\ Line \in Seq(Requests)
         /\ \A i, j \in 1..Len(Line) : Line[i] = Line[j] => i = j
         /\ \A i \in 1..Len(Line) : promise[Line[i]] = "pending"
         /\ \A r \in Requests : promise[r] = "pending" => \E i \in 1..Len(Line) : Line[i] = r
<1> DEFINE left == Len(batch) - delivered
           others == Len(queue) - rejected
<1>1. /\ queue \in Seq(Requests) /\ rejected \in 0..Len(queue)
      /\ batch \in Seq(Requests) /\ delivered \in 0..Len(batch)
  BY DEF IInv, TypeOK, QueueTypes
<1>2. /\ left \in Nat /\ others \in Nat /\ Len(Line) = left + others
      /\ \A i \in 1..left : Line[i] = batch[delivered + i]
      /\ \A i \in 1..others : Line[left + i] = queue[rejected + i]
  <2>1. QueueTypes
    BY DEF IInv, TypeOK
  <2> QED
    BY <1>1, <2>1, LinePlaces, LenProperties
<1>3. /\ DOMAIN batch = 1..Len(batch) /\ Len(batch) \in Nat
      /\ DOMAIN queue = 1..Len(queue) /\ Len(queue) \in Nat
  BY <1>1, LenProperties
<1>4. ASSUME NEW i \in 1..left
      PROVE  delivered + i \in DOMAIN batch /\ ~(delivered + i <= delivered)
  BY <1>1, <1>3
<1>5. ASSUME NEW i \in 1..others
      PROVE  rejected + i \in DOMAIN queue /\ ~(rejected + i <= rejected)
  BY <1>1, <1>3
<1>6. ASSUME NEW i \in 1..Len(Line)
      PROVE  i \in 1..left \/ (i - left \in 1..others /\ Line[i] = queue[rejected + (i - left)])
  <2>1. i \in 1..left \/ (i - left \in 1..others /\ left + (i - left) = i)
    BY <1>2
  <2> QED
    BY <1>2, <2>1, Zenon
<1>7. Line \in Seq(Requests)
  BY LineType DEF IInv, TypeOK
<1> HIDE DEF left, others
<1>8. /\ \A i, j \in DOMAIN batch : batch[i] = batch[j] => i = j
      /\ \A i, j \in DOMAIN queue : queue[i] = queue[j] => i = j
      /\ \A i \in DOMAIN batch, j \in DOMAIN queue : batch[i] # queue[j]
  BY DEF IInv, EachOnce
<1>9. /\ \A i \in DOMAIN batch : ~(i <= delivered) => promise[batch[i]] = "pending"
      /\ \A i \in DOMAIN queue : ~(i <= rejected) => promise[queue[i]] = "pending"
  BY DEF IInv, Promises
<1>10. ASSUME NEW i \in 1..Len(Line), i \in 1..left
       PROVE  /\ delivered + i \in DOMAIN batch /\ ~(delivered + i <= delivered)
              /\ Line[i] = batch[delivered + i]
  BY <1>2, <1>4, <1>10, Zenon
<1>11. ASSUME NEW i \in 1..Len(Line), i \notin 1..left
       PROVE  /\ rejected + (i - left) \in DOMAIN queue /\ ~(rejected + (i - left) <= rejected)
              /\ Line[i] = queue[rejected + (i - left)] /\ i - left \in 1..others
  BY <1>5, <1>6, <1>11, Zenon
<1>12. ASSUME NEW i \in 1..Len(Line), NEW j \in 1..Len(Line), Line[i] = Line[j]
       PROVE  i = j
  <2>1. CASE i \in 1..left /\ j \in 1..left
    <3>1. /\ delivered + i \in DOMAIN batch /\ Line[i] = batch[delivered + i]
          /\ delivered + j \in DOMAIN batch /\ Line[j] = batch[delivered + j]
      BY <1>10, <2>1, Zenon
    <3>2. delivered + i = delivered + j
      BY <1>8, <1>12, <3>1
    <3> QED
      BY <1>1, <1>3, <3>2
  <2>2. CASE i \in 1..left /\ j \notin 1..left
    <3>1. /\ delivered + i \in DOMAIN batch /\ Line[i] = batch[delivered + i]
          /\ rejected + (j - left) \in DOMAIN queue /\ Line[j] = queue[rejected + (j - left)]
      BY <1>10, <1>11, <2>2, Zenon
    <3> QED
      BY <1>8, <1>12, <3>1
  <2>3. CASE i \notin 1..left /\ j \in 1..left
    <3>1. /\ rejected + (i - left) \in DOMAIN queue /\ Line[i] = queue[rejected + (i - left)]
          /\ delivered + j \in DOMAIN batch /\ Line[j] = batch[delivered + j]
      BY <1>10, <1>11, <2>3, Zenon
    <3> QED
      BY <1>8, <1>12, <3>1
  <2>4. CASE i \notin 1..left /\ j \notin 1..left
    <3>1. /\ rejected + (i - left) \in DOMAIN queue /\ Line[i] = queue[rejected + (i - left)]
          /\ rejected + (j - left) \in DOMAIN queue /\ Line[j] = queue[rejected + (j - left)]
      BY <1>11, <2>4, Zenon
    <3>2. rejected + (i - left) = rejected + (j - left)
      BY <1>8, <1>12, <3>1
    <3> QED
      BY <1>1, <1>2, <1>3, <3>2
  <2> QED
    BY <2>1, <2>2, <2>3, <2>4
<1>13. ASSUME NEW i \in 1..Len(Line)
       PROVE  promise[Line[i]] = "pending"
  <2>1. CASE i \in 1..left
    <3>1. /\ delivered + i \in DOMAIN batch /\ ~(delivered + i <= delivered)
          /\ Line[i] = batch[delivered + i]
      BY <1>10, <2>1, Zenon
    <3> QED
      BY <1>9, <3>1, Zenon
  <2>2. CASE i \notin 1..left
    <3>1. /\ rejected + (i - left) \in DOMAIN queue /\ ~(rejected + (i - left) <= rejected)
          /\ Line[i] = queue[rejected + (i - left)]
      BY <1>11, <2>2, Zenon
    <3> QED
      BY <1>9, <3>1, Zenon
  <2> QED
    BY <2>1, <2>2
<1>14. ASSUME NEW r \in Requests, promise[r] = "pending"
       PROVE  \E i \in 1..Len(Line) : Line[i] = r
  <2>1. CASE \E k \in DOMAIN batch : batch[k] = r
    <3>1. PICK k \in DOMAIN batch : batch[k] = r
      BY <2>1
    <3>2. ~(k <= delivered)
      BY <1>14, <3>1 DEF IInv, Promises
    <3>3. k - delivered \in 1..left /\ delivered + (k - delivered) = k
          /\ k - delivered \in 1..Len(Line)
      BY <1>1, <1>2, <1>3, <3>2 DEF left
    <3> QED
      BY <1>2, <3>1, <3>3, Zenon
  <2>2. CASE \E k \in DOMAIN queue : queue[k] = r
    <3>1. PICK k \in DOMAIN queue : queue[k] = r
      BY <2>2
    <3>2. ~(k <= rejected)
      BY <1>14, <3>1 DEF IInv, Promises
    <3>3. k - rejected \in 1..others /\ rejected + (k - rejected) = k
          /\ left + (k - rejected) \in 1..Len(Line)
      BY <1>1, <1>2, <1>3, <3>2 DEF others
    <3> QED
      BY <1>2, <3>1, <3>3, Zenon
  <2> QED
    BY <1>14, <2>1, <2>2 DEF IInv, Promises
<1> QED
  BY <1>7, <1>12, <1>13, <1>14

\* Whoever joins goes to the end; whoever is answered stood at the head.
LEMMA OrderKept ==
  ASSUME IInv, IInv', [Next]_vars, NEW q \in Requests, NEW r \in Requests
  PROVE  /\ promise[q] = "pending" /\ promise[r] = "none" /\ promise'[r] = "pending"
              => Ahead(q, r)'
         /\ Ahead(q, r)
              => promise'[q] # "pending" \/ (promise'[r] = "pending" /\ Ahead(q, r)')
<1>1. /\ Line \in Seq(Requests)
      /\ \A i, j \in 1..Len(Line) : Line[i] = Line[j] => i = j
      /\ \A i \in 1..Len(Line) : promise[Line[i]] = "pending"
      /\ \A x \in Requests : promise[x] = "pending" => \E i \in 1..Len(Line) : Line[i] = x
  BY LineIsPending
<1>2. DOMAIN Line = 1..Len(Line) /\ Len(Line) \in Nat
  BY <1>1, LenProperties
<1>3. DOMAIN promise = Requests
  BY DEF IInv, TypeOK, RequestTypes
<1>4. \/ \E x \in Requests : Fifo!Accept(x)
      \/ \E how \in {"ok", "error", "shutdown"} : Fifo!AnswerHead(how)
      \/ Line' = Line /\ promise' = promise
  BY NextRefines, Zenon
     DEF Fifo!Next, Fifo!Serve, Fifo!TurnAway, Fifo!Close, Fifo!Reject, Fifo!Finish, Fifo!vars
<1>5. ASSUME NEW x \in Requests, Fifo!Accept(x)
      PROVE  /\ promise[q] = "pending" /\ promise[r] = "none" /\ promise'[r] = "pending"
                  => Ahead(q, r)'
             /\ Ahead(q, r) => promise'[r] = "pending" /\ Ahead(q, r)'
  <2>1. /\ Line' = Append(Line, x) /\ promise[x] = "none"
        /\ promise' = [promise EXCEPT ![x] = "pending"]
    BY <1>5 DEF Fifo!Accept
  <2>2. /\ DOMAIN Line' = 1..(Len(Line) + 1) /\ Line'[Len(Line) + 1] = x
        /\ \A i \in 1..Len(Line) : Line'[i] = Line[i]
    BY <1>1, <1>2, <2>1, AppendProperties, LenProperties
  <2>3. ASSUME promise[q] = "pending", promise[r] = "none", promise'[r] = "pending"
        PROVE  Ahead(q, r)'
    <3>1. r = x
      BY <1>3, <2>1, <2>3
    <3>2. PICK i \in 1..Len(Line) : Line[i] = q
      BY <1>1, <2>3
    <3>3. i \in DOMAIN Line' /\ Len(Line) + 1 \in DOMAIN Line' /\ i < Len(Line) + 1
      BY <1>2, <2>2
    <3> QED
      BY <2>2, <3>1, <3>2, <3>3, Zenon DEF Ahead
  <2>4. ASSUME Ahead(q, r)
        PROVE  promise'[r] = "pending" /\ Ahead(q, r)'
    <3>1. PICK i \in 1..Len(Line), j \in 1..Len(Line) : i < j /\ Line[i] = q /\ Line[j] = r
      BY <1>2, <2>4, Zenon DEF Ahead
    <3>2. promise'[r] = "pending"
      BY <1>1, <1>3, <2>1, <3>1
    <3>3. i \in DOMAIN Line' /\ j \in DOMAIN Line'
      BY <1>2, <2>2
    <3> QED
      BY <2>2, <3>1, <3>2, <3>3, Zenon DEF Ahead
  <2> QED
    BY <2>3, <2>4
<1>6. ASSUME NEW how \in {"ok", "error", "shutdown"}, Fifo!AnswerHead(how)
      PROVE  /\ promise[r] = "none" => promise'[r] # "pending"
             /\ Ahead(q, r)
                  => promise'[q] # "pending" \/ (promise'[r] = "pending" /\ Ahead(q, r)')
  <2>1. /\ Line # <<>> /\ Line' = Tail(Line) /\ promise[Head(Line)] = "pending"
        /\ promise' = [promise EXCEPT ![Head(Line)] = how]
    BY <1>6 DEF Fifo!AnswerHead
  <2>2. /\ Head(Line) = Line[1] /\ Line[1] \in Requests /\ 1 \in 1..Len(Line)
        /\ DOMAIN Line' = 1..(Len(Line) - 1)
        /\ \A i \in 1..(Len(Line) - 1) : Line'[i] = Line[i + 1]
    BY <1>1, <1>2, <2>1, HeadTailProperties, LenProperties, EmptySeq
  <2>3. promise[r] = "none" => promise'[r] # "pending"
    BY <1>3, <2>1
  <2>4. ASSUME Ahead(q, r), promise'[q] = "pending"
        PROVE  promise'[r] = "pending" /\ Ahead(q, r)'
    <3>1. PICK i \in 1..Len(Line), j \in 1..Len(Line) : i < j /\ Line[i] = q /\ Line[j] = r
      BY <1>2, <2>4, Zenon DEF Ahead
    <3>2. i # 1
      BY <1>3, <2>1, <2>2, <2>4, <3>1
    <3>3. /\ i - 1 \in 1..(Len(Line) - 1) /\ j - 1 \in 1..(Len(Line) - 1)
          /\ i - 1 < j - 1 /\ (i - 1) + 1 = i /\ (j - 1) + 1 = j /\ j # 1
      BY <1>2, <3>1, <3>2
    <3>4. r # Head(Line)
      BY <1>1, <2>2, <3>1, <3>3
    <3>5. promise'[r] = "pending"
      BY <1>1, <1>3, <2>1, <3>1, <3>4
    <3>6. Line'[i - 1] = q /\ Line'[j - 1] = r
      BY <2>2, <3>1, <3>3, Zenon
    <3> QED
      BY <2>2, <3>3, <3>5, <3>6, Zenon DEF Ahead
  <2> QED
    BY <2>3, <2>4
<1>7. CASE Line' = Line /\ promise' = promise
  <2>1. Ahead(q, r) => promise[r] = "pending"
    BY <1>1, <1>2 DEF Ahead
  <2> QED
    BY <1>7, <2>1 DEF Ahead
<1> QED
  BY <1>4, <1>5, <1>6, <1>7

\* Whatever batches are made of the queue, and however they end, answers come in the
\* order in which the requests were submitted.
THEOREM NobodyOvertakes == Spec => NoOvertaking
<1>1. IInv /\ IInv' /\ [Next]_vars =>
        [\A q, r \in Requests :
           /\ promise[q] = "pending" /\ promise[r] = "none" /\ promise'[r] = "pending"
                => Ahead(q, r)'
           /\ Ahead(q, r)
                => promise'[q] # "pending" \/ (promise'[r] = "pending" /\ Ahead(q, r)')]_vars
  BY OrderKept
<1> QED
  BY <1>1, InductiveInvariant, PTL DEF Spec, NoOvertaking

-------------------------------------------------------------------------------
(* Progress: the shutdown *)

LEMMA PlacesAre ==
  /\ Places["exited"] = 0 /\ Places["rejecting"] = 1 /\ Places["test"] = 2
  /\ Places["asleep"] = 3 /\ Places["deliver"] = 3 /\ Places["predict"] = 4
  /\ Places["flush"] = 5 /\ Places["retest"] = 6 /\ Places["window"] = 7
BY DEF Places

\* A notification or a wake-up only takes the worker on.
LEMMA RousedAdvances ==
  ASSUME worker' = Roused
  PROVE  worker' = worker \/ Places[worker'] < Places[worker]
BY PlacesAre DEF Roused

LEMMA WorkerAdvances ==
  ASSUME IInv, QueueTypes', stopping,
         WorkerWaits \/ WorkerDrains \/ WorkerStops \/ Flush
  PROVE  \/ Places[worker'] < Places[worker] /\ Line' = Line
         \/ worker' = worker /\ Line # <<>> /\ Line' = Tail(Line)
<1>0. QueueTypes /\ WorkerControl
  BY DEF IInv, TypeOK
<1>1. CASE WorkerWaits
  BY <1>1 DEF WorkerWaits, WaitForWork, WorkArrived, OpenWindow, ReenterWindow, WindowOver
<1>2. CASE WorkerDrains
  <2>1. Drain /\ worker \in {"window", "retest"}
    BY <1>2 DEF WorkerDrains, WindowClosesEarly, WindowTimesOut
  <2>2. Line' = Line
    BY <1>0, <2>1, DrainLine DEF WorkerControl
  <2>3. worker' \in {"flush", "test"}
    BY <2>1 DEF Drain
  <2> QED
    BY <2>1, <2>2, <2>3, PlacesAre
<1>3. CASE SeeStopping \/ RecordFlush \/ Predict
  <2>1. Line' = Line
    BY <1>3, SameLine DEF SeeStopping, RecordFlush, Predict, shared, flushing
  <2>2. Places[worker'] < Places[worker]
    BY <1>3, PlacesAre DEF SeeStopping, RecordFlush, Predict
  <2> QED
    BY <2>1, <2>2
<1>4. CASE RejectNext
  <2>1. Line # <<>> /\ Line' = Tail(Line)
    BY <1>0, <1>4, RejectLine DEF RejectNext, WorkerControl
  <2> QED
    BY <1>4, <2>1 DEF RejectNext
<1>5. CASE Exit
  <2>1. Line' = Line
    BY <1>0, <1>5, ClearLine DEF Exit, flushing
  <2> QED
    BY <1>5, <2>1, PlacesAre DEF Exit
<1>6. CASE DeliverError \/ DeliverOutput
  <2>1. Line # <<>> /\ Line' = Tail(Line)
    BY <1>0, <1>6, DeliverLine
  <2> QED
    BY <1>6, <2>1 DEF DeliverError, DeliverOutput
<1>7. CASE FlushReturns
  <2>1. Line' = Line
    BY <1>0, <1>7, ClearLine DEF FlushReturns, shared
  <2> QED
    BY <1>7, <2>1, PlacesAre DEF FlushReturns
<1> QED
  BY <1>1, <1>2, <1>3, <1>4, <1>5, <1>6, <1>7 DEF WorkerStops, Flush

\* Once it has begun, the shutdown only ever comes nearer to its end, whatever the
\* model, the batch window and the callers do.
THEOREM ShutdownMovesOnAlways == Spec => ShutdownMovesOn
<1>1. ASSUME IInv, IInv', [Next]_vars, stopping
      PROVE  \/ UNCHANGED <<worker, batch, delivered, queue, rejected>>
             \/ Places[worker'] < Places[worker] /\ Line' = Line
             \/ worker' = worker /\ Line # <<>> /\ Line' = Tail(Line)
  <2>1. CASE WorkerWaits \/ WorkerDrains \/ WorkerStops \/ Flush
    BY <1>1, <2>1, WorkerAdvances DEF IInv, TypeOK
  <2>2. ASSUME worker' = Roused, UNCHANGED <<batch, delivered, queue, rejected>>
        PROVE  \/ UNCHANGED <<worker, batch, delivered, queue, rejected>>
               \/ Places[worker'] < Places[worker] /\ Line' = Line
    BY <2>2, RousedAdvances, SameLine
  <2>3. ASSUME NEW r \in Requests, Submit(r)
        PROVE  FALSE
    BY <1>1, <2>3 DEF Submit, IInv, OwnerControl
  <2>4. ASSUME NEW r \in Requests, NotifyOne(r)
        PROVE  worker' = Roused /\ UNCHANGED <<batch, delivered, queue, rejected>>
    BY <2>4 DEF NotifyOne, shared, flushing
  <2>5. CASE NotifyAll \/ SpuriousWake
    BY <2>2, <2>5 DEF NotifyAll, SpuriousWake, shared, flushing
  <2>6. CASE BeginShutdown \/ Join \/ Destroyed \/ UNCHANGED vars
    BY <2>6 DEF BeginShutdown, Join, Destroyed, vars, shared, flushing
  <2> QED
    BY <1>1, <2>1, <2>2, <2>3, <2>4, <2>5, <2>6 DEF Next
<1> QED
  BY <1>1, InductiveInvariant, PTL DEF Spec, ShutdownMovesOn
===============================================================================
