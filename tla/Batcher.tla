-------------------------------- MODULE Batcher --------------------------------
(***************************************************************************)
(* One Batcher (src/batcher.cpp, include/omle_server/batcher.h): a queue     *)
(* under a mutex, a condition variable, a worker thread that collects        *)
(* requests into batches and runs the model on them, the threads that call   *)
(* submit(), and the thread that destroys the Batcher.                       *)
(*                                                                         *)
(* A critical section under mu_ is one step, except the loop that fails the  *)
(* queue at shutdown, whose promises other threads see one by one. notify_*  *)
(* is a step of its own, after the unlock, and wakes the worker only when it *)
(* is blocked; the worker may also wake for no reason. Time is not modelled: *)
(* the batch window may end at any moment while the worker is in it.         *)
(***************************************************************************)
EXTENDS Integers, Sequences, FiniteSets

CONSTANTS Requests,    \* the calls of submit(), each made at most once
          MaxBatch,    \* max_batch_size_
          Inputs,      \* the input maps a client may send: name -> shape, where
                       \* a shape is a record [dtype, n_rows, width]
          Outputs,     \* the names of the model's outputs
          Filters,     \* the output filters a client may send; {} asks for all
          NoRequest,   \* request[r] before submit(r)
          NoOutput,    \* output when predict has returned no outputs
          Garbage

ASSUME MaxBatchAssumption == MaxBatch \in Nat \ {0}

T == INSTANCE BatchTensors

VARIABLES queue,       \* queue_: requests in arrival order
          stopping,    \* stopping_
          worker,      \* where worker_loop is
          batch,       \* worker_loop's local batch
          delivered,   \* requests of batch whose promise is set
          rejected,    \* requests of queue the shutdown loop has failed
          output,      \* flush's local result: the model's outputs
          request,     \* per request: its inputs, output_filter and n_rows
          promise,     \* per request: the state of its promise
          answer,      \* per request: the outputs its future holds
          waits,       \* per request: queue waits recorded in the metrics
          caller,      \* where the call submit(r) is
          owner        \* where the thread is that destroys the Batcher

vars == <<queue, stopping, worker, batch, delivered, rejected, output, request,
          promise, answer, waits, caller, owner>>

shared == <<queue, stopping>>
flushing == <<batch, delivered, output>>
futures == <<promise, answer>>

-------------------------------------------------------------------------------
(* Requests and their tensors *)

\* n_rows is read off whichever input an unordered_map lists first.
RowCounts(in) ==
  IF DOMAIN in = {} THEN {1} ELSE { in[name].n_rows : name \in DOMAIN in }

PendingRequests ==
  UNION { [inputs : {in}, output_filter : Filters, n_rows : RowCounts(in)] :
            in \in Inputs }

\* The tensor r sends under a name: its cells are told apart by r and position.
TensorOf(r, name) ==
  LET shape == request[r].inputs[name]
  IN [dtype  |-> shape.dtype, n_rows |-> shape.n_rows, width |-> shape.width,
      data   |-> [i \in 1..(shape.n_rows * shape.width) |-> <<r, i>>]]

\* The stacked input map: the names of the first request, each with the tensors
\* of those requests that have the name.
Stacked(b) ==
  [name \in DOMAIN request[b[1]].inputs |->
     T!concat_rows(T!FlattenSeq(
       [i \in DOMAIN b |-> IF name \in DOMAIN request[b[i]].inputs
                           THEN <<TensorOf(b[i], name)>> ELSE <<>>]))]

\* Mutant of UnionFilter: forgets that an empty filter asks for everything.
UnionOfNamedOutputs(b) == UNION { request[b[i]].output_filter : i \in DOMAIN b }

\* The union of the filters; a request that asks for all makes it empty, "all".
UnionFilter(b) ==
  LET filters == { request[b[i]].output_filter : i \in DOMAIN b }
  IN IF {} \in filters THEN {} ELSE UNION filters

RowCountsOf(b) == [i \in DOMAIN b |-> request[b[i]].n_rows]

\* One request's outputs, cut out of every output of the batch.
SliceFor(b, i) ==
  [oname \in DOMAIN output |-> T!split_rows(output[oname], RowCountsOf(b))[i]]

-------------------------------------------------------------------------------
(* The model (omle-runtime, not part of the repository). A call that names   *)
(* known outputs and has an input may succeed: it then yields one tensor per *)
(* wanted output, with as many rows as some input has, and row k of it is a  *)
(* function of row k of the inputs. Any call may fail.                       *)

ModelOutput(stacked, rows) ==
  [dtype |-> "raw", n_rows |-> rows, width |-> 1,
   data  |-> [k \in 1..rows |->
                [name \in DOMAIN stacked |-> T!RowOf(stacked[name], k)]]]

ModelOutputs(stacked, filter) ==
  LET wanted == IF filter = {} THEN Outputs ELSE filter
  IN IF wanted \subseteq Outputs
     THEN { [oname \in wanted |-> ModelOutput(stacked, stacked[name].n_rows)] :
              name \in DOMAIN stacked }
     ELSE {}

-------------------------------------------------------------------------------
(* Promises (std::promise): a second set_value throws, which the worker does *)
(* not catch.                                                                *)

Settled(r, how) == IF promise[r] = "pending" THEN how ELSE "set twice"

-------------------------------------------------------------------------------
(* The condition variable: the worker is its only waiter.                    *)

Roused ==
  IF worker = "asleep" THEN "test"
  ELSE IF worker = "window" THEN "retest"
  ELSE worker

SpuriousWake ==
  /\ worker \in {"asleep", "window"}
  /\ worker' = Roused
  /\ UNCHANGED <<shared, flushing, rejected, request, futures, waits, caller, owner>>

-------------------------------------------------------------------------------
Init ==
  /\ queue = <<>> /\ stopping = FALSE
  /\ worker = "test"
  /\ batch = <<>> /\ delivered = 0 /\ output = NoOutput
  /\ rejected = 0
  /\ request = [r \in Requests |-> NoRequest]
  /\ promise = [r \in Requests |-> "none"]
  /\ answer = [r \in Requests |-> NoOutput]
  /\ waits = [r \in Requests |-> 0]
  /\ caller = [r \in Requests |-> "idle"]
  /\ owner = "live"

-------------------------------------------------------------------------------
(* The callers of submit(). The owner lets nobody call submit() once it has  *)
(* begun to destroy the Batcher: the handlers hold the registry that owns it *)
(* for as long as they run.                                                  *)

\* Mutant of Submit: returns without cv_.notify_one().
SubmitWithoutNotify(r) ==
  /\ owner = "live" /\ caller[r] = "idle"
  /\ request' \in { [request EXCEPT ![r] = req] : req \in PendingRequests }
  /\ queue' = Append(queue, r)
  /\ promise' = [promise EXCEPT ![r] = "pending"]
  /\ caller' = [caller EXCEPT ![r] = "returned"]
  /\ UNCHANGED <<stopping, worker, flushing, rejected, answer, waits, owner>>

Submit(r) ==
  /\ owner = "live" /\ caller[r] = "idle"
  /\ request' \in { [request EXCEPT ![r] = req] : req \in PendingRequests }
  /\ queue' = Append(queue, r)
  /\ promise' = [promise EXCEPT ![r] = "pending"]
  /\ caller' = [caller EXCEPT ![r] = "notifying"]
  /\ UNCHANGED <<stopping, worker, flushing, rejected, answer, waits, owner>>

NotifyOne(r) ==
  /\ caller[r] = "notifying"
  /\ caller' = [caller EXCEPT ![r] = "returned"]
  /\ worker' = Roused
  /\ UNCHANGED <<shared, flushing, rejected, request, futures, waits, owner>>

-------------------------------------------------------------------------------
(* ~Batcher *)

BeginShutdown ==
  /\ owner = "live"
  /\ \A r \in Requests : caller[r] # "notifying"
  /\ stopping' = TRUE
  /\ owner' = "notifying"
  /\ UNCHANGED <<queue, worker, flushing, rejected, request, futures, waits, caller>>

NotifyAll ==
  /\ owner = "notifying"
  /\ owner' = "joining"
  /\ worker' = Roused
  /\ UNCHANGED <<shared, flushing, rejected, request, futures, waits, caller>>

Join ==
  /\ owner = "joining" /\ worker = "exited"
  /\ owner' = "gone"
  /\ UNCHANGED <<shared, worker, flushing, rejected, request, futures, waits, caller>>

-------------------------------------------------------------------------------
(* worker_loop *)

WorkArrived == queue # <<>> \/ stopping

\* Mutants of WindowOver: the window waits for one request too many; the window
\* does not look at stopping_.
WindowOverLate == Len(queue) > MaxBatch \/ stopping
WindowOverDeaf == Len(queue) >= MaxBatch

WindowOver  == Len(queue) >= MaxBatch \/ stopping

WaitForWork ==
  /\ worker = "test" /\ ~WorkArrived
  /\ worker' = "asleep"
  /\ UNCHANGED <<shared, flushing, rejected, request, futures, waits, caller, owner>>

OpenWindow ==
  /\ worker = "test" /\ WorkArrived /\ ~stopping /\ ~WindowOver
  /\ worker' = "window"
  /\ UNCHANGED <<shared, flushing, rejected, request, futures, waits, caller, owner>>

ReenterWindow ==
  /\ worker = "retest" /\ ~WindowOver
  /\ worker' = "window"
  /\ UNCHANGED <<shared, flushing, rejected, request, futures, waits, caller, owner>>

\* Mutants of Drain: takes the whole queue; copies the requests and leaves them
\* queued; takes the newest requests first.
DrainUnbounded ==
  /\ batch' = queue /\ queue' = <<>>
  /\ worker' = "flush"
  /\ UNCHANGED <<stopping, delivered, output, rejected, request, futures,
                 waits, caller, owner>>

DrainByCopy ==
  /\ batch' = SubSeq(queue, 1, IF Len(queue) < MaxBatch THEN Len(queue) ELSE MaxBatch)
  /\ worker' = "flush"
  /\ UNCHANGED <<shared, delivered, output, rejected, request, futures, waits,
                 caller, owner>>

DrainNewest ==
  LET n == IF Len(queue) < MaxBatch THEN 0 ELSE Len(queue) - MaxBatch
  IN /\ batch' = SubSeq(queue, n + 1, Len(queue))
     /\ queue' = SubSeq(queue, 1, n)
     /\ worker' = "flush"
     /\ UNCHANGED <<stopping, delivered, output, rejected, request, futures,
                    waits, caller, owner>>

\* Move up to MaxBatch requests from the front of the queue into the batch;
\* flush it unless it is empty.
Drain ==
  LET n == IF Len(queue) < MaxBatch THEN Len(queue) ELSE MaxBatch
  IN /\ batch' = SubSeq(queue, 1, n)
     /\ queue' = SubSeq(queue, n + 1, Len(queue))
     /\ worker' = IF n > 0 THEN "flush" ELSE "test"
     /\ UNCHANGED <<stopping, delivered, output, rejected, request, futures,
                    waits, caller, owner>>

\* The predicate of wait_for holds, at once or when the worker wakes.
WindowClosesEarly ==
  /\ \/ worker = "test" /\ ~stopping
     \/ worker = "retest"
  /\ WindowOver
  /\ Drain

WindowTimesOut ==
  /\ worker \in {"window", "retest"}
  /\ Drain

\* Mutant of SeeStopping: leaves the loop without failing what is queued.
SeeStoppingAndLeave ==
  /\ worker = "test" /\ stopping
  /\ worker' = "exited"
  /\ UNCHANGED <<shared, flushing, rejected, request, futures, waits, caller, owner>>

SeeStopping ==
  /\ worker = "test" /\ stopping
  /\ worker' = "rejecting"
  /\ UNCHANGED <<shared, flushing, rejected, request, futures, waits, caller, owner>>

RejectNext ==
  /\ worker = "rejecting" /\ rejected < Len(queue)
  /\ promise' = [promise EXCEPT ![queue[rejected + 1]] =
                   Settled(queue[rejected + 1], "shutdown")]
  /\ rejected' = rejected + 1
  /\ UNCHANGED <<shared, worker, flushing, request, answer, waits, caller, owner>>

\* Mutant of Exit: the loop's cursor survives queue_.clear().
ExitKeepingCursor ==
  /\ worker = "rejecting" /\ rejected = Len(queue)
  /\ queue' = <<>>
  /\ worker' = "exited"
  /\ UNCHANGED <<stopping, flushing, rejected, request, futures, waits, caller, owner>>

Exit ==
  /\ worker = "rejecting" /\ rejected = Len(queue)
  /\ queue' = <<>> /\ rejected' = 0
  /\ worker' = "exited"
  /\ UNCHANGED <<stopping, flushing, request, futures, waits, caller, owner>>

-------------------------------------------------------------------------------
(* flush *)

\* Mutant of RecordFlush: one observation per batch.
RecordOldest ==
  /\ worker = "flush"
  /\ waits' = [waits EXCEPT ![batch[1]] = @ + 1]
  /\ worker' = "predict"
  /\ UNCHANGED <<shared, flushing, rejected, request, futures, caller, owner>>

RecordFlush ==
  /\ worker = "flush"
  /\ waits' = [r \in Requests |->
                 waits[r] + Cardinality({i \in DOMAIN batch : batch[i] = r})]
  /\ worker' = "predict"
  /\ UNCHANGED <<shared, flushing, rejected, request, futures, caller, owner>>

Predict ==
  /\ worker = "predict"
  /\ \/ output' \in ModelOutputs(Stacked(batch), UnionFilter(batch))
     \/ output' = NoOutput
  /\ worker' = "deliver"
  /\ UNCHANGED <<shared, batch, delivered, rejected, request, futures, waits, caller, owner>>

DeliverError ==
  /\ worker = "deliver" /\ output = NoOutput /\ delivered < Len(batch)
  /\ LET r == batch[delivered + 1]
     IN promise' = [promise EXCEPT ![r] = Settled(r, "error")]
  /\ delivered' = delivered + 1
  /\ UNCHANGED <<shared, worker, batch, output, rejected, request, answer, waits,
                 caller, owner>>

DeliverOutput ==
  /\ worker = "deliver" /\ output # NoOutput /\ delivered < Len(batch)
  /\ LET r == batch[delivered + 1]
     IN /\ promise' = [promise EXCEPT ![r] = Settled(r, "ok")]
        /\ answer' = [answer EXCEPT ![r] = SliceFor(batch, delivered + 1)]
  /\ delivered' = delivered + 1
  /\ UNCHANGED <<shared, worker, batch, output, rejected, request, waits, caller, owner>>

\* Mutant of FlushReturns: returns from the error path after the first promise.
FlushReturnsOnError ==
  /\ worker = "deliver"
  /\ delivered = Len(batch) \/ (output = NoOutput /\ delivered = 1)
  /\ batch' = <<>> /\ delivered' = 0 /\ output' = NoOutput
  /\ worker' = "test"
  /\ UNCHANGED <<shared, rejected, request, futures, waits, caller, owner>>

FlushReturns ==
  /\ worker = "deliver" /\ delivered = Len(batch)
  /\ batch' = <<>> /\ delivered' = 0 /\ output' = NoOutput
  /\ worker' = "test"
  /\ UNCHANGED <<shared, rejected, request, futures, waits, caller, owner>>

-------------------------------------------------------------------------------
WorkerWaits  == WaitForWork \/ OpenWindow \/ ReenterWindow
WorkerDrains == WindowClosesEarly \/ WindowTimesOut
WorkerStops  == SeeStopping \/ RejectNext \/ Exit
Flush == RecordFlush \/ Predict \/ DeliverError \/ DeliverOutput \/ FlushReturns

\* The Batcher is destroyed.
Destroyed == owner = "gone" /\ UNCHANGED vars

Next ==
  \/ \E r \in Requests : Submit(r) \/ NotifyOne(r)
  \/ BeginShutdown \/ NotifyAll \/ Join
  \/ WorkerWaits \/ WorkerDrains \/ WorkerStops \/ Flush
  \/ SpuriousWake
  \/ Destroyed

Spec == Init /\ [][Next]_vars

(* Threads keep running and predict() returns. Nothing is assumed of the     *)
(* batch window: as far as this goes, it may be endless.                     *)
Fairness ==
  /\ \A r \in Requests : WF_vars(NotifyOne(r))
  /\ WF_vars(NotifyAll)
  /\ WF_vars(Join)
  /\ WF_vars(WorkerWaits \/ WindowClosesEarly \/ WorkerStops \/ Flush)

WindowEnds == WF_vars(WindowTimesOut)

FairSpec == Spec /\ Fairness

-------------------------------------------------------------------------------
(* Type invariant *)

QueueTypes ==
  /\ queue \in Seq(Requests) /\ rejected \in 0..Len(queue)
  /\ batch \in Seq(Requests) /\ delivered \in 0..Len(batch)

ThreadTypes ==
  /\ stopping \in BOOLEAN
  /\ worker \in {"test", "asleep", "window", "retest", "flush", "predict",
                 "deliver", "rejecting", "exited"}
  /\ caller \in [Requests -> {"idle", "notifying", "returned"}]
  /\ owner \in {"live", "notifying", "joining", "gone"}

RequestTypes ==
  /\ request \in [Requests -> PendingRequests \union {NoRequest}]
  /\ promise \in [Requests -> {"none", "pending", "ok", "error", "shutdown",
                               "set twice"}]
  /\ waits \in [Requests -> Nat]
  /\ DOMAIN answer = Requests

\* Every variable keeps its type, and the cursors of flush and of the shutdown
\* loop stay inside the batch and the queue.
TypeOK == QueueTypes /\ ThreadTypes /\ RequestTypes

-------------------------------------------------------------------------------
(* Safety *)

\* A notification is on its way whenever the worker is blocked on a condition
\* that already holds: in wait() with work queued or a shutdown requested, in
\* wait_for() with a full batch queued or a shutdown requested. (Both notify
\* after the unlock, so the worker may block between the change and the call.)
NotificationDue == owner = "notifying" \/ \E r \in Requests : caller[r] = "notifying"

NoLostWakeup ==
  /\ worker = "asleep" /\ WorkArrived => NotificationDue
  /\ worker = "window" /\ WindowOver => NotificationDue

\* No promise is set twice: set_value would throw in the worker thread, which
\* catches nothing. The worker, the error path and the shutdown loop must never
\* meet the same request.
PromiseSetOnce == \A r \in Requests : promise[r] # "set twice"

\* When the destructor has returned, no caller is left with a future whose
\* promise died unset (future::get would throw broken_promise).
NoAbandonedFuture ==
  owner = "gone" => \A r \in Requests : promise[r] # "pending"

\* flush() gets a batch it can read batch[0] of, never more than max_batch_size_
\* requests, and no request twice.
FlushBounds ==
  worker \in {"flush", "predict", "deliver"} =>
    /\ Len(batch) \in 1..MaxBatch
    /\ \A i, j \in DOMAIN batch : batch[i] = batch[j] => i = j

\* "One observation per request, not per batch": a request the model answered
\* has had its queue wait recorded exactly once, one that was turned away never.
QueueWaitsOnce ==
  \A r \in Requests :
    /\ promise[r] \in {"ok", "error"} => waits[r] = 1
    /\ promise[r] \in {"none", "shutdown"} => waits[r] = 0

-------------------------------------------------------------------------------
(* The inductive invariant behind the above: what each place in worker_loop   *)
(* implies, who may still notify, and which promises are unset.              *)

WorkerControl ==
  /\ worker \notin {"flush", "predict", "deliver"} => batch = <<>>
  /\ worker \in {"flush", "predict", "deliver"} => Len(batch) \in 1..MaxBatch
  /\ worker # "deliver" => delivered = 0
  /\ worker # "rejecting" => rejected = 0
  /\ worker \in {"window", "retest"} => queue # <<>>
  /\ worker = "exited" => queue = <<>>

OwnerControl ==
  /\ stopping <=> owner # "live"
  /\ worker \in {"rejecting", "exited"} => stopping
  /\ owner = "gone" => worker = "exited"
  /\ stopping => \A r \in Requests : caller[r] # "notifying"

EachOnce ==
  /\ \A i, j \in DOMAIN queue : queue[i] = queue[j] => i = j
  /\ \A i, j \in DOMAIN batch : batch[i] = batch[j] => i = j
  /\ \A i \in DOMAIN batch, j \in DOMAIN queue : batch[i] # queue[j]

Promises ==
  /\ \A r \in Requests : promise[r] = "none" <=> caller[r] = "idle"
  /\ \A i \in DOMAIN queue :
       promise[queue[i]] = IF i <= rejected THEN "shutdown" ELSE "pending"
  /\ \A i \in DOMAIN batch :
       IF i <= delivered THEN promise[batch[i]] \in {"ok", "error"}
       ELSE promise[batch[i]] = "pending"
  /\ \A r \in Requests : promise[r] = "pending" =>
       \/ \E i \in DOMAIN queue : queue[i] = r
       \/ \E i \in DOMAIN batch : batch[i] = r

Waits ==
  /\ \A i \in DOMAIN queue : waits[queue[i]] = 0
  /\ \A i \in DOMAIN batch : waits[batch[i]] = IF worker = "flush" THEN 0 ELSE 1

IInv ==
  /\ TypeOK
  /\ WorkerControl /\ OwnerControl /\ NoLostWakeup
  /\ EachOnce /\ Promises /\ PromiseSetOnce
  /\ Waits /\ QueueWaitsOnce

-------------------------------------------------------------------------------
(* Rows *)

\* The outputs r would get from a call of the model made for it alone.
OwnOutput(r) ==
  ModelOutput([name \in DOMAIN request[r].inputs |-> TensorOf(r, name)],
              request[r].n_rows)

Consistent(r) ==
  \A m, n \in DOMAIN request[r].inputs :
    request[r].inputs[m].n_rows = request[r].inputs[n].n_rows

SameColumns(r, s) ==
  LET in == request[r].inputs
      other == request[s].inputs
  IN /\ DOMAIN in = DOMAIN other
     /\ \A name \in DOMAIN in : /\ in[name].dtype = other[name].dtype
                               /\ in[name].width = other[name].width

Stackable(b) ==
  \A i, j \in DOMAIN b : Consistent(b[i]) /\ SameColumns(b[i], b[j])

\* Requests with any numbers of rows, stacked together, each get the rows the
\* model would have given them alone, if the batch could be stacked at all: one
\* set of input names, one dtype and width per name, one row count per request.
OwnRows ==
  output # NoOutput /\ Stackable(batch) =>
    \A i \in 1..delivered :
      \A oname \in DOMAIN output : answer[batch[i]][oname] = OwnOutput(batch[i])

\* A request gets every output its own filter names, all of them when the filter
\* is empty, whatever filters the rest of its batch came with.
AskedOutputs ==
  \A r \in Requests : promise[r] = "ok" =>
    LET asked == request[r].output_filter
    IN (IF asked = {} THEN Outputs ELSE asked) \subseteq DOMAIN answer[r]

\* batcher.h: "n_rows is recorded so outputs can be split back correctly",
\* stated of every request, whatever it was stacked with.
SplitBackCorrectly ==
  \A r \in Requests : promise[r] = "ok" =>
    \A oname \in DOMAIN answer[r] : answer[r][oname] = OwnOutput(r)

-------------------------------------------------------------------------------
(* Refinement: the batch and the queue are one line of requests.             *)

Suffix(s, n) == SubSeq(s, n + 1, Len(s))

Line == Suffix(batch, delivered) \o Suffix(queue, rejected)

Phase == IF owner = "gone" THEN "closed"
         ELSE IF worker \in {"rejecting", "exited"} THEN "rejecting"
         ELSE IF stopping THEN "closing"
         ELSE "open"

Fifo == INSTANCE FifoAnswers WITH line <- Line, tag <- promise, phase <- Phase

\* Batches, windows, errors and the shutdown loop never lose, repeat or reorder
\* an answer, and nothing is computed once a request has been turned away.
ImplementsFifo == Fifo!Spec

Ahead(q, r) == \E i, j \in DOMAIN Line : i < j /\ Line[i] = q /\ Line[j] = r

\* The order of arrival is the order of answers: who is submitted comes after all
\* who wait, and from then on they stay ahead of him until they are answered, by the
\* model, by its error or by the shutdown.
NoOvertaking ==
  [][\A q, r \in Requests :
       /\ promise[q] = "pending" /\ promise[r] = "none" /\ promise'[r] = "pending"
            => Ahead(q, r)'
       /\ Ahead(q, r)
            => promise'[q] # "pending" \/ (promise'[r] = "pending" /\ Ahead(q, r)')]_vars

-------------------------------------------------------------------------------
(* Progress: what the destructor still waits for.                            *)

\* The way of worker_loop to its end once it is to stop.
Places == [exited |-> 0, rejecting |-> 1, test |-> 2, asleep |-> 3, deliver |-> 3,
           predict |-> 4, flush |-> 5, retest |-> 6, window |-> 7]

\* From the moment the destructor sets stopping_ no step of any thread gives the
\* worker more to do, a spurious wake-up or a caller's least of all: either it takes
\* the worker on, or it serves the head of the line. So the destructor waits for
\* one call of the model at most, and one promise for each request in line.
ShutdownMovesOn ==
  [][stopping => \/ UNCHANGED <<worker, batch, delivered, queue, rejected>>
                 \/ Places[worker'] < Places[worker] /\ Line' = Line
                 \/ worker' = worker /\ Line # <<>> /\ Line' = Tail(Line)]_vars

-------------------------------------------------------------------------------
(* Liveness *)

\* A full batch is taken without the help of the batch window ("flushes early
\* when max_batch_size items are queued").
FullBatchIsTaken ==
  Len(queue) >= MaxBatch ~> worker \in {"flush", "rejecting"}

\* The destructor returns, and does not wait for the batch window to end.
DestructorReturns == Fifo!Closes

\* "Each submit() returns a future that resolves when the batch completes": if the
\* batch window ends, every future resolves, before or during the shutdown.
FuturesResolve == WindowEnds => Fifo!EveryoneAnswered
===============================================================================
