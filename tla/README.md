# A TLA+ verification of omle-server

omle-server serves omle models over REST (Drogon) and gRPC, with the Open Inference
Protocol. A request is decoded, its model is looked up, it may be collected with others
into a batch, the model runs, the outputs are cut apart again and sent back, and
everything is counted for Prometheus.

The modules here model what is concurrent, order-dependent or easily confused in that: the
batching worker and its callers, the handlers with their timeouts, the process around them
from start-up to the return of `main`, the metric store, the settings, what start-up makes
of a directory of models, and what becomes of a request's values on the way to a tensor and
back. TLC checks them on small instances; TLAPS proves every safety property that TLC finds to
hold for every value of the constants, and that the batcher implements a line of requests
served from its head, which is what its callers rely on.

Paths are those of the repository: `src/batcher.cpp`, `include/omle_server/batcher.h`, ....

## 1. The system

| Component | State | Operations | Acts on |
|---|---|---|---|
| Batcher (`src/batcher.cpp`) | `queue_`, `stopping_` under `mu_`; `cv_`; the worker thread; a promise per request | `submit`, `worker_loop`, `flush`, `concat_rows`, `split_rows`, `~Batcher` | the model, Metrics |
| BatcherRegistry (`src/batcher.cpp`) | `batchers_`: key `name@version` to a Batcher, fixed after construction | constructor, `get` | ModelRegistry, Batcher |
| ModelRegistry (`src/model_registry.cpp`) | `models_`: name, version to a model, fixed after loading | `load`, `load_file`, `empty`, `get`, `resolve_version`, lists | file system, omle-runtime |
| REST handlers (`src/rest/handlers.cpp`) | none of their own; a future and a detached thread per inference | health, metadata, `handle_infer`, `async_infer`, metrics page | all of the above |
| gRPC service (`src/grpc/inference_service.cpp`) | none of its own; blocks its thread on a future | health, metadata, `ModelInfer`, `ModelStreamInfer` | all of the above |
| Metrics (`src/metrics.cpp`) | `per_model_`: series to atomic counters, under a shared mutex; a gauge | `record_*`, `prometheus_text` | - |
| OipCodec (`src/oip_codec.cpp`) | none | JSON and protobuf to tensors and back | - |
| Configuration and `main` (`src/main.cpp`) | `ServerConfig` | flags, file, environment; `init-config`; loading; start and stop of the servers | everything |

**How they interact.** `main` fills the ModelRegistry, builds a Batcher per model version
for which batching is on, and starts the two servers, which share both registries. A
handler looks the model up twice, once in each registry. With a Batcher it calls `submit`
and gets the future of a promise the worker keeps; without one it gets the future of
`std::async`. gRPC waits for it in the thread of the call, REST in a detached thread that
calls Drogon's callback. Both may stop waiting after `inference_timeout_ms`; nothing
cancels the model. The worker and the handlers write to Metrics, which a scrape reads.

**What is hard.** Notifications that come after the unlock; two waits on one condition
variable; a shutdown in the middle of a batch; promises shared between three code paths; the
model's answer racing the timeout; futures whose destructor waits; counters that are read one
by one while others write; two servers that stop differently; two lookups that must resolve
"the latest version" alike; an order of directory entries and hash maps that nobody controls;
four sources of settings; and three forms in which the values of one tensor may come.

**What makes each part correct.**

* Batcher: no lost wake-up, every promise set exactly once, batches in order of arrival and
  never too large, everybody answered when it is destroyed, each caller its own rows.
* Handlers: each client answered once, with what became of its request and not before it is
  counted, in time when a timeout is configured; a stream answered in order.
* Metrics: no count lost or doubled, every line of a page a value of its time, no series on
  half a page, buckets that mean what their label says.
* Registries: served is what can be loaded from the two documented layouts, and the Batcher a
  request finds runs the model its lookup found.
* OipCodec: values that fit are decoded as they were meant, whatever their form; a response
  names the model's outputs, and reads back as them as far as the server's own decoder can read
  what its encoder writes.
* Configuration and `main`: later source wins; what is served is what was chosen; nothing is
  overwritten unasked; the shutdown forgets no call it can still answer, and ends.

PROJECT.json lists the places where each could go wrong (`hazards`) with the properties that
would show it.

## 2. The modules

| Module | Models | Extends or uses |
|---|---|---|
| `FifoAnswers` | abstract: a line of requests answered from its head, and closing | - |
| `BatchTensors` | `concat_rows`, `split_rows` | - |
| `Batcher` | one Batcher, its worker, its callers, its destructor | `BatchTensors` |
| `DataLemmas` | lemmas on numbers, partial sums, folds and finite sets, for the proofs | - |
| `BatcherProofs` | proofs; the mapping of a Batcher to `FifoAnswers` | `Batcher`, `DataLemmas` |
| `InferHandlers` | inference over REST and gRPC, with the metrics it records | `FifoAnswers` in place of the Batcher |
| `InferHandlersProofs` | proofs | `InferHandlers` |
| `ServerLife` | the handlers between start and end of the process | `InferHandlers` |
| `ServerLifeProofs` | proofs | `ServerLife`, `InferHandlersProofs` |
| `Metrics` | the metric store | - |
| `MetricsProofs` | proofs | `Metrics`, `DataLemmas` |
| `Registries` | ModelRegistry and BatcherRegistry, loading and lookup | - |
| `RegistriesProofs` | proofs | `Registries` |
| `Configuration` | flags, file, environment: operators on what `main` reads | - |
| `ServerMain` | launches of the process: settings, loading, exits, `init-config` | `Registries`, `Configuration` |
| `ServerMainProofs` | proofs | `ServerMain`, `RegistriesProofs` |
| `OipCodec` | decoding of requests, encoding of responses | - |
| `OipCodecProofs` | proofs | `OipCodec` |
| `MC*` | instances for TLC, symmetry, the values of structured constants | |

Three compositions stand for the whole. The handlers are composed with the Batcher through its
specification: `Batcher` is shown to implement `FifoAnswers`, and what `InferHandlers` does with its
`line` is shown to be a step of `FifoAnswers` too (`Own`, restricted to the futures a Batcher has
handed out), so the handlers assume no more of it. `ServerLife` puts the handlers' actions beside
those of `main`, which decide what calls there may be. `ServerMain` feeds what `Configuration` makes
of a launch into the loading that `Registries` describes.

### Batcher

| State of the model | State of the code |
|---|---|
| `queue`, `stopping` | `queue_`, `stopping_` |
| `worker` | the place in `worker_loop`: `test` (about to evaluate the condition of `cv_.wait`), `asleep` (blocked in it), `window` (blocked in `cv_.wait_for`), `retest` (woken there), `flush`, `predict`, `deliver` (in `flush`), `rejecting` (failing the queue), `exited` |
| `batch`, `delivered`, `output` | locals of the loop and of `flush` |
| `request`, `promise`, `answer` | a `PendingRequest` and its promise; what the future holds |
| `rejected` | the position of the shutdown loop |
| `caller`, `owner` | the threads that call `submit` and `~Batcher` |
| `waits` | what `record_queue_wait` has been told, per request |

`mu_` is not a variable: what the code does in one critical section is one step, so the lock
is free between steps. The exceptions are where others can see the middle: the shutdown loop
sets promises one by one (`RejectNext`), and `flush`, which runs without the lock, is a step
per promise. `notify_one` and `notify_all` are steps of their own, after the unlock, and a
`SpuriousWake` may come at any time. `Drain` is the loop that moves up to `max_batch_size_`
requests. The end of the batch window (`WindowTimesOut`) may come at any moment: all orders
of requests and time-outs are covered, and durations are not.

`Stacked`, `UnionFilter` and `SliceFor` follow `flush` in detail, because a batch mixes
requests: the inputs stacked are those of the *first* request's names, and rows are cut out by
the counts of *all*. `predict` is omle-runtime's: it fails, or gives one tensor per output
whose row k is a function of row k of the inputs.

Submitting stops when the destructor starts: an owner may not destroy what others still call.

### InferHandlers

`stage` is the place of a request's handler: `waiting` for the future, `got` a result,
`observing` (counted, latency not yet observed), `late` and `late too` (timed out, before each
of the two counters), `replying`, `releasing` the future, `done`. `outcome` is what it is about
to answer, `reply` what its client was answered, `tally` which counters were incremented for
it; a counter of the server is the sum over requests. What distinguishes REST and gRPC is the
order of `Reply` and `Release` after a timeout: REST calls back and then destroys the future,
`ModelInfer` destroys it when it returns, before the status is sent. `Release` waits if the
future comes from `std::async`. `stream` and `reads` follow `ModelStreamInfer`: one request at
a time, the end at the first failure.

Decoding and lookup are abstracted to their result here: an unknown model, a malformed request, a
model with or without a Batcher.

### ServerLife

`main` is where `main()` is: `starting` (the gRPC server not yet built), `registering` the REST
routes, `running` in Drogon's `run()`, `quit` after a signal, `draining` in gRPC's `Shutdown`,
`returned`. `grpc` is `none` if the port was taken: the code goes on without a server and at the
end calls `Shutdown` through the null pointer, which is `crashed`. gRPC calls may come as soon
as the server listens, REST calls only in `run()`. When it returns the connections of REST are
gone; `cut` remembers whose. `Shutdown` takes no new calls and waits, without a deadline, for
the calls and streams under way (`Drained`); the return of `main` ends every other thread.

### Metrics

A recording is one call of a `record_*` function. `get_or_create` is two steps, `Find` under the
shared lock and `Make` under the exclusive one; each `fetch_add` is a step (`Add`), in the order of
the code. A scrape holds the lock shared from `BeginScrape` to `EndScrape` and reads one counter per
step: `order` is the order of the series in the map, `at` the family, series and counter it is at,
`Onward` the next. The code adds and reads with `memory_order_relaxed`; in the model all threads see
the additions in the order in which they are made. Buckets are cumulated as they are read. `before`
remembers the counters at the beginning of the scrape, for `PageIsCurrent` and `PageIsComplete`.

### Registries

Loading is sequential, but the file system orders the scan and a hash map the names. `source` says
what `main` was told to serve, and whether a directory is spelled with a slash at its end
(`directory/`), on which `Recognised` depends. `Visit` takes any file not yet visited,
`MakeBatchers` any name. Names and versions are sequences of character codes because the key
`name@version` and the order of strings matter. Lookups are operators: `Found`, `Resolved`, `Model`
for ModelRegistry, `HasBatcher`, `Batcher` for BatcherRegistry.

### Configuration and ServerMain

`main` is one thread that reads what does not change, so settings are operators: `Overrides` is
what the command line asks for, in its order, up to an exit; `ConfigPath` which file is read;
`from_file`, `WithEnvironment` and `WithFlags` the three layers, and `Configured` their
composition. `Reached` follows `from_file`'s one `try` around all keys: a value of the wrong
type ends the reading, and the keys before it stay. Words are records that say what they are
(an option, joined to a value or not); the texts that `std::stoi` takes are a constant.

`Launch` is the whole of `main` up to the loading, with its early exits: the parser's, those of
`init-config` (refused, written, failed before or in the middle of the writing), and the check of
`--model` against `--model-dir`. `SourceOf` hands the directory on as it is spelled: `Slashed` are
the texts, but for the root, that end in a slash, wherever such a text comes from. `Start` is a step of `Registries`.
`Stop` ends the process; the files stay for the next launch, those that `init-config` wrote among
them.

### OipCodec

One request is decoded input by input (`JsonInput`, `GrpcInput`), then the outputs are encoded
one by one (`EmitNext`). A value has a kind (`integer`, `double`, `string`, `bool`, `null`) and a
number; a buffer is a sequence of elements. `Stored` is what becomes of a JSON value: an
integer is read with 64 bits and cut to those of its datatype (`Cut`, 8 to 64 bits, as the casts
do), and what cannot be read is one of `Leftovers`, since the variable it should have filled is
not initialised. Dimensions are cut to `int` (`AsInt`). `InRange` says which numbers a datatype
has without saying how they are cut; `DecodedAsMeant` is about those. `TypedTensor` follows
`decode_grpc_request`'s three steps: contents are counted by datatype, the dynamic dimension is
inferred from the count, and only some datatypes are copied. `Order` is the order of the
outputs, the declared one or any order of the hash map. `Emit` says where each layout's values go.
`Printed` is what JSON shows of a value: `t.get` gives every value that is no string as a
floating-point number, and one that is not finite as null. `Found` reads a response with the
server's own decoder, as the next server in a row of them would, and is the set of what that may
make of it.

## 3. What TLC checks

| Run | Instance | What it shows |
|---|---|---|
| `batcher_threads` | 3 requests, batches of 2 | the safety and the liveness of the Batcher and its refinement of `FifoAnswers`, in every interleaving of callers, worker and destructor |
| `batcher_rows` | 3 requests of 1 or 2 rows, 1 or 2 inputs, 2 outputs, filters | each request gets its own rows, and every output it asked for |
| `batcher_mixed` | requests naming different inputs | finding 1 |
| `server_life` | 2 requests, 1 stream, a signal at any moment | the safety and the liveness of the handlers, and of the shutdown |
| `infer_blocked` | 2 requests, 1 stream | finding 2 |
| `metrics_store` | 2 recordings of any kind, 2 series, any number of scrapes | the safety of the metric store |
| `startup` | 38 launches, 5 sets of configuration files, 2 names, 2 versions | settings, exits, `init-config`, and registries that serve what the directory, as it is spelled, lets them see, and agree |
| `startup_env` | the container image's environment | finding 5 |
| `registries_at` | the names `a` and `a@b` | finding 3 |
| `registries_slash` | a directory spelled with a slash at its end | finding 4 |
| `codec` | every form of one input, some pairs, 3 layouts of outputs | decoding and encoding |
| `codec_malformed` | one JSON value of the wrong type | finding 6 |

**Why the bounds are enough to be interesting.** Three requests with batches of two give a full
batch with one left behind for the window, and two that race the destructor. One batch in flight
while another fills needs four, which the proofs cover, as they do every number. Two requests with
one stream give a call that competes with a stream's, and a stream with a predecessor. Two
recordings are what the race to create a series needs, and a scrape is as long as two series with
all families. In `startup` the names `a` and `ab` are prefixes of one another and so are the
versions `1` and `10`, and `1` is also the version of the flat layout, so two files can claim one
entry. Up to three model files are there for the launches that turn batching on or leave it to a
file, and one for the others, whose concern is the settings; launches follow one another without a
bound. The inputs of `codec` are ten JSON datatypes (one of them unknown), seven typed and two raw
ones, ten shapes with every place of a dynamic dimension and three with a dimension that no `int`
holds, and up to two or three values: in and out of the range of 8, 32 and 64 bits, of every kind of
JSON value. TLC's integers end at 2^31, so there `Half32` and `Half64`, half the numbers of 32 and
64 bits, are 2^20 and 2^28; the theorems are for any that are larger than 16 bits need, in this
order. Outputs are FP32, strings and sparse, and, of those that JSON does not bring back, an
infinite FP64, INT32, BOOL and FP16. Symmetry is used for recordings, series and the requests of
`batcher_rows`, which no definition distinguishes, and not where liveness is checked.

**Fairness.** `Batcher!Fairness` says that threads which can go on do: pending notifications,
the destructor, the worker. It includes that `predict` returns, but not that a batch window
ends, nor a spurious wake-up: `FullBatchIsTaken` and `DestructorReturns` must hold without
either, for it is the notifications that must bring them about. `FuturesResolve` adds
`WindowEnds`, since `wait_for` does return. `ServerLife!LifeFairness` says that the threads of
handlers go on, configured timeouts included, and that `main` does, where it is not in `run()`:
no signal need ever come. That the model returns and that clients end their streams is not
assumed: they are premises of the properties that need them (`ModelReturns` of `EveryCallEnds`,
both of `ShutdownEnds`), and `TimeoutBounds` and `TimeoutBoundsShutdown` do without.

Deadlock is checked except for Metrics, where all recordings may be done, and in the two runs on
`Registries` alone, where loading ends. The other models say
when they have finished (`Destroyed`, `Idle`, `Over`), and a process that is gone is launched
again by `ServerMain`.

**Mutants.** Next to some definitions stands a `Mutant of ...`: the same definition with a
plausible mistake. PROJECT.json pairs each property with one that violates it.

## 4. What TLAPS proves

Every invariant and every action property that a passing run checks is a theorem, for every
number of requests, streams, recordings, series, names, versions, words of a command line,
launches and values, and for every batch size:

* `BatcherProofs`: `IInv` is inductive (`InductiveInvariant`), and with it `TypeOK`, `NoLostWakeup`,
  `PromiseSetOnce`, `FlushBounds`, `NoAbandonedFuture`, `QueueWaitsOnce`. None of these is inductive
  by itself. That no promise is set twice needs to know where each pending promise is: `EachOnce`
  (no request is twice in queue and batch together) and `Promises` (a pending promise is in the
  queue behind the shutdown loop or in the batch behind the delivery). That no wake-up is lost needs
  `OwnerControl` (who still may notify). `AskedOutputsAlways` needs that filters name outputs, and
  that what the model computed for a batch has what any of its members asked for (`AskedInv`).
  `OwnRowsAlways` needs that inputs have shapes (`ShapedInputs`), and rests on what stacking and
  cutting do with any row counts: `TotalIsSum` (`Total` yields the partial sums), `FlattenElements`
  (where the i-th of several sequences starts in their concatenation), `StackedRows` (row k of the
  i-th request is row sums[i-1] + k of the stack), `SplitSlice`, and so `SliceIsOwn`: cutting undoes
  stacking. `RowsInv` ties the outputs to the batch they were computed for. `Refinement` is `Spec =>
  Fifo!Spec` under the mapping of the line to what is left of the batch followed by what is left of
  the queue. Each step of the Batcher is a step of the line or none; the lemmas on `Suffix` say what
  the mapping does when the queue is cut, delivered or failed. `ShutdownMovesOn` is what can be
  proved of `DestructorReturns`, `NoLostWakeup` with it: once `stopping_` is set, every step takes
  the worker to a later place on its way out, or serves the head of the line, or leaves it where it
  is, so the destructor waits for one call of the model at most. `NoOvertaking` is what the
  refinement means for two callers: who is submitted later stands behind (`Ahead`), stays there, and
  is answered later. It rests on `LineIsPending`: in the line are exactly those whose promise is
  unset, each once.
* `InferHandlersProofs`: `IInv` is inductive, and with it `TypeOK`, `CountedOnce`,
  `HonestReply`, `StreamAnswersInOrder` and the action property `AnsweredOnce`. For each stage
  of a handler `Futures` says what may be in the future and the outcome, `Booked` which
  counters are already incremented, `Told` whether the client has an answer; `InStream` and
  `OfStream` tie a stream to the request it is at. `PlaceNext` and `StreamedNext` are the
  inductive steps; `HandlerFrame` says that a handler touches its own request only.
  `HandlersShareTheLine`, `Spec => Own!Spec`, is the other half of the composition with the
  Batcher: seen through the futures a Batcher has handed out, every step of the handlers is a
  step of `FifoAnswers` or none, the answers of `std::async` included. It needs `InLine`: in the
  line is who has a pending future of the Batcher's, once. `HandlersMoveOn` gives each stage the
  number of places `Left`, which every step of a handler lessens: with the fairness assumed it
  is why a handler ends, and as a safety property it is what the provers can say of that.
* `ServerLifeProofs`: every step of the server is one of the handlers or leaves them alone
  (`LifeImplementsHandlers`), so what is proved of the handlers holds from start to end
  (`HandlersInLife`, `BatcherInLife`). With `Stations`, which says what calls there are by where
  `main` is, `NobodyForgotten` follows. `ShutdownDrains` is what can be proved of `ShutdownEnds`:
  while `main` is in `Shutdown()` every call that moves comes nearer to its end (`Left`), a call is
  new only if it comes through a stream that was open, and no stream opens. What is left to hold the
  shutdown up is the model and the clients of open streams, which are the premises of
  `ShutdownEnds`.
* `MetricsProofs`: `StoreInv`, `RecorderInv` and `Scraping` together are inductive. `RecorderInv`
  says that who adds has a series that exists; since nothing removes one, counters never go back
  (`CountersNeverGoBack`). `Scraping` says that the page has the lines before `at`, each from the
  counters of its time; with it `TypeOK`, `PageIsCurrent`, `PageIsComplete`. `CountInv` says what
  the counters amount to at any moment: each is the sum over the recordings of its series of what
  these have added to it so far (`NothingLost`), and each bucket of the page, a partial sum of
  bucket counters, is the number of latencies at or below its bound that have been observed
  (`BucketsAddUp`). A `fetch_add` changes one summand on both sides, and so does the new series of
  `Make`. With `BoundsIncrease` the second part gives `BucketsMeanAtMost`; and who has observed a
  latency has counted its request before (`SeenIsCounted`), summand by summand, which is
  `LatencyWithinRequests`. Recordings may be infinitely many as far as the theorems go: those that
  have begun are finite in number.
* `RegistriesProofs`: `TypeOK` (by `TypeInv`), `ServesWhatIsThere` for every order of the scan, and
  `BatcherOfTheModel`. The last rests on the order of strings: keys of one name are ordered as its
  versions (`LexLess` is total and transitive, and a common prefix does not matter), so the greatest
  key is that of the greatest version. Sets of keys have a greatest element because they are finite;
  where an induction over positions would be natural, the least number of a non-empty set
  (`LeastNumber`) takes its place.
* `ServerMainProofs`: over any number of launches, `ServesAsSpelled`, `ServesWhatWasChosen`,
  `InitConfigKeepsFiles`, `MainTypeOK`, `LaterSourceWins` and `BatcherOfTheModel`. The command line
  is read by a recursive function from its end; `AskedUnfolds` takes one step of it (`Parsed`),
  `AskedType` shows what it yields for any words, an option without its value among them, and
  `LastIs` that the last item for a setting is what it is set to. `ConfiguredIs` then reads the
  three layers off, and `ConfiguredType` says that what `main` ends with is what the registries may
  be given. `SettingsInv` carries that from launch to launch: whatever files there are, those that
  `init-config` wrote among them, their values have their settings' types or are found bad, and the
  registries' settings are those of the launch the process has.
* `OipCodecProofs`: `CodecInv` says what has been decoded while the decoder stands at an input: with
  it a request is accepted exactly when every input can be read, and the last input of a name makes
  its tensor (`LastInputCounts`), typed contents become rows times columns elements whatever the
  shape (`TypedFits`), and values that fit become the tensor they stand for, in each of the three
  forms (`DecodedAsMeant`). The last compares what the code multiplies up and infers with what the
  shape says (`ColsIsProduct`, `DimsHold`), and shows that the casts leave what is in range as it is
  (`CutSame`, for each width); about values out of range, which the casts change, it says nothing.
  `EncodeInv` says the same of a response that is being written: what stands in it is the outputs
  among the names looked at, in that order, raw contents beside them; from it and from how written
  dimensions are read back (`DimsRead`, `WrittenRead`) follows `EchoDecodes`, which is about what
  comes back: in JSON strings and finite FP32 and FP64, over gRPC outputs that are all strings or
  all dense. `TypesInv` gives `TypeOK`.
* `DataLemmas` takes the place of an induction, which the provers do not offer: a property
  of all numbers up to n is shown of the least that lacks it (`LeastNumber`, `NumbersUpTo`), one of
  the parts of a finite set by their size (`PartsOfFinite`). That is how folds over functions
  are shown to exist, to be unique and not to depend on the order (`FoldExists`, `FoldUnique`,
  `FoldWithout`), and with them sums.

**What they assume.** No more of the constants than the modules name: a batch size of at least 1
(`MaxBatchAssumption`; for less than 2 no Batcher is made), labels of transports that are no
stream's (`StreamsAssumption`), the list of bucket bounds increasing as it is written
(`BoundsAssumption`, `BoundsIncrease`), a mark that is no series (`NoSeriesAssumption`), what a
transport's parser lets through (`RequestsAssumption`), products of dimensions that an `int` holds
(`ShapesAssumption`), 32 bits more than 16 and fewer than 64 (`WidthsAssumption`), tensors of the
runtime as large as their dimensions, with strings where the datatype is STRING
(`ResultsAssumption`), outputs declared once (`SpecsAssumption`), numbers that `std::stoi` reads
(`NumericAssumption`), words, environments and files of the right form but any content
(`LaunchesAssumption`, `FilesAssumption`), and the kinds of places models come from
(`SourcesAssumption`, `MainSourcesAssumption`, `NamesAssumption`, `ConfigsAssumption`). TLC
evaluates them in the runs. `BatcherOfTheModel` assumes besides what finding 3 makes necessary, no
`@` in names. `ServesWhatIsThere`, as proved of `Registries`, assumes that no directory is spelled
with a slash at its end (finding 4); `ServesAsSpelled` of `ServerMain` assumes nothing of the kind
and says what such a spelling hides.

**Only model-checked** is liveness, which is out of the provers' reach: `FullBatchIsTaken`,
`DestructorReturns`, `FuturesResolve`, `TimeoutBounds`, `EveryCallEnds`, `ShutdownEnds` and
`TimeoutBoundsShutdown`. `InLine`, `HandlersMoveOn`, `ShutdownMovesOn`, `ShutdownDrains`,
`NoOvertaking` and `Own!Spec` are the other way round: proved, and no property of a run, since they
are there to say how modules fit and what lies under the liveness that the runs check.

## 5. Findings

1. **Requests that name different inputs are mixed up** (`batcher_mixed`, `src/batcher.cpp:169`).
   A batch stacks, for each name of its first request, the tensors of those that have it, and
   cuts outputs apart by everybody's rows. Nothing makes batch-mates name the same inputs.
2. **A gRPC timeout waits for the model** (`infer_blocked`, `src/grpc/inference_service.cpp:141`).
   Without a Batcher the future is of `std::async`, and its destructor waits: the
   DEADLINE_EXCEEDED of `ModelInfer` leaves only when `predict` has returned.
3. **`@` in a model's name** (`registries_at`, `src/batcher.cpp:260`). A request without a
   version finds no Batcher for `a@b`, and one for `a` may find that of `a@b`: another model
   answers it.
4. **A slash after the model directory** (`registries_slash`, `src/model_registry.cpp:80`) hides
   all models of the flat layout, without a message.
5. **`--model` is refused in the image** (`startup_env`, `src/main.cpp:427`). The check that
   `--model` and `--model-dir` exclude one another counts the environment, and the image sets
   `OMLE_MODEL_DIR`; the environment is documented to be below the flags.
6. **A malformed JSON value is not zero** (`codec_malformed`, `src/oip_codec.cpp:120`). An
   uninitialised variable goes into the tensor, where the comment of lines 109-110 promises zero.

Noticed without a run:

* Metrics: `metrics.h:76-77` says the last latency bucket always equals successes plus errors, which
  `record_rejected` (by its own comment) makes untrue; what holds is `LatencyWithinRequests`.
  `metrics.h:13-14` says the mutex is taken only for a new series; `get_or_create` takes it
  shared on every call. A page is no snapshot: its lines are of different moments.
* Batcher: a request that names an output the model does not have fails its batch-mates, or,
  if one of them asks for all outputs, is answered without it (`batcher.cpp:174-188`).
* Settings: after an error in the file `from_file` says "using defaults" but keeps the keys it read
  before (`main.cpp:69-70`). `log_level` is read and never used.
* Start and end: "[gRPC] Listening" is printed although `BuildAndStart` may have returned null
  (`inference_service.cpp:190`), which `main.cpp:544` then dereferences. `Shutdown` has no
  deadline, so a client that keeps its stream open keeps the process. Detached REST threads may
  touch the static Metrics while it is destroyed.
* OipCodec: typed contents of the 8- and 16-bit types, the unsigned ones and BOOL are counted but
  not copied (`oip_codec.cpp:373-388`, `431-441`). FP16 in JSON becomes zero. `bytes_contents` with
  a dynamic dimension gives no rows. A dynamic dimension after the second is ignored (276-278). The
  number of JSON values is never compared to the shape, and their size never to the datatype: a JSON
  integer out of range is cut by the casts (148, 175), as a dimension is (272-277, 349-353). A JSON
  response writes every number as a floating-point one (212), and null for one that is not finite:
  the decoder's `get_int64`, `get_uint64` and `get_bool` do not take the integers and booleans, and
  FP16 has no case, so such outputs cannot be sent on as inputs. `raw_output_contents` leaves
  strings out, so with mixed outputs the i-th raw contents are not the i-th output's, which is how
  requests are read (469-480, 356-358). Values of sparse outputs are lost over gRPC. BYTES in JSON
  divides by the runtime's size of a datatype that may have none (198).

## 6. Not modelled

* Time: how long a window, a timeout or a wait lasts. `QueueWaitsOnce` counts observations,
  not their value.
* The reordering that `memory_order_relaxed` allows. Even without it a page reads the totals of a
  series before its histogram, so a page may show more latencies than requests;
  `LatencyWithinRequests` is about the store, not about a page.
* What happens after `main` has returned: at exit no detached thread is joined and no Batcher
  destroyed, since the gRPC service, which holds the registries, is never freed. The model ends
  with the other threads; destructors of statics are the run-time library's affair.
* The gauge of loaded models, the text of the page, 64-bit wrap-around of counters.
* Bytes: floating-point rounding, the layout of raw buffers, BYTES in JSON and in raw contents
  (`RequestsAssumption`), negative dimensions other than -1, for which the code throws, and products
  of dimensions beyond an `int`, for which its behaviour is undefined (`ShapesAssumption`).
* The text of configuration files and of command lines: JSON and numbers are parsed or are not.
* The health and metadata endpoints, which only read the registry.
* The runtime, Drogon, gRPC, the Python launcher, the build.

## 7. Plan

Done: the Batcher with its refinement and proofs; the handlers, alone and in the life of the
process, with theirs; Metrics, Registries, `main` and the settings with theirs; OipCodec.

Left: a Batcher with several versions of a model behind one registry while it is destroyed,
should the code ever unload models: today registries never change after start-up.
