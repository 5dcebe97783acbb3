----------------------------- MODULE InferHandlers -----------------------------
(***************************************************************************)
(* The inference handlers: handle_infer and async_infer of                  *)
(* src/rest/handlers.cpp, ModelInfer and ModelStreamInfer of                *)
(* src/grpc/inference_service.cpp, with the metrics they record.            *)
(*                                                                         *)
(* Both obtain a future, from the model's Batcher or from std::async, wait  *)
(* for it with a timeout, count the request and answer it. REST does so in  *)
(* a detached thread, gRPC in the thread that carries the call. They differ *)
(* in when the future is destroyed: REST after the answer has been sent,    *)
(* gRPC before, and the destructor of a future of std::async waits.         *)
(*                                                                         *)
(* The Batcher is taken from its specification FifoAnswers. Each increment  *)
(* of a counter is a step. Counters are kept per request: a counter of the  *)
(* server is the sum over the requests.                                     *)
(***************************************************************************)
EXTENDS Naturals, Sequences

CONSTANTS Requests,   \* inference requests, each sent once
          Streams,    \* calls of ModelStreamInfer
          NoCall      \* call[r] before r arrives

ASSUME StreamsAssumption == "rest" \notin Streams /\ "unary" \notin Streams

VARIABLES timed,      \* inference_timeout_ms > 0
          call,       \* per request: how it came and what it asks for
          stage,      \* per request: where its handler is
          outcome,    \* per request: what its handler is going to answer
          reply,      \* per request: what its client was answered
          future,     \* per request: the state of its future
          line,       \* the requests the Batcher has not answered
          tally,      \* per request: the counters incremented on its behalf
          stream,     \* per stream: where ModelStreamInfer is
          reads       \* per stream: the requests read from it

vars == <<timed, call, stage, outcome, reply, future, line, tally, stream, reads>>

model == <<future, line>>
streams == <<stream, reads>>

\* A request names no loaded model, or does not decode, or is for a model with
\* or without a Batcher. It comes alone over REST or gRPC, or in a stream.
Targets == {"unknown", "malformed", "batched", "direct"}
Vias    == {"rest", "unary"} \union Streams
Calls   == [via : Vias, target : Targets]

Replies == {"ok", "error", "timeout", "not found", "bad request"}

Batch == INSTANCE FifoAnswers WITH tag <- future, phase <- "open"

Counters(ok, err, timeouts, latency) ==
  [ok |-> ok, err |-> err, timeouts |-> timeouts, latency |-> latency]

Nothing == Counters(0, 0, 0, 0)

Init ==
  /\ timed \in BOOLEAN
  /\ call = [r \in Requests |-> NoCall]
  /\ stage = [r \in Requests |-> "idle"]
  /\ outcome = [r \in Requests |-> "none"]
  /\ reply = [r \in Requests |-> "none"]
  /\ future = [r \in Requests |-> "none"]
  /\ line = <<>>
  /\ tally = [r \in Requests |-> Nothing]
  /\ stream = [s \in Streams |-> "unopened"]
  /\ reads = [s \in Streams |-> <<>>]

-------------------------------------------------------------------------------
(* A request arrives *)

\* ModelStreamInfer reads a request when it has answered the one before it.
Arrives(r, via) ==
  /\ stage[r] = "idle"
  /\ IF via \in Streams
     THEN /\ stream[via] = "reading"
          /\ stream' = [stream EXCEPT ![via] = "inferring"]
          /\ reads' = [reads EXCEPT ![via] = Append(@, r)]
     ELSE UNCHANGED streams

Count(r, counter) == tally' = [tally EXCEPT ![r][counter] = @ + 1]

\* No such model, or a body that does not decode: record_rejected.
Refuse(r, via, target) ==
  /\ target \in {"unknown", "malformed"}
  /\ Arrives(r, via)
  /\ call' = [call EXCEPT ![r] = [via |-> via, target |-> target]]
  /\ outcome' = [outcome EXCEPT ![r] =
                   IF target = "unknown" THEN "not found" ELSE "bad request"]
  /\ Count(r, "err")
  /\ stage' = [stage EXCEPT ![r] = "replying"]
  /\ UNCHANGED <<timed, reply, model>>

\* batcher->submit, or std::async with a thread that calls predict.
Acquire(r, via, target) ==
  /\ Arrives(r, via)
  /\ \/ target = "batched" /\ Batch!Accept(r)
     \/ /\ target = "direct"
        /\ future' = [future EXCEPT ![r] = "pending"]
        /\ UNCHANGED line
  /\ call' = [call EXCEPT ![r] = [via |-> via, target |-> target]]
  /\ stage' = [stage EXCEPT ![r] = "waiting"]
  /\ UNCHANGED <<timed, outcome, reply, tally>>

-------------------------------------------------------------------------------
(* The model: through the Batcher, or in a thread of std::async. Nothing      *)
(* cancels it: it works on when the handler has stopped waiting.              *)

BatchAnswers == Batch!Serve /\ UNCHANGED <<timed, call, stage, outcome, reply, tally, streams>>

AsyncAnswers(r) ==
  /\ call[r] # NoCall /\ call[r].target = "direct" /\ future[r] = "pending"
  /\ future' \in { [future EXCEPT ![r] = how] : how \in {"ok", "error"} }
  /\ UNCHANGED <<timed, call, stage, outcome, reply, line, tally, streams>>

-------------------------------------------------------------------------------
(* The handler waits *)

Goes(r, from, to) == stage[r] = from /\ stage' = [stage EXCEPT ![r] = to]

\* Mutant of GetResult: answers with success whatever the result says.
GetAnything(r) ==
  /\ Goes(r, "waiting", "got")
  /\ future[r] \in {"ok", "error"}
  /\ outcome' = [outcome EXCEPT ![r] = "ok"]
  /\ UNCHANGED <<timed, call, reply, model, tally, streams>>

\* Mutant of GetResult: takes the result without waiting for it.
GetUnready(r) ==
  /\ Goes(r, "waiting", "got")
  /\ outcome' = [outcome EXCEPT ![r] = future[r]]
  /\ UNCHANGED <<timed, call, reply, model, tally, streams>>

\* fut.get(), in time or with no timeout.
GetResult(r) ==
  /\ Goes(r, "waiting", "got")
  /\ future[r] \in {"ok", "error"}
  /\ outcome' = [outcome EXCEPT ![r] = future[r]]
  /\ UNCHANGED <<timed, call, reply, model, tally, streams>>

\* Mutant of TimeOut: async_infer waits without a timeout.
TimeOutInGrpc(r) ==
  /\ timed
  /\ Goes(r, "waiting", "late")
  /\ call[r].via # "rest"
  /\ future[r] = "pending"
  /\ outcome' = [outcome EXCEPT ![r] = "timeout"]
  /\ UNCHANGED <<timed, call, reply, model, tally, streams>>

TimeOut(r) ==
  /\ timed
  /\ Goes(r, "waiting", "late")
  /\ future[r] = "pending"
  /\ outcome' = [outcome EXCEPT ![r] = "timeout"]
  /\ UNCHANGED <<timed, call, reply, model, tally, streams>>

-------------------------------------------------------------------------------
(* The handler counts *)

\* Mutant of RecordOutcome: forgets to answer when the model failed.
RecordAndForget(r) ==
  /\ Goes(r, "got", IF outcome[r] = "ok" THEN "observing" ELSE "done")
  /\ Count(r, IF outcome[r] = "ok" THEN "ok" ELSE "err")
  /\ UNCHANGED <<timed, call, outcome, reply, model, streams>>

\* record_request counts a success or an error, ...
RecordOutcome(r) ==
  /\ Goes(r, "got", "observing")
  /\ Count(r, IF outcome[r] = "ok" THEN "ok" ELSE "err")
  /\ UNCHANGED <<timed, call, outcome, reply, model, streams>>

\* ... then the latency.
RecordLatency(r) ==
  /\ Goes(r, "observing", "replying")
  /\ Count(r, "latency")
  /\ UNCHANGED <<timed, call, outcome, reply, model, streams>>

\* Mutant of RecordTimeout: a timeout escapes the request total.
RecordTimeoutOnly(r) ==
  /\ Goes(r, "late", "replying")
  /\ Count(r, "timeouts")
  /\ UNCHANGED <<timed, call, outcome, reply, model, streams>>

RecordTimeout(r) ==
  /\ Goes(r, "late", "late too")
  /\ Count(r, "timeouts")
  /\ UNCHANGED <<timed, call, outcome, reply, model, streams>>

RecordRejected(r) ==
  /\ Goes(r, "late too", IF call[r].via = "rest" THEN "replying" ELSE "releasing")
  /\ Count(r, "err")
  /\ UNCHANGED <<timed, call, outcome, reply, model, streams>>

-------------------------------------------------------------------------------
(* The handler answers and lets go of the future *)

\* Mutant of Reply: no return after the answer to a timeout.
ReplyAndFallThrough(r) ==
  /\ Goes(r, "replying",
          IF outcome[r] = "timeout" /\ call[r].via = "rest" THEN "waiting" ELSE "done")
  /\ reply' = [reply EXCEPT ![r] = outcome[r]]
  /\ IF call[r].via \in Streams
     THEN stream' = [stream EXCEPT ![call[r].via] =
                       IF outcome[r] = "ok" THEN "reading" ELSE "ended"]
     ELSE UNCHANGED stream
  /\ UNCHANGED <<timed, call, outcome, model, tally, reads>>

\* Mutant of Reply: the stream goes on after a failure.
ReplyAndReadOn(r) ==
  /\ Goes(r, "replying",
          IF outcome[r] = "timeout" /\ call[r].via = "rest" THEN "releasing" ELSE "done")
  /\ reply' = [reply EXCEPT ![r] = outcome[r]]
  /\ IF call[r].via \in Streams
     THEN stream' = [stream EXCEPT ![call[r].via] = "reading"]
     ELSE UNCHANGED stream
  /\ UNCHANGED <<timed, call, outcome, model, tally, reads>>

\* The callback of REST, the returned status of gRPC; in a stream a response is
\* written and the next request read, but a failure ends the stream.
Reply(r) ==
  /\ Goes(r, "replying",
          IF outcome[r] = "timeout" /\ call[r].via = "rest" THEN "releasing" ELSE "done")
  /\ reply' = [reply EXCEPT ![r] = outcome[r]]
  /\ IF call[r].via \in Streams
     THEN stream' = [stream EXCEPT ![call[r].via] =
                       IF outcome[r] = "ok" THEN "reading" ELSE "ended"]
     ELSE UNCHANGED stream
  /\ UNCHANGED <<timed, call, outcome, model, tally, reads>>

\* The destructor of a future that was not ready in time. The last reference to
\* the state of std::async waits for its thread; a promise's future just goes.
Release(r) ==
  /\ Goes(r, "releasing", IF call[r].via = "rest" THEN "done" ELSE "replying")
  /\ call[r].target = "direct" => future[r] # "pending"
  /\ UNCHANGED <<timed, call, outcome, reply, model, tally, streams>>

-------------------------------------------------------------------------------
(* Streams *)

OpenStream(s) ==
  /\ stream[s] = "unopened"
  /\ stream' = [stream EXCEPT ![s] = "reading"]
  /\ UNCHANGED <<timed, call, stage, outcome, reply, model, tally, reads>>

\* The client has no more requests: Read returns false.
EndStream(s) ==
  /\ stream[s] = "reading"
  /\ stream' = [stream EXCEPT ![s] = "ended"]
  /\ UNCHANGED <<timed, call, stage, outcome, reply, model, tally, reads>>

-------------------------------------------------------------------------------
Arrival(r) == \E via \in Vias, target \in Targets :
                Refuse(r, via, target) \/ Acquire(r, via, target)

\* What the thread does that handles r.
Handler(r) == \/ GetResult(r) \/ RecordOutcome(r) \/ RecordLatency(r)
              \/ TimeOut(r) \/ RecordTimeout(r) \/ RecordRejected(r)
              \/ Reply(r) \/ Release(r)

\* All requests are answered, or sit in clients that send no more.
Idle == (\A r \in Requests : stage[r] \in {"idle", "done"}) /\ UNCHANGED vars

Next ==
  \/ \E r \in Requests : Arrival(r) \/ Handler(r) \/ AsyncAnswers(r)
  \/ BatchAnswers
  \/ \E s \in Streams : OpenStream(s) \/ EndStream(s)
  \/ Idle

Spec == Init /\ [][Next]_vars

(* Threads run, and clocks do; the model need never return.                  *)
Fairness == \A r \in Requests : WF_vars(Handler(r))

FairSpec == Spec /\ Fairness

-------------------------------------------------------------------------------
(* Type invariant *)

Stages == {"idle", "waiting", "got", "observing", "late", "late too", "replying",
           "releasing", "done"}

TypeOK ==
  /\ timed \in BOOLEAN
  /\ call \in [Requests -> Calls \union {NoCall}]
  /\ stage \in [Requests -> Stages]
  /\ outcome \in [Requests -> Replies \union {"none"}]
  /\ reply \in [Requests -> Replies \union {"none"}]
  /\ future \in [Requests -> {"none", "pending", "ok", "error"}]
  /\ line \in Seq(Requests)
  /\ tally \in [Requests -> [{"ok", "err", "timeouts", "latency"} -> Nat]]
  /\ stream \in [Streams -> {"unopened", "reading", "inferring", "ended"}]
  /\ reads \in [Streams -> Seq(Requests)]

-------------------------------------------------------------------------------
(* Safety *)

\* What the metrics should say of a request that was answered so.
Entry(how) ==
  IF how = "ok" THEN Counters(1, 0, 0, 1)
  ELSE IF how = "error" THEN Counters(0, 1, 0, 1)
  ELSE IF how = "timeout" THEN Counters(0, 1, 1, 0)
  ELSE Counters(0, 1, 0, 0)

\* A request a client has an answer to is counted, once, and as what the client
\* was told: rejections and timeouts as errors too, but only what the model
\* answered in time in the latency histogram. A result that comes after the
\* timeout changes nothing.
CountedOnce ==
  \A r \in Requests : reply[r] # "none" => tally[r] = Entry(reply[r])

\* Nobody is told anything but what became of his request: the result of his own
\* future, a timeout only when one is configured, a refusal only if the model
\* was never asked.
HonestReply ==
  \A r \in Requests :
    /\ reply[r] \in {"ok", "error"} => reply[r] = future[r]
    /\ reply[r] = "timeout" => timed /\ future[r] # "none"
    /\ reply[r] \in {"not found", "bad request"} => future[r] = "none"

\* A stream answers in the order it reads: everything it read before its last
\* request was answered, with success, and it does not end on a request it has
\* not answered.
StreamAnswersInOrder ==
  \A s \in Streams : \A i \in DOMAIN reads[s] :
    /\ i < Len(reads[s]) => reply[reads[s][i]] = "ok"
    /\ stream[s] = "ended" => reply[reads[s][i]] # "none"

\* A client is answered once, and its request's entry in the metrics is closed
\* with the answer.
AnsweredOnce ==
  [][\A r \in Requests : reply[r] # "none" => UNCHANGED <<reply[r], tally[r]>>]_vars

-------------------------------------------------------------------------------
(* The inductive invariant behind the above: what each place of a handler    *)
(* implies for the future, the counters, the client and the stream.          *)

Handled(r) == stage[r] \notin {"idle", "done"}

Futures(r) ==
  /\ stage[r] = "idle" => future[r] = "none"
  /\ stage[r] = "waiting" => future[r] # "none"
  /\ stage[r] \in {"got", "observing"} => outcome[r] \in {"ok", "error"}
  /\ stage[r] \in {"late", "late too", "releasing"} => outcome[r] = "timeout"
  /\ stage[r] \in {"replying", "done"} => outcome[r] \in Replies
  /\ stage[r] \notin {"idle", "waiting"} =>
       /\ outcome[r] \in {"ok", "error"} => outcome[r] = future[r]
       /\ outcome[r] = "timeout" => timed /\ future[r] # "none"
       /\ outcome[r] \in {"not found", "bad request"} => future[r] = "none"

Booked(r) ==
  tally[r] = IF stage[r] \in {"idle", "waiting", "got", "late"} THEN Nothing
             ELSE IF stage[r] = "observing"
             THEN IF outcome[r] = "ok" THEN Counters(1, 0, 0, 0) ELSE Counters(0, 1, 0, 0)
             ELSE IF stage[r] = "late too" THEN Counters(0, 0, 1, 0)
             ELSE Entry(outcome[r])

Told(r) ==
  reply[r] = IF stage[r] = "done" \/ (stage[r] = "releasing" /\ call[r].via = "rest")
             THEN outcome[r] ELSE "none"

\* The request a stream is at is the last one read; those before it succeeded.
InStream(s) ==
  /\ stream[s] = "unopened" => reads[s] = <<>>
  /\ \A i \in DOMAIN reads[s] :
       /\ stage[reads[s][i]] # "idle" /\ call[reads[s][i]].via = s
       /\ i < Len(reads[s]) \/ stream[s] # "inferring" => stage[reads[s][i]] = "done"
       /\ i < Len(reads[s]) \/ stream[s] = "reading" => outcome[reads[s][i]] = "ok"

OfStream(r) ==
  Handled(r) /\ call[r].via \in Streams =>
    LET s == call[r].via
    IN stream[s] = "inferring" /\ reads[s] # <<>> /\ r = reads[s][Len(reads[s])]

IInv ==
  /\ TypeOK
  /\ \A r \in Requests : stage[r] # "idle" => call[r] \in Calls
  /\ \A r \in Requests : Futures(r) /\ Booked(r) /\ Told(r) /\ OfStream(r)
  /\ \A s \in Streams : InStream(s)

-------------------------------------------------------------------------------
(* The Batcher's part *)

\* A Batcher sees the futures it has handed out, and no others.
Batched(r) == stage[r] # "idle" /\ call[r].target = "batched"
Promised == [r \in Requests |-> IF Batched(r) THEN future[r] ELSE "none"]

Own == INSTANCE FifoAnswers WITH tag <- Promised, phase <- "open"

\* Who is in line is who has a future of the Batcher's that is pending, and is there
\* once: what std::async and the handlers do meanwhile is nothing to the line.
InLine ==
  /\ \A r \in Requests : Promised[r] = "pending" <=> \E i \in DOMAIN line : line[i] = r
  /\ \A i, j \in DOMAIN line : line[i] = line[j] => i = j

\* The places a handler has still to go through, at most.
Left(r) ==
  IF stage[r] = "idle" THEN 6
  ELSE IF stage[r] = "waiting" THEN 5
  ELSE IF stage[r] \in {"got", "late"} THEN 4
  ELSE IF stage[r] \in {"observing", "late too"} THEN 3
  ELSE IF stage[r] = "done" THEN 0
  ELSE IF stage[r] = "replying" <=> call[r].via = "rest" THEN 2 ELSE 1

\* A handler never returns to a place it has left: from its future to its end it has
\* at most five steps to take, so only the future or the model can hold it up.
HandlersMoveOn ==
  [][\A r \in Requests : stage'[r] # stage[r] => Left(r)' < Left(r)]_vars

-------------------------------------------------------------------------------
(* Liveness *)

Answered(r) == stage[r] = "waiting" ~> reply[r] # "none"

\* "Per-request timeout": with a timeout configured every call is answered, even
\* if the model never returns.
TimeoutBoundsEveryCall == timed => \A r \in Requests : Answered(r)
===============================================================================
