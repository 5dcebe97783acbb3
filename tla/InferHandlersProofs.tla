-------------------------- MODULE InferHandlersProofs --------------------------
(***************************************************************************)
(* Proofs about the inference handlers, for any number of requests and      *)
(* streams. The invariant IInv says, of each place in a handler, what it    *)
(* implies for the request's future, its counters, its client and its       *)
(* stream; the safety properties follow from it.                            *)
(***************************************************************************)
EXTENDS InferHandlers, SequenceTheorems, TLAPS

-------------------------------------------------------------------------------
(* What the steps change *)

\* A request's counter is one higher after the step, the others are as before.
LEMMA CountEffect ==
  ASSUME TypeOK, NEW r \in Requests, NEW c \in {"ok", "err", "timeouts", "latency"},
         Count(r, c)
  PROVE  /\ tally' \in [Requests -> [{"ok", "err", "timeouts", "latency"} -> Nat]]
         /\ tally'[r][c] = tally[r][c] + 1
         /\ \A d \in {"ok", "err", "timeouts", "latency"} :
              d # c => tally'[r][d] = tally[r][d]
         /\ \A q \in Requests : q # r => tally'[q] = tally[q]
BY DEF TypeOK, Count

\* A row of counters is known by its entries.
LEMMA CountersUnique ==
  ASSUME NEW t \in [{"ok", "err", "timeouts", "latency"} -> Nat]
  PROVE  t = Counters(t["ok"], t["err"], t["timeouts"], t["latency"])
BY DEF Counters

LEMMA CountersEntries ==
  ASSUME NEW a, NEW b, NEW c, NEW d
  PROVE  /\ Counters(a, b, c, d)["ok"] = a /\ Counters(a, b, c, d)["err"] = b
         /\ Counters(a, b, c, d)["timeouts"] = c /\ Counters(a, b, c, d)["latency"] = d
BY DEF Counters

\* The Batcher settles the future of the request that waits longest.
LEMMA BatchEffect ==
  ASSUME TypeOK, BatchAnswers
  PROVE  \E r \in Requests, how \in {"ok", "error"} :
           /\ future[r] = "pending" /\ future' = [future EXCEPT ![r] = how]
           /\ line' \in Seq(Requests)
<1>1. PICK how \in {"ok", "error"} : Batch!AnswerHead(how)
  BY DEF BatchAnswers, Batch!Serve
<1>2. line # <<>> /\ Head(line) \in Requests /\ Tail(line) \in Seq(Requests)
  BY <1>1 DEF Batch!AnswerHead, TypeOK
<1>3. /\ future[Head(line)] = "pending"
      /\ future' = [future EXCEPT ![Head(line)] = how]
      /\ line' = Tail(line)
  BY <1>1 DEF Batch!AnswerHead
<1> QED
  BY <1>2, <1>3

\* A request that arrives is of one of the kinds, and occupies its stream.
LEMMA ArrivalEffect ==
  ASSUME TypeOK, NEW r \in Requests, NEW via \in Vias, Arrives(r, via)
  PROVE  /\ stage[r] = "idle"
         /\ via \in Streams =>
              /\ stream[via] = "reading"
              /\ stream' = [stream EXCEPT ![via] = "inferring"]
              /\ reads' = [reads EXCEPT ![via] = Append(reads[via], r)]
         /\ via \notin Streams => stream' = stream /\ reads' = reads
         /\ stream' \in [Streams -> {"unopened", "reading", "inferring", "ended"}]
         /\ reads' \in [Streams -> Seq(Requests)]
<1>1. CASE via \in Streams
  <2>1. Append(reads[via], r) \in Seq(Requests)
    BY <1>1 DEF TypeOK
  <2> QED
    BY <1>1, <2>1 DEF Arrives, TypeOK
<1>2. CASE via \notin Streams
  BY <1>2 DEF Arrives, TypeOK, streams
<1> QED
  BY <1>1, <1>2

LEMMA AcquireEffect ==
  ASSUME TypeOK, NEW r \in Requests, NEW via \in Vias, NEW target \in Targets,
         Acquire(r, via, target)
  PROVE  /\ future' = [future EXCEPT ![r] = "pending"]
         /\ line' \in Seq(Requests)
         /\ call' = [call EXCEPT ![r] = [via |-> via, target |-> target]]
         /\ stage' = [stage EXCEPT ![r] = "waiting"]
         /\ UNCHANGED <<timed, outcome, reply, tally>>
<1>1. CASE target = "batched" /\ Batch!Accept(r)
  BY <1>1, AppendProperties DEF Acquire, Batch!Accept, TypeOK
<1>2. CASE target = "direct" /\ future' = [future EXCEPT ![r] = "pending"] /\ UNCHANGED line
  BY <1>2 DEF Acquire, TypeOK
<1> QED
  BY <1>1, <1>2 DEF Acquire

\* Every variable keeps its type.
LEMMA TypeNext == TypeOK /\ [Next]_vars => TypeOK'
<1> SUFFICES ASSUME TypeOK, [Next]_vars
             PROVE  TypeOK'
  OBVIOUS
<1>1. ASSUME NEW r \in Requests, NEW via \in Vias, NEW target \in Targets,
             Refuse(r, via, target)
      PROVE  TypeOK'
  <2>1. [via |-> via, target |-> target] \in Calls
    BY DEF Calls
  <2>2. Arrives(r, via) /\ Count(r, "err")
    BY <1>1 DEF Refuse
  <2> QED
    BY <1>1, <2>1, <2>2, ArrivalEffect, CountEffect
       DEF Refuse, TypeOK, Stages, Replies, model
<1>2. ASSUME NEW r \in Requests, NEW via \in Vias, NEW target \in Targets,
             Acquire(r, via, target)
      PROVE  TypeOK'
  <2>1. [via |-> via, target |-> target] \in Calls
    BY DEF Calls
  <2>2. Arrives(r, via)
    BY <1>2 DEF Acquire
  <2>3. /\ stream' \in [Streams -> {"unopened", "reading", "inferring", "ended"}]
        /\ reads' \in [Streams -> Seq(Requests)]
    BY <2>2, ArrivalEffect
  <2>4. /\ future' = [future EXCEPT ![r] = "pending"]
        /\ line' \in Seq(Requests)
        /\ call' = [call EXCEPT ![r] = [via |-> via, target |-> target]]
        /\ stage' = [stage EXCEPT ![r] = "waiting"]
        /\ UNCHANGED <<timed, outcome, reply, tally>>
    BY <1>2, AcquireEffect
  <2> QED
    BY <2>1, <2>3, <2>4 DEF TypeOK, Stages
<1>3. ASSUME NEW r \in Requests, GetResult(r) \/ TimeOut(r) \/ Release(r)
      PROVE  TypeOK'
  <2>1. PICK p \in Stages : stage' = [stage EXCEPT ![r] = p]
    BY <1>3 DEF GetResult, TimeOut, Release, Goes, Stages
  <2>2. UNCHANGED <<timed, call, reply, future, line, tally, stream, reads>>
    BY <1>3 DEF GetResult, TimeOut, Release, model, streams
  <2>3. outcome' \in [Requests -> Replies \union {"none"}]
    BY <1>3 DEF GetResult, TimeOut, Release, TypeOK, Replies
  <2> QED
    BY <2>1, <2>2, <2>3 DEF TypeOK
<1>4. ASSUME NEW r \in Requests,
             RecordOutcome(r) \/ RecordLatency(r) \/ RecordTimeout(r) \/ RecordRejected(r)
      PROVE  TypeOK'
  <2>1. PICK c \in {"ok", "err", "timeouts", "latency"} : Count(r, c)
    BY <1>4 DEF RecordOutcome, RecordLatency, RecordTimeout, RecordRejected
  <2>2. PICK p \in Stages : stage' = [stage EXCEPT ![r] = p]
    BY <1>4 DEF RecordOutcome, RecordLatency, RecordTimeout, RecordRejected, Goes, Stages
  <2>3. UNCHANGED <<timed, call, outcome, reply, future, line, stream, reads>>
    BY <1>4 DEF RecordOutcome, RecordLatency, RecordTimeout, RecordRejected, model, streams
  <2> QED
    BY <2>1, <2>2, <2>3, CountEffect DEF TypeOK
<1>5. ASSUME NEW r \in Requests, Reply(r)
      PROVE  TypeOK'
  BY <1>5 DEF Reply, Goes, TypeOK, Stages, model
<1>6. ASSUME NEW r \in Requests, AsyncAnswers(r)
      PROVE  TypeOK'
  BY <1>6, ZenonT(60) DEF AsyncAnswers, TypeOK, streams
<1>7. CASE BatchAnswers
  BY <1>7, BatchEffect, ZenonT(60) DEF BatchAnswers, TypeOK, streams
<1>8. ASSUME NEW s \in Streams, OpenStream(s) \/ EndStream(s)
      PROVE  TypeOK'
  BY <1>8 DEF OpenStream, EndStream, TypeOK, model
<1>9. CASE UNCHANGED vars
  BY <1>9 DEF vars, TypeOK
<1> QED
  BY <1>1, <1>2, <1>3, <1>4, <1>5, <1>6, <1>7, <1>8, <1>9
     DEF Next, Arrival, Handler, Idle

-------------------------------------------------------------------------------
(* One request *)

\* What IInv says of one request, its stream aside.
Place(r) == /\ stage[r] # "idle" => call[r] \in Calls
            /\ Futures(r) /\ Booked(r) /\ Told(r)

Same(q) == /\ stage'[q] = stage[q] /\ call'[q] = call[q]
           /\ outcome'[q] = outcome[q] /\ future'[q] = future[q]
           /\ reply'[q] = reply[q] /\ tally'[q] = tally[q]

\* A step that does not touch a request leaves it in its place.
LEMMA PlaceFrame ==
  ASSUME NEW q \in Requests, Place(q), Same(q), timed' = timed
  PROVE  Place(q)'
BY DEF Place, Same, Futures, Booked, Told

\* A handler touches its own request only.
LEMMA HandlerFrame ==
  ASSUME TypeOK, NEW r \in Requests, Handler(r)
  PROVE  /\ \A q \in Requests : q # r => Same(q)
         /\ timed' = timed /\ UNCHANGED <<call, future, reads>>
         /\ ~Reply(r) => stream' = stream
<1>1. ASSUME GetResult(r) \/ TimeOut(r) \/ Release(r)
      PROVE  /\ \A q \in Requests : q # r => Same(q)
             /\ timed' = timed /\ UNCHANGED <<call, future, reads, stream>>
  BY <1>1 DEF GetResult, TimeOut, Release, Goes, TypeOK, Same, model, streams
<1>2. ASSUME RecordOutcome(r) \/ RecordLatency(r) \/ RecordTimeout(r) \/ RecordRejected(r)
      PROVE  /\ \A q \in Requests : q # r => Same(q)
             /\ timed' = timed /\ UNCHANGED <<call, future, reads, stream>>
  BY <1>2, ZenonT(60) DEF RecordOutcome, RecordLatency, RecordTimeout, RecordRejected, Count, Goes,
              TypeOK, Same, model, streams
<1>3. ASSUME Reply(r)
      PROVE  /\ \A q \in Requests : q # r => Same(q)
             /\ timed' = timed /\ UNCHANGED <<call, future, reads>>
  BY <1>3 DEF Reply, Goes, TypeOK, Same, model
<1> QED
  BY <1>1, <1>2, <1>3 DEF Handler

\* A handler takes its own request to a place where the invariant holds.
LEMMA HandlerPlace ==
  ASSUME TypeOK, NEW r \in Requests, Place(r), Handler(r)
  PROVE  Place(r)'
<1>0. timed' = timed /\ call'[r] = call[r] /\ future'[r] = future[r]
  BY HandlerFrame
<1>9. tally'[r] \in [{"ok", "err", "timeouts", "latency"} -> Nat]
  BY TypeNext DEF TypeOK, Next
<1>1. CASE GetResult(r)
  <2>1. /\ stage[r] = "waiting" /\ stage'[r] = "got"
        /\ future[r] \in {"ok", "error"} /\ outcome'[r] = future[r]
        /\ reply'[r] = reply[r] /\ tally'[r] = tally[r]
    BY <1>1 DEF GetResult, Goes, TypeOK
  <2> QED
    BY <1>0, <2>1 DEF Place, Futures, Booked, Told, Nothing
<1>2. CASE TimeOut(r)
  <2>1. /\ stage[r] = "waiting" /\ stage'[r] = "late" /\ timed
        /\ future[r] = "pending" /\ outcome'[r] = "timeout"
        /\ reply'[r] = reply[r] /\ tally'[r] = tally[r]
    BY <1>2 DEF TimeOut, Goes, TypeOK
  <2> QED
    BY <1>0, <2>1 DEF Place, Futures, Booked, Told, Nothing
<1>3. CASE RecordOutcome(r)
  <2>1. /\ stage[r] = "got" /\ stage'[r] = "observing"
        /\ outcome'[r] = outcome[r] /\ reply'[r] = reply[r]
        /\ Count(r, IF outcome[r] = "ok" THEN "ok" ELSE "err")
    BY <1>3 DEF RecordOutcome, Goes, TypeOK
  <2>2. outcome[r] \in {"ok", "error"} /\ tally[r] = Counters(0, 0, 0, 0)
    BY <2>1 DEF Place, Futures, Booked, Nothing
  <2>3. tally'[r] = IF outcome[r] = "ok" THEN Counters(1, 0, 0, 0) ELSE Counters(0, 1, 0, 0)
    <3>1. /\ tally'[r]["ok"] = IF outcome[r] = "ok" THEN 1 ELSE 0
          /\ tally'[r]["err"] = IF outcome[r] = "ok" THEN 0 ELSE 1
          /\ tally'[r]["timeouts"] = 0 /\ tally'[r]["latency"] = 0
      BY <2>1, <2>2, CountEffect, CountersEntries
    <3> QED
      BY <3>1, <1>9, CountersUnique
  <2> QED
    BY <1>0, <2>1, <2>2, <2>3 DEF Place, Futures, Told, Booked
<1>4. CASE RecordLatency(r)
  <2>1. /\ stage[r] = "observing" /\ stage'[r] = "replying"
        /\ outcome'[r] = outcome[r] /\ reply'[r] = reply[r]
        /\ Count(r, "latency")
    BY <1>4 DEF RecordLatency, Goes, TypeOK
  <2>2. /\ outcome[r] \in {"ok", "error"}
        /\ tally[r] = IF outcome[r] = "ok" THEN Counters(1, 0, 0, 0)
                                          ELSE Counters(0, 1, 0, 0)
    BY <2>1 DEF Place, Futures, Booked
  <2>3. tally'[r] = IF outcome[r] = "ok" THEN Counters(1, 0, 0, 1) ELSE Counters(0, 1, 0, 1)
    <3>1. /\ tally'[r]["ok"] = IF outcome[r] = "ok" THEN 1 ELSE 0
          /\ tally'[r]["err"] = IF outcome[r] = "ok" THEN 0 ELSE 1
          /\ tally'[r]["timeouts"] = 0 /\ tally'[r]["latency"] = 1
      BY <2>1, <2>2, CountEffect, CountersEntries
    <3> QED
      BY <3>1, <1>9, CountersUnique
  <2> QED
    BY <1>0, <2>1, <2>2, <2>3 DEF Place, Futures, Told, Replies, Booked, Entry
<1>5. CASE RecordTimeout(r)
  <2>1. /\ stage[r] = "late" /\ stage'[r] = "late too"
        /\ outcome'[r] = outcome[r] /\ reply'[r] = reply[r]
        /\ Count(r, "timeouts")
    BY <1>5 DEF RecordTimeout, Goes, TypeOK
  <2>2. outcome[r] = "timeout" /\ tally[r] = Counters(0, 0, 0, 0)
    BY <2>1 DEF Place, Futures, Booked, Nothing
  <2>3. tally'[r] = Counters(0, 0, 1, 0)
    <3>1. /\ tally[r]["ok"] = 0 /\ tally[r]["err"] = 0
          /\ tally[r]["timeouts"] = 0 /\ tally[r]["latency"] = 0
      BY <2>2, CountersEntries
    <3>2. /\ tally'[r]["ok"] = tally[r]["ok"] /\ tally'[r]["err"] = tally[r]["err"]
          /\ tally'[r]["timeouts"] = tally[r]["timeouts"] + 1
          /\ tally'[r]["latency"] = tally[r]["latency"]
      BY <2>1, CountEffect
    <3> QED
      BY <3>1, <3>2, <1>9, CountersUnique
  <2> QED
    BY <1>0, <2>1, <2>2, <2>3 DEF Place, Futures, Told, Booked
<1>6. CASE RecordRejected(r)
  <2>1. /\ stage[r] = "late too" /\ stage'[r] \in {"replying", "releasing"}
        /\ call[r].via = "rest" => stage'[r] = "replying"
        /\ outcome'[r] = outcome[r] /\ reply'[r] = reply[r]
        /\ Count(r, "err")
    BY <1>6 DEF RecordRejected, Goes, TypeOK
  <2>2. outcome[r] = "timeout" /\ tally[r] = Counters(0, 0, 1, 0)
    BY <2>1 DEF Place, Futures, Booked
  <2>3. tally'[r] = Counters(0, 1, 1, 0)
    <3>1. /\ tally[r]["ok"] = 0 /\ tally[r]["err"] = 0
          /\ tally[r]["timeouts"] = 1 /\ tally[r]["latency"] = 0
      BY <2>2, CountersEntries
    <3>2. /\ tally'[r]["ok"] = tally[r]["ok"] /\ tally'[r]["err"] = tally[r]["err"] + 1
          /\ tally'[r]["timeouts"] = tally[r]["timeouts"]
          /\ tally'[r]["latency"] = tally[r]["latency"]
      BY <2>1, CountEffect
    <3> QED
      BY <3>1, <3>2, <1>9, CountersUnique
  <2> QED
    BY <1>0, <2>1, <2>2, <2>3 DEF Place, Futures, Told, Replies, Booked, Entry
<1>7. CASE Reply(r)
  <2>1. /\ stage[r] = "replying"
        /\ stage'[r] = IF outcome[r] = "timeout" /\ call[r].via = "rest"
                       THEN "releasing" ELSE "done"
        /\ outcome'[r] = outcome[r] /\ reply'[r] = outcome[r] /\ tally'[r] = tally[r]
    BY <1>7 DEF Reply, Goes, TypeOK
  <2> QED
    BY <1>0, <2>1 DEF Place, Futures, Booked, Told
<1>8. CASE Release(r)
  <2>1. /\ stage[r] = "releasing"
        /\ stage'[r] = IF call[r].via = "rest" THEN "done" ELSE "replying"
        /\ outcome'[r] = outcome[r] /\ reply'[r] = reply[r] /\ tally'[r] = tally[r]
    BY <1>8 DEF Release, Goes, TypeOK
  <2> QED
    BY <1>0, <2>1 DEF Place, Futures, Booked, Told, Replies
<1> QED
  BY <1>1, <1>2, <1>3, <1>4, <1>5, <1>6, <1>7, <1>8 DEF Handler

\* A refused request is counted as an error before its client hears of it.
LEMMA RefusePlace ==
  ASSUME TypeOK, NEW r \in Requests, NEW via \in Vias, NEW target \in Targets,
         Place(r), Refuse(r, via, target)
  PROVE  /\ Place(r)' /\ stage[r] = "idle" /\ stage'[r] = "replying"
         /\ call'[r].via = via
         /\ \A q \in Requests : q # r => Same(q)
<1>1. /\ stage[r] = "idle" /\ stage'[r] = "replying"
      /\ call'[r] = [via |-> via, target |-> target]
      /\ outcome'[r] \in {"not found", "bad request"}
      /\ future'[r] = future[r] /\ reply'[r] = reply[r]
      /\ timed' = timed
  BY DEF Refuse, Arrives, TypeOK, model
<1>2. Count(r, "err") /\ \A q \in Requests : q # r => Same(q)
  <2>1. Count(r, "err")
    BY DEF Refuse
  <2>2. \A q \in Requests : q # r => tally'[q] = tally[q]
    BY <2>1, CountEffect
  <2> QED
    BY <2>1, <2>2 DEF Refuse, TypeOK, model, Same
<1>3. tally[r] = Counters(0, 0, 0, 0) /\ reply[r] = "none" /\ future[r] = "none"
  BY <1>1 DEF Place, Booked, Told, Futures, Nothing
<1>4. tally'[r] = Counters(0, 1, 0, 0)
  <2>1. tally'[r] \in [{"ok", "err", "timeouts", "latency"} -> Nat]
    BY <1>2, CountEffect
  <2>2. /\ tally[r]["ok"] = 0 /\ tally[r]["err"] = 0
        /\ tally[r]["timeouts"] = 0 /\ tally[r]["latency"] = 0
    BY <1>3, CountersEntries
  <2>3. /\ tally'[r]["ok"] = tally[r]["ok"] /\ tally'[r]["err"] = tally[r]["err"] + 1
        /\ tally'[r]["timeouts"] = tally[r]["timeouts"]
        /\ tally'[r]["latency"] = tally[r]["latency"]
    BY <1>2, CountEffect
  <2> QED
    BY <2>1, <2>2, <2>3, CountersUnique
<1>5. call'[r] \in Calls /\ call'[r].via = via
  <2>1. call'[r] = [via |-> via, target |-> target]
    BY <1>1
  <2> QED
    BY <2>1 DEF Calls
<1> QED
  BY <1>1, <1>2, <1>3, <1>4, <1>5 DEF Place, Futures, Booked, Told, Entry, Replies

\* An accepted request waits, uncounted, for a future that is not settled.
LEMMA AcquirePlace ==
  ASSUME TypeOK, NEW r \in Requests, NEW via \in Vias, NEW target \in Targets,
         Place(r), Acquire(r, via, target)
  PROVE  /\ Place(r)' /\ stage[r] = "idle" /\ stage'[r] = "waiting"
         /\ call'[r].via = via
         /\ \A q \in Requests : q # r => Same(q)
<1>1. stage[r] = "idle"
  BY DEF Acquire, Arrives
<1>2. /\ stage'[r] = "waiting" /\ future'[r] = "pending"
      /\ call'[r] = [via |-> via, target |-> target]
      /\ outcome'[r] = outcome[r] /\ reply'[r] = reply[r] /\ tally'[r] = tally[r]
      /\ timed' = timed
      /\ \A q \in Requests : q # r => Same(q)
  BY AcquireEffect DEF TypeOK, Same
<1>3. call'[r] \in Calls /\ call'[r].via = via
  BY <1>2 DEF Calls
<1> QED
  BY <1>1, <1>2, <1>3 DEF Place, Futures, Booked, Told

\* A future is settled only while it is pending, so the model's answer finds the
\* handler waiting, or too late to matter.
LEMMA AnswerPlace ==
  ASSUME TypeOK, NEW r \in Requests, NEW how \in {"ok", "error"}, Place(r),
         future[r] = "pending", future' = [future EXCEPT ![r] = how],
         UNCHANGED <<timed, call, stage, outcome, reply, tally>>
  PROVE  Place(r)'
<1>1. future'[r] = how
  BY DEF TypeOK
<1> QED
  BY <1>1 DEF Place, Futures, Booked, Told

\* Every step leaves every request in its place.
LEMMA PlaceNext ==
  ASSUME TypeOK, \A r \in Requests : Place(r), [Next]_vars
  PROVE  \A r \in Requests : Place(r)'
<1> SUFFICES ASSUME NEW q \in Requests
             PROVE  Place(q)'
  OBVIOUS
<1>1. ASSUME NEW r \in Requests, Arrival(r)
      PROVE  Place(q)'
  <2>1. PICK via \in Vias, target \in Targets :
          Refuse(r, via, target) \/ Acquire(r, via, target)
    BY <1>1 DEF Arrival
  <2>2. Place(r)' /\ (q # r => Same(q)) /\ timed' = timed
    BY <2>1, RefusePlace, AcquirePlace DEF Refuse, Acquire
  <2> QED
    BY <2>2, PlaceFrame
<1>2. ASSUME NEW r \in Requests, Handler(r)
      PROVE  Place(q)'
  BY <1>2, HandlerFrame, HandlerPlace, PlaceFrame
<1>3. ASSUME NEW r \in Requests, NEW how \in {"ok", "error"},
             future[r] = "pending", future' = [future EXCEPT ![r] = how],
             UNCHANGED <<timed, call, stage, outcome, reply, tally>>
      PROVE  Place(q)'
  <2>1. CASE q = r
    BY <1>3, <2>1, AnswerPlace
  <2>2. CASE q # r
    BY <1>3, <2>2, PlaceFrame DEF Same, TypeOK
  <2> QED
    BY <2>1, <2>2
<1>4. ASSUME NEW r \in Requests, AsyncAnswers(r)
      PROVE  Place(q)'
  <2>1. PICK how \in {"ok", "error"} : future' = [future EXCEPT ![r] = how]
    BY <1>4 DEF AsyncAnswers
  <2> QED
    BY <1>3, <1>4, <2>1 DEF AsyncAnswers
<1>5. CASE BatchAnswers
  <2>1. UNCHANGED <<timed, call, stage, outcome, reply, tally>>
    BY <1>5 DEF BatchAnswers
  <2> QED
    BY <1>3, <1>5, <2>1, BatchEffect
<1>6. CASE UNCHANGED <<timed, call, stage, outcome, reply, future, tally>>
  BY <1>6, PlaceFrame DEF Same
<1> QED
  BY <1>1, <1>2, <1>4, <1>5, <1>6 DEF Next, Idle, vars, OpenStream, EndStream, model

-------------------------------------------------------------------------------
(* The streams *)

\* What IInv says of the streams.
Streamed == /\ \A r \in Requests : OfStream(r)
            /\ \A s \in Streams : InStream(s)

\* A request that is being handled is the last its stream has read, and no other
\* stream has read it.
LEMMA HandledIsLast ==
  ASSUME TypeOK, Streamed, NEW r \in Requests, Handled(r),
         NEW s \in Streams, NEW i \in DOMAIN reads[s], reads[s][i] = r
  PROVE  call[r].via = s /\ stream[s] = "inferring" /\ ~(i < Len(reads[s]))
<1>1. InStream(s) /\ OfStream(r)
  BY DEF Streamed
<1>2. call[r].via = s
  BY <1>1 DEF InStream
<1>3. stream[s] = "inferring"
  BY <1>1, <1>2 DEF OfStream
<1>4. stage[r] # "done"
  BY DEF Handled
<1> QED
  BY <1>1, <1>2, <1>3, <1>4 DEF InStream

\* A step of a handler before it answers.
LEMMA HandlingStreamed ==
  ASSUME TypeOK, Streamed, NEW r \in Requests, Handled(r), stage'[r] # "idle",
         Handled(r)' \/ call[r].via \notin Streams,
         UNCHANGED <<call, stream, reads>>,
         \A q \in Requests : q # r => Same(q)
  PROVE  Streamed'
<1>1. ASSUME NEW q \in Requests
      PROVE  OfStream(q)'
  <2>1. OfStream(q)
    BY DEF Streamed
  <2>2. CASE q = r
    BY <2>1, <2>2 DEF OfStream, Handled
  <2>3. CASE q # r
    BY <2>1, <2>3 DEF OfStream, Handled, Same
  <2> QED
    BY <2>2, <2>3
<1>2. ASSUME NEW s \in Streams
      PROVE  InStream(s)'
  <2>1. InStream(s)
    BY DEF Streamed
  <2>2. ASSUME NEW i \in DOMAIN reads[s]
        PROVE  /\ stage'[reads[s][i]] # "idle" /\ call[reads[s][i]].via = s
               /\ i < Len(reads[s]) \/ stream[s] # "inferring"
                    => stage'[reads[s][i]] = "done"
               /\ i < Len(reads[s]) \/ stream[s] = "reading"
                    => outcome'[reads[s][i]] = "ok"
    <3>1. CASE reads[s][i] = r
      BY <2>1, <3>1, HandledIsLast DEF InStream
    <3>2. CASE reads[s][i] # r
      <4>1. reads[s][i] \in Requests
        BY DEF TypeOK
      <4>2. /\ stage'[reads[s][i]] = stage[reads[s][i]]
            /\ outcome'[reads[s][i]] = outcome[reads[s][i]]
        BY <3>2, <4>1 DEF Same
      <4> QED
        BY <2>1, <4>2 DEF InStream
    <3> QED
      BY <3>1, <3>2
  <2> QED
    BY <2>1, <2>2 DEF InStream
<1> QED
  BY <1>1, <1>2 DEF Streamed

\* The answer to the last request of a stream.
LEMMA ReplyStreamed ==
  ASSUME TypeOK, Streamed, NEW r \in Requests, Reply(r), call[r].via \in Streams
  PROVE  Streamed'
<1> DEFINE v == call[r].via
<1>1. /\ stage[r] = "replying" /\ stage'[r] = "done"
      /\ outcome'[r] = outcome[r] /\ UNCHANGED <<call, reads>>
      /\ stream'[v] = (IF outcome[r] = "ok" THEN "reading" ELSE "ended")
      /\ \A s \in Streams : s # v => stream'[s] = stream[s]
  BY StreamsAssumption DEF Reply, Goes, TypeOK
<1>2. \A q \in Requests : q # r => Same(q)
  BY HandlerFrame DEF Handler
<1>3. Handled(r) /\ stream[v] = "inferring" /\ reads[v] # <<>> /\ r = reads[v][Len(reads[v])]
  BY <1>1 DEF Streamed, OfStream, Handled
<1>4. ASSUME NEW q \in Requests
      PROVE  OfStream(q)'
  <2>1. OfStream(q)
    BY DEF Streamed
  <2>2. CASE q = r
    BY <2>2, <1>1 DEF OfStream, Handled
  <2>3. CASE q # r
    <3>1. Same(q)
      BY <2>3, <1>2
    <3>2. Handled(q) /\ call[q].via \in Streams => call[q].via # v
      BY <2>1, <2>3, <1>3 DEF OfStream
    <3> QED
      BY <2>1, <3>1, <3>2, <1>1 DEF OfStream, Handled, Same
  <2> QED
    BY <2>2, <2>3
<1>5. ASSUME NEW s \in Streams
      PROVE  InStream(s)'
  <2>1. InStream(s) /\ reads[s] \in Seq(Requests)
    BY DEF Streamed, TypeOK
  <2>2. s = v => stream'[s] # "unopened"
    BY <1>1
  <2>3. ASSUME NEW i \in DOMAIN reads[s]
        PROVE  /\ stage'[reads[s][i]] # "idle" /\ call[reads[s][i]].via = s
               /\ i < Len(reads[s]) \/ stream'[s] # "inferring"
                    => stage'[reads[s][i]] = "done"
               /\ i < Len(reads[s]) \/ stream'[s] = "reading"
                    => outcome'[reads[s][i]] = "ok"
    <3>1. CASE reads[s][i] = r
      <4>1. v = s /\ ~(i < Len(reads[s]))
        BY <3>1, <1>3, HandledIsLast
      <4> QED
        BY <3>1, <4>1, <1>1
    <3>2. CASE reads[s][i] # r
      <4>1. Same(reads[s][i])
        BY <2>1, <3>2, <1>2
      <4>2. s = v => i < Len(reads[s])
        BY <2>1, <3>2, <1>3
      <4> QED
        BY <2>1, <4>1, <4>2, <1>1 DEF InStream, Same
    <3> QED
      BY <3>1, <3>2
  <2> QED
    BY <2>1, <2>2, <2>3, <1>1 DEF InStream
<1> QED
  BY <1>4, <1>5 DEF Streamed

\* A request that arrives in a stream that has answered all it has read.
LEMMA ArrivalStreamed ==
  ASSUME TypeOK, Streamed, NEW r \in Requests, NEW via \in Vias, Arrives(r, via),
         stage'[r] # "idle", call'[r].via = via,
         \A q \in Requests : q # r => Same(q)
  PROVE  Streamed'
<1>1. /\ stage[r] = "idle"
      /\ via \in Streams => stream[via] = "reading" /\ stream'[via] = "inferring"
                            /\ reads'[via] = Append(reads[via], r)
      /\ \A s \in Streams : s # via => stream'[s] = stream[s] /\ reads'[s] = reads[s]
  <2>1. stage[r] = "idle" /\ (via \notin Streams => stream' = stream /\ reads' = reads)
    BY ArrivalEffect
  <2>2. via \in Streams =>
          /\ stream[via] = "reading"
          /\ stream' = [stream EXCEPT ![via] = "inferring"]
          /\ reads' = [reads EXCEPT ![via] = Append(reads[via], r)]
    BY ArrivalEffect
  <2> QED
    BY <2>1, <2>2 DEF TypeOK
<1>2. ASSUME NEW q \in Requests
      PROVE  OfStream(q)'
  <2>1. OfStream(q)
    BY DEF Streamed
  <2>2. CASE q = r /\ via \in Streams
    <3>1. reads[via] \in Seq(Requests)
      BY <2>2 DEF TypeOK
    <3>2. reads'[via] # <<>> /\ reads'[via][Len(reads'[via])] = r
      BY <2>2, <3>1, <1>1
    <3> QED
      BY <2>2, <3>2, <1>1 DEF OfStream
  <2>3. CASE q = r /\ via \notin Streams
    BY <2>3 DEF OfStream
  <2>4. CASE q # r
    <3>1. Same(q)
      BY <2>4
    <3>2. Handled(q) /\ call[q].via \in Streams => call[q].via # via
      BY <2>1, <1>1 DEF OfStream
    <3> QED
      BY <2>1, <3>1, <3>2, <1>1 DEF OfStream, Handled, Same
  <2> QED
    BY <2>2, <2>3, <2>4
<1>3. ASSUME NEW s \in Streams
      PROVE  InStream(s)'
  <2>1. InStream(s) /\ reads[s] \in Seq(Requests)
    BY DEF Streamed, TypeOK
  <2>2. \A i \in DOMAIN reads[s] : Same(reads[s][i])
    <3>1. \A i \in DOMAIN reads[s] : reads[s][i] \in Requests /\ reads[s][i] # r
      BY <2>1, <1>1 DEF InStream
    <3> QED
      BY <3>1
  <2>3. CASE s # via
    BY <2>1, <2>2, <2>3, <1>1 DEF InStream, Same
  <2>4. CASE s = via
    <3>1. \A i \in DOMAIN reads[s] :
            /\ stage'[reads[s][i]] = "done" /\ call'[reads[s][i]].via = s
            /\ outcome'[reads[s][i]] = "ok"
      BY <2>1, <2>2, <2>4, <1>1 DEF InStream, Same
    <3>2. stream'[s] = "inferring" /\ reads'[s] = Append(reads[s], r)
      BY <2>4, <1>1
    <3>3. ASSUME NEW i \in DOMAIN reads'[s]
          PROVE  \/ i \in DOMAIN reads[s] /\ reads'[s][i] = reads[s][i]
                 \/ reads'[s][i] = r /\ ~(i < Len(reads'[s]))
      BY <2>1, <3>2
    <3>4. ASSUME NEW i \in DOMAIN reads'[s]
          PROVE  /\ stage'[reads'[s][i]] # "idle" /\ call'[reads'[s][i]].via = s
                 /\ i < Len(reads'[s]) => stage'[reads'[s][i]] = "done"
                 /\ i < Len(reads'[s]) => outcome'[reads'[s][i]] = "ok"
      BY <2>4, <3>1, <3>3
    <3> QED
      BY <3>2, <3>4 DEF InStream
  <2> QED
    BY <2>3, <2>4
<1> QED
  BY <1>2, <1>3 DEF Streamed

\* A stream that opens has read nothing; one that ends has answered everything.
LEMMA StreamStreamed ==
  ASSUME TypeOK, Streamed, NEW s \in Streams, OpenStream(s) \/ EndStream(s)
  PROVE  Streamed'
<1>1. UNCHANGED <<call, stage, outcome, reads>>
  BY DEF OpenStream, EndStream
<1>2. \/ stream[s] = "unopened" /\ stream'[s] = "reading"
      \/ stream[s] = "reading" /\ stream'[s] = "ended"
  BY DEF OpenStream, EndStream, TypeOK
<1>3. \A t \in Streams : t # s => stream'[t] = stream[t]
  BY DEF OpenStream, EndStream, TypeOK
<1>4. ASSUME NEW q \in Requests
      PROVE  OfStream(q)'
  <2>1. OfStream(q)
    BY DEF Streamed
  <2>2. Handled(q) /\ call[q].via \in Streams => call[q].via # s
    BY <2>1, <1>2 DEF OfStream
  <2> QED
    BY <2>1, <2>2, <1>1, <1>3 DEF OfStream, Handled
<1>5. ASSUME NEW t \in Streams
      PROVE  InStream(t)'
  <2>1. InStream(t)
    BY DEF Streamed
  <2>2. CASE t # s
    BY <2>1, <2>2, <1>1, <1>3 DEF InStream
  <2>3. CASE t = s /\ stream[s] = "unopened"
    BY <2>1, <2>3, <1>1, <1>2 DEF InStream
  <2>4. CASE t = s /\ stream[s] = "reading" /\ stream'[s] = "ended"
    BY <2>1, <2>4, <1>1 DEF InStream
  <2> QED
    BY <2>2, <2>3, <2>4, <1>2
<1> QED
  BY <1>4, <1>5 DEF Streamed

-------------------------------------------------------------------------------
(* The invariant *)

LEMMA StreamedNext ==
  ASSUME TypeOK, \A r \in Requests : Place(r), Streamed, [Next]_vars
  PROVE  Streamed'
<1>1. ASSUME NEW r \in Requests, Arrival(r)
      PROVE  Streamed'
  <2>1. PICK via \in Vias, target \in Targets :
          Refuse(r, via, target) \/ Acquire(r, via, target)
    BY <1>1 DEF Arrival
  <2>2. /\ stage'[r] # "idle" /\ call'[r].via = via
        /\ \A q \in Requests : q # r => Same(q)
    BY <2>1, RefusePlace, AcquirePlace
  <2> QED
    BY <2>1, <2>2, ArrivalStreamed DEF Refuse, Acquire
<1>2. ASSUME NEW r \in Requests, Handler(r), ~(Reply(r) /\ call[r].via \in Streams)
      PROVE  Streamed'
  <2>1. Handled(r)
    BY <1>2 DEF Handler, GetResult, TimeOut, RecordOutcome, RecordLatency, RecordTimeout,
                RecordRejected, Reply, Release, Goes, Handled
  <2>2. stage'[r] # "idle" /\ (Handled(r)' \/ call[r].via \notin Streams)
    <3>1. CASE Reply(r)
      BY <1>2, <3>1 DEF Reply, Goes, TypeOK
    <3>2. CASE Release(r)
      BY <3>2, StreamsAssumption DEF Release, Goes, TypeOK, Handled
    <3>3. CASE GetResult(r) \/ TimeOut(r)
      BY <3>3 DEF GetResult, TimeOut, Goes, TypeOK, Handled
    <3>4. CASE RecordOutcome(r) \/ RecordLatency(r) \/ RecordTimeout(r) \/ RecordRejected(r)
      BY <3>4 DEF RecordOutcome, RecordLatency, RecordTimeout, RecordRejected, Goes,
                  TypeOK, Handled
    <3> QED
      BY <1>2, <3>1, <3>2, <3>3, <3>4 DEF Handler
  <2>3. stream' = stream
    <3>1. CASE Reply(r)
      BY <1>2, <3>1 DEF Reply
    <3> QED
      BY <1>2, <3>1, HandlerFrame
  <2> QED
    BY <1>2, <2>1, <2>2, <2>3, HandlerFrame, HandlingStreamed
<1>3. CASE UNCHANGED <<call, stage, outcome, stream, reads>>
  BY <1>3 DEF Streamed, OfStream, InStream, Handled
<1> QED
  BY <1>1, <1>2, <1>3, ReplyStreamed, StreamStreamed
     DEF Next, Idle, vars, AsyncAnswers, BatchAnswers, streams

LEMMA InitIInv == Init => IInv
<1> SUFFICES ASSUME Init
             PROVE  IInv
  OBVIOUS
<1>1. TypeOK
  BY DEF Init, TypeOK, Stages, Nothing, Counters
<1>2. ASSUME NEW r \in Requests
      PROVE  stage[r] = "idle" /\ Futures(r) /\ Booked(r) /\ Told(r) /\ OfStream(r)
  BY DEF Init, Futures, Booked, Told, OfStream, Handled
<1>3. ASSUME NEW s \in Streams
      PROVE  InStream(s)
  BY DEF Init, InStream
<1> QED
  BY <1>1, <1>2, <1>3 DEF IInv

LEMMA InvariantNext == IInv /\ [Next]_vars => IInv'
<1> SUFFICES ASSUME IInv, [Next]_vars
             PROVE  IInv'
  OBVIOUS
<1>1. TypeOK /\ Streamed /\ \A r \in Requests : Place(r)
  BY DEF IInv, Streamed, Place
<1>2. TypeOK'
  BY <1>1, TypeNext
<1>3. \A r \in Requests : Place(r)'
  BY <1>1, PlaceNext
<1>4. Streamed'
  BY <1>1, StreamedNext
<1> QED
  BY <1>2, <1>3, <1>4 DEF IInv, Streamed, Place

-------------------------------------------------------------------------------
(* The theorems *)

\* What each place of the handlers of handlers.cpp and inference_service.cpp
\* implies for future, counters, client and stream holds always.
THEOREM InductiveInvariant == Spec => []IInv
BY InitIInv, InvariantNext, PTL DEF Spec

\* Every variable keeps its type.
THEOREM TypeCorrect == Spec => []TypeOK
<1>1. IInv => TypeOK
  BY DEF IInv
<1> QED
  BY <1>1, InductiveInvariant, PTL

\* A request a client has an answer to is counted once, as what he was told:
\* record_request, record_timeout and record_rejected.
THEOREM CountedOnceAlways == Spec => []CountedOnce
<1>1. IInv => CountedOnce
  <2> SUFFICES ASSUME IInv, NEW r \in Requests, reply[r] # "none"
               PROVE  tally[r] = Entry(reply[r])
    BY DEF CountedOnce
  <2>1. Booked(r) /\ Told(r)
    BY DEF IInv
  <2> QED
    BY <2>1 DEF Booked, Told
<1> QED
  BY <1>1, InductiveInvariant, PTL

\* Nobody is told anything but what became of his request: the branches of the
\* handlers on the timeout, the result and the refusals.
THEOREM HonestReplyAlways == Spec => []HonestReply
<1>1. IInv => HonestReply
  <2> SUFFICES ASSUME IInv, NEW r \in Requests, reply[r] # "none"
               PROVE  /\ reply[r] \in {"ok", "error"} => reply[r] = future[r]
                      /\ reply[r] = "timeout" => timed /\ future[r] # "none"
                      /\ reply[r] \in {"not found", "bad request"} => future[r] = "none"
    BY DEF HonestReply
  <2>1. Futures(r) /\ Told(r)
    BY DEF IInv
  <2>2. reply[r] = outcome[r] /\ stage[r] \in {"done", "releasing"}
    BY <2>1 DEF Told
  <2> QED
    BY <2>1, <2>2 DEF Futures
<1> QED
  BY <1>1, InductiveInvariant, PTL

\* A stream answers in the order it reads, everything before the last request
\* with success: the loop of ModelStreamInfer.
THEOREM StreamAnswersInOrderAlways == Spec => []StreamAnswersInOrder
<1>1. IInv => StreamAnswersInOrder
  <2> SUFFICES ASSUME IInv, NEW s \in Streams, NEW i \in DOMAIN reads[s]
               PROVE  /\ i < Len(reads[s]) => reply[reads[s][i]] = "ok"
                      /\ stream[s] = "ended" => reply[reads[s][i]] # "none"
    BY DEF StreamAnswersInOrder
  <2> DEFINE r == reads[s][i]
  <2>1. r \in Requests
    BY DEF IInv, TypeOK
  <2>2. InStream(s) /\ Futures(r) /\ Told(r)
    BY <2>1 DEF IInv
  <2>3. /\ i < Len(reads[s]) \/ stream[s] # "inferring" => stage[r] = "done"
        /\ i < Len(reads[s]) \/ stream[s] = "reading" => outcome[r] = "ok"
    BY <2>2 DEF InStream
  <2>4. stage[r] = "done" => reply[r] = outcome[r] /\ outcome[r] \in Replies
    BY <2>2 DEF Told, Futures
  <2> QED
    BY <2>3, <2>4 DEF Replies
<1> QED
  BY <1>1, InductiveInvariant, PTL

\* Once answered, a client is not answered again and its counters stay: no path
\* of the handlers returns to them after the callback or the returned status.
THEOREM AnsweredOnceAlways == Spec => AnsweredOnce
<1>1. IInv /\ [Next]_vars =>
        [\A r \in Requests : reply[r] # "none" => UNCHANGED <<reply[r], tally[r]>>]_vars
  <2> SUFFICES ASSUME IInv, [Next]_vars, NEW q \in Requests, reply[q] # "none"
               PROVE  reply'[q] = reply[q] /\ tally'[q] = tally[q]
    OBVIOUS
  <2>1. /\ stage[q] = "done" \/ (stage[q] = "releasing" /\ call[q].via = "rest")
        /\ TypeOK /\ Place(q)
    BY DEF IInv, Told, Place
  <2>2. ASSUME NEW r \in Requests, Arrival(r)
        PROVE  Same(q)
    <3>1. PICK via \in Vias, target \in Targets :
            Refuse(r, via, target) \/ Acquire(r, via, target)
      BY <2>2 DEF Arrival
    <3>2. Place(r)
      BY DEF IInv, Place
    <3>3. stage[r] = "idle" /\ \A p \in Requests : p # r => Same(p)
      BY <2>1, <3>1, <3>2, RefusePlace, AcquirePlace
    <3> QED
      BY <2>1, <3>3
  <2>3. ASSUME NEW r \in Requests, Handler(r)
        PROVE  reply'[q] = reply[q] /\ tally'[q] = tally[q]
    <3>1. CASE q # r
      BY <2>1, <2>3, <3>1, HandlerFrame DEF Same
    <3>2. CASE q = r
      <4>1. Release(r)
        BY <2>1, <2>3, <3>2 DEF Handler, GetResult, TimeOut, RecordOutcome, RecordLatency,
           RecordTimeout, RecordRejected, Reply, Release, Goes
      <4> QED
        BY <3>2, <4>1 DEF Release
    <3> QED
      BY <3>1, <3>2
  <2>4. CASE UNCHANGED <<reply, tally>>
    BY <2>4
  <2> QED
    BY <2>2, <2>3, <2>4
       DEF Same, Next, Idle, vars, AsyncAnswers, BatchAnswers, OpenStream, EndStream
<1> QED
  BY <1>1, InductiveInvariant, PTL DEF Spec, AnsweredOnce

-------------------------------------------------------------------------------
(* The Batcher's part *)

LEMMA PromisedIs ==
  ASSUME NEW r \in Requests
  PROVE  /\ Promised[r] = IF Batched(r) THEN future[r] ELSE "none"
         /\ Promised'[r] = IF Batched(r)' THEN future'[r] ELSE "none"
BY DEF Promised

\* What keeps the line and the futures of the Batcher's keeps InLine.
LEMMA InLineFrame ==
  ASSUME InLine, line' = line, \A q \in Requests : Promised'[q] = Promised[q]
  PROVE  InLine' /\ [Own!Next]_Own!vars
<1>1. Promised' = Promised
  BY DEF Promised
<1> QED
  BY <1>1 DEF InLine, Own!vars

LEMMA AcceptInLine ==
  ASSUME IInv, InLine, NEW r \in Requests, NEW via \in Vias, NEW target \in Targets,
         Acquire(r, via, target)
  PROVE  InLine' /\ [Own!Next]_Own!vars
<1>1. TypeOK /\ stage[r] = "idle"
  BY DEF IInv, Acquire, Arrives
<1>2. /\ call' = [call EXCEPT ![r] = [via |-> via, target |-> target]]
      /\ stage' = [stage EXCEPT ![r] = "waiting"]
      /\ future' = [future EXCEPT ![r] = "pending"]
  BY <1>1, AcquireEffect
<1>3. \A q \in Requests : q # r => Promised'[q] = Promised[q]
  <2> SUFFICES ASSUME NEW q \in Requests, q # r
               PROVE  Promised'[q] = Promised[q]
    OBVIOUS
  <2>1. stage'[q] = stage[q] /\ call'[q] = call[q] /\ future'[q] = future[q]
    BY <1>1, <1>2 DEF TypeOK
  <2> QED
    BY <2>1, PromisedIs DEF Batched
<1>4. stage'[r] = "waiting" /\ call'[r].target = target /\ future'[r] = "pending"
  BY <1>1, <1>2 DEF TypeOK
<1>5. Promised[r] = "none"
  BY <1>1, PromisedIs DEF Batched
<1>6. CASE target = "direct" /\ line' = line
  <2>1. Promised'[r] = "none"
    BY <1>4, <1>6, PromisedIs DEF Batched
  <2> QED
    BY <1>3, <1>5, <1>6, <2>1, InLineFrame
<1>7. CASE target = "batched" /\ Batch!Accept(r)
  <2>1. line' = Append(line, r) /\ Promised'[r] = "pending"
    BY <1>4, <1>7, PromisedIs DEF Batched, Batch!Accept
  <2>2. Promised' = [Promised EXCEPT ![r] = "pending"]
    BY <1>3, <2>1 DEF Promised
  <2>3. Own!Accept(r)
    BY <1>5, <2>1, <2>2 DEF Own!Accept
  <2>4. /\ line \in Seq(Requests) /\ Len(line) \in Nat /\ DOMAIN line = 1 .. Len(line)
        /\ DOMAIN line' = 1 .. Len(line) + 1
        /\ \A i \in 1 .. Len(line) : line'[i] = line[i]
        /\ line'[Len(line) + 1] = r
    BY <1>1, <2>1 DEF TypeOK
  <2>5. \A i \in DOMAIN line : line[i] # r
    BY <1>5 DEF InLine
  <2>6. \A q \in Requests : Promised'[q] = "pending" <=> \E i \in DOMAIN line' : line'[i] = q
    <3> SUFFICES ASSUME NEW q \in Requests
                 PROVE  Promised'[q] = "pending" <=> \E i \in DOMAIN line' : line'[i] = q
      OBVIOUS
    <3>1. CASE q = r
      BY <2>1, <2>4, <3>1
    <3>2. CASE q # r
      <4>1. Promised[q] = "pending" <=> \E i \in DOMAIN line : line[i] = q
        BY DEF InLine
      <4>2. (\E i \in DOMAIN line : line[i] = q) <=> \E i \in DOMAIN line' : line'[i] = q
        BY <2>4, <3>2
      <4> QED
        BY <1>3, <3>2, <4>1, <4>2
    <3> QED
      BY <3>1, <3>2
  <2>7. \A i, j \in DOMAIN line' : line'[i] = line'[j] => i = j
    <3>1. \A i, j \in DOMAIN line : line[i] = line[j] => i = j
      BY DEF InLine
    <3> QED
      BY <2>4, <2>5, <3>1
  <2>8. InLine'
    BY <2>6, <2>7 DEF InLine
  <2> QED
    BY <2>3, <2>8 DEF Own!Next
<1> QED
  BY <1>6, <1>7 DEF Acquire

LEMMA ServeInLine ==
  ASSUME IInv, InLine, BatchAnswers
  PROVE  InLine' /\ [Own!Next]_Own!vars
<1>1. TypeOK /\ stage' = stage /\ call' = call
  BY DEF IInv, BatchAnswers
<1>2. PICK how \in {"ok", "error"} : Batch!AnswerHead(how)
  BY DEF BatchAnswers, Batch!Serve
<1> DEFINE h == Head(line)
<1>3. /\ line # << >> /\ line' = Tail(line) /\ future[h] = "pending"
      /\ future' = [future EXCEPT ![h] = how]
  BY <1>2 DEF Batch!AnswerHead
<1>4. /\ line \in Seq(Requests) /\ Len(line) \in Nat /\ Len(line) >= 1 /\ h = line[1]
      /\ DOMAIN line = 1 .. Len(line) /\ DOMAIN line' = 1 .. Len(line) - 1
      /\ \A i \in 1 .. Len(line) - 1 : line'[i] = line[i + 1]
      /\ h \in Requests /\ 1 \in DOMAIN line
  BY <1>1, <1>3 DEF TypeOK
<1> HIDE DEF h
<1>5. Promised[h] = "pending"
  BY <1>4 DEF InLine
<1>6. Batched(h) /\ \A q \in Requests : Batched(q)' = Batched(q)
  BY <1>1, <1>4, <1>5, PromisedIs DEF Batched
<1>7. Promised'[h] = how /\ \A q \in Requests : q # h => Promised'[q] = Promised[q]
  <2>1. future'[h] = how /\ \A q \in Requests : q # h => future'[q] = future[q]
    BY <1>1, <1>3, <1>4 DEF TypeOK
  <2> QED
    BY <1>4, <1>6, <2>1, PromisedIs
<1>8. Promised' = [Promised EXCEPT ![h] = how]
  BY <1>7 DEF Promised
<1>9. Own!AnswerHead(how)
  BY <1>3, <1>5, <1>8 DEF Own!AnswerHead, h
<1>10. \A q \in Requests : Promised'[q] = "pending" <=> \E i \in DOMAIN line' : line'[i] = q
  <2> SUFFICES ASSUME NEW q \in Requests
               PROVE  Promised'[q] = "pending" <=> \E i \in DOMAIN line' : line'[i] = q
    OBVIOUS
  <2>1. /\ Promised[q] = "pending" <=> \E i \in DOMAIN line : line[i] = q
        /\ \A i, j \in DOMAIN line : line[i] = line[j] => i = j
    BY DEF InLine
  <2>2. CASE q = h
    <3>1. \A i \in DOMAIN line' : i + 1 \in DOMAIN line /\ i + 1 # 1 /\ line'[i] = line[i + 1]
      BY <1>4
    <3>2. \A i \in DOMAIN line' : line'[i] # q
      BY <1>4, <2>1, <2>2, <3>1
    <3> QED
      BY <1>7, <2>2, <3>2
  <2>3. CASE q # h
    <3>1. (\E i \in DOMAIN line : line[i] = q) => \E i \in DOMAIN line' : line'[i] = q
      <4> SUFFICES ASSUME NEW i \in DOMAIN line, line[i] = q
                   PROVE  \E j \in DOMAIN line' : line'[j] = q
        OBVIOUS
      <4>1. i # 1
        BY <1>4, <2>3
      <4>2. i - 1 \in DOMAIN line' /\ line'[i - 1] = line[(i - 1) + 1] /\ (i - 1) + 1 = i
        BY <1>4, <4>1
      <4> QED
        BY <4>2
    <3>2. (\E i \in DOMAIN line' : line'[i] = q) => \E i \in DOMAIN line : line[i] = q
      BY <1>4
    <3> QED
      BY <1>7, <2>1, <2>3, <3>1, <3>2
  <2> QED
    BY <2>2, <2>3
<1>11. \A i, j \in DOMAIN line' : line'[i] = line'[j] => i = j
  <2> SUFFICES ASSUME NEW i \in DOMAIN line', NEW j \in DOMAIN line', line'[i] = line'[j]
               PROVE  i = j
    OBVIOUS
  <2>1. i + 1 \in DOMAIN line /\ j + 1 \in DOMAIN line /\ line[i + 1] = line[j + 1]
    BY <1>4
  <2>2. i + 1 = j + 1
    BY <2>1 DEF InLine
  <2> QED
    BY <1>4, <2>2
<1>12. InLine'
  BY <1>10, <1>11 DEF InLine
<1>13. Own!Serve
  BY <1>9 DEF Own!Serve
<1> QED
  BY <1>12, <1>13 DEF Own!Next

\* No other step is one of the line's.
LEMMA OthersInLine ==
  ASSUME IInv, InLine, line' = line,
         \A q \in Requests :
           \/ stage[q] = "idle" /\ stage'[q] # "idle" /\ call'[q].target # "batched"
           \/ /\ stage'[q] = "idle" <=> stage[q] = "idle"
              /\ call'[q] = call[q]
              /\ future'[q] = future[q] \/ ~Batched(q)
  PROVE  InLine' /\ [Own!Next]_Own!vars
<1>1. ASSUME NEW q \in Requests
      PROVE  Promised'[q] = Promised[q]
  BY PromisedIs DEF Batched
<1> QED
  BY <1>1, InLineFrame

LEMMA InLineNext ==
  ASSUME IInv, InLine, [Next]_vars
  PROVE  InLine' /\ [Own!Next]_Own!vars
<1>1. TypeOK /\ \A r \in Requests : Futures(r)
  BY DEF IInv
<1>2. ASSUME NEW r \in Requests, NEW via \in Vias, NEW target \in Targets, Refuse(r, via, target)
      PROVE  InLine' /\ [Own!Next]_Own!vars
  <2>1. /\ stage[r] = "idle" /\ stage' = [stage EXCEPT ![r] = "replying"]
        /\ call' = [call EXCEPT ![r] = [via |-> via, target |-> target]]
        /\ line' = line /\ future' = future /\ target # "batched"
    BY <1>2 DEF Refuse, Arrives, model
  <2>2. stage'[r] # "idle" /\ call'[r].target # "batched"
    BY <1>1, <2>1 DEF TypeOK
  <2>3. \A q \in Requests : q # r => /\ stage'[q] = stage[q] /\ call'[q] = call[q]
                                     /\ future'[q] = future[q]
    BY <1>1, <2>1 DEF TypeOK
  <2> QED
    BY <2>1, <2>2, <2>3, OthersInLine
<1>3. ASSUME NEW r \in Requests, AsyncAnswers(r)
      PROVE  InLine' /\ [Own!Next]_Own!vars
  <2>1. /\ stage' = stage /\ call' = call /\ line' = line /\ call[r].target = "direct"
        /\ \A q \in Requests : q # r => future'[q] = future[q]
    BY <1>1, <1>3 DEF AsyncAnswers, TypeOK
  <2>2. ~Batched(r)
    BY <2>1 DEF Batched
  <2> QED
    BY <2>1, <2>2, OthersInLine
<1>4. ASSUME NEW r \in Requests, Handler(r)
      PROVE  InLine' /\ [Own!Next]_Own!vars
  <2>1. line' = line /\ call' = call /\ future' = future
    BY <1>4 DEF Handler, GetResult, TimeOut, RecordOutcome, RecordLatency, RecordTimeout,
                RecordRejected, Reply, Release, model
  <2>2. /\ stage[r] # "idle" /\ stage'[r] # "idle"
        /\ \A q \in Requests : q # r => stage'[q] = stage[q]
    BY <1>1, <1>4, ZenonT(60) DEF Handler, GetResult, TimeOut, RecordOutcome, RecordLatency, RecordTimeout,
                      RecordRejected, Reply, Release, Goes, TypeOK
  <2> QED
    BY <2>1, <2>2, OthersInLine
<1>5. CASE UNCHANGED <<stage, call, future, line>>
  BY <1>5, OthersInLine
<1>6. ASSUME NEW s \in Streams, OpenStream(s) \/ EndStream(s)
      PROVE  UNCHANGED <<stage, call, future, line>>
  BY <1>6 DEF OpenStream, EndStream, model
<1> QED
  BY <1>2, <1>3, <1>4, <1>5, <1>6, AcceptInLine, ServeInLine DEF Next, Arrival, Idle, vars

LEMMA InitInLine == Init => InLine /\ Own!Init
<1> SUFFICES ASSUME Init
             PROVE  InLine /\ Own!Init
  OBVIOUS
<1>1. line = << >> /\ \A r \in Requests : Promised[r] = "none"
  BY PromisedIs DEF Init, Batched
<1>2. Promised = [r \in Requests |-> "none"]
  BY <1>1 DEF Promised
<1>3. DOMAIN line = {}
  BY <1>1
<1> QED
  BY <1>1, <1>2, <1>3 DEF InLine, Own!Init

\* The handlers give the Batcher no more than FifoAnswers knows of, and take no more
\* of it than that promises: with BatcherProofs' Refinement, which has the Batcher
\* implement the same specification, the two fit together.
THEOREM HandlersShareTheLine == Spec => Own!Spec
<1>1. IInv /\ InLine /\ [Next]_vars => InLine' /\ [Own!Next]_Own!vars
  BY InLineNext
<1> QED
  BY <1>1, InitInLine, InductiveInvariant, PTL DEF Spec, Own!Spec

\* Who waits in the Batcher's line is who has a pending future of it, once.
THEOREM InLineAlways == Spec => []InLine
<1>1. IInv /\ InLine /\ [Next]_vars => InLine'
  BY InLineNext
<1> QED
  BY <1>1, InitInLine, InductiveInvariant, PTL DEF Spec

-------------------------------------------------------------------------------
(* Progress *)

LEMMA HandlerAdvances ==
  ASSUME IInv, NEW r \in Requests, Handler(r)
  PROVE  Left(r)' < Left(r)
<1>1. TypeOK /\ call' = call
  BY HandlerFrame DEF IInv
<1>2. ASSUME NEW from \in Stages, NEW to \in Stages, Goes(r, from, to)
      PROVE  stage[r] = from /\ stage'[r] = to
  BY <1>1, <1>2 DEF Goes, TypeOK
<1>3. CASE GetResult(r) \/ TimeOut(r) \/ RecordOutcome(r) \/ RecordLatency(r) \/ RecordTimeout(r)
  <2>1. \/ stage[r] = "waiting" /\ stage'[r] \in {"got", "late"}
        \/ stage[r] = "got" /\ stage'[r] = "observing"
        \/ stage[r] = "observing" /\ stage'[r] = "replying"
        \/ stage[r] = "late" /\ stage'[r] = "late too"
    BY <1>2, <1>3 DEF GetResult, TimeOut, RecordOutcome, RecordLatency, RecordTimeout, Stages
  <2>2. \/ Left(r) = 5 /\ Left(r)' = 4
        \/ Left(r) = 4 /\ Left(r)' = 3
        \/ Left(r) = 3 /\ Left(r)' \in {1, 2}
    BY <2>1, Zenon DEF Left
  <2> QED
    BY <2>2
<1>4. CASE RecordRejected(r) \/ Reply(r) \/ Release(r)
  <2>1. \/ stage[r] = "late too" /\ stage'[r] \in {"replying", "releasing"}
        \/ /\ stage[r] = "replying"
           /\ stage'[r] = "done" \/ (stage'[r] = "releasing" /\ call[r].via = "rest")
        \/ /\ stage[r] = "releasing"
           /\ IF call[r].via = "rest" THEN stage'[r] = "done" ELSE stage'[r] = "replying"
    BY <1>2, <1>4 DEF RecordRejected, Reply, Release, Stages
  <2>2. \/ Left(r) = 3 /\ Left(r)' \in {1, 2}
        \/ Left(r) \in {1, 2} /\ Left(r)' = 0
        \/ Left(r) = 2 /\ Left(r)' = 1
    BY <1>1, <2>1, Zenon DEF Left
  <2> QED
    BY <2>2
<1> QED
  BY <1>3, <1>4 DEF Handler

\* A request that arrives has its handler's places before it; a handler's own steps
\* take it on, and no other step moves it.
LEMMA StagesMoveOn ==
  ASSUME IInv, [Next]_vars, NEW q \in Requests, stage'[q] # stage[q]
  PROVE  Left(q)' < Left(q)
<1>1. TypeOK
  BY DEF IInv
<1>2. ASSUME NEW r \in Requests, Handler(r)
      PROVE  Left(q)' < Left(q)
  <2>1. q = r
    BY <1>1, <1>2, HandlerFrame DEF Same
  <2> QED
    BY <1>2, <2>1, HandlerAdvances
<1>3. ASSUME NEW r \in Requests, Arrival(r)
      PROVE  Left(q)' < Left(q)
  <2>1. /\ stage[r] = "idle"
        /\ stage' \in {[stage EXCEPT ![r] = "waiting"], [stage EXCEPT ![r] = "replying"]}
    BY <1>3 DEF Arrival, Refuse, Acquire, Arrives
  <2>2. stage[q] = "idle" /\ stage'[q] \in {"waiting", "replying"}
    BY <1>1, <2>1 DEF TypeOK
  <2>3. Left(q) = 6 /\ Left(q)' \in {1, 2, 5}
    BY <2>2, Zenon DEF Left
  <2> QED
    BY <2>3
<1>4. CASE UNCHANGED stage
  BY <1>4
<1> QED
  BY <1>2, <1>3, <1>4 DEF Next, Idle, vars, AsyncAnswers, BatchAnswers, OpenStream, EndStream

\* Wherever a handler is, each of its steps takes it nearer to its end, for any
\* interleaving with the other requests, the Batcher and the streams.
THEOREM HandlersMoveOnAlways == Spec => HandlersMoveOn
<1>1. IInv /\ [Next]_vars =>
        [\A r \in Requests : stage'[r] # stage[r] => Left(r)' < Left(r)]_vars
  BY StagesMoveOn
<1> QED
  BY <1>1, InductiveInvariant, PTL DEF Spec, HandlersMoveOn
===============================================================================
