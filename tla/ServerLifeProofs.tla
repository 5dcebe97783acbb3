--------------------------- MODULE ServerLifeProofs ---------------------------
(***************************************************************************)
(* Proofs about the life of the server, for any number of requests and        *)
(* streams. Every step of its life is a step of the handlers or leaves them    *)
(* alone, so that all that is proved of the handlers holds through start-up    *)
(* and shutdown; and Stations says which calls there are where main() is.      *)
(***************************************************************************)
EXTENDS ServerLife, InferHandlersProofs

-------------------------------------------------------------------------------
(* The handlers in the life of the server *)

\* main()'s steps leave the handlers alone; the other threads' are theirs.
LEMMA LifeStepIsStep == [LifeNext]_serverVars => [Next]_vars
<1> SUFFICES ASSUME [LifeNext]_serverVars
             PROVE  [Next]_vars
  OBVIOUS
<1>1. CASE StartGrpc \/ Run \/ Quit \/ Shutdown \/ Return \/ Over \/ UNCHANGED serverVars
  BY <1>1 DEF StartGrpc, Run, Quit, Shutdown, Return, Over, serverVars
<1>2. ASSUME NEW r \in Requests, Call(r)
      PROVE  Next
  BY <1>2 DEF Call, Called, Arrival, Next
<1>3. ASSUME NEW r \in Requests, Handle(r) \/ Predict(r)
      PROVE  Next
  BY <1>3 DEF Handle, Predict, Next
<1>4. ASSUME NEW s \in Streams, Connect(s) \/ HangUp(s)
      PROVE  Next
  BY <1>4 DEF Connect, HangUp, Next
<1>5. CASE Batches
  BY <1>5 DEF Batches, Next
<1> QED
  BY <1>1, <1>2, <1>3, <1>4, <1>5 DEF LifeNext

\* The server implements the specification of its handlers, whenever it starts
\* and whenever it is told to stop.
THEOREM LifeImplementsHandlers == LifeSpec => Spec
<1>1. LifeInit => Init
  BY DEF LifeInit
<1> QED
  BY <1>1, LifeStepIsStep, PTL DEF LifeSpec, Spec

-------------------------------------------------------------------------------
(* What the steps of the threads mean for the calls there are *)

\* A call stays one, comes as it came, and if it is not answered by the step it
\* was not answered before; streams only change for the requests of their own.
Goes_on(q) ==
  /\ stage'[q] # "idle" => stage[q] # "idle" /\ call'[q] = call[q]
  /\ stage[q] # "idle" => stage'[q] # "idle" /\ call'[q] = call[q]
  /\ Handled(q)' /\ reply'[q] = "none" => Handled(q) /\ reply[q] = "none"

\* A step of a handler takes its request on.
LEMMA HandlerGoesOn ==
  ASSUME IInv, NEW r \in Requests, Handler(r)
  PROVE  /\ \A q \in Requests : Goes_on(q)
         /\ \A s \in Streams : stream'[s] = stream[s] \/ (Handled(r) /\ call[r].via = s)
<1>1. TypeOK /\ Futures(r)
  BY DEF IInv
<1>2. /\ stage[r] \notin {"idle", "done"} /\ stage'[r] # "idle"
      /\ \A q \in Requests : q # r => stage'[q] = stage[q] /\ reply'[q] = reply[q]
      /\ UNCHANGED call
  BY <1>1, ZenonT(60) DEF Handler, GetResult, TimeOut, RecordOutcome, RecordLatency, RecordTimeout,
              RecordRejected, Reply, Release, Goes, Count, TypeOK
<1>3. reply'[r] = "none" => reply[r] = "none"
  <2>1. CASE Reply(r)
    <3>1. reply'[r] = outcome[r] /\ stage[r] = "replying"
      BY <2>1, <1>1 DEF Reply, Goes, TypeOK
    <3> QED
      BY <3>1, <1>1 DEF Futures, Replies
  <2>2. CASE ~Reply(r)
    BY <2>2 DEF Handler, GetResult, TimeOut, RecordOutcome, RecordLatency, RecordTimeout,
                RecordRejected, Release
  <2> QED
    BY <2>1, <2>2
<1>4. \A s \in Streams : stream'[s] = stream[s] \/ call[r].via = s
  BY <1>1 DEF Handler, GetResult, TimeOut, RecordOutcome, RecordLatency, RecordTimeout,
              RecordRejected, Reply, Release, streams, TypeOK
<1> QED
  BY <1>2, <1>3, <1>4 DEF Goes_on, Handled

\* Nor do the model's answers change which calls there are.
LEMMA AnswersGoOn ==
  ASSUME BatchAnswers \/ \E r \in Requests : AsyncAnswers(r)
  PROVE  (\A q \in Requests : Goes_on(q)) /\ UNCHANGED stream
BY DEF BatchAnswers, AsyncAnswers, Goes_on, Handled, streams

\* Where no call is added and main() stays where it is, Stations holds on.
LEMMA GoingOnStations ==
  ASSUME Stations, ~Gone, UNCHANGED lifevars, \A q \in Requests : Goes_on(q),
         \A s \in Streams : grpc = "none" => stream'[s] = "unopened",
         cut \subseteq Requests
  PROVE  Stations'
<1>1. UNCHANGED <<main, grpc, cut>> /\ main # "returned"
  BY DEF Gone, lifevars
<1>2. grpc' = "none" => /\ \A r \in Requests : stage'[r] # "idle" => call'[r].via = "rest"
                        /\ \A s \in Streams : stream'[s] = "unopened"
  BY <1>1 DEF Stations, Goes_on
<1>3. main' \in {"starting", "registering"} =>
        \A r \in Requests : stage'[r] # "idle" => call'[r].via # "rest"
  BY <1>1 DEF Stations, Goes_on
<1>4. main' \in {"quit", "draining", "returned", "crashed"} =>
        \A r \in Requests : Handled(r)' /\ call'[r].via = "rest" /\ reply'[r] = "none" => r \in cut'
  BY <1>1 DEF Stations, Goes_on, Handled
<1>5. \A r \in cut' : stage'[r] # "idle" /\ call'[r].via = "rest"
  BY <1>1 DEF Stations, Goes_on
<1> QED
  BY <1>1, <1>2, <1>3, <1>4, <1>5 DEF Stations

LEMMA CallStations ==
  ASSUME LifeIInv, NEW r \in Requests, Call(r)
  PROVE  Stations'
<1>1. TypeOK /\ Stations /\ ~Gone /\ UNCHANGED lifevars
  BY DEF LifeIInv, LifeTypeOK, Call, Living
<1>2. PICK via \in Vias, target \in Targets :
        Open(via) /\ (Refuse(r, via, target) \/ Acquire(r, via, target))
  BY DEF Call, Called
<1>3. /\ stage[r] = "idle" /\ call'[r].via = via
      /\ via \in Streams => stream[via] = "reading"
      /\ via \notin Streams => UNCHANGED stream
      /\ \A q \in Requests : q # r => /\ stage'[q] = stage[q] /\ reply'[q] = reply[q]
                                      /\ call'[q] = call[q]
  <2>1. CASE Refuse(r, via, target)
    BY <1>1, <2>1 DEF Refuse, Arrives, TypeOK, streams
  <2>2. CASE Acquire(r, via, target)
    BY <1>1, <2>2 DEF Acquire, Arrives, TypeOK, streams
  <2> QED
    BY <1>2, <2>1, <2>2
<1>4. grpc = "none" => via = "rest" /\ via \notin Streams
  BY <1>1, <1>2, <1>3, StreamsAssumption DEF Open, Stations
<1>5. via = "rest" => main = "running" /\ via \notin Streams
  BY <1>2, StreamsAssumption DEF Open
<1>6. \A q \in cut : q # r
  BY <1>1, <1>3 DEF Stations
<1>7. \A q \in Requests \ {r} : Goes_on(q)
  BY <1>3 DEF Goes_on, Handled
<1>8. \A s \in Streams : grpc = "none" => stream'[s] = "unopened"
  BY <1>1, <1>3, <1>4 DEF Stations
<1> QED
  BY <1>1, <1>3, <1>4, <1>5, <1>6, <1>7, <1>8 DEF Stations, Gone, lifevars, Goes_on, LifeIInv, LifeTypeOK

\* Each step of main(), and each of the other threads, keeps Stations.
LEMMA StationsNext ==
  ASSUME LifeIInv, [LifeNext]_serverVars
  PROVE  Stations'
<1>1. IInv /\ TypeOK /\ Stations /\ LifeTypeOK /\ cut \subseteq Requests
  BY DEF LifeIInv, LifeTypeOK
<1>2. CASE StartGrpc \/ Run \/ Shutdown
  BY <1>1, <1>2 DEF StartGrpc, Run, Shutdown, Stations, LifeTypeOK, vars, Handled
<1>3. CASE Quit
  <2>1. \A r \in cut' : Handled(r) /\ call[r].via = "rest"
    BY <1>3 DEF Quit
  <2> QED
    BY <1>1, <1>3, <2>1 DEF Quit, Stations, vars, Handled
<1>4. CASE Return
  BY <1>1, <1>4 DEF Return, Stations, vars, Handled, Drained
<1>5. ASSUME NEW r \in Requests, Call(r)
      PROVE  Stations'
  BY <1>5, CallStations
<1>6. ASSUME NEW r \in Requests, Handle(r)
      PROVE  Stations'
  <2>1. /\ \A q \in Requests : Goes_on(q)
        /\ \A s \in Streams : stream'[s] = stream[s] \/ (Handled(r) /\ call[r].via = s)
    BY <1>1, <1>6, HandlerGoesOn DEF Handle
  <2>2. \A s \in Streams : grpc = "none" => stream'[s] = "unopened"
    BY <1>1, <2>1, StreamsAssumption DEF Stations, Handled
  <2> QED
    BY <1>1, <1>6, <2>1, <2>2, GoingOnStations DEF Handle, Living
<1>7. CASE Batches \/ \E r \in Requests : Predict(r)
  <2>1. (\A q \in Requests : Goes_on(q)) /\ UNCHANGED stream
    BY <1>7, AnswersGoOn DEF Batches, Predict
  <2>2. \A s \in Streams : grpc = "none" => stream'[s] = "unopened"
    BY <1>1, <2>1 DEF Stations
  <2> QED
    BY <1>1, <1>7, <2>1, <2>2, GoingOnStations DEF Batches, Predict, Living
<1>8. ASSUME NEW s \in Streams, Connect(s) \/ HangUp(s)
      PROVE  Stations'
  <2>1. \A q \in Requests : Goes_on(q)
    BY <1>8 DEF Connect, HangUp, OpenStream, EndStream, Goes_on, Handled
  <2>2. grpc # "none"
    BY <1>1, <1>8 DEF Connect, HangUp, EndStream, Stations
  <2> QED
    BY <1>1, <1>8, <2>1, <2>2, GoingOnStations DEF Connect, HangUp, Living
<1>9. CASE Over \/ UNCHANGED serverVars
  BY <1>1, <1>9 DEF Over, serverVars, lifevars, vars, Stations, Handled, Drained
<1> QED
  BY <1>2, <1>3, <1>4, <1>5, <1>6, <1>7, <1>8, <1>9 DEF LifeNext

LEMMA InitLifeIInv == LifeInit => LifeIInv
<1> SUFFICES ASSUME LifeInit
             PROVE  LifeIInv
  OBVIOUS
<1>1. IInv
  BY InitIInv DEF LifeInit
<1>2. TypeOK
  BY <1>1 DEF IInv
<1> QED
  BY <1>1, <1>2 DEF LifeInit, LifeIInv, LifeTypeOK, Stations, Init, Handled

LEMMA LifeInvariantNext == LifeIInv /\ [LifeNext]_serverVars => LifeIInv'
<1> SUFFICES ASSUME LifeIInv, [LifeNext]_serverVars
             PROVE  LifeIInv'
  OBVIOUS
<1>1. IInv'
  BY InvariantNext, LifeStepIsStep DEF LifeIInv
<1>2. TypeOK'
  BY <1>1 DEF IInv
<1>3. /\ main' \in {"starting", "registering", "running", "quit", "draining", "returned", "crashed"}
      /\ grpc' \in {"none", "listening", "closed"} /\ cut' \subseteq Requests
  BY DEF LifeIInv, LifeTypeOK, LifeNext, StartGrpc, Run, Quit, Shutdown, Return, Call, Handle,
         Predict, Batches, Connect, HangUp, Over, Living, serverVars, lifevars
<1>4. Stations'
  BY StationsNext
<1> QED
  BY <1>1, <1>2, <1>3, <1>4 DEF LifeIInv, LifeTypeOK

-------------------------------------------------------------------------------
(* Theorems *)

\* Where main() is decides which calls there are, and the handlers' invariant
\* holds through it all.
THEOREM LifeInvariant == LifeSpec => []LifeIInv
BY InitLifeIInv, LifeInvariantNext, PTL DEF LifeSpec

\* Every variable keeps its type.
THEOREM LifeTypeCorrect == LifeSpec => []LifeTypeOK
<1>1. LifeIInv => LifeTypeOK
  BY DEF LifeIInv
<1> QED
  BY <1>1, LifeInvariant, PTL

\* So all that is proved of the handlers holds while the server starts, serves
\* and shuts down: what a client is told, when it is counted, and the order of a
\* stream's answers.
THEOREM HandlersInLife ==
  LifeSpec => []CountedOnce /\ []HonestReply /\ []StreamAnswersInOrder /\ AnsweredOnce
BY LifeImplementsHandlers, CountedOnceAlways, HonestReplyAlways, StreamAnswersInOrderAlways,
   AnsweredOnceAlways, PTL

\* From start-up to shutdown the Batcher's line is one that FifoAnswers allows, and
\* no handler returns to a place it has left: what holds a call up is the future it
\* waits for, or the model, and nothing main() does.
THEOREM BatcherInLife == LifeSpec => Own!Spec /\ []InLine /\ HandlersMoveOn
BY LifeImplementsHandlers, HandlersShareTheLine, InLineAlways, HandlersMoveOnAlways, PTL

\* When main() returns, only REST calls that were waiting when Drogon stopped have
\* no answer: Shutdown() has waited for the others and they were counted.
THEOREM NobodyForgottenAlways == LifeSpec => []NobodyForgotten
<1>1. LifeIInv /\ CountedOnce => NobodyForgotten
  <2> SUFFICES ASSUME LifeIInv, CountedOnce, main = "returned"
               PROVE  /\ \A r \in Requests : stage[r] # "idle" =>
                           \/ reply[r] # "none" /\ tally[r] = Entry(reply[r])
                           \/ r \in cut /\ call[r].via = "rest"
                      /\ \A s \in Streams : stream[s] # "inferring" /\ stream[s] # "reading"
    BY DEF NobodyForgotten
  <2>1. Drained
    BY DEF LifeIInv, Stations
  <2>2. ASSUME NEW r \in Requests, stage[r] # "idle", reply[r] = "none"
        PROVE  r \in cut /\ call[r].via = "rest"
    <3>1. Told(r) /\ Futures(r)
      BY DEF LifeIInv, IInv
    <3>2. Handled(r)
      BY <2>2, <3>1 DEF Told, Futures, Replies, Handled
    <3> QED
      BY <2>1, <2>2, <3>2 DEF Drained, LifeIInv, Stations
  <2> QED
    BY <2>1, <2>2 DEF Drained, CountedOnce
<1> QED
  BY <1>1, LifeInvariant, CountedOnceAlways, LifeImplementsHandlers, PTL
-------------------------------------------------------------------------------
(* Progress: the shutdown *)

\* A call that comes while the server shuts down comes through an open stream,
\* which it takes up.
LEMMA CallWhileDraining ==
  ASSUME LifeIInv, main = "draining", NEW r \in Requests, Call(r)
  PROVE  /\ stage[r] = "idle" /\ Handled(r)' /\ call'[r].via \in OpenStreams
         /\ \A q \in Requests : q # r => stage'[q] = stage[q]
         /\ \A s \in Streams : s # call'[r].via => stream'[s] = stream[s]
<1>1. TypeOK /\ grpc = "closed"
  BY DEF LifeIInv, LifeTypeOK, Stations
<1>2. PICK via \in Vias, target \in Targets :
        Open(via) /\ (Refuse(r, via, target) \/ Acquire(r, via, target))
  BY DEF Call, Called
<1>3. via \in Streams
  BY <1>1, <1>2 DEF Open
<1>4. /\ stage[r] = "idle" /\ stage'[r] \in {"replying", "waiting"} /\ call'[r].via = via
      /\ stream[via] = "reading" /\ stream' = [stream EXCEPT ![via] = "inferring"]
      /\ \A q \in Requests : q # r => stage'[q] = stage[q]
  <2>1. CASE Refuse(r, via, target)
    BY <1>1, <1>3, <2>1 DEF Refuse, Arrives, TypeOK
  <2>2. CASE Acquire(r, via, target)
    BY <1>1, <1>3, <2>2 DEF Acquire, Arrives, TypeOK
  <2> QED
    BY <1>2, <2>1, <2>2
<1>5. \A s \in Streams : s # via => stream'[s] = stream[s]
  BY <1>1, <1>4 DEF TypeOK
<1> QED
  BY <1>3, <1>4, <1>5 DEF Handled, OpenStreams

\* A handler touches at most the stream it serves, which is open, and does not take
\* up the next request itself.
LEMMA HandlerInStream ==
  ASSUME IInv, NEW r \in Requests, Handler(r), NEW s \in Streams, stream'[s] # stream[s]
  PROVE  s \in OpenStreams /\ stream'[s] # "inferring"
<1>1. TypeOK /\ OfStream(r)
  BY DEF IInv
<1>2. Handled(r) /\ call[r].via = s
  BY HandlerGoesOn
<1>3. s \in OpenStreams
  BY <1>1, <1>2 DEF OfStream, OpenStreams
<1>4. Reply(r)
  BY DEF Handler, GetResult, TimeOut, RecordOutcome, RecordLatency, RecordTimeout,
         RecordRejected, Release, streams
<1>5. stream'[s] \in {"reading", "ended"}
  BY <1>1, <1>2, <1>4 DEF Reply, TypeOK
<1> QED
  BY <1>3, <1>5

\* Once main() is in Shutdown(), what it waits for only lessens but for what clients
\* send through streams that are open: no step of any thread adds to it.
LEMMA DrainingStep ==
  ASSUME LifeIInv, [LifeNext]_serverVars, main = "draining"
  PROVE  /\ main' = "draining" \/ (main' = "returned" /\ Drained)
         /\ \A r \in Requests : stage'[r] # stage[r] =>
              /\ Left(r)' < Left(r)
              /\ stage[r] = "idle" => call'[r].via \in OpenStreams
         /\ \A s \in Streams : stream'[s] # stream[s] =>
              /\ s \in OpenStreams
              /\ stream'[s] = "inferring" =>
                   \E r \in Requests : stage[r] = "idle" /\ Handled(r)' /\ call'[r].via = s
<1> DEFINE Drains ==
             /\ \A r \in Requests : stage'[r] # stage[r] /\ stage[r] = "idle" =>
                  call'[r].via \in OpenStreams
             /\ \A s \in Streams : stream'[s] # stream[s] =>
                  /\ s \in OpenStreams
                  /\ stream'[s] = "inferring" =>
                       \E r \in Requests : stage[r] = "idle" /\ Handled(r)' /\ call'[r].via = s
<1>1. IInv /\ TypeOK /\ grpc = "closed"
  BY DEF LifeIInv, LifeTypeOK, Stations
<1>2. main' = "draining" \/ (main' = "returned" /\ Drained)
  BY DEF LifeNext, StartGrpc, Run, Quit, Shutdown, Return, Call, Handle, Predict, Batches,
         Connect, HangUp, Over, Living, serverVars, lifevars
<1>3. \A r \in Requests : stage'[r] # stage[r] => Left(r)' < Left(r)
  BY <1>1, LifeStepIsStep, StagesMoveOn
<1>4. ASSUME NEW r \in Requests, Call(r)
      PROVE  Drains
  BY <1>4, CallWhileDraining
<1>5. ASSUME NEW r \in Requests, Handle(r)
      PROVE  Drains
  <2>1. \A q \in Requests : stage[q] = "idle" => stage'[q] = "idle"
    BY <1>1, <1>5, HandlerGoesOn DEF Handle, Goes_on
  <2>2. \A s \in Streams : stream'[s] # stream[s] =>
          s \in OpenStreams /\ stream'[s] # "inferring"
    BY <1>1, <1>5, HandlerInStream DEF Handle
  <2> QED
    BY <2>1, <2>2
<1>6. ASSUME UNCHANGED <<stage, stream>>
      PROVE  Drains
  BY <1>6
<1>7. ASSUME NEW s \in Streams, HangUp(s)
      PROVE  Drains
  BY <1>1, <1>7 DEF HangUp, EndStream, OpenStreams, TypeOK
<1>8. ASSUME NEW s \in Streams, Connect(s)
      PROVE  FALSE
  BY <1>1, <1>8 DEF Connect
<1>9. Drains
  <2>1. \/ UNCHANGED <<stage, stream>>
        \/ \E r \in Requests : Call(r) \/ Handle(r)
        \/ \E s \in Streams : Connect(s) \/ HangUp(s)
    BY DEF LifeNext, StartGrpc, Run, Quit, Shutdown, Return, Over, Predict, Batches, BatchAnswers,
           AsyncAnswers, streams, vars, serverVars
  <2> QED
    BY <1>4, <1>5, <1>6, <1>7, <1>8, <2>1
<1> QED
  BY <1>2, <1>3, <1>9, Zenon

\* What Shutdown() waits for after the signal only lessens: what remains for it to end
\* is that the model returns and clients end their streams.
THEOREM ShutdownDrainsAlways == LifeSpec => ShutdownDrains
<1>1. LifeIInv /\ [LifeNext]_serverVars =>
        [main = "draining" =>
           /\ main' = "draining" \/ (main' = "returned" /\ Drained)
           /\ \A r \in Requests : stage'[r] # stage[r] =>
                /\ Left(r)' < Left(r)
                /\ stage[r] = "idle" => call'[r].via \in OpenStreams
           /\ \A s \in Streams : stream'[s] # stream[s] =>
                /\ s \in OpenStreams
                /\ stream'[s] = "inferring" =>
                     \E r \in Requests :
                       stage[r] = "idle" /\ Handled(r)' /\ call'[r].via = s]_serverVars
  BY DrainingStep
<1> QED
  BY <1>1, LifeInvariant, PTL DEF LifeSpec, ShutdownDrains
===============================================================================
