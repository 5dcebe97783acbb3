------------------------------ MODULE ServerLife ------------------------------
(***************************************************************************)
(* The inference handlers within the life of the process: main() starts the   *)
(* gRPC server (start_grpc_server, src/grpc/inference_service.cpp), registers  *)
(* the REST routes and stays in Drogon's run() until a signal; then it shuts   *)
(* the gRPC server down and returns (src/main.cpp).                          *)
(*                                                                         *)
(* The two servers end differently. Drogon's loops stop, and what a detached  *)
(* thread answers afterwards reaches nobody. Shutdown() takes no new calls and *)
(* waits for those under way, without a deadline. The return of main() ends    *)
(* every other thread.                                                       *)
(***************************************************************************)
EXTENDS InferHandlers

VARIABLES main,       \* where main() is
          grpc,       \* the gRPC server
          cut         \* the REST calls whose connections went with the loops

lifevars == <<main, grpc, cut>>
serverVars == <<vars, lifevars>>

LifeInit ==
  /\ Init
  /\ main = "starting" /\ grpc = "none" /\ cut = {}

-------------------------------------------------------------------------------
(* main() *)

\* BuildAndStart, which returns no server if the port is taken. The handlers may
\* be called at once.
StartGrpc ==
  /\ main = "starting" /\ main' = "registering"
  /\ grpc' \in {"listening", "none"}
  /\ UNCHANGED <<cut, vars>>

Run ==
  /\ main = "registering" /\ main' = "running"
  /\ UNCHANGED <<grpc, cut, vars>>

\* A signal: run() returns, and the connections of REST are gone.
Quit ==
  /\ main = "running" /\ main' = "quit"
  /\ cut' = { r \in Requests : Handled(r) /\ call[r].via = "rest" /\ reply[r] = "none" }
  /\ UNCHANGED <<grpc, vars>>

\* grpc_server->Shutdown(), through a null pointer if there is no server.
Shutdown ==
  /\ main = "quit"
  /\ \/ grpc = "none" /\ main' = "crashed" /\ UNCHANGED grpc
     \/ grpc = "listening" /\ main' = "draining" /\ grpc' = "closed"
  /\ UNCHANGED <<cut, vars>>

\* Mutant of Drained: the detached threads of REST are waited for too.
DrainedOfAll ==
  /\ \A r \in Requests : ~Handled(r)
  /\ \A s \in Streams : stream[s] \in {"unopened", "ended"}

\* No thread is in a gRPC handler.
Drained ==
  /\ \A r \in Requests : Handled(r) => call[r].via = "rest"
  /\ \A s \in Streams : stream[s] \in {"unopened", "ended"}

\* Mutant of Return: the shutdown does not wait.
ReturnAtOnce ==
  /\ main = "draining" /\ main' = "returned"
  /\ UNCHANGED <<grpc, cut, vars>>

Return ==
  /\ main = "draining" /\ Drained /\ main' = "returned"
  /\ UNCHANGED <<grpc, cut, vars>>

-------------------------------------------------------------------------------
(* The other threads, as long as the process lives *)

Gone == main \in {"returned", "crashed"}

\* REST takes calls while Drogon runs, gRPC as long as the server listens; a
\* stream that is open goes on reading while the server shuts down.
Open(via) ==
  \/ via = "rest" /\ main = "running"
  \/ via # "rest" /\ grpc = "listening"
  \/ via \in Streams

Living == ~Gone /\ UNCHANGED lifevars

Called(r) == \E via \in Vias, target \in Targets :
               Open(via) /\ (Refuse(r, via, target) \/ Acquire(r, via, target))

Call(r)    == Called(r) /\ Living
Handle(r)  == Handler(r) /\ Living
Predict(r) == AsyncAnswers(r) /\ Living
Batches    == BatchAnswers /\ Living
HangUp(s)  == EndStream(s) /\ Living

\* Mutant of Connect: clients connect and connect again, whether the server listens
\* or shuts down.
ConnectAgain(s) ==
  /\ stream[s] \in {"unopened", "ended"} /\ grpc # "none" /\ Living
  /\ stream' = [stream EXCEPT ![s] = "reading"]
  /\ UNCHANGED <<timed, call, stage, outcome, reply, model, tally, reads>>

Connect(s) == OpenStream(s) /\ grpc = "listening" /\ Living

Over == Gone /\ UNCHANGED serverVars

LifeNext ==
  \/ StartGrpc \/ Run \/ Quit \/ Shutdown \/ Return
  \/ \E r \in Requests : Call(r) \/ Handle(r) \/ Predict(r)
  \/ Batches
  \/ \E s \in Streams : Connect(s) \/ HangUp(s)
  \/ Over

\* Threads run, and clocks do; no signal need come, and the model need not return.
LifeFairness ==
  /\ \A r \in Requests : WF_serverVars(Handle(r))
  /\ WF_serverVars(StartGrpc) /\ WF_serverVars(Run)
  /\ WF_serverVars(Shutdown) /\ WF_serverVars(Return)

LifeSpec == LifeInit /\ [][LifeNext]_serverVars /\ LifeFairness

-------------------------------------------------------------------------------
(* Safety *)

LifeTypeOK ==
  /\ TypeOK
  /\ main \in {"starting", "registering", "running", "quit", "draining", "returned", "crashed"}
  /\ grpc \in {"none", "listening", "closed"}
  /\ cut \subseteq Requests

\* Whoever has called when main() returns has his answer and his entry in the
\* metrics, except for the REST calls that were waiting when Drogon stopped, with
\* which it ends. No stream is left open, and what it read is answered.
NobodyForgotten ==
  main = "returned" =>
    /\ \A r \in Requests : stage[r] # "idle" =>
         \/ reply[r] # "none" /\ tally[r] = Entry(reply[r])
         \/ r \in cut /\ call[r].via = "rest"
    /\ \A s \in Streams : stream[s] # "inferring" /\ stream[s] # "reading"

\* The same as long as the process lives, and when it fails for want of a gRPC
\* server: which calls there are by where main() is. No gRPC call is there without
\* a server, no REST call before run().
Stations ==
  /\ grpc = "none" =>
       /\ \A r \in Requests : stage[r] # "idle" => call[r].via = "rest"
       /\ \A s \in Streams : stream[s] = "unopened"
  /\ main \in {"starting", "registering"} =>
       \A r \in Requests : stage[r] # "idle" => call[r].via # "rest"
  /\ main = "starting" => grpc = "none"
  /\ main \in {"draining", "returned"} <=> grpc = "closed"
  /\ main \in {"starting", "registering", "running"} => cut = {}
  /\ main \in {"quit", "draining", "returned", "crashed"} =>
       \A r \in Requests : Handled(r) /\ call[r].via = "rest" /\ reply[r] = "none" => r \in cut
  /\ \A r \in cut : stage[r] # "idle" /\ call[r].via = "rest"
  /\ main = "returned" => Drained

LifeIInv == IInv /\ LifeTypeOK /\ Stations

-------------------------------------------------------------------------------
(* Progress: what Shutdown() still waits for. *)

OpenStreams == { s \in Streams : stream[s] \in {"reading", "inferring"} }

\* While the server shuts down, what it waits for only lessens: a call moves on to its
\* end, and none is new but what comes through a stream that was open before; no
\* stream opens, and one that changes was open. It ends with nobody left in gRPC. So
\* what can hold it up is the model and the clients of open streams, and nothing else.
ShutdownDrains ==
  [][main = "draining" =>
       /\ main' = "draining" \/ (main' = "returned" /\ Drained)
       /\ \A r \in Requests : stage'[r] # stage[r] =>
            /\ Left(r)' < Left(r)
            /\ stage[r] = "idle" => call'[r].via \in OpenStreams
       /\ \A s \in Streams : stream'[s] # stream[s] =>
            /\ s \in OpenStreams
            /\ stream'[s] = "inferring" =>
                 \E r \in Requests : stage[r] = "idle" /\ Handled(r)' /\ call'[r].via = s]_serverVars

-------------------------------------------------------------------------------
(* Liveness *)

ModelReturns ==
  WF_serverVars(Batches) /\ \A r \in Requests : WF_serverVars(Predict(r))

ClientsHangUp == \A s \in Streams : WF_serverVars(HangUp(s))

Lost(r) == Gone /\ r \in cut

\* "Per-request timeout": with a timeout configured, a call is answered even if
\* the model never returns, over REST and for a model with a Batcher, also while
\* the server shuts down, unless its connection goes first.
TimeoutBounds ==
  timed => \A r \in Requests :
    stage[r] = "waiting" /\ (call[r].via = "rest" \/ call[r].target = "batched")
      ~> reply[r] # "none" \/ Lost(r)

\* If the model returns, every call is answered, timeout or not, and no handler
\* thread stays behind, also while the server shuts down.
EveryCallEnds ==
  ModelReturns => \A r \in Requests :
    stage[r] = "waiting" ~>
      \/ reply[r] # "none" /\ (stage[r] = "done" \/ (Gone /\ call[r].via = "rest"))
      \/ Lost(r)

\* Shutdown() has no deadline: it ends if the model returns and the clients end
\* their streams.
ShutdownEnds == ModelReturns /\ ClientsHangUp => (main = "draining" ~> main = "returned")

\* With a timeout it ends even if the model never returns, once there are neither
\* streams nor calls to a model without a Batcher: their threads wait for the
\* model in the destructor of the future.
TimeoutBoundsShutdown ==
  timed =>
    (/\ main = "draining"
     /\ \A s \in Streams : stream[s] \in {"unopened", "ended"}
     /\ \A r \in Requests : Handled(r) => call[r].via = "rest" \/ call[r].target # "direct")
      ~> main = "returned"
===============================================================================
