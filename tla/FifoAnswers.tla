----------------------------- MODULE FifoAnswers ------------------------------
(***************************************************************************)
(* What a Batcher promises to those who hold its futures, without a queue,  *)
(* a worker, a window or a model: requests stand in one line, in the order  *)
(* in which they were accepted, and are answered from its head, each once.  *)
(* When the service closes it may still compute answers for a while; once   *)
(* it starts to turn requests away it turns away everyone who is left, and  *)
(* it is closed only when nobody waits any more.                            *)
(***************************************************************************)
EXTENDS Sequences

CONSTANT Requests

VARIABLES line,    \* the unanswered requests, oldest first
          tag,     \* per request: none, pending, or how it was answered
          phase    \* open, closing, rejecting, closed

vars == <<line, tag, phase>>

Init == /\ line = <<>>
        /\ tag = [r \in Requests |-> "none"]
        /\ phase = "open"

Accept(r) == /\ phase = "open"
             /\ tag[r] = "none"
             /\ line' = Append(line, r)
             /\ tag' = [tag EXCEPT ![r] = "pending"]
             /\ UNCHANGED phase

AnswerHead(how) == /\ line # <<>>
                   /\ tag[Head(line)] = "pending"
                   /\ line' = Tail(line)
                   /\ tag' = [tag EXCEPT ![Head(line)] = how]
                   /\ UNCHANGED phase

\* The model's answer: its outputs, or its error.
Serve == /\ phase \in {"open", "closing"}
         /\ AnswerHead("ok") \/ AnswerHead("error")

TurnAway == phase = "rejecting" /\ AnswerHead("shutdown")

Close  == phase = "open"      /\ phase' = "closing"   /\ UNCHANGED <<line, tag>>
Reject == phase = "closing"   /\ phase' = "rejecting" /\ UNCHANGED <<line, tag>>
Finish == phase = "rejecting" /\ line = <<>>
          /\ phase' = "closed" /\ UNCHANGED <<line, tag>>

Next == \/ \E r \in Requests : Accept(r)
        \/ Serve
        \/ TurnAway
        \/ Close
        \/ Reject
        \/ Finish

Spec == Init /\ [][Next]_vars

\* Everyone in line is answered some day, and a service that closes gets closed.
EveryoneAnswered == \A r \in Requests : tag[r] = "pending" ~> tag[r] # "pending"
Closes == phase = "closing" ~> phase = "closed"
===============================================================================
