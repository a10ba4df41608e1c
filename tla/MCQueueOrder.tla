---------------------------- MODULE MCQueueOrder ----------------------------
(* An instance of QueueOrder for TLC.                                      *)
EXTENDS QueueOrder, MCSessionHandoff

(* The requests that wrote a question, as far as it was not lost.          *)
Turns == {t \in Request : \E s \in created : UserMessage(t) \in sessions[s].messages}

(* Two requests do whatever they may.  A third one comes only where at     *)
(* most one of the three is a turn and at most one is still in flight,     *)
(* nobody asks because of a risk, and no human replies: it is for the      *)
(* order of the queue, which takes two waits of one session and one of     *)
(* another.                                                                *)
TwoOrThreeRequests ==
  \/ \E t \in Request : pc[t] = "idle"
  \/ /\ Cardinality(Turns) <= 1
     /\ Cardinality({t \in Request : InFlight(t)}) <= 1
     /\ replies = 0
     /\ \A s \in Session : "risk" \notin sessions[s].handoff_reason
=============================================================================
