----------------------------- MODULE ClaimQueue -----------------------------
(***************************************************************************)
(* What a handoff queue promises (the protocol HandoffQueueBackend): a set *)
(* of waiting sessions, each handed out at most once for each time it was  *)
(* enqueued.  Order and groups are left to the queue that implements it.   *)
(***************************************************************************)
CONSTANTS
  Session,
  Operator,
  None

VARIABLES
  waiting,   \* the sessions that can be handed out
  holder     \* holder[s]: the operator s was last handed to, or None

vars == <<waiting, holder>>

Init ==
  /\ waiting = {}
  /\ holder = [s \in Session |-> None]

(* A session enters, or enters again.                                      *)
Enqueue(s) ==
  /\ waiting' = waiting \cup {s}
  /\ holder' = [holder EXCEPT ![s] = None]

(* One waiting session is handed out; others may be discarded on the way.  *)
Claim(s, op) ==
  /\ s \in waiting
  /\ \E kept \in SUBSET (waiting \ {s}) : waiting' = kept
  /\ holder' = [holder EXCEPT ![s] = op]

(* Waiting sessions are discarded.                                         *)
Discard ==
  /\ \E kept \in SUBSET waiting : waiting' = kept
  /\ UNCHANGED holder

Next ==
  \/ \E s \in Session : Enqueue(s)
  \/ \E s \in Session, op \in Operator \cup {None} : Claim(s, op)
  \/ Discard

Spec == Init /\ [][Next]_vars

-----------------------------------------------------------------------------
(* What waits has no holder.                                               *)
WaitingIsUnheld == waiting \subseteq {s \in Session : holder[s] = None}

(* A session handed to an operator is taken from that operator only by an  *)
(* enqueue: no second claim finds it (docs/interview-playbook.md:98-99).   *)
HandedOutOnce ==
  [][\A s \in Session : holder[s] # None /\ holder'[s] # holder[s]
                          => holder'[s] = None /\ s \in waiting']_vars
=============================================================================
