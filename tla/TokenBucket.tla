----------------------------- MODULE TokenBucket -----------------------------
(***************************************************************************)
(* What the rate limiter promises: every key has a level that time refills *)
(* and that nothing else raises.  A request passes exactly when the level  *)
(* holds a token, and takes it.                                            *)
(***************************************************************************)
EXTENDS Integers

CONSTANTS
  Key,        \* subject, method and path
  Token,      \* what one request costs
  Capacity,   \* of a bucket
  Rate,       \* what a unit of time brings
  None

VARIABLES
  level,      \* level[k]: what the bucket of k holds
  answer      \* the decision of this moment, None before there is one

Full == [k \in Key |-> Capacity]

Init == level = Full /\ answer = None

Take(k) ==
  /\ level[k] >= Token
  /\ level' = [level EXCEPT ![k] = @ - Token]
  /\ answer' = [key |-> k, allowed |-> TRUE]

Refuse(k) ==
  /\ level[k] < Token
  /\ answer' = [key |-> k, allowed |-> FALSE]
  /\ UNCHANGED level

Pass ==
  /\ level' = [k \in Key |-> IF level[k] + Rate > Capacity THEN Capacity ELSE level[k] + Rate]
  /\ answer' = None

(* Another process starts.                                                 *)
Reset == level' = Full /\ answer' = None

Next == (\E k \in Key : Take(k) \/ Refuse(k)) \/ Pass \/ Reset

Spec == Init /\ [][Next]_<<level, answer>>
=============================================================================
