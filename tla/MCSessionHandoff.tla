-------------------------- MODULE MCSessionHandoff --------------------------
(* Instances of SessionHandoff for TLC.                                    *)
EXTENDS SessionHandoff, TLC

Groups == {"general", "risk", "after_sales", "ecommerce"}

Context(reason, frustrated, repeat) ==
  [reason |-> reason, skill_group |-> "", industry |-> "",
   frustrated |-> frustrated, repeat_contact_7d |-> repeat]

(* A request for a human with both signals of behaviour, and a risk: two   *)
(* groups and two priorities, 95 and 90.                                   *)
TwoContexts == {Context({"human"}, TRUE, 2), Context({"risk"}, FALSE, 0)}

OneContext == {Context({"human"}, FALSE, 0)}

(* With the built-in plugins only a tool, the retrieval and the model      *)
(* suspend a handler: it goes through its other awaits without a stop.     *)
BuiltinPluginsReturnAtOnce ==
  \A t \in Request :
    pc[t] \in {"routing", "packaging", "enqueueing"} => pc'[t] # pc[t]

(* A human replies or time passes, not both, and neither while two         *)
(* requests are in flight.  Arrivals, replies and ticks, which this cuts   *)
(* off, are steps without fairness: what is left goes on as it would.      *)
ReplyOrTick ==
  \/ replies + clock = 0
  \/ replies + clock = 1 /\ Cardinality({t \in Request : InFlight(t)}) <= 1

Symmetry == Permutations(Session) \cup Permutations(Request)
=============================================================================
