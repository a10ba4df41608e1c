--------------------------- MODULE MCSQLiteQueue ---------------------------
(* Instances of SQLiteQueue for TLC.                                       *)
EXTENDS SQLiteQueue, TLC

(* A plain request for a human and a risk, as HandoffRules ranks them.     *)
TwoAsks == {[group |-> "general", priority |-> 80], [group |-> "risk", priority |-> 90]}

OneAsk == {[group |-> "general", priority |-> 80]}

Symmetry == Permutations(Process) \cup Permutations(Session)
=============================================================================
