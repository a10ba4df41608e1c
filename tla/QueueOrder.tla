----------------------------- MODULE QueueOrder -----------------------------
(***************************************************************************)
(* The order of the local handoff queue against the times at which the     *)
(* sessions entered it.                                                    *)
(*                                                                         *)
(* A session keeps the stamp of its first enqueue for good: enqueue only   *)
(* sets a stamp that is missing (handoff_queue.py:65), and no claim, reply *)
(* or close removes it.  So the stamp the queue sorts by may be that of an *)
(* earlier wait, and does not tell when a session entered the queue.  The  *)
(* history variable since does; it adds nothing to what the code does.     *)
(***************************************************************************)
EXTENDS SessionHandoff

VARIABLE since   \* since[s]: when the first enqueue of s's present wait was,
                 \* or None: s does not wait, has not been enqueued yet, or
                 \* waits by the write of an old copy

orderVars == <<vars, since>>

OrderInit == Init /\ since = [s \in Session |-> None]

Waits(s) == s \in created /\ sessions[s].waiting_human

(* This step is a create_package for s.                                    *)
Enqueues(s) ==
  \E t \in Request, c \in HandoffContext :
    target[t] = s /\ (ChatHandoff(t, c) \/ EnqueueRequest(t, c))

OrderNext ==
  /\ Next
  /\ since' = [s \in Session |->
                 CASE ~Waits(s)' \/ StaleWrite(s)                            -> None
                   [] Waits(s)' /\ ~StaleWrite(s) /\ since[s] # None         -> since[s]
                   [] OTHER -> IF Enqueues(s) THEN clock ELSE None]

OrderSpec == OrderInit /\ [][OrderNext]_orderVars

-----------------------------------------------------------------------------
(* Claim-next hands out s and passes over w, which waits in the same group *)
(* with the same priority; both were enqueued, by writes of no old copy.   *)
PassesOver(s, w) ==
  /\ HandsOut(s)
  /\ Waits(w)
  /\ sessions[w].handoff_skill_group = sessions[s].handoff_skill_group
  /\ sessions[w].handoff_priority = sessions[s].handoff_priority
  /\ None \notin {since[s], since[w]}

(* Nobody is passed over for a session that was never enqueued before he   *)
(* entered: whoever is handed out was enqueued by then, in this wait or an *)
(* earlier one.  Asking for a human again while one waits costs no place,  *)
(* and no reply, rating or turn of the AI moves a session that waits       *)
(* (handoff_queue.py:65 and 338).  It is not the order of entry, in which  *)
(* docs/testing.md:136 has the queue: a session that was served before and *)
(* asks again is handed out before those that entered in between.          *)
PassedOverOnlyForOlder ==
  [][\A s, w \in created :
       PassesOver(s, w) => sessions[s].handoff_enqueued_at <= since[w]]_orderVars
=============================================================================
