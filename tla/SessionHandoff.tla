--------------------------- MODULE SessionHandoff ---------------------------
(***************************************************************************)
(* Customer sessions of one tenant, in one process: the session store, the *)
(* request handlers that read and write it, the human staff, and the local *)
(* handoff queue, which is a view of the store.                            *)
(*                                                                         *)
(* Handlers are coroutines of one event loop.  Between two awaits a        *)
(* handler runs alone; at an await any other handler may run.  The store   *)
(* returns and keeps deep copies (repositories/memory.py), so a handler    *)
(* works on a private copy of the session it read and every save writes    *)
(* the whole record back: whatever another handler wrote meanwhile is      *)
(* overwritten.  There is no version check.                                *)
(*                                                                         *)
(* A request is one call of one of                                         *)
(*   POST /chat/messages (and /stream, and a voice turn's text part):      *)
(*     idle -> routing -> answering [-> packaging] -> done                 *)
(*   POST /chat/handoff, POST .../feedback with request_human:             *)
(*     idle -> enqueueing -> done                                          *)
(* pc is the await the request is suspended at.  Awaits with no access to  *)
(* the store between them are one.                                         *)
(*                                                                         *)
(* Abstracted: message text, summaries, route and intent data (IntentFrame *)
(* bookkeeping), timing fields, satisfaction and resolution marks.         *)
(***************************************************************************)
EXTENDS HandoffRules, FiniteSets

CONSTANTS
  Session,      \* session ids
  Request,      \* requests a customer may make; each is made once
  Operator,     \* operator ids
  None,         \* Python's None
  MaxReplies,   \* bound: human replies in a behaviour
  MaxTime       \* bound: ticks of the clock in a behaviour

ASSUME SessionAssumption ==
  /\ MaxReplies \in Nat
  /\ MaxTime \in Nat
  /\ None \notin Nat \cup Operator \cup Session
  /\ None # "staff"

VARIABLES
  sessions,   \* the store: the record of every created session
  created,    \* the session ids in the store
  pc,         \* pc[t]: where request t is suspended
  target,     \* target[t]: the session request t works on, or None
  copy,       \* copy[t]: request t's private copy of that session
  clock,      \* utcnow()
  replies,    \* how many human replies were written (names the next one)
  stale,      \* history: requests whose copy is older than the store
  served      \* history: sessions claim_next handed out and for which no
              \* request has asked for a human since

vars == <<sessions, created, pc, target, copy, clock, replies, stale, served>>

-----------------------------------------------------------------------------
Time == 0 .. MaxTime

State == {"active", "waiting_human", "human_in_service", "closed"}

UserMessage(t)      == [role |-> "user", of |-> t]
AssistantMessage(t) == [role |-> "assistant", of |-> t]
HumanMessage(n)     == [role |-> "human", of |-> n]

Message == [role : {"user", "assistant"}, of : Request]
             \cup [role : {"human"}, of : 1 .. MaxReplies]

SessionRecord ==
  [state                : State,
   waiting_human        : BOOLEAN,
   messages             : SUBSET Message,
   handoff_reason       : SUBSET Keyword,
   handoff_skill_group  : SkillGroup,
   handoff_priority     : 0 .. 100,
   handoff_enqueued_at  : Time \cup {None},
   assigned_operator_id : Operator \cup {None},
   updated_at           : Time]

(* The defaults of the Session model, at time now.                         *)
NewSession(now) ==
  [state                |-> "active",
   waiting_human        |-> FALSE,
   messages             |-> {},
   handoff_reason       |-> {},
   handoff_skill_group  |-> "general",
   handoff_priority     |-> 0,
   handoff_enqueued_at  |-> None,
   assigned_operator_id |-> None,
   updated_at           |-> now]

Phase == {"idle", "routing", "answering", "packaging", "enqueueing", "done"}

InFlight(t) == pc[t] \in {"routing", "answering", "packaging", "enqueueing"}

Init ==
  /\ sessions = [s \in Session |-> NewSession(0)]
  /\ created = {}
  /\ pc = [t \in Request |-> "idle"]
  /\ target = [t \in Request |-> None]
  /\ copy = [t \in Request |-> None]
  /\ clock = 0
  /\ replies = 0
  /\ stale = {}
  /\ served = {}

-----------------------------------------------------------------------------
(* Writing the store.                                                      *)

Stamped(r) == [r EXCEPT !.updated_at = clock]

(* The requests that hold a copy of session s.                             *)
Holders(s) == {t \in Request : target[t] = s}

(* A handler that neither awaits nor keeps a copy saves record r.          *)
SaveSession(s, r) ==
  /\ sessions' = [sessions EXCEPT ![s] = Stamped(r)]
  /\ stale' = stale \cup Holders(s)

(* Request t saves its copy as r and stays suspended at phase ph.          *)
SaveCopy(t, r, ph) ==
  /\ sessions' = [sessions EXCEPT ![target[t]] = Stamped(r)]
  /\ copy' = [copy EXCEPT ![t] = Stamped(r)]
  /\ stale' = (stale \cup Holders(target[t])) \ {t}
  /\ pc' = [pc EXCEPT ![t] = ph]
  /\ UNCHANGED target

(* Request t ends, and its copy is dropped.                                *)
Drop(t) ==
  /\ pc' = [pc EXCEPT ![t] = "done"]
  /\ target' = [target EXCEPT ![t] = None]
  /\ copy' = [copy EXCEPT ![t] = None]

(* Request t saves its copy as r for the last time and ends.               *)
SaveLast(t, r) ==
  /\ sessions' = [sessions EXCEPT ![target[t]] = Stamped(r)]
  /\ stale' = (stale \cup Holders(target[t])) \ {t}
  /\ Drop(t)

(* Fault: a second enqueue leaves the priority of the first.               *)
EnqueuedKeepingPriority(r, c) ==
  [r EXCEPT !.state                = "waiting_human",
            !.waiting_human        = TRUE,
            !.handoff_reason       = c.reason,
            !.handoff_skill_group  = ResolveSkillGroup(c),
            !.handoff_priority     = IF @ = 0 THEN ResolvePriority(c) ELSE @,
            !.handoff_enqueued_at  = IF @ = None THEN clock ELSE @,
            !.assigned_operator_id = None]

(* Fault: a second enqueue renews the stamp of the first.                  *)
EnqueuedRestamped(r, c) ==
  [r EXCEPT !.state                = "waiting_human",
            !.waiting_human        = TRUE,
            !.handoff_reason       = c.reason,
            !.handoff_skill_group  = ResolveSkillGroup(c),
            !.handoff_priority     = ResolvePriority(c),
            !.handoff_enqueued_at  = clock,
            !.assigned_operator_id = None]

(* HandoffQueueBackend.enqueue on record r in context c: the stamp of an   *)
(* earlier enqueue is kept.                                                *)
Enqueued(r, c) ==
  [r EXCEPT !.state                = "waiting_human",
            !.waiting_human        = TRUE,
            !.handoff_reason       = c.reason,
            !.handoff_skill_group  = ResolveSkillGroup(c),
            !.handoff_priority     = ResolvePriority(c),
            !.handoff_enqueued_at  = IF @ = None THEN clock ELSE @,
            !.assigned_operator_id = None]

(* LocalHandoffQueueBackend.list_waiting: the waiting sessions of a skill  *)
(* group; None is no filter.                                               *)
Waiting(g) ==
  {s \in created : /\ sessions[s].waiting_human
                   /\ g # None => sessions[s].handoff_skill_group = g}

(* The sort key's time part: sessions never enqueued sort by their last    *)
(* update.                                                                 *)
QueuedSince(r) ==
  IF r.handoff_enqueued_at = None THEN r.updated_at ELSE r.handoff_enqueued_at

(* Record a sorts strictly before record b.  Equal keys keep the order of  *)
(* the store, which is left open here.                                     *)
SortsBefore(a, b) ==
  \/ a.handoff_priority > b.handoff_priority
  \/ /\ a.handoff_priority = b.handoff_priority
     /\ QueuedSince(a) < QueuedSince(b)

-----------------------------------------------------------------------------
(* Customer requests.                                                      *)

(* POST /sessions.                                                         *)
CreateSession(s) ==
  /\ s \notin created
  /\ created' = created \cup {s}
  /\ sessions' = [sessions EXCEPT ![s] = NewSession(clock)]
  /\ UNCHANGED <<pc, target, copy, clock, replies, stale, served>>

(* Fault: the session a chat request names is not looked up.               *)
BeginChatAfresh(t, s) ==
  LET r == [NewSession(clock) EXCEPT !.messages = {UserMessage(t)}]
  IN  /\ pc[t] = "idle"
      /\ created' = created \cup {s}
      /\ sessions' = [sessions EXCEPT ![s] = r]
      /\ copy' = [copy EXCEPT ![t] = r]
      /\ target' = [target EXCEPT ![t] = s]
      /\ pc' = [pc EXCEPT ![t] = "routing"]
      /\ stale' = stale \cup Holders(s)
      /\ UNCHANGED <<clock, replies, served>>

(* process_message up to its first await: the session is read, or created  *)
(* when the request names none, and saved with the user's message.  The    *)
(* state of the session is not looked at, here or later.                   *)
BeginChat(t, s) ==
  LET found == IF s \in created THEN sessions[s] ELSE NewSession(clock)
      r     == [found EXCEPT !.messages = @ \cup {UserMessage(t)}]
  IN  /\ pc[t] = "idle"
      /\ created' = created \cup {s}
      /\ sessions' = [sessions EXCEPT ![s] = Stamped(r)]
      /\ copy' = [copy EXCEPT ![t] = Stamped(r)]
      /\ target' = [target EXCEPT ![t] = s]
      /\ pc' = [pc EXCEPT ![t] = "routing"]
      /\ stale' = stale \cup Holders(s)
      /\ UNCHANGED <<clock, replies, served>>

(* Context and route are known: record_route_decision saves the copy.      *)
RecordRoute(t) ==
  /\ pc[t] = "routing"
  /\ SaveCopy(t, copy[t], "answering")
  /\ UNCHANGED <<created, clock, replies, served>>

(* Fault: enqueue works on a record of its own, and the queue fields are   *)
(* not synchronised back to the handler's copy.                            *)
ChatHandoffUnsynced(t, c) ==
  /\ pc[t] = "answering"
  /\ sessions' = [sessions EXCEPT ![target[t]] = Stamped(Enqueued(copy[t], c))]
  /\ stale' = (stale \cup Holders(target[t])) \ {t}
  /\ pc' = [pc EXCEPT ![t] = "packaging"]
  /\ served' = served \ {target[t]}
  /\ UNCHANGED <<created, target, copy, clock, replies>>

(* Tool or retrieval, model and should_handoff are back and a handoff is   *)
(* needed: create_package enqueues the copy and awaits the package.        *)
ChatHandoff(t, c) ==
  /\ pc[t] = "answering"
  /\ SaveCopy(t, Enqueued(copy[t], c), "packaging")
  /\ served' = served \ {target[t]}
  /\ UNCHANGED <<created, clock, replies>>

(* Fault: the session is read again before the answer is appended.         *)
AnswerRereads(t) ==
  /\ pc[t] \in {"answering", "packaging"}
  /\ SaveLast(t, [sessions[target[t]] EXCEPT !.messages = @ \cup {AssistantMessage(t)}])
  /\ UNCHANGED <<created, clock, replies, served>>

(* Fault: answering makes the session active.                              *)
AnswerActivates(t) ==
  /\ pc[t] \in {"answering", "packaging"}
  /\ SaveLast(t, [copy[t] EXCEPT !.messages = @ \cup {AssistantMessage(t)},
                                 !.state = "active", !.waiting_human = FALSE])
  /\ UNCHANGED <<created, clock, replies, served>>

(* The rest of process_message: the answer is appended and saved.          *)
Answer(t) ==
  /\ pc[t] \in {"answering", "packaging"}
  /\ SaveLast(t, [copy[t] EXCEPT !.messages = @ \cup {AssistantMessage(t)}])
  /\ UNCHANGED <<created, clock, replies, served>>

(* POST /chat/handoff: reads the session and awaits the business context.  *)
BeginHandoff(t, s) ==
  /\ pc[t] = "idle"
  /\ s \in created
  /\ pc' = [pc EXCEPT ![t] = "enqueueing"]
  /\ target' = [target EXCEPT ![t] = s]
  /\ copy' = [copy EXCEPT ![t] = sessions[s]]
  /\ UNCHANGED <<sessions, created, clock, replies, stale, served>>

(* Feedback "request_human" on a message of the session: the session waits *)
(* for a human from here on, but is enqueued only after the next await.    *)
RequestHuman(t, s) ==
  LET r == [sessions[s] EXCEPT !.state         = "waiting_human",
                               !.waiting_human = TRUE]
  IN  /\ pc[t] = "idle"
      /\ s \in created
      /\ sessions[s].messages # {}
      /\ sessions' = [sessions EXCEPT ![s] = Stamped(r)]
      /\ copy' = [copy EXCEPT ![t] = Stamped(r)]
      /\ target' = [target EXCEPT ![t] = s]
      /\ pc' = [pc EXCEPT ![t] = "enqueueing"]
      /\ stale' = stale \cup Holders(s)
      /\ served' = served \ {s}
      /\ UNCHANGED <<created, clock, replies>>

(* create_package of both: the copy is enqueued; what remains writes       *)
(* nothing.  These requests carry no integration context, so that only a   *)
(* context plugin can add a group or signals to c.                         *)
EnqueueRequest(t, c) ==
  /\ pc[t] = "enqueueing"
  /\ SaveLast(t, Enqueued(copy[t], c))
  /\ served' = served \ {target[t]}
  /\ UNCHANGED <<created, clock, replies>>

(* Up- or downvote of a message: read, marked and saved.  So is, after its *)
(* answer, the session of a voice turn: record_response_timing.            *)
RateMessage(s) ==
  /\ s \in created
  /\ sessions[s].messages # {}
  /\ SaveSession(s, sessions[s])
  /\ UNCHANGED <<created, pc, target, copy, clock, replies, served>>

(* A provider or plugin raises at an await, or the process restarts and    *)
(* loads the store it has flushed at every save: the request is lost, what *)
(* it saved stays.                                                         *)
Fail(t) ==
  /\ InFlight(t)
  /\ Drop(t)
  /\ stale' = stale \ {t}
  /\ UNCHANGED <<sessions, created, clock, replies, served>>

-----------------------------------------------------------------------------
(* Staff requests.  None of them awaits, and none looks at the state.      *)

(* Fault: a claim leaves the waiting flag.                                 *)
ClaimedStillWaiting(r, op) ==
  [r EXCEPT !.state                = "human_in_service",
            !.assigned_operator_id = op]

(* SessionService.claim_human on record r.                                 *)
Claimed(r, op) ==
  [r EXCEPT !.state                = "human_in_service",
            !.waiting_human        = FALSE,
            !.assigned_operator_id = op]

(* POST /sessions/{id}/claim-human names no operator.                      *)
ClaimHuman(s) ==
  /\ s \in created
  /\ SaveSession(s, Claimed(sessions[s], None))
  /\ UNCHANGED <<created, pc, target, copy, clock, replies, served>>

(* POST /admin/handoff/claim-next: the head of the sorted list, read again *)
(* and claimed.  With nobody waiting it changes nothing.                   *)
ClaimNext(g, op) ==
  \E s \in Waiting(g) :
    /\ \A w \in Waiting(g) : ~SortsBefore(sessions[w], sessions[s])
    /\ SaveSession(s, Claimed(sessions[s], op))
    /\ served' = served \cup {s}
    /\ UNCHANGED <<created, pc, target, copy, clock, replies>>

(* Fault: a human reply puts the session back to waiting.                  *)
HumanReplyRequeues(s) ==
  /\ s \in created
  /\ replies < MaxReplies
  /\ replies' = replies + 1
  /\ SaveSession(s, [sessions[s] EXCEPT
                       !.state         = "waiting_human",
                       !.waiting_human = TRUE,
                       !.messages      = @ \cup {HumanMessage(replies')}])
  /\ UNCHANGED <<created, pc, target, copy, clock, served>>

(* POST /sessions/{id}/messages/human.                                     *)
HumanReply(s) ==
  /\ s \in created
  /\ replies < MaxReplies
  /\ replies' = replies + 1
  /\ SaveSession(s, [sessions[s] EXCEPT
                       !.state         = "human_in_service",
                       !.waiting_human = FALSE,
                       !.messages      = @ \cup {HumanMessage(replies')}])
  /\ UNCHANGED <<created, pc, target, copy, clock, served>>

(* Fault: closing leaves the waiting flag.                                 *)
CloseSessionStillWaiting(s) ==
  /\ s \in created
  /\ SaveSession(s, [sessions[s] EXCEPT !.state = "closed"])
  /\ UNCHANGED <<created, pc, target, copy, clock, replies, served>>

(* POST /sessions/{id}/close.                                              *)
CloseSession(s) ==
  /\ s \in created
  /\ SaveSession(s, [sessions[s] EXCEPT !.state         = "closed",
                                        !.waiting_human = FALSE])
  /\ UNCHANGED <<created, pc, target, copy, clock, replies, served>>

(* Time passes.                                                            *)
Tick ==
  /\ clock < MaxTime
  /\ clock' = clock + 1
  /\ UNCHANGED <<sessions, created, pc, target, copy, replies, stale, served>>

-----------------------------------------------------------------------------
RequestStep(t) ==
  \/ RecordRoute(t)
  \/ \E c \in HandoffContext : ChatHandoff(t, c) \/ EnqueueRequest(t, c)
  \/ Answer(t)
  \/ Fail(t)

Arrival(t) ==
  \E s \in Session : BeginChat(t, s) \/ BeginHandoff(t, s) \/ RequestHuman(t, s)

StaffStep ==
  \/ \E s \in Session : ClaimHuman(s) \/ HumanReply(s) \/ CloseSession(s)
  \/ \E g \in SkillGroup \cup {None}, op \in Operator \cup {None} : ClaimNext(g, op)

Next ==
  \/ \E t \in Request : Arrival(t) \/ RequestStep(t)
  \/ \E s \in Session : CreateSession(s) \/ RateMessage(s)
  \/ StaffStep
  \/ Tick

Spec == Init /\ [][Next]_vars

(* The event loop resumes every suspended handler, because every await     *)
(* returns or raises; staff keep asking for the next session of any group. *)
FairSpec ==
  /\ Spec
  /\ \A t \in Request : WF_vars(RequestStep(t))
  /\ WF_vars(\E op \in Operator : ClaimNext(None, op))

-----------------------------------------------------------------------------
(* Properties.                                                             *)

(* The types of the variables: every stored record is a session record,    *)
(* and a request holds a copy of an existing session exactly while it is   *)
(* in flight.                                                              *)
TypeOK ==
  /\ sessions \in [Session -> SessionRecord]
  /\ created \subseteq Session
  /\ pc \in [Request -> Phase]
  /\ target \in [Request -> Session \cup {None}]
  /\ copy \in [Request -> SessionRecord \cup {None}]
  /\ \A t \in Request : IF InFlight(t)
                        THEN target[t] \in created /\ copy[t] \in SessionRecord
                        ELSE target[t] = None /\ copy[t] = None
  /\ clock \in Time
  /\ replies \in 0 .. MaxReplies
  /\ stale \subseteq Request
  /\ served \subseteq Session

(* P holds of every session record there is: stored, or in a handler's     *)
(* hands.                                                                  *)
EveryRecord(P(_)) ==
  /\ \A s \in created : P(sessions[s])
  /\ \A t \in Request : InFlight(t) => P(copy[t])

FlagAgrees(r) == r.waiting_human <=> r.state = "waiting_human"

(* The queue filters on the flag waiting_human, everything else reads the  *)
(* state; seven handlers write them.  In no record, stored or about to be  *)
(* written back, do the two disagree, so no session waits outside the      *)
(* queue and none is in it without waiting.                                *)
WaitingFlagAgrees == EveryRecord(FlagAgrees)

EntryIsWhole(r) ==
  IF r.handoff_enqueued_at = None
  THEN /\ r.handoff_priority = 0
       /\ r.handoff_reason = {}
       /\ r.handoff_skill_group = "general"
  ELSE /\ r.handoff_enqueued_at <= r.updated_at
       /\ \E c \in HandoffContext :
            /\ r.handoff_reason = c.reason
            /\ r.handoff_skill_group = ResolveSkillGroup(c)
            /\ r.handoff_priority = ResolvePriority(c)

(* The queue fields of a record come from one enqueue, never half from one *)
(* handler and half from another: a record with a stamp has the reason,    *)
(* group and priority of one context, one without has the defaults.        *)
QueueEntryIsWhole == EveryRecord(EntryIsWhole)

AnswersQuestioned(r) ==
  \A t \in Request : AssistantMessage(t) \in r.messages => UserMessage(t) \in r.messages

(* A history never shows an answer without its question, whatever was      *)
(* overwritten: a handler writes both from one copy.                       *)
AnswersHaveQuestions == EveryRecord(AnswersQuestioned)

(* A suspended handler has saved all it changed: as long as nobody else    *)
(* wrote the session, the copy it works on is the stored record.  What     *)
(* process_message reports as state is then what is stored.                *)
FreshCopyIsStored ==
  \A t \in Request : InFlight(t) /\ t \notin stale
                       => copy[t] = sessions[target[t]]

(* t is a request on s that ends its await in this step with an old copy.  *)
StaleWrite(s) == \E t \in stale : target[t] = s /\ pc'[t] # pc[t]

(* A message disappears from a session only when a handler that was        *)
(* suspended while another wrote the session writes its copy back.         *)
MessagesLostOnlyByStaleWrite ==
  [][\A s \in created :
       ~(sessions[s].messages \subseteq sessions'[s].messages) => StaleWrite(s)]_vars

(* No handler sets a session back to "active": once it waits, is served or *)
(* is closed, the AI gets it back only by a write of an old copy.          *)
BackToActiveOnlyByStaleWrite ==
  [][\A s \in created :
       sessions[s].state # "active" /\ sessions'[s].state = "active"
         => StaleWrite(s)]_vars

(* In this step a request asks for a human on session s.                   *)
AsksForHuman(s) ==
  \E t \in Request :
    \/ target'[t] = s /\ pc[t] = "answering" /\ pc'[t] = "packaging"
    \/ target'[t] = s /\ pc[t] = "idle" /\ pc'[t] = "enqueueing"
    \/ target[t] = s /\ pc[t] = "enqueueing" /\ pc'[t] = "done"

(* A session enters the queue because a request asks for a human, or by a  *)
(* write of an old copy; the staff's own calls never put one back.         *)
EntersQueueOnlyIfAsked ==
  [][\A s \in created :
       ~sessions[s].waiting_human /\ sessions'[s].waiting_human
         => AsksForHuman(s) \/ StaleWrite(s)]_vars

(* In this step claim-next hands waiting session s to a named operator.    *)
HandsOut(s) ==
  /\ sessions[s].waiting_human
  /\ sessions'[s].state = "human_in_service"
  /\ sessions'[s].assigned_operator_id \in Operator
  /\ UNCHANGED <<pc, replies>>

(* The queue as others see it: who waits, and who has been handed to the   *)
(* staff without a request for a human since.                              *)
Queue == INSTANCE ClaimQueue WITH
  Operator <- {"staff"}, waiting <- Waiting(None),
  holder <- [s \in Session |-> IF s \in served THEN "staff" ELSE None]

(* The view of the store that is the local queue behaves like a queue that *)
(* hands each session out at most once for each time it was enqueued, save *)
(* for writes of old copies: whatever else a handler or the staff write to *)
(* a session is an enqueue, a claim, a discard or nothing to it            *)
(* (LocalHandoffQueueBackend).                                             *)
ClaimQueueButForStaleWrite ==
  /\ Queue!Init
  /\ [][Queue!Next \/ \E s \in Session : StaleWrite(s)]_<<Waiting(None), served>>

(* With the staff polling the whole queue, no session waits for ever:      *)
(* every one that waits is at some time no longer waiting.                 *)
WaitingIsServed ==
  \A s \in Session : (s \in created /\ sessions[s].waiting_human)
                       ~> ~sessions[s].waiting_human

-----------------------------------------------------------------------------
(* What the documentation says of the queue, and the code does not do.     *)

(* docs/interview-playbook.md:98-99 promises that within one process       *)
(* claim-next does not hand a session out twice.  A turn suspended across  *)
(* the claim writes the waiting record back, and nobody asked again.       *)
NoDuplicateClaim ==
  [][\A s \in created : HandsOut(s) => s \notin served]_vars
=============================================================================
