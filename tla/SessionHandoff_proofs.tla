----------------------- MODULE SessionHandoff_proofs -----------------------
(***************************************************************************)
(* Proofs about SessionHandoff and QueueOrder, for any sets of sessions,   *)
(* requests, operators, skill groups and contexts, and any bounds.         *)
(*                                                                         *)
(* Every write puts a whole record in the store, so the proof has two      *)
(* layers: what each operation makes of a record (RecordOK of one record   *)
(* from RecordOK of another), and what each way of writing a record to the *)
(* store does to the rest of the state (the four "Keeps" lemmas).          *)
(***************************************************************************)
EXTENDS QueueOrder, TLAPS

(* What holds of every record at time now: the three record properties,    *)
(* and no time of it lies ahead.                                           *)
RecordOK(r, now) ==
  /\ r \in SessionRecord
  /\ FlagAgrees(r)
  /\ EntryIsWhole(r)
  /\ AnswersQuestioned(r)
  /\ r.updated_at <= now

StoredOK == \A s \in Session : RecordOK(sessions[s], clock)

CopiesOK == \A t \in Request : InFlight(t) => RecordOK(copy[t], clock)

(* A turn that has begun holds the customer's message in its copy.         *)
QuestionHeld ==
  \A t \in Request : pc[t] \in {"routing", "answering", "packaging"}
                       => UserMessage(t) \in copy[t].messages

(* The inductive invariant.                                                *)
IInv == TypeOK /\ StoredOK /\ CopiesOK /\ QuestionHeld /\ FreshCopyIsStored

-----------------------------------------------------------------------------
(* The rules.                                                              *)

(* Every context resolves to a known skill group.                          *)
LEMMA SkillGroupResolves ==
  ASSUME NEW c \in HandoffContext
  PROVE  ResolveSkillGroup(c) \in SkillGroup
BY HandoffAssumption DEF ContextType, ResolveSkillGroup

(* Every context resolves to a priority between 50 and 100.                *)
LEMMA PriorityResolves ==
  ASSUME NEW c \in HandoffContext
  PROVE  ResolvePriority(c) \in 50 .. 100
<1>1. BasePriority(c.reason) \in {50, 60, 80, 90}
  BY DEF BasePriority
<1> QED
  BY <1>1 DEF ResolvePriority

-----------------------------------------------------------------------------
(* Records.                                                                *)

(* A session created now is a good record.                                 *)
LEMMA NewSessionOK ==
  ASSUME NEW now \in Time
  PROVE  RecordOK(NewSession(now), now)
<1>1. NewSession(now) \in SessionRecord
  <2>1. "general" \in SkillGroup
    BY HandoffAssumption
  <2>2. {} \in SUBSET Message /\ {} \in SUBSET Keyword
    OBVIOUS
  <2> QED
    BY <2>1, <2>2 DEF NewSession, SessionRecord, State
<1>2. EntryIsWhole(NewSession(now))
  BY DEF NewSession, EntryIsWhole
<1>3. FlagAgrees(NewSession(now)) /\ AnswersQuestioned(NewSession(now))
  BY DEF NewSession, FlagAgrees, AnswersQuestioned
<1> QED
  BY <1>1, <1>2, <1>3 DEF RecordOK, NewSession, Time

(* Saving stamps a good record with the time, and leaves it good.          *)
LEMMA StampedOK ==
  ASSUME NEW r, clock \in Time, RecordOK(r, clock)
  PROVE  RecordOK(Stamped(r), clock)
<1>1. Stamped(r) \in SessionRecord /\ FlagAgrees(Stamped(r))
  BY DEF RecordOK, Stamped, SessionRecord, FlagAgrees
<1>2. EntryIsWhole(Stamped(r))
  BY SessionAssumption DEF RecordOK, Stamped, SessionRecord, EntryIsWhole, Time
<1>3. AnswersQuestioned(Stamped(r))
  BY DEF RecordOK, Stamped, SessionRecord, AnswersQuestioned
<1> QED
  BY <1>1, <1>2, <1>3 DEF RecordOK, Stamped, SessionRecord, Time

(* A good record stays good when a user's message is appended.             *)
LEMMA AskedOK ==
  ASSUME NEW r, NEW t \in Request, clock \in Time, RecordOK(r, clock)
  PROVE  RecordOK([r EXCEPT !.messages = @ \cup {UserMessage(t)}], clock)
<1> DEFINE q == [r EXCEPT !.messages = @ \cup {UserMessage(t)}]
<1>1. UserMessage(t) \in Message
  BY DEF UserMessage, Message
<1>2. q \in SessionRecord /\ FlagAgrees(q)
  BY <1>1 DEF RecordOK, SessionRecord, FlagAgrees
<1>3. EntryIsWhole(q)
  BY DEF RecordOK, SessionRecord, EntryIsWhole
<1>4. AnswersQuestioned(q)
  BY DEF RecordOK, SessionRecord, AnswersQuestioned, AssistantMessage, UserMessage
<1> QED
  BY <1>2, <1>3, <1>4 DEF RecordOK, SessionRecord

(* An answer may be added where its question is.                           *)
LEMMA AnsweredOK ==
  ASSUME NEW r, NEW t \in Request, clock \in Time, RecordOK(r, clock),
         UserMessage(t) \in r.messages
  PROVE  RecordOK([r EXCEPT !.messages = @ \cup {AssistantMessage(t)}], clock)
<1> DEFINE q == [r EXCEPT !.messages = @ \cup {AssistantMessage(t)}]
<1>1. AssistantMessage(t) \in Message
  BY DEF AssistantMessage, Message
<1>2. q \in SessionRecord /\ FlagAgrees(q)
  BY <1>1 DEF RecordOK, SessionRecord, FlagAgrees
<1>3. EntryIsWhole(q)
  BY DEF RecordOK, SessionRecord, EntryIsWhole
<1>4. AnswersQuestioned(q)
  BY DEF RecordOK, SessionRecord, AnswersQuestioned, AssistantMessage
<1> QED
  BY <1>2, <1>3, <1>4 DEF RecordOK, SessionRecord

(* A human reply.                                                          *)
LEMMA RepliedOK ==
  ASSUME NEW r, NEW n \in 1 .. MaxReplies, clock \in Time, RecordOK(r, clock)
  PROVE  RecordOK([r EXCEPT !.state         = "human_in_service",
                            !.waiting_human = FALSE,
                            !.messages      = @ \cup {HumanMessage(n)}], clock)
<1> DEFINE q == [r EXCEPT !.state         = "human_in_service",
                          !.waiting_human = FALSE,
                          !.messages      = @ \cup {HumanMessage(n)}]
<1>1. HumanMessage(n) \in Message
  BY DEF HumanMessage, Message
<1>2. q \in SessionRecord /\ FlagAgrees(q)
  BY <1>1 DEF RecordOK, SessionRecord, FlagAgrees, State
<1>3. EntryIsWhole(q)
  BY DEF RecordOK, SessionRecord, EntryIsWhole
<1>4. AnswersQuestioned(q)
  BY DEF RecordOK, SessionRecord, AnswersQuestioned, AssistantMessage, HumanMessage
<1> QED
  BY <1>2, <1>3, <1>4 DEF RecordOK, SessionRecord

(* A change of state and flag together: the customer's request_human, and  *)
(* the staff's close.                                                      *)
LEMMA MovedOK ==
  ASSUME NEW r, NEW st \in State, NEW w \in BOOLEAN, w <=> st = "waiting_human",
         RecordOK(r, clock)
  PROVE  RecordOK([r EXCEPT !.state = st, !.waiting_human = w], clock)
<1> DEFINE q == [r EXCEPT !.state = st, !.waiting_human = w]
<1>1. q \in SessionRecord /\ FlagAgrees(q)
  BY DEF RecordOK, SessionRecord, FlagAgrees
<1>2. EntryIsWhole(q) /\ AnswersQuestioned(q)
  BY DEF RecordOK, SessionRecord, EntryIsWhole, AnswersQuestioned
<1> QED
  BY <1>1, <1>2 DEF RecordOK, SessionRecord

(* A claimed record is good.                                               *)
LEMMA ClaimedOK ==
  ASSUME NEW r, NEW op \in Operator \cup {None}, RecordOK(r, clock)
  PROVE  RecordOK(Claimed(r, op), clock)
<1>1. Claimed(r, op) \in SessionRecord /\ FlagAgrees(Claimed(r, op))
  BY DEF RecordOK, SessionRecord, FlagAgrees, Claimed, State
<1>2. EntryIsWhole(Claimed(r, op)) /\ AnswersQuestioned(Claimed(r, op))
  BY DEF RecordOK, SessionRecord, EntryIsWhole, AnswersQuestioned, Claimed
<1> QED
  BY <1>1, <1>2 DEF RecordOK, SessionRecord, Claimed

(* enqueue, then the save that stamps the record: a kept stamp is not      *)
(* later than the record's last update, so not later than now.             *)
LEMMA EnqueuedOK ==
  ASSUME NEW r, NEW c \in HandoffContext, clock \in Time, RecordOK(r, clock)
  PROVE  RecordOK(Stamped(Enqueued(r, c)), clock)
<1> DEFINE q == Stamped(Enqueued(r, c))
<1>1. /\ ResolveSkillGroup(c) \in SkillGroup
      /\ ResolvePriority(c) \in 50 .. 100
      /\ c.reason \in SUBSET Keyword
  BY SkillGroupResolves, PriorityResolves, HandoffAssumption DEF ContextType
<1>2. q \in SessionRecord /\ FlagAgrees(q)
  <2>1. ResolvePriority(c) \in 0 .. 100
    BY <1>1
  <2>2. Enqueued(r, c) \in SessionRecord /\ FlagAgrees(Enqueued(r, c))
    BY <1>1, <2>1 DEF RecordOK, SessionRecord, FlagAgrees, Enqueued, State
  <2> QED
    BY <2>2 DEF SessionRecord, FlagAgrees, Stamped
<1>3. EntryIsWhole(q)
  <2>1. /\ q.handoff_reason = c.reason
        /\ q.handoff_skill_group = ResolveSkillGroup(c)
        /\ q.handoff_priority = ResolvePriority(c)
    BY DEF RecordOK, SessionRecord, Enqueued, Stamped
  <2>2. /\ q.handoff_enqueued_at # None
        /\ q.handoff_enqueued_at <= q.updated_at
    BY SessionAssumption
       DEF RecordOK, SessionRecord, Enqueued, Stamped, EntryIsWhole, Time
  <2> QED
    BY <2>1, <2>2 DEF EntryIsWhole
<1>4. AnswersQuestioned(q)
  BY DEF RecordOK, SessionRecord, AnswersQuestioned, Enqueued, Stamped
<1> QED
  BY <1>2, <1>3, <1>4 DEF RecordOK, SessionRecord, Enqueued, Stamped, Time

-----------------------------------------------------------------------------
(* The ways of writing the store.                                          *)

(* A handler that keeps no copy saves a good record.                       *)
LEMMA SaveSessionKeeps ==
  ASSUME IInv, NEW s \in Session, NEW r,
         RecordOK(Stamped(r), clock), SaveSession(s, r),
         UNCHANGED <<created, pc, target, copy, clock>>,
         replies' \in 0 .. MaxReplies, served' \subseteq Session
  PROVE  IInv'
<1> USE DEF IInv, TypeOK
<1>1. sessions' = [sessions EXCEPT ![s] = Stamped(r)]
  BY DEF SaveSession
<1>2. StoredOK'
  BY <1>1 DEF StoredOK
<1>3. Stamped(r) \in SessionRecord
  BY DEF RecordOK
<1>4. TypeOK'
  BY <1>1, <1>3 DEF SaveSession, Holders, InFlight
<1>5. CopiesOK' /\ QuestionHeld'
  BY DEF CopiesOK, QuestionHeld, InFlight
<1>6. FreshCopyIsStored'
  BY <1>1 DEF FreshCopyIsStored, SaveSession, Holders, InFlight
<1> QED
  BY <1>2, <1>4, <1>5, <1>6

(* A request reads or creates a session, saves it as r and keeps a copy.   *)
LEMMA BeginKeeps ==
  ASSUME IInv, NEW t \in Request, NEW s \in Session, NEW r, NEW ph,
         pc[t] = "idle",
         (ph = "routing" /\ UserMessage(t) \in r.messages) \/ ph = "enqueueing",
         RecordOK(r, clock),
         created' = created \cup {s},
         sessions' = [sessions EXCEPT ![s] = r],
         copy' = [copy EXCEPT ![t] = r],
         target' = [target EXCEPT ![t] = s],
         pc' = [pc EXCEPT ![t] = ph],
         stale \subseteq stale', stale' \subseteq Request,
         sessions[s] # r => Holders(s) \subseteq stale',
         UNCHANGED <<clock, replies>>, served' \subseteq Session
  PROVE  IInv'
<1> USE DEF IInv, TypeOK
<1>1. r \in SessionRecord
  BY DEF RecordOK
<1>2. TypeOK'
  BY <1>1 DEF InFlight, Phase
<1>3. StoredOK'
  BY DEF StoredOK
<1>4. CopiesOK'
  BY DEF CopiesOK, InFlight
<1>5. QuestionHeld'
  BY DEF QuestionHeld, InFlight
<1>6. FreshCopyIsStored'
  BY DEF FreshCopyIsStored, Holders, InFlight
<1> QED
  BY <1>2, <1>3, <1>4, <1>5, <1>6

(* A suspended request saves its copy and goes on.                         *)
LEMMA SaveCopyKeeps ==
  ASSUME IInv, NEW t \in Request, InFlight(t), NEW r,
         NEW ph \in {"answering", "packaging"},
         RecordOK(Stamped(r), clock), UserMessage(t) \in Stamped(r).messages,
         SaveCopy(t, r, ph),
         UNCHANGED <<created, clock, replies>>, served' \subseteq Session
  PROVE  IInv'
<1> USE DEF IInv, TypeOK
<1>1. Stamped(r) \in SessionRecord /\ target[t] \in Session
  BY DEF RecordOK
<1>2. TypeOK'
  BY <1>1 DEF SaveCopy, Holders, InFlight, Phase
<1>3. StoredOK'
  BY <1>1 DEF StoredOK, SaveCopy
<1>4. CopiesOK'
  BY DEF CopiesOK, SaveCopy, InFlight
<1>5. QuestionHeld'
  BY DEF QuestionHeld, SaveCopy, InFlight
<1>6. FreshCopyIsStored'
  BY <1>1 DEF FreshCopyIsStored, SaveCopy, Holders, InFlight
<1> QED
  BY <1>2, <1>3, <1>4, <1>5, <1>6

(* A suspended request saves its copy and ends.                            *)
LEMMA SaveLastKeeps ==
  ASSUME IInv, NEW t \in Request, InFlight(t), NEW r,
         RecordOK(Stamped(r), clock), SaveLast(t, r),
         UNCHANGED <<created, clock, replies>>, served' \subseteq Session
  PROVE  IInv'
<1> USE DEF IInv, TypeOK
<1>1. Stamped(r) \in SessionRecord /\ target[t] \in Session
  BY DEF RecordOK
<1>2. TypeOK'
  BY <1>1 DEF SaveLast, Drop, Holders, InFlight, Phase
<1>3. StoredOK'
  BY <1>1 DEF StoredOK, SaveLast
<1>4. CopiesOK'
  BY DEF CopiesOK, SaveLast, Drop, InFlight
<1>5. QuestionHeld'
  BY DEF QuestionHeld, SaveLast, Drop, InFlight
<1>6. FreshCopyIsStored'
  BY <1>1 DEF FreshCopyIsStored, SaveLast, Drop, Holders, InFlight
<1> QED
  BY <1>2, <1>3, <1>4, <1>5, <1>6

-----------------------------------------------------------------------------
(* The inductive invariant.                                                *)

(* The invariant holds before the first request.                           *)
LEMMA InitOK == Init => IInv
<1> SUFFICES ASSUME Init PROVE IInv
  OBVIOUS
<1> USE SessionAssumption DEF Init
<1>1. 0 \in Time /\ RecordOK(NewSession(0), 0)
  BY NewSessionOK DEF Time
<1>2. StoredOK
  BY <1>1 DEF StoredOK
<1>3. CopiesOK /\ QuestionHeld /\ FreshCopyIsStored
  BY DEF CopiesOK, QuestionHeld, FreshCopyIsStored, InFlight
<1>4. TypeOK
  BY <1>1 DEF TypeOK, RecordOK, InFlight, Phase
<1> QED
  BY <1>2, <1>3, <1>4 DEF IInv

(* The first step of a request keeps the invariant.                        *)
LEMMA ArrivalKeeps ==
  ASSUME IInv, NEW t \in Request, Arrival(t)
  PROVE  IInv'
<1> PICK s \in Session : BeginChat(t, s) \/ BeginHandoff(t, s) \/ RequestHuman(t, s)
  BY DEF Arrival
<1> USE DEF IInv, TypeOK
<1>1. RecordOK(sessions[s], clock)
  BY DEF StoredOK
<1>2. CASE BeginChat(t, s)
  <2> DEFINE found == IF s \in created THEN sessions[s] ELSE NewSession(clock)
             r     == [found EXCEPT !.messages = @ \cup {UserMessage(t)}]
  <2>1. RecordOK(found, clock)
    BY <1>1, NewSessionOK
  <2>2. UserMessage(t) \in Stamped(r).messages
    BY <2>1 DEF RecordOK, SessionRecord, Stamped
  <2>3. RecordOK(Stamped(r), clock)
    <3> HIDE DEF found
    <3>1. RecordOK(r, clock)
      BY <2>1, AskedOK
    <3> HIDE DEF r
    <3> QED
      BY <3>1, StampedOK
  <2>4. /\ pc[t] = "idle"
        /\ created' = created \cup {s}
        /\ sessions' = [sessions EXCEPT ![s] = Stamped(r)]
        /\ copy' = [copy EXCEPT ![t] = Stamped(r)]
        /\ target' = [target EXCEPT ![t] = s]
        /\ pc' = [pc EXCEPT ![t] = "routing"]
        /\ stale' = stale \cup Holders(s)
        /\ UNCHANGED <<clock, replies, served>>
    BY <1>2 DEF BeginChat
  <2>5. /\ stale \subseteq stale' /\ stale' \subseteq Request
        /\ Holders(s) \subseteq stale'
        /\ served' \subseteq Session
    BY <2>4 DEF Holders
  <2> HIDE DEF r, IInv
  <2> QED
    BY <2>2, <2>3, <2>4, <2>5, BeginKeeps
<1>3. CASE BeginHandoff(t, s)
  <2>1. s \in created /\ created' = created \cup {s}
    BY <1>3 DEF BeginHandoff
  <2>2. /\ sessions' = [sessions EXCEPT ![s] = sessions[s]]
        /\ stale \subseteq stale' /\ stale' \subseteq Request
        /\ served' \subseteq Session
    BY <1>3 DEF BeginHandoff
  <2> HIDE DEF IInv
  <2> QED
    BY <1>1, <1>3, <2>1, <2>2, BeginKeeps DEF BeginHandoff
<1>4. CASE RequestHuman(t, s)
  <2> DEFINE r == [sessions[s] EXCEPT !.state         = "waiting_human",
                                      !.waiting_human = TRUE]
  <2>1. RecordOK(r, clock)
    BY <1>1, MovedOK DEF State
  <2>2. /\ pc[t] = "idle"
        /\ s \in created
        /\ sessions' = [sessions EXCEPT ![s] = Stamped(r)]
        /\ copy' = [copy EXCEPT ![t] = Stamped(r)]
        /\ target' = [target EXCEPT ![t] = s]
        /\ pc' = [pc EXCEPT ![t] = "enqueueing"]
        /\ stale' = stale \cup Holders(s)
        /\ served' = served \ {s}
        /\ UNCHANGED <<created, clock, replies>>
    BY <1>4 DEF RequestHuman
  <2> HIDE DEF r
  <2>3. RecordOK(Stamped(r), clock)
    BY <2>1, StampedOK
  <2>4. /\ stale \subseteq stale' /\ stale' \subseteq Request
        /\ Holders(s) \subseteq stale'
        /\ created' = created \cup {s}
        /\ served' \subseteq Session
    BY <2>2 DEF Holders
  <2> HIDE DEF IInv
  <2> QED
    BY <2>2, <2>3, <2>4, BeginKeeps
<1> QED
  BY <1>2, <1>3, <1>4

(* A resumed request keeps it.                                             *)
LEMMA RequestStepKeeps ==
  ASSUME IInv, NEW t \in Request, RequestStep(t)
  PROVE  IInv'
<1> USE DEF IInv, TypeOK
<1>1. CASE RecordRoute(t)
  <2>1. InFlight(t) /\ RecordOK(copy[t], clock) /\ UserMessage(t) \in copy[t].messages
    BY <1>1 DEF RecordRoute, InFlight, CopiesOK, QuestionHeld
  <2>2. RecordOK(Stamped(copy[t]), clock) /\ UserMessage(t) \in Stamped(copy[t]).messages
    BY <2>1, StampedOK DEF RecordOK, SessionRecord, Stamped
  <2>3. /\ SaveCopy(t, copy[t], "answering")
        /\ UNCHANGED <<created, clock, replies>> /\ served' \subseteq Session
    BY <1>1 DEF RecordRoute
  <2> HIDE DEF IInv
  <2> QED
    BY <2>1, <2>2, <2>3, SaveCopyKeeps
<1>2. ASSUME NEW c \in HandoffContext, ChatHandoff(t, c)
      PROVE  IInv'
  <2>1. InFlight(t) /\ RecordOK(copy[t], clock) /\ UserMessage(t) \in copy[t].messages
    BY <1>2 DEF ChatHandoff, InFlight, CopiesOK, QuestionHeld
  <2>2. RecordOK(Stamped(Enqueued(copy[t], c)), clock)
    BY <2>1, EnqueuedOK
  <2>3. UserMessage(t) \in Stamped(Enqueued(copy[t], c)).messages
    BY <2>1 DEF RecordOK, SessionRecord, Enqueued, Stamped
  <2>4. /\ SaveCopy(t, Enqueued(copy[t], c), "packaging")
        /\ UNCHANGED <<created, clock, replies>> /\ served' \subseteq Session
    BY <1>2 DEF ChatHandoff
  <2> HIDE DEF IInv
  <2> QED
    BY <2>1, <2>2, <2>3, <2>4, SaveCopyKeeps
<1>3. ASSUME NEW c \in HandoffContext, EnqueueRequest(t, c)
      PROVE  IInv'
  <2>1. InFlight(t) /\ RecordOK(copy[t], clock)
    BY <1>3 DEF EnqueueRequest, InFlight, CopiesOK
  <2>2. RecordOK(Stamped(Enqueued(copy[t], c)), clock)
    BY <2>1, EnqueuedOK
  <2>3. /\ SaveLast(t, Enqueued(copy[t], c))
        /\ UNCHANGED <<created, clock, replies>> /\ served' \subseteq Session
    BY <1>3 DEF EnqueueRequest
  <2> HIDE DEF IInv
  <2> QED
    BY <2>1, <2>2, <2>3, SaveLastKeeps
<1>4. CASE Answer(t)
  <2> DEFINE r == [copy[t] EXCEPT !.messages = @ \cup {AssistantMessage(t)}]
  <2>1. InFlight(t) /\ RecordOK(copy[t], clock) /\ UserMessage(t) \in copy[t].messages
    BY <1>4 DEF Answer, InFlight, CopiesOK, QuestionHeld
  <2>2. RecordOK(r, clock)
    BY <2>1, AnsweredOK
  <2>3. /\ SaveLast(t, r)
        /\ UNCHANGED <<created, clock, replies>> /\ served' \subseteq Session
    BY <1>4 DEF Answer
  <2> HIDE DEF r
  <2>4. RecordOK(Stamped(r), clock)
    BY <2>2, StampedOK
  <2> HIDE DEF IInv
  <2> QED
    BY <2>1, <2>3, <2>4, SaveLastKeeps
<1>5. CASE Fail(t)
  <2> USE <1>5 DEF Fail, Drop, InFlight
  <2>1. TypeOK'
    BY DEF Phase
  <2>2. StoredOK' /\ CopiesOK' /\ QuestionHeld'
    BY DEF StoredOK, CopiesOK, QuestionHeld
  <2>3. FreshCopyIsStored'
    BY DEF FreshCopyIsStored
  <2> QED
    BY <2>1, <2>2, <2>3
<1> QED
  BY <1>1, <1>2, <1>3, <1>4, <1>5 DEF RequestStep

(* So do the staff's calls.                                                *)
LEMMA StaffStepKeeps ==
  ASSUME IInv, StaffStep
  PROVE  IInv'
<1> USE DEF IInv, TypeOK
<1>1. \A s \in Session : RecordOK(sessions[s], clock)
  BY DEF StoredOK
<1>2. ASSUME NEW s \in Session, NEW op \in Operator \cup {None},
             SaveSession(s, Claimed(sessions[s], op)), served' \subseteq Session,
             UNCHANGED <<created, pc, target, copy, clock, replies>>
      PROVE  IInv'
  <2>1. RecordOK(Stamped(Claimed(sessions[s], op)), clock)
    BY <1>1, ClaimedOK, StampedOK
  <2>2. replies' \in 0 .. MaxReplies
    BY <1>2
  <2> HIDE DEF IInv
  <2> QED
    BY <1>2, <2>1, <2>2, SaveSessionKeeps
<1>3. ASSUME NEW s \in Session, ClaimHuman(s)
      PROVE  IInv'
  BY <1>2, <1>3 DEF ClaimHuman
<1>4. ASSUME NEW g, NEW op \in Operator \cup {None}, ClaimNext(g, op)
      PROVE  IInv'
  <2> PICK s \in Waiting(g) :
             /\ SaveSession(s, Claimed(sessions[s], op))
             /\ served' = served \cup {s}
             /\ UNCHANGED <<created, pc, target, copy, clock, replies>>
    BY <1>4 DEF ClaimNext
  <2>1. s \in Session /\ served' \subseteq Session
    BY DEF Waiting
  <2> QED
    BY <1>2, <2>1
<1>5. ASSUME NEW s \in Session, HumanReply(s)
      PROVE  IInv'
  <2> DEFINE r == [sessions[s] EXCEPT
                     !.state         = "human_in_service",
                     !.waiting_human = FALSE,
                     !.messages      = @ \cup {HumanMessage(replies')}]
  <2>1. replies' \in 1 .. MaxReplies /\ replies' \in 0 .. MaxReplies
    BY <1>5, SessionAssumption DEF HumanReply
  <2>2. RecordOK(r, clock)
    BY <1>1, <2>1, RepliedOK
  <2>3. /\ SaveSession(s, r)
        /\ UNCHANGED <<created, pc, target, copy, clock>> /\ served' \subseteq Session
    BY <1>5 DEF HumanReply
  <2> HIDE DEF r
  <2>4. RecordOK(Stamped(r), clock)
    BY <2>2, StampedOK
  <2> HIDE DEF IInv
  <2> QED
    BY <2>1, <2>3, <2>4, SaveSessionKeeps
<1>6. ASSUME NEW s \in Session, CloseSession(s)
      PROVE  IInv'
  <2> DEFINE r == [sessions[s] EXCEPT !.state         = "closed",
                                      !.waiting_human = FALSE]
  <2>1. RecordOK(r, clock)
    BY <1>1, MovedOK DEF State
  <2>2. /\ SaveSession(s, r)
        /\ UNCHANGED <<created, pc, target, copy, clock>>
        /\ replies' \in 0 .. MaxReplies /\ served' \subseteq Session
    BY <1>6 DEF CloseSession
  <2> HIDE DEF r
  <2>3. RecordOK(Stamped(r), clock)
    BY <2>1, StampedOK
  <2> HIDE DEF IInv
  <2> QED
    BY <2>2, <2>3, SaveSessionKeeps
<1> QED
  BY <1>3, <1>4, <1>5, <1>6 DEF StaffStep

(* The invariant is inductive.                                             *)
LEMMA NextKeeps == IInv /\ [Next]_vars => IInv'
<1> SUFFICES ASSUME IInv, [Next]_vars PROVE IInv'
  OBVIOUS
<1>1. ASSUME NEW t \in Request, Arrival(t) \/ RequestStep(t)
      PROVE  IInv'
  BY <1>1, ArrivalKeeps, RequestStepKeeps
<1>2. ASSUME NEW s \in Session, CreateSession(s)
      PROVE  IInv'
  <2> USE <1>2 DEF IInv, TypeOK, CreateSession
  <2>1. RecordOK(NewSession(clock), clock)
    BY NewSessionOK
  <2>2. StoredOK'
    BY <2>1 DEF StoredOK
  <2>3. CopiesOK' /\ QuestionHeld'
    BY DEF CopiesOK, QuestionHeld, InFlight
  <2>4. FreshCopyIsStored'
    BY DEF FreshCopyIsStored, InFlight
  <2>5. TypeOK'
    BY <2>1 DEF RecordOK, InFlight
  <2> QED
    BY <2>2, <2>3, <2>4, <2>5
<1>3. ASSUME NEW s \in Session, RateMessage(s)
      PROVE  IInv'
  <2>1. RecordOK(Stamped(sessions[s]), clock)
    BY StampedOK DEF IInv, TypeOK, StoredOK
  <2>2. /\ SaveSession(s, sessions[s])
        /\ UNCHANGED <<created, pc, target, copy, clock>>
        /\ replies' \in 0 .. MaxReplies /\ served' \subseteq Session
    BY <1>3 DEF RateMessage, IInv, TypeOK
  <2> QED
    BY <2>1, <2>2, SaveSessionKeeps
<1>4. CASE StaffStep
  BY <1>4, StaffStepKeeps
<1>5. CASE Tick
  <2> USE <1>5 DEF IInv, TypeOK, Tick
  <2>1. clock' \in Time /\ clock <= clock' /\ clock \in Int
    BY SessionAssumption DEF Time
  <2>2. \A r : RecordOK(r, clock) => RecordOK(r, clock')
    BY <2>1 DEF RecordOK, SessionRecord, Time
  <2>3. StoredOK' /\ CopiesOK'
    BY <2>2 DEF StoredOK, CopiesOK, InFlight
  <2>4. QuestionHeld' /\ FreshCopyIsStored' /\ TypeOK'
    BY <2>1 DEF QuestionHeld, FreshCopyIsStored, InFlight
  <2> QED
    BY <2>3, <2>4
<1>6. CASE UNCHANGED vars
  BY <1>6 DEF vars, IInv, TypeOK, StoredOK, CopiesOK, QuestionHeld,
              FreshCopyIsStored, InFlight
<1> QED
  BY <1>1, <1>2, <1>3, <1>4, <1>5, <1>6 DEF Next

(* Hence it always holds.                                                  *)
LEMMA InvariantHolds == Spec => []IInv
BY InitOK, NextKeeps, PTL DEF Spec

-----------------------------------------------------------------------------
(* The safety properties.                                                  *)

(* The variables keep their types; a request holds a copy of a created     *)
(* session exactly while it is in flight.                                  *)
THEOREM TypeCorrect == Spec => []TypeOK
<1>1. IInv => TypeOK
  BY DEF IInv
<1> QED
  BY <1>1, InvariantHolds, PTL

(* In every record, stored or in a handler's hands, the flag that the      *)
(* queue filters on agrees with the state.                                 *)
THEOREM FlagsAgree == Spec => []WaitingFlagAgrees
<1>1. IInv => WaitingFlagAgrees
  BY DEF IInv, TypeOK, StoredOK, CopiesOK, RecordOK, WaitingFlagAgrees, EveryRecord
<1> QED
  BY <1>1, InvariantHolds, PTL

(* The queue fields of every record are those of one enqueue.              *)
THEOREM EntriesAreWhole == Spec => []QueueEntryIsWhole
<1>1. IInv => QueueEntryIsWhole
  BY DEF IInv, TypeOK, StoredOK, CopiesOK, RecordOK, QueueEntryIsWhole, EveryRecord
<1> QED
  BY <1>1, InvariantHolds, PTL

(* No record holds an answer without its question.                         *)
THEOREM NoOrphanAnswers == Spec => []AnswersHaveQuestions
<1>1. IInv => AnswersHaveQuestions
  BY DEF IInv, TypeOK, StoredOK, CopiesOK, RecordOK, AnswersHaveQuestions, EveryRecord
<1> QED
  BY <1>1, InvariantHolds, PTL

(* A suspended handler's copy is the stored record until another handler   *)
(* writes the session.                                                     *)
THEOREM FreshCopiesAreStored == Spec => []FreshCopyIsStored
<1>1. IInv => FreshCopyIsStored
  BY DEF IInv
<1> QED
  BY <1>1, InvariantHolds, PTL

-----------------------------------------------------------------------------
(* The action properties.                                                  *)

(* What a step does to a created session it does not overwrite with an old *)
(* copy: each disjunct is one kind of handler.                             *)
LEMMA StepOnSession ==
  ASSUME IInv, [Next]_vars, NEW s \in created, ~StaleWrite(s)
  PROVE  LET r == sessions[s]  q == sessions'[s]
         IN  \/ q = r
             \/ q = Stamped(r)
             \/ \E t \in Request :
                  q = Stamped([r EXCEPT !.messages = @ \cup {UserMessage(t)}])
             \/ \E t \in Request :
                  q = Stamped([r EXCEPT !.messages = @ \cup {AssistantMessage(t)}])
             \/ AsksForHuman(s) /\ \E c \in HandoffContext : q = Stamped(Enqueued(r, c))
             \/ /\ AsksForHuman(s)
                /\ q = Stamped([r EXCEPT !.state = "waiting_human",
                                         !.waiting_human = TRUE])
             \/ \E op \in Operator \cup {None} : q = Stamped(Claimed(r, op))
             \/ q = Stamped([r EXCEPT !.state         = "human_in_service",
                                      !.waiting_human = FALSE,
                                      !.messages      = @ \cup {HumanMessage(replies')}])
             \/ q = Stamped([r EXCEPT !.state = "closed", !.waiting_human = FALSE])
<1> USE DEF IInv, TypeOK
<1> DEFINE r == sessions[s]
           q == sessions'[s]
<1>1. ASSUME NEW t \in Request, NEW z \in Session,
             BeginChat(t, z) \/ BeginHandoff(t, z) \/ RequestHuman(t, z)
      PROVE  \/ q = r
             \/ q = Stamped([r EXCEPT !.messages = @ \cup {UserMessage(t)}])
             \/ /\ AsksForHuman(s)
                /\ q = Stamped([r EXCEPT !.state = "waiting_human",
                                         !.waiting_human = TRUE])
  BY <1>1 DEF BeginChat, BeginHandoff, RequestHuman, AsksForHuman
<1>2. ASSUME NEW t \in Request, RequestStep(t)
      PROVE  \/ q = r
             \/ q = Stamped(r)
             \/ q = Stamped([r EXCEPT !.messages = @ \cup {AssistantMessage(t)}])
             \/ AsksForHuman(s) /\ \E c \in HandoffContext : q = Stamped(Enqueued(r, c))
  <2>1. InFlight(t)
    BY <1>2 DEF RequestStep, RecordRoute, ChatHandoff, EnqueueRequest, Answer, Fail,
                InFlight
  <2>2. target[t] = s /\ pc'[t] # pc[t] => copy[t] = sessions[s]
    BY <2>1 DEF StaleWrite, FreshCopyIsStored
  <2>3. CASE RecordRoute(t)
    BY <2>2, <2>3 DEF RecordRoute, SaveCopy
  <2>4. ASSUME NEW c \in HandoffContext, ChatHandoff(t, c)
        PROVE  \/ q = r
               \/ AsksForHuman(s) /\ q = Stamped(Enqueued(r, c))
    BY <2>2, <2>4 DEF ChatHandoff, SaveCopy, AsksForHuman
  <2>5. ASSUME NEW c \in HandoffContext, EnqueueRequest(t, c)
        PROVE  \/ q = r
               \/ AsksForHuman(s) /\ q = Stamped(Enqueued(r, c))
    BY <2>2, <2>5 DEF EnqueueRequest, SaveLast, Drop, AsksForHuman
  <2>6. CASE Answer(t)
    BY <2>2, <2>6 DEF Answer, SaveLast, Drop
  <2>7. CASE Fail(t)
    BY <2>7 DEF Fail
  <2> QED
    BY <1>2, <2>3, <2>4, <2>5, <2>6, <2>7 DEF RequestStep
<1>3. ASSUME StaffStep
      PROVE  \/ q = r
             \/ \E op \in Operator \cup {None} : q = Stamped(Claimed(r, op))
             \/ q = Stamped([r EXCEPT !.state         = "human_in_service",
                                      !.waiting_human = FALSE,
                                      !.messages      = @ \cup {HumanMessage(replies')}])
             \/ q = Stamped([r EXCEPT !.state = "closed", !.waiting_human = FALSE])
  <2>1. ASSUME NEW z \in Session, ClaimHuman(z) \/ HumanReply(z) \/ CloseSession(z)
        PROVE  \/ q = r
               \/ q = Stamped(Claimed(r, None))
               \/ q = Stamped([r EXCEPT !.state         = "human_in_service",
                                        !.waiting_human = FALSE,
                                        !.messages      = @ \cup {HumanMessage(replies')}])
               \/ q = Stamped([r EXCEPT !.state = "closed", !.waiting_human = FALSE])
    BY <2>1 DEF ClaimHuman, HumanReply, CloseSession, SaveSession
  <2>2. ASSUME NEW g, NEW op \in Operator \cup {None}, ClaimNext(g, op)
        PROVE  q = r \/ q = Stamped(Claimed(r, op))
    BY <2>2 DEF ClaimNext, Waiting, SaveSession
  <2> QED
    BY <1>3, <2>1, <2>2 DEF StaffStep
<1>4. ASSUME NEW z \in Session, CreateSession(z) \/ RateMessage(z)
      PROVE  q = r \/ q = Stamped(r)
  BY <1>4 DEF CreateSession, RateMessage, SaveSession
<1>5. CASE Tick \/ UNCHANGED vars
  BY <1>5 DEF Tick, vars
<1> QED
  BY <1>1, <1>2, <1>3, <1>4, <1>5 DEF Next, Arrival

(* A message is lost only to the write of an old copy.                     *)
THEOREM MessagesAreKept == Spec => MessagesLostOnlyByStaleWrite
<1> DEFINE A == \A s \in created :
                  ~(sessions[s].messages \subseteq sessions'[s].messages) => StaleWrite(s)
<1>1. IInv /\ [Next]_vars => A
  <2> SUFFICES ASSUME IInv, [Next]_vars, NEW s \in created, ~StaleWrite(s)
               PROVE  sessions[s].messages \subseteq sessions'[s].messages
    OBVIOUS
  <2> DEFINE r == sessions[s]
  <2>1. r \in SessionRecord
    BY DEF IInv, TypeOK
  <2>2. /\ Stamped(r).messages = r.messages
        /\ \A c : Stamped(Enqueued(r, c)).messages = r.messages
        /\ \A op : Stamped(Claimed(r, op)).messages = r.messages
        /\ Stamped([r EXCEPT !.state = "waiting_human",
                             !.waiting_human = TRUE]).messages = r.messages
        /\ Stamped([r EXCEPT !.state = "closed",
                             !.waiting_human = FALSE]).messages = r.messages
    <3> HIDE DEF r
    <3> QED
      BY <2>1 DEF SessionRecord, Stamped, Enqueued, Claimed
  <2>3. /\ \A m : r.messages
                    \subseteq Stamped([r EXCEPT !.messages = @ \cup {m}]).messages
        /\ \A m : r.messages
                    \subseteq Stamped([r EXCEPT !.state         = "human_in_service",
                                                !.waiting_human = FALSE,
                                                !.messages      = @ \cup {m}]).messages
    <3> HIDE DEF r
    <3> QED
      BY <2>1 DEF SessionRecord, Stamped
  <2> QED
    BY <2>2, <2>3, StepOnSession
<1>2. Spec => [][A]_vars
  BY <1>1, InvariantHolds, PTL DEF Spec
<1> QED
  BY <1>2 DEF MessagesLostOnlyByStaleWrite

(* A session becomes active again only by the write of an old copy.        *)
THEOREM NeverBackToActive == Spec => BackToActiveOnlyByStaleWrite
<1> DEFINE A == \A s \in created :
                  sessions[s].state # "active" /\ sessions'[s].state = "active"
                    => StaleWrite(s)
<1>1. IInv /\ [Next]_vars => A
  <2> SUFFICES ASSUME IInv, [Next]_vars, NEW s \in created, ~StaleWrite(s),
                      sessions[s].state # "active"
               PROVE  sessions'[s].state # "active"
    OBVIOUS
  <2>1. sessions[s] \in SessionRecord
    BY DEF IInv, TypeOK
  <2> QED
    BY <2>1, StepOnSession DEF SessionRecord, Stamped, Enqueued, Claimed
<1>2. Spec => [][A]_vars
  BY <1>1, InvariantHolds, PTL DEF Spec
<1> QED
  BY <1>2 DEF BackToActiveOnlyByStaleWrite

(* A session enters the queue only when a request asks for a human, or by  *)
(* the write of an old copy.                                               *)
THEOREM QueueIsEnteredOnRequest == Spec => EntersQueueOnlyIfAsked
<1> DEFINE A == \A s \in created :
                  ~sessions[s].waiting_human /\ sessions'[s].waiting_human
                    => AsksForHuman(s) \/ StaleWrite(s)
<1>1. IInv /\ [Next]_vars => A
  <2> SUFFICES ASSUME IInv, [Next]_vars, NEW s \in created, ~StaleWrite(s),
                      ~AsksForHuman(s), ~sessions[s].waiting_human
               PROVE  ~sessions'[s].waiting_human
    OBVIOUS
  <2>1. sessions[s] \in SessionRecord
    BY DEF IInv, TypeOK
  <2> QED
    BY <2>1, StepOnSession DEF SessionRecord, Stamped, Claimed
<1>2. Spec => [][A]_vars
  BY <1>1, InvariantHolds, PTL DEF Spec
<1> QED
  BY <1>2 DEF EntersQueueOnlyIfAsked

(* The session claim-next hands out sorts before all that wait with it: no *)
(* other step looks as if it handed one out.                               *)
LEMMA HandedOutFirst ==
  ASSUME IInv, [Next]_vars, NEW s \in created, NEW w \in created,
         HandsOut(s), sessions[w].waiting_human,
         sessions[w].handoff_skill_group = sessions[s].handoff_skill_group
  PROVE  ~SortsBefore(sessions[w], sessions[s])
<1>1. /\ sessions[s] \in SessionRecord /\ sessions[w] \in SessionRecord
      /\ sessions \in [Session -> SessionRecord]
      /\ created \subseteq Session
      /\ pc \in [Request -> Phase]
      /\ replies \in 0 .. MaxReplies
  BY DEF IInv, TypeOK
(* The state of s changes, so the step is not one that leaves it.          *)
<1>2. sessions[s].state = "waiting_human" /\ sessions'[s].state = "human_in_service"
  BY <1>1 DEF HandsOut, IInv, StoredOK, RecordOK, FlagAgrees
<1>3. \E g, op : ClaimNext(g, op) /\ s \in Waiting(g)
                 /\ \A x \in Waiting(g) : ~SortsBefore(sessions[x], sessions[s])
  <2>1. ~(\E t \in Request : Arrival(t) \/ RequestStep(t))
    BY <1>1 DEF HandsOut, Arrival, BeginChat, BeginHandoff, RequestHuman, RequestStep,
                RecordRoute, ChatHandoff, EnqueueRequest, Answer, Fail, SaveCopy,
                SaveLast, Drop, InFlight
  <2>2. ~(\E z \in Session : CreateSession(z) \/ RateMessage(z))
    BY <1>1, <1>2 DEF CreateSession, RateMessage, SaveSession, Stamped, SessionRecord
  <2>3. ~(\E z \in Session : ClaimHuman(z) \/ HumanReply(z) \/ CloseSession(z))
    <3>1. ASSUME NEW z \in Session, NEW r, SaveSession(z, r)
          PROVE  z = s /\ sessions'[s] = Stamped(r)
      BY <1>1, <1>2, <3>1 DEF SaveSession
    <3>2. ASSUME NEW z \in Session, ClaimHuman(z)
          PROVE  FALSE
      <4>1. sessions'[s] = Stamped(Claimed(sessions[s], None))
        BY <3>1, <3>2 DEF ClaimHuman
      <4> QED
        BY <1>1, <4>1, SessionAssumption DEF HandsOut, Stamped, Claimed, SessionRecord
    <3>3. ASSUME NEW z \in Session, HumanReply(z)
          PROVE  FALSE
      <4>1. replies' = replies + 1 /\ replies' = replies
        BY <3>3 DEF HumanReply, HandsOut
      <4> QED
        BY <1>1, <4>1, SessionAssumption
    <3>4. ASSUME NEW z \in Session, CloseSession(z)
          PROVE  FALSE
      <4>1. sessions'[s] = Stamped([sessions[s] EXCEPT !.state         = "closed",
                                                       !.waiting_human = FALSE])
        BY <3>1, <3>4 DEF CloseSession
      <4> QED
        BY <1>1, <1>2, <4>1 DEF Stamped, SessionRecord
    <3> QED
      BY <3>2, <3>3, <3>4
  <2>4. ~Tick /\ ~UNCHANGED vars
    BY <1>2 DEF Tick, vars
  <2>5. PICK g, op : ClaimNext(g, op)
    BY <2>1, <2>2, <2>3, <2>4 DEF Next, StaffStep
  <2>6. PICK z \in Waiting(g) :
               /\ \A x \in Waiting(g) : ~SortsBefore(sessions[x], sessions[z])
               /\ SaveSession(z, Claimed(sessions[z], op))
    BY <2>5 DEF ClaimNext
  <2>7. z = s
    BY <1>1, <1>2, <2>6 DEF Waiting, SaveSession
  <2> QED
    BY <2>5, <2>6, <2>7
<1> QED
  BY <1>1, <1>3 DEF Waiting

-----------------------------------------------------------------------------
(* The order of the queue.                                                 *)

(* A session that is known to have entered the queue waits, and has a      *)
(* stamp that is no later.                                                 *)
SinceOK ==
  /\ since \in [Session -> Time \cup {None}]
  /\ \A s \in Session :
       since[s] # None => /\ Waits(s)
                          /\ sessions[s].handoff_enqueued_at # None
                          /\ sessions[s].handoff_enqueued_at <= since[s]

(* Nothing but the write of an old copy changes the stamp of a session     *)
(* that has one.                                                           *)
LEMMA StampIsKept ==
  ASSUME IInv, [Next]_vars, NEW s \in created, ~StaleWrite(s),
         sessions[s].handoff_enqueued_at # None
  PROVE  sessions'[s].handoff_enqueued_at = sessions[s].handoff_enqueued_at
<1>1. sessions[s] \in SessionRecord
  BY DEF IInv, TypeOK
<1> QED
  BY <1>1, StepOnSession DEF SessionRecord, Stamped, Enqueued, Claimed

(* An enqueue leaves a stamp that is not in the future.                    *)
LEMMA EnqueueStamps ==
  ASSUME IInv, NEW s \in Session, Enqueues(s)
  PROVE  /\ sessions'[s].handoff_enqueued_at # None
         /\ sessions'[s].handoff_enqueued_at <= clock
<1> USE DEF IInv, TypeOK
<1>1. PICK t \in Request, c \in HandoffContext :
             target[t] = s /\ (ChatHandoff(t, c) \/ EnqueueRequest(t, c))
  BY DEF Enqueues
<1>2. RecordOK(copy[t], clock)
  BY <1>1 DEF ChatHandoff, EnqueueRequest, CopiesOK, InFlight
<1> DEFINE q == Stamped(Enqueued(copy[t], c))
<1>3. sessions'[s] = q
  BY <1>1 DEF ChatHandoff, EnqueueRequest, SaveCopy, SaveLast
<1>4. RecordOK(q, clock)
  BY <1>2, EnqueuedOK
<1>5. q.handoff_enqueued_at # None
  BY <1>2, SessionAssumption DEF RecordOK, SessionRecord, Stamped, Enqueued, Time
<1> HIDE DEF q
<1>6. q.handoff_enqueued_at <= q.updated_at /\ q.updated_at <= clock
  BY <1>4, <1>5 DEF RecordOK, EntryIsWhole
<1> QED
  BY <1>3, <1>4, <1>5, <1>6, SessionAssumption DEF RecordOK, SessionRecord, Time

(* So the history stays right.                                             *)
LEMMA SinceKeeps ==
  ASSUME IInv, SinceOK, [OrderNext]_orderVars
  PROVE  SinceOK'
<1>1. CASE UNCHANGED orderVars
  BY <1>1 DEF orderVars, vars, SinceOK, Waits
<1>2. CASE OrderNext
  <2>1. clock \in Time /\ [Next]_vars
    BY <1>2 DEF OrderNext, IInv, TypeOK
  <2>2. ASSUME NEW s \in Session
        PROVE  \/ since'[s] = None
               \/ /\ Waits(s)' /\ ~StaleWrite(s)
                  /\ \/ since[s] # None /\ since'[s] = since[s]
                     \/ Enqueues(s) /\ since'[s] = clock
    BY <1>2 DEF OrderNext
  <2>3. since' \in [Session -> Time \cup {None}]
    <3>1. \E f : since' = [s \in Session |-> f[s]]
      BY <1>2 DEF OrderNext
    <3>2. \A s \in Session : since'[s] \in Time \cup {None}
      BY <2>1, <2>2 DEF SinceOK
    <3> QED
      BY <3>1, <3>2
  <2>4. ASSUME NEW s \in Session, since'[s] # None
        PROVE  /\ Waits(s)'
               /\ sessions'[s].handoff_enqueued_at # None
               /\ sessions'[s].handoff_enqueued_at <= since'[s]
    <3>1. CASE since[s] # None /\ since'[s] = since[s]
      <4>1. s \in created /\ ~StaleWrite(s) /\ Waits(s)'
        BY <2>2, <2>4, <3>1 DEF SinceOK, Waits
      <4> QED
        BY <2>1, <3>1, <4>1, StampIsKept DEF SinceOK
    <3>2. CASE Enqueues(s) /\ since'[s] = clock
      BY <2>2, <2>4, <3>2, EnqueueStamps
    <3> QED
      BY <2>2, <2>4, <3>1, <3>2
  <2> QED
    BY <2>3, <2>4 DEF SinceOK
<1> QED
  BY <1>1, <1>2

(* Nobody is passed over, within his group and priority, for a session     *)
(* that was first enqueued after he entered the queue.                     *)
THEOREM QueueKeepsPlaces == OrderSpec => PassedOverOnlyForOlder
<1> DEFINE A == \A s, w \in created :
                  PassesOver(s, w) => sessions[s].handoff_enqueued_at <= since[w]
<1>1. OrderInit => Init /\ SinceOK
  BY SessionAssumption DEF OrderInit, SinceOK, Init
<1>2. [OrderNext]_orderVars => [Next]_vars
  BY DEF OrderNext, orderVars
<1>3. IInv /\ SinceOK /\ [OrderNext]_orderVars => SinceOK'
  BY SinceKeeps
<1>4. IInv /\ SinceOK /\ [Next]_vars => A
  <2> SUFFICES ASSUME IInv, SinceOK, [Next]_vars, NEW s \in created, NEW w \in created,
                      PassesOver(s, w)
               PROVE  sessions[s].handoff_enqueued_at <= since[w]
    OBVIOUS
  <2>1. /\ sessions[s] \in SessionRecord /\ sessions[w] \in SessionRecord
        /\ s \in Session /\ w \in Session
    BY DEF IInv, TypeOK
  <2>2. ~SortsBefore(sessions[w], sessions[s])
    BY HandedOutFirst DEF PassesOver, Waits
  <2>3. /\ sessions[s].handoff_enqueued_at \in Nat
        /\ sessions[w].handoff_enqueued_at \in Nat /\ since[w] \in Nat
        /\ sessions[w].handoff_enqueued_at <= since[w]
    BY <2>1 DEF PassesOver, SinceOK, SessionRecord, Time
  <2>4. sessions[s].handoff_enqueued_at <= sessions[w].handoff_enqueued_at
    BY <2>1, <2>2, <2>3, SessionAssumption
       DEF PassesOver, SortsBefore, QueuedSince, SessionRecord
  <2> QED
    BY <2>3, <2>4
<1>5. OrderSpec => [](IInv /\ SinceOK) /\ [][A]_orderVars
  BY <1>1, <1>2, <1>3, <1>4, InitOK, NextKeeps, PTL DEF OrderSpec
<1> QED
  BY <1>5 DEF PassedOverOnlyForOlder

-----------------------------------------------------------------------------
(* The local queue is a claim queue.                                       *)

(* Everybody waiting is who waits in some group.                           *)
LEMMA WaitingIs ==
  /\ Waiting(None) = {s \in created : sessions[s].waiting_human}
  /\ Waiting(None)' = {s \in created' : sessions'[s].waiting_human}
  /\ \A g : Waiting(g) \subseteq Waiting(None)
BY DEF Waiting

(* A session is saved as r, or created so: only it can enter or leave.     *)
LEMMA WaitingAfterSave ==
  ASSUME IInv, NEW s \in Session, NEW r,
         sessions' = [sessions EXCEPT ![s] = r], created' = created \cup {s}
  PROVE  Waiting(None)' = IF r.waiting_human THEN Waiting(None) \cup {s}
                                             ELSE Waiting(None) \ {s}
BY WaitingIs DEF IInv, TypeOK

(* What the writes make of the flag.                                       *)
LEMMA FlagAfter ==
  ASSUME NEW r \in SessionRecord
  PROVE  /\ Stamped(r).waiting_human = r.waiting_human
         /\ \A c : Stamped(Enqueued(r, c)).waiting_human = TRUE
         /\ \A op : Stamped(Claimed(r, op)).waiting_human = FALSE
BY DEF SessionRecord, Stamped, Enqueued, Claimed

(* What a step that writes no old copy does to the queue: a session        *)
(* enters, or enters again; the head is handed out; or sessions leave.     *)
LEMMA QueueStep ==
  ASSUME IInv, [Next]_vars, \A s \in Session : ~StaleWrite(s)
  PROVE  \/ \E s \in Session : /\ Waiting(None)' = Waiting(None) \cup {s}
                               /\ served' = served \ {s}
         \/ \E s \in Waiting(None) : /\ Waiting(None)' = Waiting(None) \ {s}
                                     /\ served' = served \cup {s}
         \/ Waiting(None)' \subseteq Waiting(None) /\ served' = served
<1> DEFINE Enters(s) == /\ Waiting(None)' = Waiting(None) \cup {s}
                        /\ served' = served \ {s}
           Leave == Waiting(None)' \subseteq Waiting(None) /\ served' = served
<1>1. /\ sessions \in [Session -> SessionRecord] /\ created \subseteq Session
      /\ \A s \in created : created \cup {s} = created
      /\ \A t \in Request : InFlight(t) => target[t] \in created
  BY DEF IInv, TypeOK
<1>2. ASSUME NEW t \in Request, NEW s \in Session, BeginChat(t, s)
      PROVE  Leave
  <2> DEFINE found == IF s \in created THEN sessions[s] ELSE NewSession(clock)
             r     == [found EXCEPT !.messages = @ \cup {UserMessage(t)}]
  <2>1. /\ sessions' = [sessions EXCEPT ![s] = Stamped(r)]
        /\ created' = created \cup {s}
        /\ served' = served
    BY <1>2 DEF BeginChat
  <2>2. /\ found \in SessionRecord
        /\ found.waiting_human => s \in Waiting(None)
    <3>1. RecordOK(NewSession(clock), clock)
      BY NewSessionOK DEF IInv, TypeOK
    <3> QED
      BY <1>1, <3>1, WaitingIs DEF RecordOK, NewSession
  <2>3. Stamped(r).waiting_human = found.waiting_human
    <3> HIDE DEF found
    <3> QED
      BY <2>2 DEF Stamped, SessionRecord
  <2> HIDE DEF r, found
  <2> QED
    BY <2>1, <2>2, <2>3, WaitingAfterSave
<1>3. ASSUME NEW t \in Request, NEW s \in Session, BeginHandoff(t, s)
      PROVE  Leave
  BY <1>3, WaitingIs DEF BeginHandoff
<1>4. ASSUME NEW t \in Request, NEW s \in Session, RequestHuman(t, s)
      PROVE  Enters(s)
  <2> DEFINE r == [sessions[s] EXCEPT !.state = "waiting_human", !.waiting_human = TRUE]
  <2>1. /\ sessions' = [sessions EXCEPT ![s] = Stamped(r)]
        /\ created' = created \cup {s}
        /\ served' = served \ {s}
    BY <1>1, <1>4 DEF RequestHuman
  <2>2. Stamped(r).waiting_human = TRUE
    BY <1>1 DEF Stamped, SessionRecord
  <2> HIDE DEF r
  <2> QED
    BY <2>1, <2>2, WaitingAfterSave
<1>5. ASSUME NEW t \in Request, RequestStep(t)
      PROVE  (Enters(target[t]) /\ target[t] \in Session) \/ Leave
  <2>1. /\ InFlight(t) /\ pc'[t] # pc[t]
        /\ target[t] \in created /\ target[t] \in Session
    <3>1. InFlight(t) /\ pc'[t] # pc[t]
      BY <1>5 DEF IInv, TypeOK, RequestStep, RecordRoute, ChatHandoff, EnqueueRequest,
                  Answer, Fail, SaveCopy, SaveLast, Drop, InFlight
    <3> QED
      BY <1>1, <3>1
  <2>2. copy[t] = sessions[target[t]] /\ copy[t] \in SessionRecord
    BY <1>1, <2>1 DEF StaleWrite, IInv, FreshCopyIsStored
  <2>3. ASSUME NEW r, sessions' = [sessions EXCEPT ![target[t]] = r], created' = created
        PROVE  /\ r.waiting_human = TRUE => Waiting(None)' = Waiting(None) \cup {target[t]}
               /\ r.waiting_human = copy[t].waiting_human
                    => Waiting(None)' \subseteq Waiting(None)
    BY <1>1, <2>1, <2>2, <2>3, WaitingAfterSave, WaitingIs
  <2>4. CASE RecordRoute(t)
    BY <2>2, <2>3, <2>4, FlagAfter DEF RecordRoute, SaveCopy
  <2>5. ASSUME NEW c \in HandoffContext, ChatHandoff(t, c)
        PROVE  Enters(target[t])
    BY <2>2, <2>3, <2>5, FlagAfter DEF ChatHandoff, SaveCopy
  <2>6. ASSUME NEW c \in HandoffContext, EnqueueRequest(t, c)
        PROVE  Enters(target[t])
    BY <2>2, <2>3, <2>6, FlagAfter DEF EnqueueRequest, SaveLast
  <2>7. CASE Answer(t)
    <3> DEFINE r == [copy[t] EXCEPT !.messages = @ \cup {AssistantMessage(t)}]
    <3>1. Stamped(r).waiting_human = copy[t].waiting_human
      BY <2>2 DEF Stamped, SessionRecord
    <3>2. /\ sessions' = [sessions EXCEPT ![target[t]] = Stamped(r)]
          /\ created' = created /\ served' = served
      BY <2>7 DEF Answer, SaveLast
    <3> HIDE DEF r
    <3> QED
      BY <2>3, <3>1, <3>2
  <2>8. CASE Fail(t)
    BY <2>8, WaitingIs DEF Fail
  <2> QED
    BY <1>5, <2>1, <2>4, <2>5, <2>6, <2>7, <2>8 DEF RequestStep
<1>6. ASSUME NEW s \in created, NEW r, SaveSession(s, r), created' = created
      PROVE  Waiting(None)' = IF Stamped(r).waiting_human THEN Waiting(None) \cup {s}
                                                          ELSE Waiting(None) \ {s}
  BY <1>1, <1>6, WaitingAfterSave DEF SaveSession
<1>7. ASSUME NEW s \in Session, ClaimHuman(s) \/ HumanReply(s) \/ CloseSession(s)
      PROVE  Leave
  <2> DEFINE replied == [sessions[s] EXCEPT !.state         = "human_in_service",
                                            !.waiting_human = FALSE,
                                            !.messages      = @ \cup {HumanMessage(replies')}]
             closed  == [sessions[s] EXCEPT !.state = "closed", !.waiting_human = FALSE]
  <2>1. /\ Stamped(Claimed(sessions[s], None)).waiting_human = FALSE
        /\ Stamped(replied).waiting_human = FALSE
        /\ Stamped(closed).waiting_human = FALSE
    BY <1>1 DEF Stamped, Claimed, SessionRecord
  <2>2. /\ s \in created /\ created' = created /\ served' = served
        /\ \/ SaveSession(s, Claimed(sessions[s], None))
           \/ SaveSession(s, replied)
           \/ SaveSession(s, closed)
    BY <1>7 DEF ClaimHuman, HumanReply, CloseSession
  <2> HIDE DEF replied, closed
  <2> QED
    BY <1>6, <2>1, <2>2
<1>8. ASSUME NEW g, NEW op, ClaimNext(g, op)
      PROVE  \E s \in Waiting(None) : /\ Waiting(None)' = Waiting(None) \ {s}
                                      /\ served' = served \cup {s}
  <2>1. PICK s \in Waiting(g) : /\ SaveSession(s, Claimed(sessions[s], op))
                                /\ served' = served \cup {s}
                                /\ created' = created
    BY <1>8 DEF ClaimNext
  <2>2. s \in Waiting(None) /\ s \in created
    BY WaitingIs
  <2> QED
    BY <1>1, <1>6, <2>1, <2>2, FlagAfter
<1>9. ASSUME NEW s \in Session, CreateSession(s)
      PROVE  Leave
  <2>1. NewSession(clock).waiting_human = FALSE
    BY DEF NewSession
  <2> QED
    BY <1>9, <2>1, WaitingAfterSave DEF CreateSession
<1>10. ASSUME NEW s \in Session, RateMessage(s)
       PROVE  Leave
  <2>1. Stamped(sessions[s]).waiting_human = sessions[s].waiting_human
    BY <1>1, FlagAfter
  <2>2. /\ s \in created /\ created' = created /\ served' = served
        /\ SaveSession(s, sessions[s])
    BY <1>10 DEF RateMessage
  <2> QED
    BY <1>6, <2>1, <2>2, WaitingIs
<1>11. ASSUME Tick \/ UNCHANGED vars
       PROVE  Leave
  BY <1>11, WaitingIs DEF Tick, vars
<1> DEFINE Handed == \E s \in Waiting(None) : /\ Waiting(None)' = Waiting(None) \ {s}
                                             /\ served' = served \cup {s}
<1> HIDE DEF Enters, Leave, Handed
<1>12. (\E s \in Session : Enters(s)) \/ Leave \/ Handed
  <2>1. ASSUME NEW t \in Request, Arrival(t)
        PROVE  (\E s \in Session : Enters(s)) \/ Leave
    BY <1>2, <1>3, <1>4, <2>1 DEF Arrival
  <2>2. ASSUME NEW t \in Request, RequestStep(t)
        PROVE  (\E s \in Session : Enters(s)) \/ Leave
    BY <1>5, <2>2
  <2>3. CASE StaffStep
    BY <1>7, <1>8, <2>3 DEF StaffStep, Handed
  <2> QED
    BY <1>9, <1>10, <1>11, <2>1, <2>2, <2>3 DEF Next
<1> QED
  BY <1>12 DEF Enters, Leave, Handed

(* Who holds what, as ClaimQueue sees it.                                  *)
Holding(out) == [s \in Session |-> IF s \in out THEN "staff" ELSE None]

(* To be handed out is to get a holder, to enter again is to lose it.      *)
LEMMA HoldingChanges ==
  ASSUME NEW out, NEW s \in Session
  PROVE  /\ [Holding(out) EXCEPT ![s] = "staff"] = Holding(out \cup {s})
         /\ [Holding(out) EXCEPT ![s] = None] = Holding(out \ {s})
BY DEF Holding

(* So such a step is a step of a claim queue.                              *)
LEMMA StepIsOfQueue ==
  ASSUME IInv, [Next]_vars, \A s \in Session : ~StaleWrite(s)
  PROVE  Queue!Next
<1> DEFINE was == Waiting(None)
           is  == Waiting(None)'
<1>1. CASE \E s \in Session : is = was \cup {s} /\ served' = served \ {s}
  <2>1. PICK s \in Session : is = was \cup {s} /\ served' = served \ {s}
    BY <1>1
  <2>2. Holding(served') = [Holding(served) EXCEPT ![s] = None]
    BY <2>1, HoldingChanges
  <2>3. Queue!Enqueue(s)
    BY <2>1, <2>2 DEF Queue!Enqueue, Holding
  <2> QED
    BY <2>3 DEF Queue!Next
<1>2. CASE \E s \in was : is = was \ {s} /\ served' = served \cup {s}
  <2>1. PICK s \in was : is = was \ {s} /\ served' = served \cup {s}
    BY <1>2
  <2>2. s \in Session
    BY WaitingIs DEF IInv, TypeOK
  <2>3. Holding(served') = [Holding(served) EXCEPT ![s] = "staff"]
    BY <2>1, <2>2, HoldingChanges
  <2>4. Queue!Claim(s, "staff")
    BY <2>1, <2>3 DEF Queue!Claim, Holding
  <2> QED
    BY <2>2, <2>4 DEF Queue!Next
<1>3. CASE is \subseteq was /\ served' = served
  <2>1. Queue!Discard
    BY <1>3 DEF Queue!Discard
  <2> QED
    BY <2>1 DEF Queue!Next
<1> QED
  BY <1>1, <1>2, <1>3, QueueStep

(* The empty store is an empty queue.                                      *)
LEMMA StartIsOfQueue == Init => Queue!Init
BY WaitingIs DEF Init, Queue!Init

(* But for writes of old copies, the local queue is a queue that hands     *)
(* each session out once for each time it was enqueued.                    *)
THEOREM LocalQueueIsAClaimQueue == Spec => ClaimQueueButForStaleWrite
<1> DEFINE A == Queue!Next \/ \E s \in Session : StaleWrite(s)
<1>1. IInv /\ [Next]_vars => A
  BY StepIsOfQueue
<1>2. Spec => Queue!Init /\ [][A]_<<Waiting(None), served>>
  BY <1>1, StartIsOfQueue, InvariantHolds, PTL DEF Spec
<1> QED
  BY <1>2 DEF ClaimQueueButForStaleWrite

(* While no old copy is ever written, nobody whom the staff were given     *)
(* waits, unless asked for again: claim-next hands no session out twice,   *)
(* as the documentation promises.                                          *)
THEOREM NoDuplicateWithoutStaleWrite ==
  Spec /\ [][\A s \in Session : ~StaleWrite(s)]_vars => NoDuplicateClaim
<1> DEFINE Apart == Waiting(None) \cap served = {}
           Fresh == \A s \in Session : ~StaleWrite(s)
           A     == \A s \in created : HandsOut(s) => s \notin served
<1>1. Init => Apart
  BY DEF Init
<1>2. IInv /\ Apart /\ [Next]_vars /\ [Fresh]_vars => Apart'
  <2> SUFFICES ASSUME IInv, Apart, [Next]_vars, [Fresh]_vars
               PROVE  Apart'
    OBVIOUS
  <2>1. CASE Fresh
    BY <2>1, QueueStep
  <2>2. CASE UNCHANGED vars
    BY <2>2, WaitingIs DEF vars
  <2> QED
    BY <2>1, <2>2
<1>3. Apart => A
  BY WaitingIs DEF HandsOut
<1>4. Spec /\ [][Fresh]_vars => [][A]_vars
  BY <1>1, <1>2, <1>3, InvariantHolds, PTL DEF Spec
<1> QED
  BY <1>4 DEF NoDuplicateClaim
=============================================================================
