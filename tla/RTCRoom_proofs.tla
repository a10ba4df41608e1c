--------------------------- MODULE RTCRoom_proofs ---------------------------
(***************************************************************************)
(* Proofs about RTCRoom, for any sets of rooms, sessions and turns.        *)
(***************************************************************************)
EXTENDS RTCRoom, TLAPS

(* A turn's copy is the room as it was saved when the turn began, and      *)
(* still is while nobody else wrote the room.                              *)
CopyOK ==
  \A t \in Turn : InFlight(t) =>
    /\ copy[t].state = "thinking"
    /\ t \notin stale => copy[t] = rooms[place[t]]

(* The outcome of a turn is set once, before the turn can be the latest of *)
(* any room.                                                               *)
OutcomeOK ==
  /\ \A t \in Turn : pc[t] = "synthesizing" => outcome[t] # None
  /\ \A r \in Room : LET t == rooms[r].last_transcript
                     IN  t # None => pc[t] = "done"

(* The record of a room that is not open yet is the one it is created      *)
(* with.                                                                   *)
UnopenedOK == \A r \in Room \ opened : rooms[r] = NewRoom

(* The inductive invariant.                                                *)
IInv ==
  /\ TypeOK
  /\ UnopenedOK
  /\ CopyOK
  /\ OutcomeOK
  /\ BusyRoomIsServed
  /\ WaitingRoomWasAsked
  /\ BoundSessionIsKnown

(* The invariant holds before the first room is opened.                    *)
LEMMA InitOK == Init => IInv
BY RoomAssumption
   DEF Init, IInv, TypeOK, UnopenedOK, CopyOK, OutcomeOK, BusyRoomIsServed, WaitingRoomWasAsked,
       BoundSessionIsKnown, InFlight, NewRoom, RoomRecord, State

-----------------------------------------------------------------------------
(* A handler that does not await saves a room that is not "thinking" or    *)
(* "speaking".                                                             *)
LEMMA SaveRoomKeeps ==
  ASSUME IInv, NEW r \in opened, NEW rec \in RoomRecord, SaveRoom(r, rec),
         rec.state \notin {"thinking", "speaking"},
         rec.state = "waiting_human" => rec.handoff_requested,
         rec.last_transcript = rooms[r].last_transcript,
         rec.session_id \in known' \cup {None},
         known \subseteq known', known' \subseteq Session,
         UNCHANGED <<opened, queued, pc, place, copy, outcome, broken>>
  PROVE  IInv'
<1> USE DEF IInv, TypeOK, SaveRoom
<1>1. TypeOK'
  BY DEF Holders, InFlight
<1>2. CopyOK' /\ UnopenedOK'
  BY DEF CopyOK, UnopenedOK, Holders, InFlight
<1>3. OutcomeOK'
  BY DEF OutcomeOK
<1>4. BusyRoomIsServed'
  BY DEF BusyRoomIsServed
<1>5. WaitingRoomWasAsked'
  BY DEF WaitingRoomWasAsked
<1>6. BoundSessionIsKnown'
  BY DEF BoundSessionIsKnown, InFlight
<1> QED
  BY <1>1, <1>2, <1>3, <1>4, <1>5, <1>6

(* The operations that do not await keep the invariant.                    *)
LEMMA RoomOperationKeeps ==
  ASSUME IInv, NEW r \in Room,
         \/ CreateRoom(r) \/ Interrupt(r) \/ RequestHuman(r) \/ EndRoom(r)
         \/ \E s \in Session : Join(r, s)
  PROVE  IInv'
<1>0. rooms[r] \in RoomRecord
  BY DEF IInv, TypeOK
<1>1. CASE CreateRoom(r)
  BY <1>0, <1>1
     DEF CreateRoom, IInv, TypeOK, UnopenedOK, CopyOK, OutcomeOK, BusyRoomIsServed,
         WaitingRoomWasAsked, BoundSessionIsKnown, InFlight, NewRoom
<1>2. CASE Interrupt(r)
  <2> DEFINE rec == [rooms[r] EXCEPT !.state = "listening"]
  <2>1. /\ rec \in RoomRecord /\ rec.state = "listening"
        /\ rec.last_transcript = rooms[r].last_transcript
        /\ rec.session_id = rooms[r].session_id
    BY <1>0 DEF RoomRecord, State
  <2>2. r \in opened /\ SaveRoom(r, rec)
        /\ UNCHANGED <<opened, known, queued, pc, place, copy, outcome, broken>>
    BY <1>2 DEF Interrupt
  <2>3. rec.session_id \in known' \cup {None} /\ known' \subseteq Session
    BY <2>1, <2>2 DEF IInv, TypeOK, BoundSessionIsKnown
  <2> HIDE DEF rec
  <2> QED
    BY <2>1, <2>2, <2>3, SaveRoomKeeps
<1>3. CASE RequestHuman(r)
  <2> DEFINE rec == [rooms[r] EXCEPT !.state             = "waiting_human",
                                     !.handoff_requested = TRUE]
  <2>1. /\ rec \in RoomRecord /\ rec.state = "waiting_human" /\ rec.handoff_requested
        /\ rec.last_transcript = rooms[r].last_transcript
        /\ rec.session_id = rooms[r].session_id
    BY <1>0 DEF RoomRecord, State
  <2>2. r \in opened /\ SaveRoom(r, rec)
        /\ UNCHANGED <<opened, known, queued, pc, place, copy, outcome, broken>>
    BY <1>3 DEF RequestHuman
  <2>3. rec.session_id \in known' \cup {None} /\ known' \subseteq Session
    BY <2>1, <2>2 DEF IInv, TypeOK, BoundSessionIsKnown
  <2> HIDE DEF rec
  <2> QED
    BY <2>1, <2>2, <2>3, SaveRoomKeeps
<1>4. CASE EndRoom(r)
  <2> DEFINE rec == [rooms[r] EXCEPT !.state = "ended"]
  <2>1. /\ rec \in RoomRecord /\ rec.state = "ended"
        /\ rec.last_transcript = rooms[r].last_transcript
        /\ rec.session_id = rooms[r].session_id
    BY <1>0 DEF RoomRecord, State
  <2>2. r \in opened /\ SaveRoom(r, rec)
        /\ UNCHANGED <<opened, known, queued, pc, place, copy, outcome, broken>>
    BY <1>4 DEF EndRoom
  <2>3. rec.session_id \in known' \cup {None} /\ known' \subseteq Session
    BY <2>1, <2>2 DEF IInv, TypeOK, BoundSessionIsKnown
  <2> HIDE DEF rec
  <2> QED
    BY <2>1, <2>2, <2>3, SaveRoomKeeps
<1>5. ASSUME NEW s \in Session, Join(r, s)
      PROVE  IInv'
  <2> DEFINE rec == [rooms[r] EXCEPT !.session_id   = s,
                                     !.state        = "joined",
                                     !.participants = @ \cup {"user"}]
  <2>1. /\ rec \in RoomRecord /\ rec.state = "joined"
        /\ rec.last_transcript = rooms[r].last_transcript
        /\ rec.session_id = s
    BY <1>0 DEF RoomRecord, State
  <2>2. r \in opened /\ SaveRoom(r, rec) /\ known' = known \cup {s}
        /\ UNCHANGED <<opened, queued, pc, place, copy, outcome, broken>>
    BY <1>5 DEF Join
  <2>3. /\ rec.session_id \in known' \cup {None}
        /\ known \subseteq known' /\ known' \subseteq Session
    BY <2>1, <2>2 DEF IInv, TypeOK
  <2> HIDE DEF rec
  <2> QED
    BY <2>1, <2>2, <2>3, SaveRoomKeeps
<1> QED
  BY <1>1, <1>2, <1>3, <1>4, <1>5

-----------------------------------------------------------------------------
(* A turn begins.                                                          *)
LEMMA HearAudioKeeps ==
  ASSUME IInv, NEW t \in Turn, NEW r \in Room, HearAudio(t, r)
  PROVE  IInv'
<1> USE DEF IInv, TypeOK, HearAudio
<1> DEFINE rec == [rooms[r] EXCEPT !.state = "thinking"]
<1>1. /\ rec \in RoomRecord /\ rec.state = "thinking"
      /\ rec.last_transcript = rooms[r].last_transcript
      /\ rec.session_id = rooms[r].session_id
  BY DEF RoomRecord, State
<1>2. /\ pc[t] = "idle" /\ r \in opened /\ place[t] = None
      /\ rooms' = [rooms EXCEPT ![r] = rec]
      /\ copy' = [copy EXCEPT ![t] = rec]
      /\ place' = [place EXCEPT ![t] = r]
      /\ pc' = [pc EXCEPT ![t] = "transcribing"]
      /\ stale' = stale \cup Holders(r)
      /\ UNCHANGED <<opened, known, queued, outcome, broken>>
  BY DEF InFlight
<1> HIDE DEF rec, HearAudio
<1>3. TypeOK'
  BY <1>1, <1>2 DEF Holders, InFlight
<1>4. UnopenedOK' /\ OutcomeOK'
  BY <1>1, <1>2 DEF UnopenedOK, OutcomeOK
<1>5. CopyOK'
  BY <1>1, <1>2, RoomAssumption DEF CopyOK, Holders, InFlight
<1>6. BusyRoomIsServed'
  BY <1>1, <1>2, RoomAssumption DEF BusyRoomIsServed
<1>7. WaitingRoomWasAsked' /\ BoundSessionIsKnown'
  BY <1>1, <1>2 DEF WaitingRoomWasAsked, BoundSessionIsKnown, InFlight
<1> QED
  BY <1>3, <1>4, <1>5, <1>6, <1>7

(* A turn comes back from the chat service.                                *)
LEMMA ChatDoneKeeps ==
  ASSUME IInv, NEW t \in Turn, NEW s \in Session, NEW o \in Outcome, ChatDone(t, s, o)
  PROVE  IInv'
<1> USE DEF IInv, TypeOK, ChatDone
<1>1. TypeOK'
  BY DEF InFlight
<1>2. UnopenedOK' /\ CopyOK' /\ BusyRoomIsServed'
  BY DEF UnopenedOK, CopyOK, BusyRoomIsServed, InFlight
<1>3. OutcomeOK'
  BY RoomAssumption DEF OutcomeOK, Outcome, InFlight
<1>4. \A r \in opened : rooms[r].last_transcript # t
  BY RoomAssumption DEF OutcomeOK
<1>5. WaitingRoomWasAsked'
  BY <1>4 DEF WaitingRoomWasAsked
<1>6. BoundSessionIsKnown'
  BY DEF BoundSessionIsKnown, InFlight
<1> QED
  BY <1>1, <1>2, <1>3, <1>5, <1>6

-----------------------------------------------------------------------------
(* A turn ends.                                                            *)

(* What the two saves put in the store.                                    *)
LEMMA SpokenOK ==
  ASSUME IInv, NEW t \in Turn, pc[t] = "synthesizing"
  PROVE  /\ Spoken(t) \in RoomRecord /\ Listening(Spoken(t)) \in RoomRecord
         /\ Spoken(t).last_transcript = t /\ Listening(Spoken(t)).last_transcript = t
         /\ Spoken(t).session_id = copy[t].session_id
         /\ Listening(Spoken(t)).session_id = copy[t].session_id
         /\ Spoken(t).handoff_requested = copy[t].handoff_requested
         /\ Listening(Spoken(t)).handoff_requested = copy[t].handoff_requested
         /\ Spoken(t).state \in {"speaking", "waiting_human"}
         /\ Listening(Spoken(t)).state \in {"listening", "waiting_human"}
         /\ Spoken(t).state = "waiting_human" => outcome[t] = "packaged"
         /\ Listening(Spoken(t)).state = "waiting_human" => outcome[t] = "packaged"
<1>1. copy[t] \in RoomRecord
  BY DEF IInv, TypeOK, InFlight
<1>2. /\ Spoken(t) \in RoomRecord
      /\ Spoken(t).last_transcript = t
      /\ Spoken(t).session_id = copy[t].session_id
      /\ Spoken(t).handoff_requested = copy[t].handoff_requested
      /\ Spoken(t).state \in {"speaking", "waiting_human"}
      /\ Spoken(t).state = "waiting_human" => outcome[t] = "packaged"
  BY <1>1 DEF Spoken, RoomRecord, State
<1> QED
  BY <1>2 DEF Listening, RoomRecord, State

(* The turns in T end and rooms are written as follows: by one turn of T   *)
(* in its room, or not at all.                                             *)
LEMMA DropKeeps ==
  ASSUME IInv, NEW T \in SUBSET Turn, \A u \in T : InFlight(u), Drop(T),
         NEW t \in T, pc[t] = "synthesizing", NEW rec \in RoomRecord,
         rooms' = [rooms EXCEPT ![place[t]] = rec],
         rec.last_transcript = t, rec.session_id = copy[t].session_id,
         rec.state \in {"speaking", "listening", "waiting_human"},
         rec.state = "waiting_human" => outcome[t] = "packaged",
         rec.state = "speaking" => place[t] \in broken',
         broken \subseteq broken', broken' \subseteq Room,
         \A u \in T : u # t => place[u] \in broken',
         stale' \subseteq Turn,
         \A u \in Turn \ T : InFlight(u) /\ (u \in stale \/ place[u] = place[t]) => u \in stale',
         UNCHANGED <<opened, known, queued, outcome>>
  PROVE  IInv'
<1> USE DEF IInv, TypeOK, Drop
<1>1. place[t] \in opened /\ place[t] \in Room
  BY DEF InFlight
<1>2. TypeOK'
  BY <1>1 DEF InFlight
<1>3. UnopenedOK'
  BY <1>1 DEF UnopenedOK
<1>4. CopyOK'
  BY <1>1 DEF CopyOK, InFlight
<1>5. OutcomeOK'
  <2>1. pc'[t] = "done" /\ \A u \in Turn : pc[u] = "done" => pc'[u] = "done"
    OBVIOUS
  <2>2. \A u \in Turn : pc'[u] = "synthesizing" => outcome'[u] # None
    BY DEF OutcomeOK
  <2>3. ASSUME NEW r \in Room, rooms'[r].last_transcript # None
        PROVE  pc'[rooms'[r].last_transcript] = "done"
    <3>1. rooms'[r] = rec \/ rooms'[r] = rooms[r]
      BY <1>1
    <3>2. rooms[r].last_transcript \in Turn \cup {None}
      BY DEF RoomRecord
    <3> QED
      BY <2>1, <2>3, <3>1, <3>2 DEF OutcomeOK
  <2> QED
    BY <2>2, <2>3 DEF OutcomeOK
<1>6. BusyRoomIsServed'
  <2> SUFFICES ASSUME NEW r \in opened', rooms'[r].state \in {"thinking", "speaking"},
                      r \notin broken'
               PROVE  rooms'[r].state = "thinking" /\ \E u \in Turn : place'[u] = r
    BY DEF BusyRoomIsServed
  <2>1. r # place[t] /\ rooms'[r] = rooms[r]
    BY <1>1
  <2>2. PICK u \in Turn : rooms[r].state = "thinking" /\ place[u] = r
    BY <2>1 DEF BusyRoomIsServed
  <2>3. u \notin T
    BY <2>1, <2>2
  <2> QED
    BY <2>1, <2>2, <2>3
<1>7. WaitingRoomWasAsked'
  BY <1>1, RoomAssumption DEF WaitingRoomWasAsked
<1>8. BoundSessionIsKnown'
  BY <1>1 DEF BoundSessionIsKnown, InFlight
<1> QED
  BY <1>2, <1>3, <1>4, <1>5, <1>6, <1>7, <1>8

(* The turns in T end and no room is written.                              *)
LEMMA AbandonKeeps ==
  ASSUME IInv, NEW T \in SUBSET Turn, \A u \in T : InFlight(u), Drop(T),
         broken \subseteq broken', broken' \subseteq Room,
         \A u \in T : place[u] \in broken',
         stale' \subseteq Turn, \A u \in Turn \ T : InFlight(u) /\ u \in stale => u \in stale',
         UNCHANGED <<rooms, opened, known, queued, outcome>>
  PROVE  IInv'
<1> USE DEF IInv, TypeOK, Drop
<1>1. TypeOK' /\ UnopenedOK'
  BY DEF UnopenedOK, InFlight
<1>2. CopyOK'
  BY DEF CopyOK, InFlight
<1>3. OutcomeOK'
  <2>1. \A u \in Turn : pc[u] = "done" => pc'[u] = "done"
    OBVIOUS
  <2>2. \A r \in Room : rooms[r].last_transcript \in Turn \cup {None}
    BY DEF RoomRecord
  <2> QED
    BY <2>1, <2>2 DEF OutcomeOK
<1>4. BusyRoomIsServed'
  BY DEF BusyRoomIsServed
<1>5. WaitingRoomWasAsked' /\ BoundSessionIsKnown'
  BY DEF WaitingRoomWasAsked, BoundSessionIsKnown, InFlight
<1> QED
  BY <1>1, <1>2, <1>3, <1>4, <1>5

(* A turn writes its copy back and ends.                                   *)
LEMMA FinishTurnKeeps ==
  ASSUME IInv, NEW t \in Turn, FinishTurn(t)
  PROVE  IInv'
<1> DEFINE T == {t}
<1>1. /\ pc[t] = "synthesizing" /\ InFlight(t) /\ Drop(T)
      /\ rooms' = [rooms EXCEPT ![place[t]] = Listening(Spoken(t))]
      /\ UNCHANGED <<opened, known, queued, outcome>> /\ UNCHANGED broken
      /\ stale' = (stale \cup Holders(place[t])) \ {t}
  BY DEF FinishTurn, InFlight
<1>2. /\ stale' \subseteq Turn /\ broken \subseteq broken' /\ broken' \subseteq Room
      /\ \A u \in Turn \ T : InFlight(u) /\ (u \in stale \/ place[u] = place[t])
                                 => u \in stale'
  BY <1>1 DEF IInv, TypeOK, Holders
<1>3. /\ T \in SUBSET Turn /\ t \in T
      /\ \A u \in T : InFlight(u)
      /\ \A u \in T : u # t => place[u] \in broken'
  BY <1>1
<1>4. /\ Listening(Spoken(t)) \in RoomRecord
      /\ Listening(Spoken(t)).last_transcript = t
      /\ Listening(Spoken(t)).session_id = copy[t].session_id
      /\ Listening(Spoken(t)).state \in {"speaking", "listening", "waiting_human"}
      /\ Listening(Spoken(t)).state = "waiting_human" => outcome[t] = "packaged"
      /\ Listening(Spoken(t)).state = "speaking" => place[t] \in broken'
  BY <1>1, SpokenOK
<1> HIDE DEF T
<1> QED
  BY <1>1, <1>2, <1>3, <1>4, DropKeeps

(* A turn raises.                                                          *)
LEMMA FailTurnKeeps ==
  ASSUME IInv, NEW t \in Turn, FailTurn(t)
  PROVE  IInv'
<1>1. /\ InFlight(t) /\ Drop({t})
      /\ stale' = stale \ {t} /\ broken' = broken \cup {place[t]}
      /\ UNCHANGED <<rooms, opened, known, queued, outcome>>
  BY DEF FailTurn
<1>2. /\ broken' \subseteq Room /\ stale' \subseteq Turn
      /\ \A u \in Turn \ {t} : u \in stale => u \in stale'
  BY <1>1 DEF IInv, TypeOK
<1> QED
  BY <1>1, <1>2, AbandonKeeps

(* The process dies, at an await or between the two saves of a turn.       *)
LEMMA DieKeeps ==
  ASSUME IInv, Restart \/ \E t \in Turn : RestartMidSave(t)
  PROVE  IInv'
<1> DEFINE T == {t \in Turn : InFlight(t)}
<1>1. /\ Drop(T) /\ stale' = {}
      /\ broken' = broken \cup {place[t] : t \in T}
      /\ UNCHANGED <<opened, known, queued, outcome>>
  BY DEF Restart, RestartMidSave, Die
<1>2. /\ broken \subseteq broken' /\ broken' \subseteq Room
      /\ \A u \in T : InFlight(u) /\ place[u] \in broken'
      /\ \A u \in Turn \ T : ~InFlight(u)
      /\ stale' \subseteq Turn
      /\ T \in SUBSET Turn
  BY <1>1 DEF IInv, TypeOK
<1>3. CASE Restart
  <2>1. UNCHANGED rooms
    BY <1>3 DEF Restart
  <2> HIDE DEF T
  <2> QED
    BY <1>1, <1>2, <2>1, AbandonKeeps
<1>4. ASSUME NEW t \in Turn, RestartMidSave(t)
      PROVE  IInv'
  <2>1. pc[t] = "synthesizing" /\ t \in T /\ rooms' = [rooms EXCEPT ![place[t]] = Spoken(t)]
    BY <1>4 DEF RestartMidSave, InFlight
  <2>2. /\ Spoken(t) \in RoomRecord
        /\ Spoken(t).last_transcript = t /\ Spoken(t).session_id = copy[t].session_id
        /\ Spoken(t).state \in {"speaking", "listening", "waiting_human"}
        /\ Spoken(t).state = "waiting_human" => outcome[t] = "packaged"
    BY <2>1, SpokenOK
  <2> HIDE DEF T
  <2> QED
    BY <1>1, <1>2, <2>1, <2>2, DropKeeps
<1> QED
  BY <1>3, <1>4

-----------------------------------------------------------------------------
(* The invariant is inductive.                                             *)
LEMMA NextKeeps == IInv /\ [Next]_vars => IInv'
<1> SUFFICES ASSUME IInv, [Next]_vars PROVE IInv'
  OBVIOUS
<1>1. ASSUME NEW r \in Room,
             \/ CreateRoom(r) \/ Interrupt(r) \/ RequestHuman(r) \/ EndRoom(r)
             \/ \E s \in Session : Join(r, s)
             \/ \E t \in Turn : HearAudio(t, r)
      PROVE  IInv'
  BY <1>1, RoomOperationKeeps, HearAudioKeeps
<1>2. ASSUME NEW t \in Turn, TurnStep(t)
      PROVE  IInv'
  BY <1>2, ChatDoneKeeps, FinishTurnKeeps, FailTurnKeeps DEF TurnStep
<1>3. CASE Restart \/ \E t \in Turn : RestartMidSave(t)
  BY <1>3, DieKeeps
<1>4. ASSUME NEW s \in Session, StaffTakes(s)
      PROVE  IInv'
  BY <1>4 DEF StaffTakes, IInv, TypeOK, UnopenedOK, CopyOK, OutcomeOK, BusyRoomIsServed,
              WaitingRoomWasAsked, BoundSessionIsKnown, InFlight
<1>5. CASE UNCHANGED vars
  BY <1>5 DEF vars, IInv, TypeOK, UnopenedOK, CopyOK, OutcomeOK, BusyRoomIsServed,
              WaitingRoomWasAsked, BoundSessionIsKnown, InFlight
<1> QED
  BY <1>1, <1>2, <1>3, <1>4, <1>5 DEF Next

(* Hence it always holds.                                                  *)
LEMMA InvariantHolds == Spec => []IInv
BY InitOK, NextKeeps, PTL DEF Spec

-----------------------------------------------------------------------------
(* The safety properties.                                                  *)

(* The variables keep their types; a turn holds a copy of an open room     *)
(* exactly while it is in flight.                                          *)
THEOREM TypeCorrect == Spec => []TypeOK
<1>1. IInv => TypeOK
  BY DEF IInv
<1> QED
  BY <1>1, InvariantHolds, PTL

(* A room is shown as thinking only while a turn is in flight there, and   *)
(* never as speaking, unless a turn of it raised or died.                  *)
THEOREM BusyRoomsAreServed == Spec => []BusyRoomIsServed
<1>1. IInv => BusyRoomIsServed
  BY DEF IInv
<1> QED
  BY <1>1, InvariantHolds, PTL

(* A room waits for a human because its user or its latest turn asked.     *)
THEOREM WaitingRoomsWereAsked == Spec => []WaitingRoomWasAsked
<1>1. IInv => WaitingRoomWasAsked
  BY DEF IInv
<1> QED
  BY <1>1, InvariantHolds, PTL

(* No room and no copy of one names a session that does not exist.         *)
THEOREM BoundSessionsAreKnown == Spec => []BoundSessionIsKnown
<1>1. IInv => BoundSessionIsKnown
  BY DEF IInv
<1> QED
  BY <1>1, InvariantHolds, PTL

-----------------------------------------------------------------------------
(* The action properties.                                                  *)

(* The steps that may change an open room, apart from the write of an old  *)
(* copy.                                                                   *)
LEMMA StepOnRoom ==
  ASSUME IInv, [Next]_vars, NEW r \in opened, ~StaleWrite(r)
  PROVE  LET rec == rooms[r]  new == rooms'[r]
         IN  \/ new = rec
             \/ /\ \E s \in Session : new = [rec EXCEPT !.session_id   = s,
                                                        !.state        = "joined",
                                                        !.participants = @ \cup {"user"}]
                /\ UNCHANGED pc
             \/ new = [rec EXCEPT !.state = "listening"] /\ rec.state # "ended"
             \/ new = [rec EXCEPT !.state = "waiting_human", !.handoff_requested = TRUE]
             \/ new = [rec EXCEPT !.state = "ended"]
             \/ /\ new = [rec EXCEPT !.state = "thinking"]
                /\ \E t \in Turn : place'[t] = r /\ place[t] = None
             \/ \E t \in Turn :
                  /\ pc[t] = "synthesizing" /\ copy[t] = rec
                  /\ new \in {Spoken(t), Listening(Spoken(t))}
<1> USE DEF IInv, TypeOK
<1> DEFINE rec == rooms[r]
           new == rooms'[r]
<1>1. ASSUME NEW z \in Room, CreateRoom(z)
      PROVE  new = rec
  BY <1>1 DEF CreateRoom
<1>2. ASSUME NEW z \in Room, NEW s \in Session, Join(z, s)
      PROVE  \/ new = rec
             \/ /\ new = [rec EXCEPT !.session_id   = s,
                                     !.state        = "joined",
                                     !.participants = @ \cup {"user"}]
                /\ UNCHANGED pc
  BY <1>2 DEF Join, SaveRoom
<1>3. ASSUME NEW z \in Room, Interrupt(z) \/ RequestHuman(z) \/ EndRoom(z)
      PROVE  \/ new = rec
             \/ new = [rec EXCEPT !.state = "listening"] /\ rec.state # "ended"
             \/ new = [rec EXCEPT !.state = "waiting_human", !.handoff_requested = TRUE]
             \/ new = [rec EXCEPT !.state = "ended"]
  BY <1>3 DEF Interrupt, RequestHuman, EndRoom, SaveRoom
<1>4. ASSUME NEW z \in Room, NEW t \in Turn, HearAudio(t, z)
      PROVE  \/ new = rec
             \/ /\ new = [rec EXCEPT !.state = "thinking"]
                /\ place'[t] = r /\ place[t] = None
  BY <1>4 DEF HearAudio, InFlight
<1>5. ASSUME NEW t \in Turn, FinishTurn(t) \/ RestartMidSave(t)
      PROVE  \/ new = rec
             \/ /\ pc[t] = "synthesizing" /\ copy[t] = rec
                /\ new \in {Spoken(t), Listening(Spoken(t))}
  <2>1. /\ pc[t] = "synthesizing" /\ InFlight(t) /\ pc'[t] = "done"
        /\ \/ rooms' = [rooms EXCEPT ![place[t]] = Spoken(t)]
           \/ rooms' = [rooms EXCEPT ![place[t]] = Listening(Spoken(t))]
    BY <1>5 DEF FinishTurn, RestartMidSave, Die, Drop, InFlight
  <2>2. place[t] = r => copy[t] = rec
    BY <2>1 DEF StaleWrite, CopyOK
  <2> QED
    BY <2>1, <2>2
<1>6. ASSUME NEW t \in Turn, (\E s \in Session, o \in Outcome : ChatDone(t, s, o)) \/ FailTurn(t)
      PROVE  new = rec
  BY <1>6 DEF ChatDone, FailTurn
<1>7. CASE Restart \/ (\E s \in Session : StaffTakes(s)) \/ UNCHANGED vars
  BY <1>7 DEF Restart, StaffTakes, vars
<1> QED
  BY <1>1, <1>2, <1>3, <1>4, <1>5, <1>6, <1>7 DEF Next, TurnStep

(* An ended room is opened again only by use, or by the write of an old    *)
(* copy.                                                                   *)
THEOREM EndedRoomsStayEnded == Spec => EndedRoomIsLeftOnlyByUse
<1> DEFINE A == \A r \in opened :
       rooms[r].state = "ended" /\ rooms'[r].state # "ended" =>
         \/ rooms'[r].state = "joined" /\ UNCHANGED pc
         \/ rooms'[r].state = "thinking" /\ \E t \in Turn : place'[t] = r /\ place[t] = None
         \/ rooms'[r].state = "waiting_human" /\ rooms'[r].handoff_requested
         \/ StaleWrite(r)
<1>1. IInv /\ [Next]_vars => A
  <2> SUFFICES ASSUME IInv, [Next]_vars, NEW r \in opened, ~StaleWrite(r),
                      rooms[r].state = "ended", rooms'[r].state # "ended"
               PROVE  \/ rooms'[r].state = "joined" /\ UNCHANGED pc
                      \/ /\ rooms'[r].state = "thinking"
                         /\ \E t \in Turn : place'[t] = r /\ place[t] = None
                      \/ rooms'[r].state = "waiting_human" /\ rooms'[r].handoff_requested
    OBVIOUS
  <2>1. rooms[r] \in RoomRecord
    BY DEF IInv, TypeOK
  <2>2. \A t \in Turn : pc[t] = "synthesizing" => copy[t] # rooms[r]
    BY DEF IInv, CopyOK, InFlight
  <2> QED
    BY <2>1, <2>2, StepOnRoom DEF RoomRecord
<1>2. Spec => [][A]_vars
  BY <1>1, InvariantHolds, PTL DEF Spec
<1> QED
  BY <1>2 DEF EndedRoomIsLeftOnlyByUse

(* What the user told a room is overwritten only by an old copy.           *)
THEOREM UserMarksKept == Spec => UserMarksAreKept
<1> DEFINE A == \A r \in opened :
       \/ /\ \/ rooms'[r].session_id = rooms[r].session_id
             \/ rooms'[r].state = "joined" /\ UNCHANGED pc
          /\ rooms[r].handoff_requested => rooms'[r].handoff_requested
       \/ StaleWrite(r)
<1>1. IInv /\ [Next]_vars => A
  <2> SUFFICES ASSUME IInv, [Next]_vars, NEW r \in opened, ~StaleWrite(r)
               PROVE  /\ \/ rooms'[r].session_id = rooms[r].session_id
                         \/ rooms'[r].state = "joined" /\ UNCHANGED pc
                      /\ rooms[r].handoff_requested => rooms'[r].handoff_requested
    OBVIOUS
  <2>1. rooms[r] \in RoomRecord
    BY DEF IInv, TypeOK
  <2>2. ASSUME NEW t \in Turn, pc[t] = "synthesizing", copy[t] = rooms[r],
               rooms'[r] \in {Spoken(t), Listening(Spoken(t))}
        PROVE  /\ rooms'[r].session_id = rooms[r].session_id
               /\ rooms'[r].handoff_requested = rooms[r].handoff_requested
    BY <2>2, SpokenOK
  <2>3. CASE \E t \in Turn : /\ pc[t] = "synthesizing" /\ copy[t] = rooms[r]
                            /\ rooms'[r] \in {Spoken(t), Listening(Spoken(t))}
    BY <2>2, <2>3
  <2>4. CASE ~\E t \in Turn : /\ pc[t] = "synthesizing" /\ copy[t] = rooms[r]
                             /\ rooms'[r] \in {Spoken(t), Listening(Spoken(t))}
    BY <2>1, <2>4, StepOnRoom DEF RoomRecord
  <2> QED
    BY <2>3, <2>4
<1>2. Spec => [][A]_vars
  BY <1>1, InvariantHolds, PTL DEF Spec
<1> QED
  BY <1>2 DEF UserMarksAreKept
=============================================================================
