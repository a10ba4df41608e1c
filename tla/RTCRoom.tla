------------------------------ MODULE RTCRoom ------------------------------
(***************************************************************************)
(* Voice rooms of one tenant, in one process: the room store, the room     *)
(* operations (REST calls and websocket events run the same code), and the *)
(* voice turns that user_audio events start (application/voice_rtc.py).    *)
(*                                                                         *)
(* A voice turn is the only operation that awaits.  It takes a copy of the *)
(* room, saves it as "thinking", awaits the recogniser, the chat service   *)
(* and the synthesiser, and writes the copy back twice.  The other         *)
(* operations run between its awaits: from another websocket of the room   *)
(* or from REST (a websocket reads its next event when the turn is over).  *)
(*     idle -> transcribing -> synthesizing -> done                        *)
(*                                                                         *)
(* The chat service is seen from outside: a turn of it uses the session it *)
(* is given, or creates one, and either answers or puts the session in the *)
(* handoff queue, with or without a handoff package to show for it (no     *)
(* package when every plugin that builds one is disabled).                 *)
(*                                                                         *)
(* Abstracted: audio, answers, payload validation, timestamps, metrics.    *)
(***************************************************************************)
EXTENDS Integers

CONSTANTS
  Room,      \* room ids
  Session,   \* session ids
  Turn,      \* user_audio events; each arrives once
  None       \* Python's None

(* What a turn of the chat service comes to.                               *)
Outcome == {"answered", "packaged", "unpackaged"}

ASSUME RoomAssumption == None \notin Room \cup Session \cup Turn \cup Outcome

VARIABLES
  rooms,     \* the store: the record of every room
  opened,    \* the room ids in the store
  known,     \* the session ids in the session store
  queued,    \* the sessions in the handoff queue
  pc,        \* pc[t]: the await turn t is suspended at
  place,     \* place[t]: the room of turn t, or None
  copy,      \* copy[t]: turn t's copy of that room
  outcome,   \* outcome[t]: what the chat service made of turn t
  stale,     \* history: turns in flight whose copy is older than the store
  broken     \* history: rooms a turn of which raised or died

vars == <<rooms, opened, known, queued, pc, place, copy, outcome, stale, broken>>

-----------------------------------------------------------------------------
State == {"created", "joined", "listening", "thinking", "speaking",
          "waiting_human", "ended"}

RoomRecord ==
  [state             : State,
   session_id        : Session \cup {None},
   participants      : SUBSET {"user"},
   last_transcript   : Turn \cup {None},
   handoff_requested : BOOLEAN]

NewRoom ==
  [state             |-> "created",
   session_id        |-> None,
   participants      |-> {},
   last_transcript   |-> None,
   handoff_requested |-> FALSE]

InFlight(t) == pc[t] \in {"transcribing", "synthesizing"}

Init ==
  /\ rooms = [r \in Room |-> NewRoom]
  /\ opened = {}
  /\ known = {}
  /\ queued = {}
  /\ pc = [t \in Turn |-> "idle"]
  /\ place = [t \in Turn |-> None]
  /\ copy = [t \in Turn |-> None]
  /\ outcome = [t \in Turn |-> None]
  /\ stale = {}
  /\ broken = {}

-----------------------------------------------------------------------------
(* The operations that do not await.                                       *)

(* The turns that hold a copy of room r.                                   *)
Holders(r) == {t \in Turn : place[t] = r}

SaveRoom(r, rec) ==
  /\ rooms' = [rooms EXCEPT ![r] = rec]
  /\ stale' = stale \cup Holders(r)

CreateRoom(r) ==
  /\ r \notin opened
  /\ opened' = opened \cup {r}
  /\ UNCHANGED <<rooms, known, queued, pc, place, copy, outcome, stale, broken>>

(* join_room: session s is a known one, or created here.  The state of the *)
(* room is not looked at.                                                  *)
Join(r, s) ==
  /\ r \in opened
  /\ known' = known \cup {s}
  /\ SaveRoom(r, [rooms[r] EXCEPT !.session_id   = s,
                                  !.state        = "joined",
                                  !.participants = @ \cup {"user"}])
  /\ UNCHANGED <<opened, queued, pc, place, copy, outcome, broken>>

(* Fault: an ended room can be interrupted.                                *)
InterruptUnchecked(r) ==
  /\ r \in opened
  /\ SaveRoom(r, [rooms[r] EXCEPT !.state = "listening"])
  /\ UNCHANGED <<opened, known, queued, pc, place, copy, outcome, broken>>

(* interrupt: refused in an ended room.                                    *)
Interrupt(r) ==
  /\ r \in opened
  /\ rooms[r].state # "ended"
  /\ SaveRoom(r, [rooms[r] EXCEPT !.state = "listening"])
  /\ UNCHANGED <<opened, known, queued, pc, place, copy, outcome, broken>>

(* Fault: the request changes the state only.                              *)
RequestHumanUnmarked(r) ==
  /\ r \in opened
  /\ SaveRoom(r, [rooms[r] EXCEPT !.state = "waiting_human"])
  /\ UNCHANGED <<opened, known, queued, pc, place, copy, outcome, broken>>

(* The request_human event: the room is marked; its session is not queued. *)
RequestHuman(r) ==
  /\ r \in opened
  /\ SaveRoom(r, [rooms[r] EXCEPT !.state             = "waiting_human",
                                  !.handoff_requested = TRUE])
  /\ UNCHANGED <<opened, known, queued, pc, place, copy, outcome, broken>>

(* end_room, whatever the state.                                           *)
EndRoom(r) ==
  /\ r \in opened
  /\ SaveRoom(r, [rooms[r] EXCEPT !.state = "ended"])
  /\ UNCHANGED <<opened, known, queued, pc, place, copy, outcome, broken>>

-----------------------------------------------------------------------------
(* A voice turn.                                                           *)

(* The user_audio event up to its first await.  The state of the room is   *)
(* not looked at.                                                          *)
HearAudio(t, r) ==
  LET rec == [rooms[r] EXCEPT !.state = "thinking"]
  IN  /\ pc[t] = "idle"
      /\ r \in opened
      /\ rooms' = [rooms EXCEPT ![r] = rec]
      /\ copy' = [copy EXCEPT ![t] = rec]
      /\ place' = [place EXCEPT ![t] = r]
      /\ pc' = [pc EXCEPT ![t] = "transcribing"]
      /\ stale' = stale \cup Holders(r)
      /\ UNCHANGED <<opened, known, queued, outcome, broken>>

(* The recogniser and the chat service are back, with outcome o, and the   *)
(* synthesiser is awaited.  The chat service worked on the session of the  *)
(* copy; without one it created a session, which the room never learns.    *)
ChatDone(t, s, o) ==
  /\ pc[t] = "transcribing"
  /\ IF copy[t].session_id = None THEN s \notin known ELSE s = copy[t].session_id
  /\ known' = known \cup {s}
  /\ queued' = IF o = "answered" THEN queued ELSE queued \cup {s}
  /\ outcome' = [outcome EXCEPT ![t] = o]
  /\ pc' = [pc EXCEPT ![t] = "synthesizing"]
  /\ UNCHANGED <<rooms, opened, place, copy, stale, broken>>

(* Fault: without a handoff the state is left as it was.                   *)
SpokenKeepingState(t) ==
  [copy[t] EXCEPT !.last_transcript = t,
                  !.state = IF outcome[t] = "packaged" THEN "waiting_human" ELSE @]

(* The first of the two saves that end a turn.                             *)
Spoken(t) ==
  [copy[t] EXCEPT !.last_transcript = t,
                  !.state = IF outcome[t] = "packaged" THEN "waiting_human" ELSE "speaking"]

(* The second.                                                             *)
Listening(rec) ==
  [rec EXCEPT !.state = IF @ = "speaking" THEN "listening" ELSE @]

Drop(T) ==
  /\ pc' = [t \in Turn |-> IF t \in T THEN "done" ELSE pc[t]]
  /\ place' = [t \in Turn |-> IF t \in T THEN None ELSE place[t]]
  /\ copy' = [t \in Turn |-> IF t \in T THEN None ELSE copy[t]]

(* Fault: the turn ends without saving the room.                           *)
FinishTurnUnsaved(t) ==
  /\ pc[t] = "synthesizing"
  /\ Drop({t})
  /\ stale' = stale \ {t}
  /\ UNCHANGED <<rooms, opened, known, queued, outcome, broken>>

(* The rest of the turn: no await separates the two saves.                 *)
FinishTurn(t) ==
  /\ pc[t] = "synthesizing"
  /\ rooms' = [rooms EXCEPT ![place[t]] = Listening(Spoken(t))]
  /\ stale' = (stale \cup Holders(place[t])) \ {t}
  /\ Drop({t})
  /\ UNCHANGED <<opened, known, queued, outcome, broken>>

(* A provider or the chat service raises at an await: nothing resets the   *)
(* room.  A chat service that raises half-way may have created or queued   *)
(* its session: that is ChatDone, then this.                               *)
FailTurn(t) ==
  /\ InFlight(t)
  /\ Drop({t})
  /\ stale' = stale \ {t}
  /\ broken' = broken \cup {place[t]}
  /\ UNCHANGED <<rooms, opened, known, queued, outcome>>

(* The process dies with its turns.                                        *)
Die ==
  /\ Drop({t \in Turn : InFlight(t)})
  /\ stale' = {}
  /\ broken' = broken \cup {place[t] : t \in {u \in Turn : InFlight(u)}}
  /\ UNCHANGED <<opened, known, queued, outcome>>

(* It dies at an await, and starts again from the store, which every save  *)
(* flushes.                                                                *)
Restart ==
  /\ Die
  /\ UNCHANGED rooms

(* It dies between the two saves of turn t.                                *)
RestartMidSave(t) ==
  /\ pc[t] = "synthesizing"
  /\ rooms' = [rooms EXCEPT ![place[t]] = Spoken(t)]
  /\ Die

(* Staff take a session from the queue.                                    *)
StaffTakes(s) ==
  /\ s \in queued
  /\ queued' = queued \ {s}
  /\ UNCHANGED <<rooms, opened, known, pc, place, copy, outcome, stale, broken>>

-----------------------------------------------------------------------------
TurnStep(t) ==
  \/ \E s \in Session, o \in Outcome : ChatDone(t, s, o)
  \/ FinishTurn(t)
  \/ FailTurn(t)

Next ==
  \/ \E r \in Room : \/ CreateRoom(r) \/ Interrupt(r) \/ RequestHuman(r) \/ EndRoom(r)
                     \/ \E s \in Session : Join(r, s)
                     \/ \E t \in Turn : HearAudio(t, r)
  \/ \E t \in Turn : TurnStep(t) \/ RestartMidSave(t)
  \/ Restart
  \/ \E s \in Session : StaffTakes(s)

Spec == Init /\ [][Next]_vars

(* The event loop resumes every suspended turn: each await returns or      *)
(* raises.                                                                 *)
FairSpec == Spec /\ \A t \in Turn : WF_vars(TurnStep(t))

-----------------------------------------------------------------------------
(* Properties.                                                             *)

(* The types of the variables; a turn holds a copy of an open room exactly *)
(* while it is in flight.                                                  *)
TypeOK ==
  /\ rooms \in [Room -> RoomRecord]
  /\ opened \subseteq Room
  /\ known \subseteq Session
  /\ queued \subseteq known
  /\ pc \in [Turn -> {"idle", "transcribing", "synthesizing", "done"}]
  /\ place \in [Turn -> Room \cup {None}]
  /\ copy \in [Turn -> RoomRecord \cup {None}]
  /\ \A t \in Turn : IF InFlight(t) THEN place[t] \in opened /\ copy[t] \in RoomRecord
                                    ELSE place[t] = None /\ copy[t] = None
  /\ outcome \in [Turn -> Outcome \cup {None}]
  /\ stale \subseteq Turn
  /\ broken \subseteq Room

(* A room shown as thinking or speaking is being served: a turn is in      *)
(* flight there, whatever joins, interrupts and other turns came between.  *)
(* Only a turn that raised or died can leave a room behind in such a       *)
(* state, and only a death leaves "speaking".                              *)
BusyRoomIsServed ==
  \A r \in opened :
    \/ rooms[r].state \notin {"thinking", "speaking"}
    \/ r \in broken
    \/ rooms[r].state = "thinking" /\ \E t \in Turn : place[t] = r

(* A room that waits for a human was asked to, by its user or by its       *)
(* latest turn: the marks of a request are never half overwritten.         *)
WaitingRoomWasAsked ==
  \A r \in opened :
    rooms[r].state = "waiting_human" =>
      \/ rooms[r].handoff_requested
      \/ /\ rooms[r].last_transcript # None
         /\ outcome[rooms[r].last_transcript] = "packaged"

(* The session of a room, and of a copy of one, exists.                    *)
BoundSessionIsKnown ==
  /\ \A r \in opened : rooms[r].session_id \in known \cup {None}
  /\ \A t \in Turn : InFlight(t) => copy[t].session_id \in known \cup {None}

(* In this step a turn ends in room r that has an old copy of it.          *)
StaleWrite(r) == \E t \in stale : place[t] = r /\ pc'[t] = "done"

(* An ended room is opened again by a join, a turn, a request for a human, *)
(* or a turn begun before it ended that writes its copy back; an interrupt *)
(* never does it.                                                          *)
EndedRoomIsLeftOnlyByUse ==
  [][\A r \in opened :
       rooms[r].state = "ended" /\ rooms'[r].state # "ended" =>
         \/ rooms'[r].state = "joined" /\ UNCHANGED pc
         \/ rooms'[r].state = "thinking" /\ \E t \in Turn : place'[t] = r /\ place[t] = None
         \/ rooms'[r].state = "waiting_human" /\ rooms'[r].handoff_requested
         \/ StaleWrite(r)]_vars

(* What the user told a room is kept: its session is changed by a join     *)
(* only, and its request for a human is never withdrawn, unless a turn     *)
(* suspended meanwhile writes its old copy back.                           *)
UserMarksAreKept ==
  [][\A r \in opened :
       \/ /\ \/ rooms'[r].session_id = rooms[r].session_id
             \/ rooms'[r].state = "joined" /\ UNCHANGED pc
          /\ rooms[r].handoff_requested => rooms'[r].handoff_requested
       \/ StaleWrite(r)]_vars

(* No room thinks for ever, unless a turn of it raised or died.            *)
ThinkingEnds ==
  \A r \in Room : (r \in opened /\ rooms[r].state = "thinking")
                    ~> (rooms[r].state # "thinking" \/ r \in broken)
=============================================================================
