CONSTANTS
  Room = {r1}
  Session = {s1, s2}
  Turn = {t1, t2}
  None = None
SPECIFICATION FairSpec
INVARIANTS
  BusyRoomIsServed
  WaitingRoomWasAsked
PROPERTIES
  EndedRoomIsLeftOnlyByUse
  ThinkingEnds
