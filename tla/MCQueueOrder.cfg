CONSTANTS
  Session = {s1, s2}
  Request = {r1, r2, r3}
  Operator = {op1}
  None = None
  MaxReplies = 1
  MaxTime = 1
  SkillGroup <- Groups
  HandoffContext <- TwoContexts
SYMMETRY Symmetry
CONSTRAINT TwoOrThreeRequests
SPECIFICATION OrderSpec
INVARIANTS
  WaitingFlagAgrees
  QueueEntryIsWhole
  AnswersHaveQuestions
  FreshCopyIsStored
PROPERTIES
  MessagesLostOnlyByStaleWrite
  BackToActiveOnlyByStaleWrite
  EntersQueueOnlyIfAsked
  ClaimQueueButForStaleWrite
  PassedOverOnlyForOlder
