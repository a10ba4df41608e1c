CONSTANTS
  Session = {s1, s2}
  Request = {r1, r2}
  Operator = {op1}
  None = None
  MaxReplies = 1
  MaxTime = 1
  SkillGroup <- Groups
  HandoffContext <- TwoContexts
CONSTRAINT ReplyOrTick
SPECIFICATION FairSpec
PROPERTY WaitingIsServed
