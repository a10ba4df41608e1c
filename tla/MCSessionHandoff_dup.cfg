CONSTANTS
  Session = {s1}
  Request = {r1, r2}
  Operator = {op1}
  None = None
  MaxReplies = 0
  MaxTime = 0
  SkillGroup <- Groups
  HandoffContext <- OneContext
ACTION_CONSTRAINT BuiltinPluginsReturnAtOnce
SPECIFICATION Spec
PROPERTY NoDuplicateClaim
