CONSTANTS
  Field <- KnowledgeField
  Text = {x0, x1}
  DefaultText = x0
  Ttl = {1}
  DefaultTtl = 1
  AlertRules = {a0}
  DefaultRules = a0
  Plugin = {p1}
  Unknown = unknown
  Turn = {t1}
  Query = {q1}
  KnowledgeVersion = {v1, v2}
  PutBody <- Puts
  None = None
  Invalid = Invalid
  MaxRevisions = 3
  MaxEntries = 1
  MaxAge = 2
SYMMETRY Symmetry
\* A process whose policies do not pass validation never starts again.
CHECK_DEADLOCK FALSE
SPECIFICATION Spec
INVARIANTS
  TypeOK
  LedgerIsSound
  AnsweredIsKept
  HitsAreCurrent
  DisabledCacheIsEmpty
