CONSTANTS
  Process = {p1, p2}
  Session = {s1}
  Group = {"general"}
  Ask <- OneAsk
  Operator = {op1}
  None = None
  MaxCalls = 4
SPECIFICATION FairSpec
PROPERTIES
  ImplementsClaimQueue
  CallsEnd
