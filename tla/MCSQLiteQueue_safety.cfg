CONSTANTS
  Process = {p1, p2}
  Session = {s1, s2}
  Group = {"general", "risk"}
  Ask <- TwoAsks
  Operator = {}
  None = None
  MaxCalls = 3
SYMMETRY Symmetry
SPECIFICATION Spec
PROPERTIES
  DiscardedOnlyByDisagreement
  HandedOutInOrder
  NullLeavesNobody
