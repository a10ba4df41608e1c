CONSTANTS
  None = None
  Session = {s1}
  Turn = {t1, t2}
  Request <- Requests
  Tenant = "t1"
  Channel = "web"
  Domains <- DomainMap
  Found <- Finds
  RemoteAnswer <- RemoteAnswers
  Overlap = {5, 50}
  Prices <- PriceTable
  PolicyConfig <- Policies
  Switched = {"handoff.summary"}
  MaxMessages = 3
SYMMETRY Symmetry
SPECIFICATION Spec
INVARIANTS
  TypeOK
  RepliesAreGrounded
  DeliveredIsFinal
PROPERTIES
  LowConfidenceEscalates
  RiskIsHandedOver
