CONSTANTS
  None = None
  Request <- Requests
  Key <- Keys
  Configured <- Hosts
  Bridges <- AllBridges
  TrustForwarded = FALSE
  MaxBytes = 1
  MaxEvents = 3
  MaxLog = 4
  RatePerMinute = 25
  Burst = 1
  Ttl = 3
  QuietSize = 1
  Ticks = 1
  MaxTime = 4
SPECIFICATION Spec
INVARIANTS
  RetryAfterIsEnough
  ReportsFollowTheLog
PROPERTIES
  ImplementsTokenBucket
