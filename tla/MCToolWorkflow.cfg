CONSTANTS
  None = None
  Builtin <- BuiltinPlugins
  Custom <- HostTools
  Switched <- FollowedIds
  Request <- Requests
  Runner = {r1}
  RemoteStatus = {"provider_error"}
CONSTRAINT FollowRuns
SPECIFICATION Spec
INVARIANTS
  LifecycleIsPaired
  StepsFollowThePlan
  CatalogOffersWhatRuns
