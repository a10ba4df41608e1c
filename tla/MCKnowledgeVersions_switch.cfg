CONSTANTS
  Request = {r1, r2}
  Document = {d1, d2}
  Config = {default, fine}
  DefaultConfig = default
  None = None
  MaxVersions = 2
SPECIFICATION Spec
PROPERTIES
  ActivationIsKept
