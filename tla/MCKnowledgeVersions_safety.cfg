CONSTANTS
  Request = {r1, r2}
  Document = {d1, d2}
  Config = {default, fine}
  DefaultConfig = default
  None = None
  MaxVersions = 2
SYMMETRY Symmetry
SPECIFICATION Spec
INVARIANTS
  HitsAreOfTheVersion
  BaseDescribesItsVersion
  OneActiveVersion
PROPERTIES
  RepointedOnlyByStaleWrite
  DocumentsAreKept
