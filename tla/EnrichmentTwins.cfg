SPECIFICATION Spec
CONSTANTS
  a1 = a1
  a2 = a2
  Articles = {a1}
  Chinese <- Later
  Briefed = {a1}
  Hopeless = {}
  Rank <- HopelessFirst
  FIRST = 2
  Keys = {"enrich"}
  Workers = {x1, x2}
  Nobody = Nobody
  Outputs = {o1, o2}
  Own = Own
  Empty = Empty
  MAX_ATTEMPTS = 2
  MAX_VERSION = 2
  MAX_TROUBLES = 2
SYMMETRY EnrichmentSymmetry
INVARIANTS PaidOnce  
PROPERTIES SnapshotOnce
