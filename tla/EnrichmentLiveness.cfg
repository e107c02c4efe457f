SPECIFICATION FairSpec
CONSTANTS
  a1 = a1
  a2 = a2
  Articles = {a1, a2}
  Chinese = {}
  Briefed = {}
  Hopeless = {a1}
  Rank <- HopelessFirst
  FIRST = 2
  Keys = {"enrich", "again"}
  Workers = {x1}
  Nobody = Nobody
  Outputs = {o1}
  Own = Own
  Empty = Empty
  MAX_ATTEMPTS = 2
  MAX_VERSION = 1
  MAX_TROUBLES = 2
PROPERTIES Translated
