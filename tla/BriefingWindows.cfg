SPECIFICATION Spec
CONSTANTS
  a1 = a1
  a2 = a2
  f1 = f1
  Articles = {a1, a2}
  Source <- OneFeed
  Group <- TwoGroups
  Generators = {g1, g2}
  Schedulers = {s1}
  DAY = 4
  MAX_ITEMS = 2
  SOURCE_LIMIT = 1
  Times = {1, 3}
  Legacy = {2}
  HORIZON = 3
  MAX_VERSIONS = 2
  MAX_BRIEFINGS = 3
SYMMETRY Symmetric
INVARIANTS  NewsOnce NothingMissed SlotsAnswered
