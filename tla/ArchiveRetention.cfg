SPECIFICATION Spec
CONSTANTS
  u1 = u1
  u2 = u2
  g1 = g1
  t1 = t1
  t2 = t2
  Urls = {u1, u2}
  Guids = {g1}
  Texts = {t1, t2}
  Items <- FewItems
  Ingests = {i1, i2}
  NoUrl = NoUrl
  NoText = NoText
  NoItem = NoItem
  MAX_CLOCK = 2
SYMMETRY ArchiveSymmetry
INVARIANTS TypeOK PinnedKept
PROPERTIES ImportKeepsNewer 
