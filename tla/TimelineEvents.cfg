SPECIFICATION Spec
CONSTANTS
  a1 = a1
  a2 = a2
  Articles = {a1, a2}
  Source <- OwnSource
  Breaking = {}
  Found = {a1}
  Revised = {a1}
  Analysts = {x1, x2}
  Scans = {s1}
  MAX_EVENTS = 2
  MAX_NODES = 2
  MAX_VERSION = 2
  MAX_PROPOSALS = 2
  MAX_COMMANDS = 2
  NoEvent = NoEvent
  NoArticle = NoArticle
SYMMETRY TimelineSymmetry
INVARIANTS  SelectedInEvent
PROPERTIES DecisionKept PublishedOnce
CHECK_DEADLOCK FALSE
