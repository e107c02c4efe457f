SPECIFICATION Spec
CONSTANTS
  Jobs = {j1, j2}
  Workers = {w1, w2}
  Queue <- OnlyAI
  Serves <- WorkersAI
  Enrichable = {}
  Producers = {}
  Tokens = {t1, t2, t3, t4}
  NoToken = NoToken
  NoJob = NoJob
  Priorities = {5, 50}
  URGENT = 10
  MAX_ATTEMPTS = 2
  COLLECT_LIMIT = 1
  MAX_CONCURRENCY = 2
  LEASE = 4
  BEAT = 1
  LOCK_TIMEOUT = 1
  BACKOFF <- Backoff
  DEFERRALS = {1}
SYMMETRY TokenWorkerSymmetry
INVARIANTS RetryBound  
PROPERTIES PauseTakesEffect GrowthWithinLimit
