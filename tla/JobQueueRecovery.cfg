SPECIFICATION FairSpec
CONSTANTS
  Jobs = {j1}
  Workers = {w1, w2}
  Queue <- OnlyAI
  Serves <- WorkersAI
  Enrichable = {j1}
  Producers = {p1}
  Tokens = {t1, t2, t3}
  NoToken = NoToken
  NoJob = NoJob
  Priorities = {5, 50}
  URGENT = 10
  MAX_ATTEMPTS = 2
  COLLECT_LIMIT = 1
  MAX_CONCURRENCY = 1
  LEASE = 4
  BEAT = 1
  LOCK_TIMEOUT = 1
  BACKOFF <- Backoff
  DEFERRALS = {1}
PROPERTIES RunningEnds CompletedStands 
