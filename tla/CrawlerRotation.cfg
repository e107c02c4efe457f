SPECIFICATION FairSpec
CONSTANTS
  h1 = h1
  Feeds = {f1}
  Hosts = {h1}
  Edited = {f1}
  Host <- OneHost
  Crawlers = {c1}
  Nobody = Nobody
  NoFeed = NoFeed
  LEASE = 2
  INTERVAL = 2
  BOOSTED = 1
  BOOST_FOR = 2
  MAX_FAILURES = 1
  BACKOFF <- Backoff
  RetryAfter = {2}
  MAX_QUEUED = 1
  MAX_DOCUMENT = 1
PROPERTIES FeedsKeepComing
