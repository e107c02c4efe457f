SPECIFICATION Spec
CONSTANTS
  h1 = h1
  Feeds = {f1}
  Hosts = {h1}
  Edited = {}
  Host <- OneHost
  Crawlers = {c1, c2}
  Nobody = Nobody
  NoFeed = NoFeed
  LEASE = 2
  INTERVAL = 1
  BOOSTED = 1
  BOOST_FOR = 0
  MAX_FAILURES = 1
  BACKOFF <- BriefBackoff
  RetryAfter = {1}
  MAX_QUEUED = 1
  MAX_DOCUMENT = 2
SYMMETRY CrawlerSymmetry
INVARIANTS SecondCrawlOnlyAfterLease 
