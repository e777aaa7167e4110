SPECIFICATION FairSpec
CONSTANTS
  c1 = c1
  Client = {c1}
  QUEUE = 1
  MAX_GETS = 2
  MAX_TOKENS = 1
  MAX_MADE = 1
  CACHE_AGE = 1
  TIMEOUT = 1
INVARIANTS TypeOK RatesBounded ReachabilityRecent
PROPERTY TabsCatchUp
