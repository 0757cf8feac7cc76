\* Two concurrent requests, several lives of the cache.
SPECIFICATION Spec
CONSTANTS
  Requests = {r1, r2}
  CacheTTL = 3
  ProbeTimeout = 2
  MaxTime = 8
INVARIANTS HealthyIsRecent CacheEvidence
