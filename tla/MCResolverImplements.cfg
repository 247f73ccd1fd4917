\* Two callers and two clients on one host: hits, joins, evictions and slots are
\* all invisible in DocumentReads, and under fairness every call returns: leaders
\* contend for the slot, followers wait for leaders.
CONSTANTS
  c1 = c1
  c2 = c2
  h1 = h1
  h2 = h2
  None = None
  Callers = {p1, p2}
  ClientIDs = {c1, c2}
  Hosts = {h1}
  HostOf <- OneHost
  HostRetryDelay = 1
  MaximumCacheTTL = 1
  CacheTTLs <- NoStoreOrTick
  CacheEntries = 1
  FetchConcurrency = 1
  FetchTimeout = 1
  MaxTime = 2
SPECIFICATION FairSpec
PROPERTIES
  ImplementsReads
  EveryCallReturns
