\* Two callers and three clients on three hosts: the cache holds one entry and
\* the host table two, so both evict.
CONSTANTS
  c1 = c1
  c2 = c2
  c3 = c3
  h1 = h1
  h2 = h2
  h3 = h3
  None = None
  Callers = {p1, p2}
  ClientIDs = {c1, c2, c3}
  Hosts = {h1, h2, h3}
  HostOf <- HostPerClient
  HostRetryDelay = 1
  MaximumCacheTTL = 1
  CacheTTLs <- OverflowOrTick
  CacheEntries = 1
  FetchConcurrency = 1
  FetchTimeout = 1
  MaxTime = 1
SPECIFICATION Spec
SYMMETRY CallerSymmetry
INVARIANTS
  SlotsAreHeld
  TablesBounded
