\* Two callers and two clients on two hosts, answers that are cached and answers
\* that are not: shared fetches, cancellations, expiry and one cache entry for two
\* clients, what each caller was given, and the retry delay against clocks read
\* early.  The host table holds both hosts.
CONSTANTS
  c1 = c1
  c2 = c2
  c3 = c3
  h1 = h1
  h2 = h2
  None = None
  Callers = {p1, p2}
  ClientIDs = {c1, c3}
  Hosts = {h1, h2}
  HostOf <- TwoHosts
  HostRetryDelay = 1
  MaximumCacheTTL = 1
  CacheTTLs <- NoStoreOrTick
  CacheEntries = 1
  FetchConcurrency = 2
  FetchTimeout = 1
  MaxTime = 2
SPECIFICATION HistorySpec
SYMMETRY CallerSymmetry
INVARIANTS
  SingleFlight
  NobodyWaitsInVain
  MonotoneReads
PROPERTIES
  HostSpacing
