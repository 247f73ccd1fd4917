\* Three requests of two replicas for one client: create races, abandoned and
\* late writes, an operator.
CONSTANTS
  r1 = r1
  r2 = r2
  r3 = r3
  a = a
  b = b
  c1 = c1
  c2 = c2
  l1 = l1
  l2 = l2
  v1 = v1
  v2 = v2
  None = None
  Requests = {r1, r2, r3}
  Replicas = {a, b}
  ReplicaOf <- TwoReplicas
  Clients = {c1}
  LockIndexes = {l1}
  LockIndex <- SharedLock
  Versions = {v1, v2}
  MaxTrouble = 2
SPECIFICATION HistorySpec
SYMMETRY VersionSymmetry
INVARIANTS
  RacesResolve
  ForeignClientRespected
PROPERTIES
  ImplementsRegistrations
