\* Two requests and one operator change: the operator acts between the GET and
\* the PUT of a request.
CONSTANTS
  r1 = r1
  r2 = r2
  r3 = r3
  a = a
  b = b
  c1 = c1
  c2 = c2
  l1 = l1
  l2 = l2
  v1 = v1
  v2 = v2
  None = None
  Requests = {r1, r2}
  Replicas = {a}
  ReplicaOf <- OneReplica
  Clients = {c1}
  LockIndexes = {l1}
  LockIndex <- SharedLock
  Versions = {v1, v2}
  MaxTrouble = 1
SPECIFICATION Spec
PROPERTIES
  NeverOverwritesUnmanaged
