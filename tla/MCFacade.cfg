\* Two requests for one slot, one client whose document changes, and another replica,
\* under fairness.
CONSTANTS
  c1 = c1
  u = u
  v = v
  None = None
  Requests = {r1, r2}
  ClientIDs = {c1}
  Redirects = {u, v}
  Published <- Replaced
  DynamicConcurrency = 1
  MaxAge = 2
  MaxTime = 3
SPECIFICATION FairProcessSpec
INVARIANTS
  PassedRedirect
  DynamicSlotsHeld
  SuccessIsTrue
PROPERTIES
  AnsweredOrProcessGone
  SignalEndsProcess
