CONSTANTS
  r1 = r1
  r2 = r2
  customer = customer
  b1 = b1
  None = None
  Request = {r1, r2}
  Lane = {customer}
  LaneOf <- LanesOf
  BindingOf <- Bindings
  Real = {r1, r2}
  LaneMax = 2
  MaxRunning = 1
  MaxTries = 1
  Verifier = {v1}
  Disturbances = {"crash", "stop", "expiry"}
  Event = {e1}
  Worker = {p1, p2}
  Self = p1
  Batch = 1
SPECIFICATION MSpec
INVARIANT LaneIsExact
INVARIANT QueueIsServed
INVARIANT SentAtMostOnce
INVARIANT AuditIsTrue
PROPERTY KeepsCode
PROPERTY AdmittedLeaves
CHECK_DEADLOCK FALSE
