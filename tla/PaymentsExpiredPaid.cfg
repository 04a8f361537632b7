CONSTANTS
  o1 = o1
  o2 = o2
  a1 = a1
  a2 = a2
  None = None
  Order = {o1}
  Attempt = {a1}
  OrderOf <- OneAttempt
  Worker = {w1}
  Quota = 0
  Events = {"expiry", "crash"}
SPECIFICATION Spec
INVARIANT EndedHoldsNoMoney
CHECK_DEADLOCK FALSE
