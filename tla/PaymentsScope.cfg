CONSTANTS
  o1 = o1
  o2 = o2
  a1 = a1
  a2 = a2
  None = None
  Order = {o1, o2}
  Attempt = {a1, a2}
  OrderOf <- TwoInvoices
  Worker = {w1}
  Quota = 1
  Events = {"supersede", "issue"}
SPECIFICATION Spec
INVARIANT CouponWithinQuota
PROPERTY KeepsPromise
CHECK_DEADLOCK FALSE
