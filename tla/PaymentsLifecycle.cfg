CONSTANTS
  o1 = o1
  o2 = o2
  a1 = a1
  a2 = a2
  None = None
  Order = {o1}
  Attempt = {a1}
  OrderOf <- OneAttempt
  Worker = {w1}
  Quota = 1
  Events = {"cancel", "return", "expiry", "bank_ends", "crash", "lost_answer", "void", "reopen", "reconcile"}
SPECIFICATION Spec
INVARIANT DeliveredIsCaptured
 
INVARIANT CouponFollowsOrder
PROPERTY KeepsPromise
CHECK_DEADLOCK FALSE
