CONSTANTS
  o1 = o1
  o2 = o2
  a1 = a1
  a2 = a2
  None = None
  Order = {o1}
  Attempt = {a1, a2}
  OrderOf <- TwoAttempts
  Worker = {w1, w2}
  Quota = 0
  Events = {"expiry", "reopen", "reused_reference"}
SPECIFICATION Spec
SYMMETRY AttemptsAlike
INVARIANT DoubleChargeIsHeld
INVARIANT CaptureIsAccounted
PROPERTY PaidStaysPaid
CHECK_DEADLOCK FALSE
