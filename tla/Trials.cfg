CONSTANTS
  Process = {p1, p2}
  Request = {r1}
  Budget = 1
  MaxGen = 2
  MaxLost = 1
SPECIFICATION TrialsSpec
SYMMETRY Alike
INVARIANT AllocationIsExact
INVARIANT PlayIsPaidFor
INVARIANT BudgetHolds
PROPERTY NoRetiredGrant
PROPERTY TrialIsKept
CHECK_DEADLOCK FALSE
