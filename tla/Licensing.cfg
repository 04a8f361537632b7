CONSTANTS
  Device = {d1, d2}
  Ent = {e1, e2, e3}
  Code = {c1}
  Mover = {m1}
  Granter = {g1}
  None = None
  Kinds = {"redeem", "order"}
  MaxGen = 2
  MaxVersion = 2
SPECIFICATION LSpec
SYMMETRY Alike
INVARIANT OldGenerationIsDead
INVARIANT BlockedHasNoLicense
PROPERTY KeepsTenure
CHECK_DEADLOCK FALSE
