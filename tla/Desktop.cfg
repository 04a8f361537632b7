CONSTANTS
  d1 = d1
  d2 = d2
  Device = {d1, d2}
  Ent = {e1, e2, e3}
  Code = {}
  Mover = {m1}
  Granter = {g1}
  None = None
  Kinds = {"issue"}
  MaxGen = 1
  MaxVersion = 3
  Proc = {p1, p2}
  DevOf <- OnFirst
SPECIFICATION DSpec
SYMMETRY Alike
INVARIANT StoreIsWhole
INVARIANT MovedIsDead
PROPERTY DecisionsOnlyAdvance
PROPERTY LearnedRevocationHolds
CHECK_DEADLOCK FALSE
