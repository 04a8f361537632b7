CONSTANTS
  a1 = a1
  a2 = a2
  m1 = m1
  m2 = m2
  NoMobile = NoMobile
  Account = {a1, a2}
  Mobile = {m1, m2}
  FirstMobiles <- OneNumber
  Code = {c1, c2}
  Session = {s1, s2}
  Caller = {x1}
  MaxPw = 2
SYMMETRY Ids
SPECIFICATION ASpec
INVARIANT SessionIsProven
PROPERTY ChangeIsProven
CHECK_DEADLOCK FALSE
