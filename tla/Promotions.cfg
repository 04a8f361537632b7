CONSTANTS
  None = None
  Promo = {p1, p2}
  Sale = {s1}
  Prices = {2, 4}
  Cuts = {1, 3}
  Horizon = 2
SPECIFICATION PromosSpec
SYMMETRY Alike
INVARIANT NoSaleAboveList
INVARIANT SoldBeforeEnd
PROPERTY ActivePriceIsFixed
CHECK_DEADLOCK FALSE
