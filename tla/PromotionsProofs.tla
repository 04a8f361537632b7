-------------------------- MODULE PromotionsProofs --------------------------
(***************************************************************************)
(* What Promotions keeps for any number of promotions, orders and prices   *)
(* and any length of time.                                                 *)
(*                                                                         *)
(* An order relates to the row of its promotion as that row is now, also   *)
(* after it was changed. The invariant PromosInv therefore speaks of what a *)
(* transaction is about to write as well: it is the same promotion, and it *)
(* ends after every order placed so far.                                   *)
(***************************************************************************)
EXTENDS Promotions, TLAPS

Made(p) == promos[p].state # "none"

\* What is about to be written of p.
HeldFits ==
  \A p \in Promo : held[p] # NotHeld =>
    /\ Made(p) /\ held[p].row.state # "none"
    /\ held[p].row.base = promos[p].base
    /\ \A s \in Sale : sales[s] # None /\ sales[s].promo = p => sales[s].at < held[p].row.ends

\* An order was placed by now, under a promotion that was made.
SoldBefore ==
  \A s \in Sale : sales[s] # None =>
    /\ sales[s].at <= now
    /\ sales[s].promo # None => Made(sales[s].promo)

PromosInv == PromosTypeOK /\ HeldFits /\ SoldBefore /\ NoSaleAboveList /\ SoldBeforeEnd

-----------------------------------------------------------------------------
(* Rows.                                                                   *)

LEMMA MadeRow ==
  ASSUME NEW r \in PromoRow, r.state # "none"
  PROVE  /\ r \in [state: {"ENABLED", "DISABLED"}, base: Prices, cut: Cuts,
                   starts: 0..Horizon, ends: 0..Horizon]
         /\ r.cut < r.base /\ r.starts < r.ends
BY DEF PromoRow, NoRow

LEMMA NotHeldType == NotHeld \in HeldRow /\ NoRow \in PromoRow
BY DEF NotHeld, HeldRow, PromoRow

LEMMA InitInv == PromosInit => PromosInv
<1> SUFFICES ASSUME PromosInit PROVE PromosInv
  OBVIOUS
<1>1. PromosTypeOK
  BY NotHeldType, TimeBound DEF PromosInit, PromosTypeOK
<1>2. HeldFits /\ SoldBefore /\ NoSaleAboveList /\ SoldBeforeEnd
  BY DEF PromosInit, HeldFits, SoldBefore, NoSaleAboveList, SoldBeforeEnd
<1> QED BY <1>1, <1>2 DEF PromosInv

-----------------------------------------------------------------------------
(* Steps that write the row of one promotion.                              *)

\* A row that is made, or changed into one that fits, leaves the orders right.
LEMMA RowKeepsSales ==
  ASSUME PromosInv, NEW p \in Promo, NEW r \in PromoRow,
         r.state # "none",
         Made(p) => r.base = promos[p].base,
         Made(p) => \A s \in Sale : sales[s] # None /\ sales[s].promo = p => sales[s].at < r.ends,
         promos' = [promos EXCEPT ![p] = r], UNCHANGED <<now, sales>>
  PROVE  SoldBefore' /\ NoSaleAboveList' /\ SoldBeforeEnd'
<1> SUFFICES ASSUME NEW s \in Sale, sales[s] # None
             PROVE  /\ sales[s].at <= now
                    /\ sales[s].total <= sales[s].list
                    /\ sales[s].promo # None =>
                         /\ promos'[sales[s].promo].state # "none"
                         /\ sales[s].list = promos'[sales[s].promo].base
                         /\ sales[s].at < promos'[sales[s].promo].ends
  BY DEF SoldBefore, NoSaleAboveList, SoldBeforeEnd, Made
<1>1. sales[s].at <= now /\ sales[s].total <= sales[s].list
  BY DEF PromosInv, SoldBefore, NoSaleAboveList
<1>2. ASSUME sales[s].promo # None
      PROVE  /\ promos'[sales[s].promo].state # "none"
             /\ sales[s].list = promos'[sales[s].promo].base
             /\ sales[s].at < promos'[sales[s].promo].ends
  <2> DEFINE q == sales[s].promo
  <2>1. q \in Promo
    BY <1>2 DEF PromosInv, PromosTypeOK, SaleRow
  <2>2. Made(q) /\ sales[s].list = promos[q].base /\ sales[s].at < promos[q].ends
    BY <1>2 DEF PromosInv, SoldBefore, NoSaleAboveList, SoldBeforeEnd
  <2>3. CASE q = p
    BY <2>1, <2>2, <2>3 DEF PromosInv, PromosTypeOK
  <2>4. CASE q # p
    BY <2>1, <2>2, <2>4 DEF PromosInv, PromosTypeOK, Made
  <2> QED BY <2>3, <2>4
<1> QED BY <1>1, <1>2

LEMMA CreateInv ==
  ASSUME PromosInv, NEW p \in Promo, NEW cut \in Cuts, NEW starts \in 0..Horizon,
         NEW ends \in 0..Horizon, CreatePromotion(p, cut, starts, ends)
  PROVE  PromosInv'
<1> DEFINE row == [state |-> "ENABLED", base |-> price, cut |-> cut, starts |-> starts, ends |-> ends]
<1>1. row \in PromoRow /\ row.state # "none"
  BY DEF PromosInv, PromosTypeOK, CreatePromotion, Lowers, PromoRow
<1>2. promos' = [promos EXCEPT ![p] = row] /\ ~Made(p) /\ UNCHANGED <<now, price, edit, held, sales>>
  BY DEF CreatePromotion, Made
<1> HIDE DEF row
<1>3. PromosTypeOK'
  BY <1>1, <1>2 DEF PromosInv, PromosTypeOK
<1>4. HeldFits'
  BY <1>2 DEF PromosInv, PromosTypeOK, HeldFits, Made
<1>5. SoldBefore' /\ NoSaleAboveList' /\ SoldBeforeEnd'
  BY <1>1, <1>2, RowKeepsSales
<1> QED BY <1>3, <1>4, <1>5 DEF PromosInv

LEMMA DeactivateInv ==
  ASSUME PromosInv, NEW p \in Promo, Deactivate(p)
  PROVE  PromosInv'
<1> DEFINE row == [promos[p] EXCEPT !.state = "DISABLED"]
<1>1. Made(p) /\ promos[p] \in PromoRow
  BY DEF PromosInv, PromosTypeOK, Deactivate, Enabled, Made
<1>2. row \in PromoRow /\ row.state # "none" /\ row.base = promos[p].base /\ row.ends = promos[p].ends
  BY <1>1, MadeRow DEF PromoRow, Made
<1>3. promos' = [promos EXCEPT ![p] = row] /\ held[p] = NotHeld /\ UNCHANGED <<now, price, edit, held, sales>>
  BY DEF Deactivate
<1> HIDE DEF row
<1>4. PromosTypeOK'
  BY <1>2, <1>3 DEF PromosInv, PromosTypeOK
<1>5. HeldFits'
  BY <1>3 DEF PromosInv, PromosTypeOK, HeldFits, Made
<1>6. \A s \in Sale : sales[s] # None /\ sales[s].promo = p => sales[s].at < row.ends
  BY <1>2, NoneIsNoPromo DEF PromosInv, SoldBeforeEnd
<1>7. SoldBefore' /\ NoSaleAboveList' /\ SoldBeforeEnd'
  BY <1>2, <1>3, <1>6, RowKeepsSales
<1> QED BY <1>4, <1>5, <1>7 DEF PromosInv

LEMMA WriteInv ==
  ASSUME PromosInv, NEW p \in Promo, Write(p)
  PROVE  PromosInv'
<1> DEFINE row == held[p].row
<1>1. row \in PromoRow
  BY DEF PromosInv, PromosTypeOK, HeldRow
<1>2. /\ row.state # "none" /\ row.base = promos[p].base
      /\ \A s \in Sale : sales[s] # None /\ sales[s].promo = p => sales[s].at < row.ends
  BY DEF PromosInv, HeldFits, Write
<1>3. /\ promos' = [promos EXCEPT ![p] = row] /\ held' = [held EXCEPT ![p] = NotHeld]
      /\ UNCHANGED <<now, price, edit, sales>>
  BY DEF Write
<1> HIDE DEF row
<1>4. PromosTypeOK'
  BY <1>1, <1>3, NotHeldType DEF PromosInv, PromosTypeOK
<1>5. HeldFits'
  BY <1>3 DEF PromosInv, PromosTypeOK, HeldFits, Made
<1>6. SoldBefore' /\ NoSaleAboveList' /\ SoldBeforeEnd'
  BY <1>1, <1>2, <1>3, RowKeepsSales
<1> QED BY <1>4, <1>5, <1>6 DEF PromosInv

-----------------------------------------------------------------------------
(* Steps that lock the row of one promotion.                               *)

LEMMA HoldInv ==
  ASSUME PromosInv, NEW p \in Promo, NEW kind \in {"update", "restore"}, NEW row \in PromoRow,
         Made(p), row.state # "none", row.base = promos[p].base,
         \A s \in Sale : sales[s] # None /\ sales[s].promo = p => sales[s].at < row.ends,
         held' = [held EXCEPT ![p] = [kind |-> kind, row |-> row]],
         UNCHANGED <<now, price, edit, promos, sales>>
  PROVE  PromosInv'
<1> DEFINE h == [kind |-> kind, row |-> row]
<1>1. h \in HeldRow /\ h.row = row
  BY DEF HeldRow
<1>2. held' = [held EXCEPT ![p] = h]
  OBVIOUS
<1> HIDE DEF h
<1>3. PromosTypeOK'
  BY <1>1, <1>2 DEF PromosInv, PromosTypeOK
<1>4. HeldFits'
  BY <1>1, <1>2 DEF PromosInv, PromosTypeOK, HeldFits, Made
<1>5. SoldBefore' /\ NoSaleAboveList' /\ SoldBeforeEnd'
  BY DEF PromosInv, SoldBefore, NoSaleAboveList, SoldBeforeEnd, Made
<1> QED BY <1>3, <1>4, <1>5 DEF PromosInv

LEMMA UpdateBeginInv ==
  ASSUME PromosInv, NEW p \in Promo, NEW cut \in Cuts, NEW starts \in 0..Horizon,
         NEW ends \in 0..Horizon, UpdateBegin(p, cut, starts, ends)
  PROVE  PromosInv'
<1> DEFINE row == [promos[p] EXCEPT !.cut = cut, !.starts = starts, !.ends = ends]
<1>1. Made(p) /\ promos[p] \in PromoRow /\ cut < promos[p].base /\ starts < ends /\ now < ends
  BY DEF PromosInv, PromosTypeOK, UpdateBegin, Lowers, Made
<1>2. row \in PromoRow /\ row.state # "none" /\ row.base = promos[p].base /\ row.ends = ends
  BY <1>1, MadeRow DEF PromoRow, Made
<1>3. held' = [held EXCEPT ![p] = [kind |-> "update", row |-> row]] /\ UNCHANGED <<now, price, edit, promos, sales>>
  BY DEF UpdateBegin
<1> HIDE DEF row
<1>4. ASSUME NEW s \in Sale, sales[s] # None PROVE sales[s].at < row.ends
  <2>1. sales[s].at <= now /\ sales[s].at \in Int /\ now \in Int /\ ends \in Int
    BY <1>4, TimeBound DEF PromosInv, PromosTypeOK, SoldBefore, SaleRow
  <2> QED BY <1>1, <1>2, <2>1
<1> QED BY <1>1, <1>2, <1>3, <1>4, HoldInv

LEMMA RestoreBeginInv ==
  ASSUME PromosInv, NEW p \in Promo, RestoreBegin(p)
  PROVE  PromosInv'
<1> DEFINE row == [promos[p] EXCEPT !.state = "ENABLED"]
<1>1. Made(p) /\ promos[p] \in PromoRow
  BY DEF PromosInv, PromosTypeOK, RestoreBegin, Made
<1>2. row \in PromoRow /\ row.state # "none" /\ row.base = promos[p].base /\ row.ends = promos[p].ends
  BY <1>1, MadeRow DEF PromoRow, Made
<1>3. held' = [held EXCEPT ![p] = [kind |-> "restore", row |-> row]] /\ UNCHANGED <<now, price, edit, promos, sales>>
  BY DEF RestoreBegin
<1> HIDE DEF row
<1>4. \A s \in Sale : sales[s] # None /\ sales[s].promo = p => sales[s].at < row.ends
  BY <1>2, NoneIsNoPromo DEF PromosInv, SoldBeforeEnd
<1> QED BY <1>1, <1>2, <1>3, <1>4, HoldInv

LEMMA RollbackInv ==
  ASSUME PromosInv, NEW p \in Promo, Rollback(p)
  PROVE  PromosInv'
<1>1. held' = [held EXCEPT ![p] = NotHeld] /\ UNCHANGED <<now, price, edit, promos, sales>>
  BY DEF Rollback
<1>2. PromosTypeOK'
  BY <1>1, NotHeldType DEF PromosInv, PromosTypeOK
<1>3. HeldFits'
  BY <1>1 DEF PromosInv, PromosTypeOK, HeldFits, Made
<1>4. SoldBefore' /\ NoSaleAboveList' /\ SoldBeforeEnd'
  BY <1>1 DEF PromosInv, SoldBefore, NoSaleAboveList, SoldBeforeEnd, Made
<1> QED BY <1>2, <1>3, <1>4 DEF PromosInv

-----------------------------------------------------------------------------
(* The edit, the clock and an order.                                        *)

\* The list price and the clock do not appear in what relates orders to promotions.
LEMMA AsideInv ==
  ASSUME PromosInv, PromosTypeOK', now' \in Int, now <= now', UNCHANGED <<promos, held, sales>>
  PROVE  PromosInv'
<1>1. HeldFits' /\ NoSaleAboveList' /\ SoldBeforeEnd'
  BY DEF PromosInv, HeldFits, NoSaleAboveList, SoldBeforeEnd, Made
<1>2. ASSUME NEW s \in Sale, sales[s] # None PROVE sales[s].at <= now'
  <2>1. sales[s].at <= now /\ sales[s].at \in Int /\ now \in Int
    BY <1>2, TimeBound DEF PromosInv, PromosTypeOK, SoldBefore, SaleRow
  <2> QED BY <2>1
<1>3. SoldBefore'
  BY <1>2 DEF PromosInv, SoldBefore, Made
<1> QED BY <1>1, <1>3 DEF PromosInv

LEMMA EditInv ==
  ASSUME PromosInv, EditCommit \/ EditRollback \/ \E to \in Prices : EditBegin(to)
  PROVE  PromosInv'
<1>1. UNCHANGED <<now, promos, held, sales>> /\ price' \in Prices /\ edit' \in Prices \cup {None}
  BY DEF PromosInv, PromosTypeOK, EditCommit, EditRollback, EditBegin
<1>2. PromosTypeOK'
  BY <1>1 DEF PromosInv, PromosTypeOK
<1>3. now' \in Int /\ now <= now'
  BY <1>1, TimeBound DEF PromosInv, PromosTypeOK
<1> QED BY <1>1, <1>2, <1>3, AsideInv

LEMMA TickInv == ASSUME PromosInv, Tick PROVE PromosInv'
<1>1. PromosTypeOK'
  BY TimeBound DEF PromosInv, PromosTypeOK, Tick
<1>2. now' \in Int /\ now <= now'
  BY TimeBound DEF PromosInv, PromosTypeOK, Tick
<1> QED BY <1>1, <1>2, AsideInv DEF Tick

LEMMA SellInv ==
  ASSUME PromosInv, NEW s \in Sale, Sell(s)
  PROVE  PromosInv'
<1>1. PICK x \in SaleRow :
        /\ sales' = [sales EXCEPT ![s] = x]
        /\ x.at = now /\ x.total <= x.list
        /\ x.promo # None => /\ held[x.promo] = NotHeld /\ Made(x.promo)
                             /\ x.list = promos[x.promo].base /\ now < promos[x.promo].ends
  <2>1. CASE \E p \in Promo : /\ PricesOrders(promos[p]) /\ Shareable(p)
                              /\ sales' = [sales EXCEPT ![s] =
                                   [promo |-> p, list |-> price, total |-> promos[p].cut, at |-> now]]
    <3>1. PICK p \in Promo : /\ PricesOrders(promos[p]) /\ Shareable(p)
                             /\ sales' = [sales EXCEPT ![s] =
                                  [promo |-> p, list |-> price, total |-> promos[p].cut, at |-> now]]
      BY <2>1
    <3> DEFINE x == [promo |-> p, list |-> price, total |-> promos[p].cut, at |-> now]
    <3>2. Made(p) /\ promos[p] \in PromoRow /\ promos[p].base = price /\ ~(promos[p].ends <= now)
      BY <3>1 DEF PromosInv, PromosTypeOK, PricesOrders, InWindow, Enabled, Over, Made
    <3>3. promos[p].cut < price /\ promos[p].cut \in Nat /\ price \in Nat /\ promos[p].ends \in 0..Horizon
      BY <3>2, MadeRow, PricesAreAmounts DEF Made
    <3>4. now \in 0..Horizon /\ now < promos[p].ends
      BY <3>2, <3>3, TimeBound DEF PromosInv, PromosTypeOK
    <3>5. x \in SaleRow /\ x.promo = p /\ x.list = price /\ x.total = promos[p].cut /\ x.at = now
      BY <3>3, <3>4 DEF SaleRow
    <3>6. held[p] = NotHeld
      BY <3>1 DEF Shareable
    <3>7. sales' = [sales EXCEPT ![s] = x]
      BY <3>1
    <3> HIDE DEF x
    <3>8. x.total <= x.list
      BY <3>3, <3>5
    <3> QED BY <3>2, <3>4, <3>5, <3>6, <3>7, <3>8
  <2>2. CASE sales' = [sales EXCEPT ![s] = [promo |-> None, list |-> price, total |-> price, at |-> now]]
    <3> DEFINE x == [promo |-> None, list |-> price, total |-> price, at |-> now]
    <3>1. x \in SaleRow
      BY PricesAreAmounts DEF PromosInv, PromosTypeOK, SaleRow
    <3>2. price <= price
      BY PricesAreAmounts DEF PromosInv, PromosTypeOK
    <3>3. x.promo = None /\ x.list = price /\ x.total = price /\ x.at = now /\ sales' = [sales EXCEPT ![s] = x]
      BY <2>2
    <3> HIDE DEF x
    <3> QED BY <3>1, <3>2, <3>3
  <2> QED BY <2>1, <2>2 DEF Sell
<1>2. UNCHANGED <<now, price, edit, promos, held>>
  BY DEF Sell
<1>3. PromosTypeOK'
  BY <1>1, <1>2 DEF PromosInv, PromosTypeOK
<1>4. \A t \in Sale : sales'[t] = IF t = s THEN x ELSE sales[t]
  BY <1>1 DEF PromosInv, PromosTypeOK
<1>5. now <= now
  BY TimeBound DEF PromosInv, PromosTypeOK
<1>6. HeldFits'
  BY <1>1, <1>2, <1>4, NoneIsNoPromo DEF PromosInv, HeldFits, Made
<1>7. SoldBefore'
  BY <1>1, <1>2, <1>4, <1>5 DEF PromosInv, SoldBefore, Made
<1>8. NoSaleAboveList' /\ SoldBeforeEnd'
  BY <1>1, <1>2, <1>4 DEF PromosInv, NoSaleAboveList, SoldBeforeEnd
<1> QED BY <1>3, <1>6, <1>7, <1>8 DEF PromosInv

LEMMA NextInv == PromosInv /\ [PromosNext]_pvars => PromosInv'
<1> SUFFICES ASSUME PromosInv, [PromosNext]_pvars PROVE PromosInv'
  OBVIOUS
<1>1. CASE \E p \in Promo : PromoStep(p)
  BY <1>1, CreateInv, UpdateBeginInv, DeactivateInv, RestoreBeginInv, WriteInv, RollbackInv DEF PromoStep
<1>2. CASE EditCommit \/ EditRollback \/ \E to \in Prices : EditBegin(to)
  BY <1>2, EditInv
<1>3. CASE Tick
  BY <1>3, TickInv
<1>4. CASE \E s \in Sale : Sell(s)
  BY <1>4, SellInv
<1>5. CASE UNCHANGED pvars
  BY <1>5 DEF pvars, PromosInv, PromosTypeOK, HeldFits, SoldBefore, NoSaleAboveList, SoldBeforeEnd, Made
<1> QED BY <1>1, <1>2, <1>3, <1>4, <1>5 DEF PromosNext

\* The invariant of every behaviour of promotions, edits and orders.
THEOREM PromotionsInvariant == PromosSpec => []PromosInv
BY InitInv, NextInv, PTL DEF PromosSpec

-----------------------------------------------------------------------------

\* Prices, windows and what transactions hold have their types.
THEOREM PromotionsTypeCorrect == PromosSpec => []PromosTypeOK
<1>1. PromosInv => PromosTypeOK
  BY DEF PromosInv
<1> QED BY <1>1, PromotionsInvariant, PTL

\* No order costs more than its list price, and a promoted one shows the price its
\* promotion was made against.
THEOREM OrdersStayBelowList == PromosSpec => []NoSaleAboveList
<1>1. PromosInv => NoSaleAboveList
  BY DEF PromosInv
<1> QED BY <1>1, PromotionsInvariant, PTL

\* An order has the price of a promotion only when it was placed before its end, also
\* when the end was moved since.
THEOREM PromotionsEndOnTime == PromosSpec => []SoldBeforeEnd
<1>1. PromosInv => SoldBeforeEnd
  BY DEF PromosInv
<1> QED BY <1>1, PromotionsInvariant, PTL

LEMMA CutOfActive ==
  ASSUME PromosInv, [PromosNext]_pvars, NEW p \in Promo, InWindow(promos[p])
  PROVE  promos'[p].cut = promos[p].cut
<1>1. promos[p].state = "ENABLED"
  BY DEF InWindow, Enabled
<1>2. ASSUME NEW q \in Promo, PromoStep(q) PROVE promos'[p].cut = promos[p].cut
  <2>1. CASE UNCHANGED promos
    BY <2>1
  <2>2. CASE Deactivate(q)
    BY <2>2 DEF Deactivate, PromosInv, PromosTypeOK
  <2>3. CASE Write(q)
    BY <2>3 DEF Write, EconomicsFixed, PromosInv, PromosTypeOK
  <2>4. CASE \E cut \in Cuts, starts, ends \in 0..Horizon : CreatePromotion(q, cut, starts, ends)
    BY <1>1, <2>4 DEF CreatePromotion, PromosInv, PromosTypeOK
  <2> QED BY <1>2, <2>1, <2>2, <2>3, <2>4 DEF PromoStep, UpdateBegin, RestoreBegin, Rollback
<1>3. CASE \E q \in Promo : PromoStep(q)
  BY <1>2, <1>3
<1>4. CASE UNCHANGED promos
  BY <1>4
<1> QED BY <1>3, <1>4 DEF PromosNext, EditBegin, EditCommit, EditRollback, Tick, Sell, pvars

\* The price of a promotion that customers see does not change, whatever was checked
\* before it started.
THEOREM ActivePriceStays == PromosSpec => ActivePriceIsFixed
<1>1. PromosInv /\ [PromosNext]_pvars =>
        [\A p \in Promo : InWindow(promos[p]) => promos'[p].cut = promos[p].cut]_pvars
  BY CutOfActive
<1> QED BY <1>1, PromotionsInvariant, PTL DEF PromosSpec, ActivePriceIsFixed
=============================================================================
