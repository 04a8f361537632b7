----------------------------- MODULE Promotions -----------------------------
(***************************************************************************)
(* The promotional prices of one product: its list price, the promotions   *)
(* made against it, and the orders priced by either.                       *)
(*                                                                         *)
(* Creating a promotion and editing the product take the product's row,    *)
(* changing or restoring a promotion takes only the promotion's. An edit,  *)
(* an update and a restoration check first and write later, so each is two *)
(* actions; what one of them holds in between keeps the others waiting.    *)
(*                                                                         *)
(* Time is a few instants of the database clock. Expected revisions only   *)
(* refuse and are left out.                                                *)
(*                                                                         *)
(* An operator under a "slip:" comment is a plausible mistake in the       *)
(* definition of the same idea below it; no action uses it.                *)
(***************************************************************************)
EXTENDS Integers

CONSTANTS
  Promo,    \* rows of product_promotions
  Sale,     \* orders
  Prices,   \* list prices
  Cuts,     \* promotional prices
  Horizon,  \* the last instant
  None

ASSUME PricesAreAmounts == Prices \subseteq Nat /\ Cuts \subseteq Nat
ASSUME TimeBound        == Horizon \in Nat
ASSUME NoneIsNoPromo    == None \notin Promo

VARIABLES
  now,     \* clock_timestamp()
  price,   \* the list price, the row of product_prices without an end
  edit,    \* the Admin's edit of the product: the price it has checked
  promos,  \* product_promotions
  held,    \* the transaction that holds the row of a promotion, and what it will write
  sales    \* how each order was priced, and when

pvars == <<now, price, edit, promos, held, sales>>

-----------------------------------------------------------------------------

NoRow == [state |-> "none", base |-> 0, cut |-> 0, starts |-> 0, ends |-> 0]
PromoRow == {NoRow} \cup {r \in [state: {"ENABLED", "DISABLED"}, base: Prices, cut: Cuts,
                                 starts: 0..Horizon, ends: 0..Horizon] :
                            r.cut < r.base /\ r.starts < r.ends}
HeldRow == [kind: {"none", "update", "restore"}, row: PromoRow]
NotHeld == [kind |-> "none", row |-> NoRow]
SaleRow == [promo: Promo \cup {None}, list: Nat, total: Nat, at: 0..Horizon]

PromosInit ==
  /\ now = 0 /\ price \in Prices /\ edit = None
  /\ promos = [p \in Promo |-> NoRow]
  /\ held = [p \in Promo |-> NotHeld]
  /\ sales = [s \in Sale |-> None]

-----------------------------------------------------------------------------
(* What a row says at this instant.                                        *)

Enabled(r) == r.state = "ENABLED"
Started(r) == r.starts <= now
Over(r) == r.ends <= now
InWindow(r) == Enabled(r) /\ Started(r) /\ ~Over(r)

\* slip: whatever the list price has become.
PricesWhenever(r) == InWindow(r)
\* The promotion applies to new orders.
PricesOrders(r) == InWindow(r) /\ r.base = price

\* The exclusion constraint of the table, when p's row becomes r.
Overlaps(p, r) ==
  Enabled(r) /\ \E q \in Promo \ {p} : /\ Enabled(promos[q])
                                       /\ promos[q].starts < r.ends /\ r.starts < promos[q].ends

\* slip: only the checks of update, made when the row was loaded.
TriggerAbsent(p, r) == TRUE
\* The trigger that fixes the price while the promotion is active.
EconomicsFixed(p, r) == InWindow(promos[p]) => r.cut = promos[p].cut

-----------------------------------------------------------------------------
(* The Admin's decisions on promotions.                                     *)

\* A promotional price is lower than the price it was made against.
Lowers(r, cut) == cut < r.base

\* create, under the product's row.
CreatePromotion(p, cut, starts, ends) ==
  LET row == [state |-> "ENABLED", base |-> price, cut |-> cut, starts |-> starts, ends |-> ends]
  IN  /\ promos[p].state = "none" /\ edit = None
      /\ Lowers(row, cut) /\ now <= starts /\ starts < ends
      /\ ~Overlaps(p, row)
      /\ promos' = [promos EXCEPT ![p] = row]
      /\ UNCHANGED <<now, price, edit, held, sales>>

\* deactivate.
Deactivate(p) ==
  /\ Enabled(promos[p]) /\ held[p] = NotHeld
  /\ promos' = [promos EXCEPT ![p].state = "DISABLED"]
  /\ UNCHANGED <<now, price, edit, held, sales>>

\* update: the row is locked, and what it will become is checked.
UpdateBegin(p, cut, starts, ends) ==
  LET r == promos[p]
  IN  /\ r.state # "none" /\ held[p] = NotHeld
      /\ ~(Enabled(r) /\ Over(r))
      /\ InWindow(r) => cut = r.cut /\ starts = r.starts
      /\ Lowers(r, cut)
      /\ starts # r.starts => now <= starts
      /\ starts < ends /\ now < ends
      /\ held' = [held EXCEPT ![p] = [kind |-> "update",
                    row |-> [r EXCEPT !.cut = cut, !.starts = starts, !.ends = ends]]]
      /\ UNCHANGED <<now, price, edit, promos, sales>>

\* restore: the row and the price row are locked and compared.
RestoreBegin(p) ==
  LET r == promos[p]
  IN  /\ r.state = "DISABLED" /\ held[p] = NotHeld
      /\ ~Over(r) /\ r.base = price
      /\ held' = [held EXCEPT ![p] = [kind |-> "restore", row |-> [r EXCEPT !.state = "ENABLED"]]]
      /\ UNCHANGED <<now, price, edit, promos, sales>>

\* The write and the commit, unless the constraint or the trigger refuses.
Write(p) ==
  /\ held[p] # NotHeld
  /\ ~Overlaps(p, held[p].row) /\ EconomicsFixed(p, held[p].row)
  /\ promos' = [promos EXCEPT ![p] = held[p].row]
  /\ held' = [held EXCEPT ![p] = NotHeld]
  /\ UNCHANGED <<now, price, edit, sales>>

Rollback(p) ==
  /\ held[p] # NotHeld
  /\ held' = [held EXCEPT ![p] = NotHeld]
  /\ UNCHANGED <<now, price, edit, promos, sales>>

-----------------------------------------------------------------------------
(* The Admin's edit of the product, which holds its row from begin to end.  *)

\* assertBasePriceFree reads what is committed.
EditBegin(to) ==
  /\ edit = None /\ to # price
  /\ \A p \in Promo : Enabled(promos[p]) => Over(promos[p])
  /\ edit' = to
  /\ UNCHANGED <<now, price, promos, held, sales>>

\* The price row changes, once no restoration holds it.
EditCommit ==
  /\ edit # None
  /\ \A p \in Promo : held[p].kind # "restore"
  /\ price' = edit /\ edit' = None
  /\ UNCHANGED <<now, promos, held, sales>>

EditRollback ==
  /\ edit # None /\ edit' = None
  /\ UNCHANGED <<now, price, promos, held, sales>>

-----------------------------------------------------------------------------
(* An order: eligible shares the product's row, the price and the promotion *)
(* that applies, until it commits.                                          *)

\* slip: the promotion is read without FOR SHARE.
UnlockedRead(p) == TRUE
Shareable(p) == held[p] = NotHeld

Sell(s) ==
  /\ sales[s] = None /\ edit = None
  /\ \/ \E p \in Promo :
          /\ PricesOrders(promos[p]) /\ Shareable(p)
          /\ \A q \in Promo : PricesOrders(promos[q]) => promos[q].starts <= promos[p].starts
          /\ sales' = [sales EXCEPT ![s] =
                [promo |-> p, list |-> price, total |-> promos[p].cut, at |-> now]]
     \/ /\ \A p \in Promo : ~PricesOrders(promos[p])
        /\ sales' = [sales EXCEPT ![s] = [promo |-> None, list |-> price, total |-> price, at |-> now]]
  /\ UNCHANGED <<now, price, edit, promos, held>>

Tick ==
  /\ now < Horizon /\ now' = now + 1
  /\ UNCHANGED <<price, edit, promos, held, sales>>

-----------------------------------------------------------------------------

PromoStep(p) ==
  \/ \E cut \in Cuts, starts, ends \in 0..Horizon :
       CreatePromotion(p, cut, starts, ends) \/ UpdateBegin(p, cut, starts, ends)
  \/ Deactivate(p) \/ RestoreBegin(p) \/ Write(p) \/ Rollback(p)

PromosNext ==
  \/ \E p \in Promo : PromoStep(p)
  \/ \E to \in Prices : EditBegin(to)
  \/ EditCommit \/ EditRollback \/ Tick
  \/ \E s \in Sale : Sell(s)

PromosSpec == PromosInit /\ [][PromosNext]_pvars

-----------------------------------------------------------------------------
(* Properties.                                                             *)

PromosTypeOK ==
  /\ now \in 0..Horizon /\ price \in Prices /\ edit \in Prices \cup {None}
  /\ promos \in [Promo -> PromoRow]
  /\ held \in [Promo -> HeldRow]
  /\ sales \in [Sale -> SaleRow \cup {None}]

\* No order costs more than the list price it shows, and a promoted one shows the
\* price its promotion was made against: also when a restoration that is under
\* way slipped past an edit of the list price.
NoSaleAboveList ==
  \A s \in Sale : sales[s] # None =>
    /\ sales[s].total <= sales[s].list
    /\ sales[s].promo # None => sales[s].list = promos[sales[s].promo].base

\* An update that was checked before the promotion started never changes the price
\* of one that customers already see.
ActivePriceIsFixed ==
  [][\A p \in Promo : InWindow(promos[p]) => promos'[p].cut = promos[p].cut]_pvars

\* Nobody bought at a promotion's price at or after the end it has on record, however
\* its end was moved while orders were being placed.
SoldBeforeEnd ==
  \A s \in Sale : sales[s] # None /\ sales[s].promo # None =>
    sales[s].at < promos[sales[s].promo].ends
=============================================================================
