----------------------------- MODULE Licensing -----------------------------
(***************************************************************************)
(* Who owns the product on which device: entitlements, their licenses,     *)
(* activation codes and orders, and the move of an entitlement from one    *)
(* device of a verified mobile number to another.                          *)
(*                                                                         *)
(* Every operation but two holds the row of its device until it commits.   *)
(* One that only writes what it read under that lock is one action. A      *)
(* grant (redeem, issue, a new order) reads, then writes rows that a move  *)
(* may have locked meanwhile, and is two actions. move holds no device     *)
(* row: it locks the entitlement and the two customers one after the other.*)
(*                                                                         *)
(* All rows are of one product, and all devices of one mobile number.      *)
(*                                                                         *)
(* An operator under a "slip:" comment is a plausible mistake in the       *)
(* definition of the same idea below it; no action uses it.                *)
(***************************************************************************)
EXTENDS Integers

CONSTANTS
  Device,      \* devices of one verified mobile number
  Ent,         \* entitlement rows; the license of an entitlement has its name
  Code,        \* activation codes
  Mover,       \* move transactions that run at the same time
  Granter,     \* redeem, issue and create transactions that run at the same time
  None,        \* SQL NULL
  Kinds,       \* the grants this instance lets happen
  MaxGen,      \* bound on a device's generation
  MaxVersion   \* bound on a license's decision_version

ASSUME NoneIsNoRow      == None \notin Device \cup Ent \cup Code
ASSUME KindsAreGrants   == Kinds \subseteq {"redeem", "issue", "order"}
ASSUME GenBound         == MaxGen \in Nat \ {0}
ASSUME VersionBound     == MaxVersion \in Nat \ {0}

VARIABLES
  device,   \* devices, the ACTIVE customer of the generation, its restriction
  ents,     \* entitlements
  lics,     \* licenses
  codes,    \* activation_codes
  orders,   \* the order of a device
  move,     \* what each move transaction has locked
  grant     \* what each grant transaction has checked

lvars == <<device, ents, lics, codes, orders, move, grant>>

-----------------------------------------------------------------------------
(* Rows.                                                                   *)

Gen == 1..MaxGen
Sources == {"ADMIN", "CODE", "PURCHASE", "TRANSFER"}
DeviceRow == [gen: Gen, claimed: BOOLEAN, blocked: BOOLEAN]
\* first is no column: it is history, the row that the chain of moves began with. No
\* action reads it but to write it to the next row of the chain.
EntRow == [state: {"NONE", "ACTIVE", "REVOKED", "RESET"}, dev: Device \cup {None},
           gen: Gen, src: Sources \cup {None}, from: Ent \cup {None}, first: Ent \cup {None}]
LicRow == [state: {"NONE", "ACTIVE", "REVOKED"}, version: 0..MaxVersion]
CodeRow == [state: {"NONE", "ISSUED", "REDEEMED", "CANCELLED"}, dev: Device \cup {None}, gen: Gen]
\* "held" is FULFILLMENT_PENDING with an exception only a person can resolve.
OrderRow == [state: {"NONE", "PENDING", "PAID", "HELD", "FULFILLED", "CANCELLED"}, gen: Gen]
MoveRow == [stage: {"idle", "from", "to"}, ent: Ent \cup {None}, to: Device \cup {None}]
GrantRow == [stage: {"idle", "checked"}, kind: Kinds \cup {None}, dev: Device \cup {None},
             code: Code \cup {None}]

NoMove  == [stage |-> "idle", ent |-> None, to |-> None]
NoGrant == [stage |-> "idle", kind |-> None, dev |-> None, code |-> None]

LInit ==
  /\ device = [d \in Device |-> [gen |-> 1, claimed |-> TRUE, blocked |-> FALSE]]
  /\ ents = [e \in Ent |-> [state |-> "NONE", dev |-> None, gen |-> 1, src |-> None,
                           from |-> None, first |-> None]]
  /\ lics = [e \in Ent |-> [state |-> "NONE", version |-> 0]]
  /\ codes = [c \in Code |-> [state |-> "NONE", dev |-> None, gen |-> 1]]
  /\ orders = [d \in Device |-> [state |-> "NONE", gen |-> 1]]
  /\ move = [m \in Mover |-> NoMove]
  /\ grant = [g \in Granter |-> NoGrant]

-----------------------------------------------------------------------------
(* Locks and queries.                                                      *)

\* SELECT ... FROM devices ... FOR UPDATE
DeviceFree(d) == \A g \in Granter : grant[g].stage = "checked" => grant[g].dev # d

\* The customers a move holds; inserting a row that refers to one waits for it.
Holds(m) == CASE move[m].stage = "idle" -> {}
              [] move[m].stage = "from" -> {ents[move[m].ent].dev}
              [] move[m].stage = "to" -> {ents[move[m].ent].dev, move[m].to}
CustomerFree(d) == \A m \in Mover : d \notin Holds(m)

Here(e, d) == ents[e].state # "NONE" /\ ents[e].dev = d /\ ents[e].gen = device[d].gen
Moved(e) == \E f \in Ent : ents[f].from = e
Owns(d) == \E e \in Ent : Here(e, d) /\ ~Moved(e)
ActiveOn(d) == {e \in Ent : Here(e, d) /\ ents[e].state = "ACTIVE"}
HasRevoked(d) == \E e \in Ent : Here(e, d) /\ lics[e].state = "REVOKED"
\* slip: the restriction is not looked at.
ServesBlocked(d) == device[d].claimed
Serves(d) == device[d].claimed /\ ~device[d].blocked
Buying(d) == orders[d].gen = device[d].gen /\ orders[d].state \in {"PENDING", "PAID", "HELD"}

\* change: the new decision of a license that has one.
Changed(ls, es, state) ==
  [e \in Ent |-> IF e \in es THEN [state |-> state, version |-> ls[e].version + 1] ELSE ls[e]]
Counts(es) == \A e \in es : lics[e].version < MaxVersion

NewEnt(f, d, src, from) ==
  [state |-> "ACTIVE", dev |-> d, gen |-> device[d].gen, src |-> src, from |-> from,
   first |-> IF from = None THEN f ELSE ents[from].first]
NewLicense == [state |-> "ACTIVE", version |-> 1]
Fresh(e) == ents[e].state = "NONE"

-----------------------------------------------------------------------------
(* Accounts, codes and orders.                                             *)

\* claim: the device gets a customer of its generation.
Claim(d) ==
  /\ DeviceFree(d) /\ ~device[d].claimed
  /\ device' = [device EXCEPT ![d].claimed = TRUE]
  /\ UNCHANGED <<ents, lics, codes, orders, move, grant>>

\* Admin.issue with an expiry: Activation.issue.
IssueCode(c, d) ==
  /\ DeviceFree(d) /\ Serves(d) /\ ~HasRevoked(d)
  /\ codes[c].state = "NONE"
  /\ codes' = [codes EXCEPT ![c] = [state |-> "ISSUED", dev |-> d, gen |-> device[d].gen]]
  /\ UNCHANGED <<device, ents, lics, orders, move, grant>>

\* Activation.cancel holds no device, only the code's row.
CancelCode(c) ==
  /\ codes[c].state = "ISSUED"
  /\ \A g \in Granter : grant[g].code # c
  /\ codes' = [codes EXCEPT ![c].state = "CANCELLED"]
  /\ UNCHANGED <<device, ents, lics, orders, move, grant>>

\* The order ends unpaid (close), or its payment is accepted, early or late (settle).
EndOrder(d) ==
  /\ DeviceFree(d) /\ orders[d].state = "PENDING"
  /\ orders' = [orders EXCEPT ![d].state = "CANCELLED"]
  /\ UNCHANGED <<device, ents, lics, codes, move, grant>>

PayOrder(d) ==
  /\ DeviceFree(d) /\ orders[d].state \in {"PENDING", "CANCELLED"}
  /\ orders' = [orders EXCEPT ![d].state = "PAID"]
  /\ UNCHANGED <<device, ents, lics, codes, move, grant>>

-----------------------------------------------------------------------------
(* Grants: check under the device row, then write.                         *)

Redeemable(c, d) == codes[c].state = "ISSUED" /\ codes[c].dev = d /\ codes[c].gen = device[d].gen

\* The checks of redeem, of Admin.issue, and of Orders.create with eligible. A
\* device places one order: the bound on orders.
Admitted(k, d, c) ==
  \/ k = "redeem" /\ c # None /\ Redeemable(c, d) /\ ~HasRevoked(d)
  \/ k = "issue" /\ c = None /\ ~HasRevoked(d)
  \/ k = "order" /\ c = None /\ ~Owns(d)
     /\ orders[d].state = "NONE"

GrantBegin(g, k, d, c) ==
  /\ grant[g].stage = "idle"
  /\ DeviceFree(d) /\ Serves(d) /\ Admitted(k, d, c)
  /\ grant' = [grant EXCEPT ![g] = [stage |-> "checked", kind |-> k, dev |-> d, code |-> c]]
  /\ UNCHANGED <<device, ents, lics, codes, orders, move>>

\* Licenses.issue: the ACTIVE entitlement of the device or a new one, and its
\* license; a revoked license refuses the whole transaction.
GrantLicense(g, f) ==
  LET d == grant[g].dev
      c == grant[g].code
      used == IF c = None THEN codes ELSE [codes EXCEPT ![c].state = "REDEEMED"]
  IN
  /\ grant[g].stage = "checked" /\ grant[g].kind # "order"
  /\ CustomerFree(d)
  /\ grant' = [grant EXCEPT ![g] = NoGrant]
  /\ IF ActiveOn(d) = {}
     THEN /\ Fresh(f)
          /\ ents' = [ents EXCEPT ![f] = NewEnt(f, d, IF c = None THEN "ADMIN" ELSE "CODE", None)]
          /\ lics' = [lics EXCEPT ![f] = NewLicense]
          /\ codes' = used
     ELSE /\ f \in ActiveOn(d)
          /\ UNCHANGED ents
          /\ lics' = IF lics[f].state = "NONE" THEN [lics EXCEPT ![f] = NewLicense] ELSE lics
          /\ codes' = IF lics[f].state = "REVOKED" THEN codes ELSE used
  /\ UNCHANGED <<device, orders, move>>

GrantOrder(g) ==
  LET d == grant[g].dev IN
  /\ grant[g].stage = "checked" /\ grant[g].kind = "order"
  /\ CustomerFree(d)
  /\ grant' = [grant EXCEPT ![g] = NoGrant]
  /\ orders' = [orders EXCEPT ![d] = [state |-> "PENDING", gen |-> device[d].gen]]
  /\ UNCHANGED <<device, ents, lics, codes, move>>

\* lock_timeout, or a deadlock the database breaks.
GrantAbort(g) ==
  /\ grant[g].stage = "checked" /\ ~CustomerFree(grant[g].dev)
  /\ grant' = [grant EXCEPT ![g] = NoGrant]
  /\ UNCHANGED <<device, ents, lics, codes, orders, move>>

-----------------------------------------------------------------------------
(* Licenses of an entitlement.                                             *)

\* pickup: the license of the ACTIVE entitlement is created when it is asked for.
PickUp(d, e) ==
  /\ DeviceFree(d) /\ Serves(d)
  /\ e \in ActiveOn(d) /\ \A m \in Mover : move[m].ent # e
  /\ lics[e].state = "NONE"
  /\ lics' = [lics EXCEPT ![e] = NewLicense]
  /\ UNCHANGED <<device, ents, codes, orders, move, grant>>

\* fulfill. A blocked product raises an exception that reconcile clears, so the
\* order stays paid. Only a delivery inserts a row that waits for a move: who owns
\* the product was read before.
Fulfill(d, f) ==
  LET current == device[d].claimed /\ orders[d].gen = device[d].gen IN
  /\ DeviceFree(d) /\ orders[d].state = "PAID"
  /\ current => ~device[d].blocked
  /\ IF ~current \/ Owns(d)
     THEN /\ orders' = [orders EXCEPT ![d].state = "HELD"]
          /\ UNCHANGED <<ents, lics>>
     ELSE /\ CustomerFree(d) /\ Fresh(f)
          /\ orders' = [orders EXCEPT ![d].state = "FULFILLED"]
          /\ ents' = [ents EXCEPT ![f] = NewEnt(f, d, "PURCHASE", None)]
          /\ lics' = [lics EXCEPT ![f] = NewLicense]
  /\ UNCHANGED <<device, codes, move, grant>>

\* Admin.revoke
Revoke(e) ==
  /\ lics[e].state # "NONE" /\ DeviceFree(ents[e].dev) /\ Counts({e})
  /\ lics' = Changed(lics, {e}, "REVOKED")
  /\ UNCHANGED <<device, ents, codes, orders, move, grant>>

\* Admin.revoke with recover.
\* slip: the entitlement's state is not looked at.
RecoverableAnyway(e) == ents[e].gen = device[ents[e].dev].gen
Recoverable(e) == e \in ActiveOn(ents[e].dev)

Recover(e) ==
  /\ lics[e].state # "NONE" /\ DeviceFree(ents[e].dev) /\ Counts({e})
  /\ Serves(ents[e].dev) /\ Recoverable(e)
  /\ lics' = Changed(lics, {e}, "ACTIVE")
  /\ UNCHANGED <<device, ents, codes, orders, move, grant>>

-----------------------------------------------------------------------------
(* DeviceLicenses.move.                                                    *)

\* The entitlement and its customer are locked; a customer moves only a
\* purchase. The check that it never moved is the same one for an Admin.
MoveFrom(m, e, t, byCustomer) ==
  LET d == ents[e].dev IN
  /\ move[m].stage = "idle"
  /\ ents[e].state = "ACTIVE" /\ (byCustomer => ents[e].src = "PURCHASE")
  /\ CustomerFree(d)
  /\ device[d].claimed /\ ents[e].gen = device[d].gen
  /\ ~Moved(e)
  /\ t # d /\ device[t].claimed
  /\ move' = [move EXCEPT ![m] = [stage |-> "from", ent |-> e, to |-> t]]
  /\ UNCHANGED <<device, ents, lics, codes, orders, grant>>

MoveTo(m) ==
  LET t == move[m].to IN
  /\ move[m].stage = "from"
  /\ CustomerFree(t) /\ device[t].claimed
  /\ ~Owns(t) /\ ~Buying(t)
  /\ move' = [move EXCEPT ![m].stage = "to"]
  /\ UNCHANGED <<device, ents, lics, codes, orders, grant>>

\* slip: the source entitlement stays ACTIVE.
MovedRowsKept(e, t, f) == [ents EXCEPT ![f] = NewEnt(f, t, "TRANSFER", e)]
MovedRows(e, t, f) ==
  [ents EXCEPT ![e].state = "REVOKED", ![f] = NewEnt(f, t, "TRANSFER", e)]

MoveCommit(m, f) ==
  LET e == move[m].ent IN
  /\ move[m].stage = "to" /\ Fresh(f)
  /\ IF lics[e].state = "ACTIVE"
     THEN Counts({e}) /\ lics' = Changed(lics, {e}, "REVOKED")
     ELSE UNCHANGED lics
  /\ ents' = MovedRows(e, move[m].to, f)
  /\ move' = [move EXCEPT ![m] = NoMove]
  /\ UNCHANGED <<device, codes, orders, grant>>

\* A refused target, lock_timeout, or a deadlock the database breaks.
MoveAbort(m) ==
  /\ move[m].stage # "idle"
  /\ move' = [move EXCEPT ![m] = NoMove]
  /\ UNCHANGED <<device, ents, lics, codes, orders, grant>>

-----------------------------------------------------------------------------
(* Admin operations on a device.                                           *)

\* reset locks the device and the customer and ends everything of the generation.
ResetEnts(d) == [e \in Ent |-> IF Here(e, d) THEN [ents[e] EXCEPT !.state = "RESET"] ELSE ents[e]]
\* slip: the customer's row is not locked.
ResetMayRunUnlocked(d) == DeviceFree(d)
ResetMayRun(d) == DeviceFree(d) /\ CustomerFree(d)

Reset(d) ==
  LET live == {e \in Ent : Here(e, d) /\ lics[e].state = "ACTIVE"} IN
  /\ ResetMayRun(d) /\ device[d].claimed /\ device[d].gen < MaxGen /\ Counts(live)
  /\ lics' = Changed(lics, live, "REVOKED")
  /\ ents' = ResetEnts(d)
  /\ codes' = [c \in Code |-> IF /\ codes[c].state = "ISSUED"
                                 /\ codes[c].dev = d /\ codes[c].gen = device[d].gen
                              THEN [codes[c] EXCEPT !.state = "CANCELLED"] ELSE codes[c]]
  /\ device' = [device EXCEPT ![d].gen = @ + 1, ![d].claimed = FALSE]
  /\ UNCHANGED <<orders, move, grant>>

\* restrict
Restrict(d, blocked) ==
  LET live == {e \in Ent : ents[e].dev = d /\ lics[e].state = "ACTIVE"} IN
  /\ DeviceFree(d)
  /\ device' = [device EXCEPT ![d].blocked = blocked]
  /\ IF blocked THEN Counts(live) /\ lics' = Changed(lics, live, "REVOKED")
     ELSE UNCHANGED lics
  /\ UNCHANGED <<ents, codes, orders, move, grant>>

-----------------------------------------------------------------------------

LNext ==
  \/ \E d \in Device : \/ Claim(d) \/ EndOrder(d) \/ PayOrder(d) \/ Reset(d)
                       \/ \E blocked \in BOOLEAN : Restrict(d, blocked)
                       \/ \E e \in Ent : PickUp(d, e) \/ Fulfill(d, e)
  \/ \E c \in Code : CancelCode(c) \/ \E d \in Device : IssueCode(c, d)
  \/ \E g \in Granter :
       \/ \E k \in Kinds, d \in Device, c \in Code \cup {None} : GrantBegin(g, k, d, c)
       \/ \E f \in Ent : GrantLicense(g, f)
       \/ GrantOrder(g) \/ GrantAbort(g)
  \/ \E e \in Ent : Revoke(e) \/ Recover(e)
  \/ \E m \in Mover :
       \/ \E e \in Ent, t \in Device, byCustomer \in BOOLEAN : MoveFrom(m, e, t, byCustomer)
       \/ MoveTo(m) \/ MoveAbort(m)
       \/ \E f \in Ent : MoveCommit(m, f)

LSpec == LInit /\ [][LNext]_lvars

-----------------------------------------------------------------------------
(* What must hold.                                                         *)

\* Every row has its type.
LTypeOK ==
  /\ device \in [Device -> DeviceRow]
  /\ ents \in [Ent -> EntRow]
  /\ lics \in [Ent -> LicRow]
  /\ codes \in [Code -> CodeRow]
  /\ orders \in [Device -> OrderRow]
  /\ move \in [Mover -> MoveRow]
  /\ grant \in [Granter -> GrantRow]

\* An entitlement that was moved away is never usable again, whatever an Admin
\* recovers and however often it moves on (move, revoke with recover).
MovedIsDead ==
  \A e \in Ent : Moved(e) => ents[e].state # "ACTIVE" /\ lics[e].state # "ACTIVE"

\* A reset ends all that the old customer had, and nothing that was on its way
\* to the device arrives afterwards (reset against move, redeem and pickup).
OldGenerationIsDead ==
  /\ \A e \in Ent : ents[e].state = "ACTIVE" \/ lics[e].state = "ACTIVE" =>
       ents[e].gen = device[ents[e].dev].gen /\ device[ents[e].dev].claimed
  /\ \A c \in Code : codes[c].state = "ISSUED" => codes[c].gen = device[codes[c].dev].gen

\* No license is in force on a device that is blocked for the product, although
\* an entitlement may be moved there.
BlockedHasNoLicense ==
  \A e \in Ent : lics[e].state = "ACTIVE" => ~device[ents[e].dev].blocked

\* Where the chain of moves that begins with each grant is in force.
Chain(r) == {e \in Ent : ents[e].state = "ACTIVE" /\ ents[e].first = r}
Tenancy == [r \in Ent |-> {ents[e].dev : e \in Chain(r)}]

\* The abstract tenure these rows implement.
Title ==
  INSTANCE Tenure WITH
    Grant <- Ent,
    held <- Tenancy,
    given <- {r \in Ent : ents[r].state # "NONE" /\ ents[r].from = None}

KeepsTenure == Title!Spec

=============================================================================
