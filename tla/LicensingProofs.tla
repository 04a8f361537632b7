-------------------------- MODULE LicensingProofs --------------------------
(***************************************************************************)
(* What Licensing keeps for every number of devices, rows, codes and       *)
(* concurrent transactions: rows keep their types, a moved entitlement and *)
(* an old generation stay dead, a blocked device has no license, and       *)
(* Licensing implements Tenure.                                            *)
(*                                                                         *)
(* The invariant IInv adds to those claims what a row that was never       *)
(* inserted cannot have (Rooted), and what the checks of a transaction are *)
(* still worth when it writes (Locked, Moving). TenureInv, in the second   *)
(* half, adds that what a move has locked stays where it is.               *)
(***************************************************************************)
EXTENDS Licensing, TLAPS

\* A row that exists has a device; one that does not has no license and nothing
\* was moved from it.
Rooted ==
  /\ \A e \in Ent : /\ ents[e].state # "NONE" => ents[e].dev \in Device
                    /\ Fresh(e) => lics[e].state = "NONE" /\ ~Moved(e)
  /\ \A c \in Code : codes[c].state = "ISSUED" => codes[c].dev \in Device

\* The device a grant has checked still serves: its row is locked.
Locked ==
  \A g \in Granter : grant[g].stage = "checked" =>
    grant[g].dev \in Device /\ Serves(grant[g].dev)

\* A move works on a row that exists, and its locked target is still claimed.
Moving ==
  \A m \in Mover : move[m].stage # "idle" =>
    /\ move[m].ent \in Ent /\ move[m].to \in Device
    /\ ents[move[m].ent].state # "NONE"
    /\ move[m].stage = "to" => device[move[m].to].claimed

IInv == LTypeOK /\ Rooted /\ Locked /\ Moving
        /\ MovedIsDead /\ OldGenerationIsDead /\ BlockedHasNoLicense

-----------------------------------------------------------------------------
(* Rows the operators return.                                              *)

LEMMA NewEntType ==
  ASSUME LTypeOK, NEW f \in Ent, NEW d \in Device, NEW src \in Sources,
         NEW e \in Ent \cup {None}
  PROVE  NewEnt(f, d, src, e) \in EntRow
BY DEF LTypeOK, NewEnt, EntRow, DeviceRow

LEMMA NewLicenseType == NewLicense \in LicRow
BY VersionBound DEF NewLicense, LicRow

LEMMA ChangedType ==
  ASSUME LTypeOK, NEW es \in SUBSET Ent, Counts(es), NEW s \in {"ACTIVE", "REVOKED"}
  PROVE  Changed(lics, es, s) \in [Ent -> LicRow]
BY VersionBound DEF LTypeOK, Changed, Counts, LicRow

LEMMA MovedRowsType ==
  ASSUME LTypeOK, NEW e \in Ent, NEW t \in Device, NEW f \in Ent
  PROVE  MovedRows(e, t, f) \in [Ent -> EntRow]
<1>1. NewEnt(f, t, "TRANSFER", e) \in EntRow
  BY NewEntType DEF Sources
<1>2. [ents[e] EXCEPT !.state = "REVOKED"] \in EntRow
  BY DEF LTypeOK, EntRow
<1> QED BY <1>1, <1>2 DEF LTypeOK, MovedRows

-----------------------------------------------------------------------------
(* Types.                                                                  *)

LEMMA GrantLicenseType ==
  ASSUME IInv, NEW g \in Granter, NEW f \in Ent, GrantLicense(g, f)
  PROVE  LTypeOK'
<1> DEFINE d == grant[g].dev
           c == grant[g].code
<1>1. d \in Device /\ (c # None => c \in Code)
  BY DEF IInv, Locked, LTypeOK, GrantRow, GrantLicense
<1>2. grant' \in [Granter -> GrantRow]
  BY DEF IInv, LTypeOK, GrantLicense, NoGrant, GrantRow
<1>3. codes' \in [Code -> CodeRow]
  BY <1>1 DEF IInv, LTypeOK, GrantLicense, CodeRow
<1>4. ents' \in [Ent -> EntRow]
  <2>1. NewEnt(f, d, IF c = None THEN "ADMIN" ELSE "CODE", None) \in EntRow
    BY <1>1, NewEntType DEF IInv, Sources
  <2> QED BY <2>1 DEF IInv, LTypeOK, GrantLicense
<1>5. lics' \in [Ent -> LicRow]
  BY NewLicenseType DEF IInv, LTypeOK, GrantLicense
<1> QED BY <1>2, <1>3, <1>4, <1>5 DEF IInv, LTypeOK, GrantLicense

LEMMA FulfillType ==
  ASSUME IInv, NEW d \in Device, NEW f \in Ent, Fulfill(d, f)
  PROVE  LTypeOK'
<1>1. orders' \in [Device -> OrderRow]
  BY DEF IInv, LTypeOK, OrderRow, Fulfill
<1>2. ents' \in [Ent -> EntRow]
  BY NewEntType DEF IInv, LTypeOK, Fulfill, Sources
<1>3. lics' \in [Ent -> LicRow]
  BY NewLicenseType DEF IInv, LTypeOK, Fulfill
<1> QED BY <1>1, <1>2, <1>3 DEF IInv, LTypeOK, Fulfill

LEMMA ResetType ==
  ASSUME IInv, NEW d \in Device, Reset(d)
  PROVE  LTypeOK'
<1>1. device' \in [Device -> DeviceRow]
  <2>1. device[d] \in DeviceRow /\ device[d].gen + 1 \in Gen
    BY GenBound DEF IInv, LTypeOK, Reset, DeviceRow, Gen
  <2> QED BY <2>1 DEF IInv, LTypeOK, Reset, DeviceRow
<1>2. ents' \in [Ent -> EntRow]
  BY DEF IInv, LTypeOK, Reset, ResetEnts, EntRow
<1>3. lics' \in [Ent -> LicRow]
  BY ChangedType DEF IInv, Reset
<1>4. codes' \in [Code -> CodeRow]
  BY DEF IInv, LTypeOK, Reset, CodeRow
<1> QED BY <1>1, <1>2, <1>3, <1>4 DEF IInv, LTypeOK, Reset

LEMMA NextType == ASSUME IInv, LNext PROVE LTypeOK'
<1>1. ASSUME NEW d \in Device, Claim(d) PROVE LTypeOK'
  BY <1>1 DEF IInv, LTypeOK, Claim, DeviceRow
<1>2. ASSUME NEW d \in Device, EndOrder(d) \/ PayOrder(d) PROVE LTypeOK'
  BY <1>2 DEF IInv, LTypeOK, EndOrder, PayOrder, OrderRow
<1>3. ASSUME NEW d \in Device, NEW b \in BOOLEAN, Restrict(d, b) PROVE LTypeOK'
  <2>1. device' \in [Device -> DeviceRow]
    BY <1>3 DEF IInv, LTypeOK, Restrict, DeviceRow
  <2>2. lics' \in [Ent -> LicRow]
    BY <1>3, ChangedType DEF IInv, LTypeOK, Restrict
  <2> QED BY <1>3, <2>1, <2>2 DEF IInv, LTypeOK, Restrict
<1>4. ASSUME NEW d \in Device, NEW e \in Ent, PickUp(d, e) PROVE LTypeOK'
  BY <1>4, NewLicenseType DEF IInv, LTypeOK, PickUp
<1>5. ASSUME NEW c \in Code, CancelCode(c) PROVE LTypeOK'
  BY <1>5 DEF IInv, LTypeOK, CancelCode, CodeRow
<1>6. ASSUME NEW c \in Code, NEW d \in Device, IssueCode(c, d) PROVE LTypeOK'
  BY <1>6 DEF IInv, LTypeOK, IssueCode, CodeRow, DeviceRow
<1>7. ASSUME NEW g \in Granter, NEW k \in Kinds, NEW d \in Device, NEW c \in Code \cup {None},
             GrantBegin(g, k, d, c)
      PROVE LTypeOK'
  BY <1>7 DEF IInv, LTypeOK, GrantBegin, GrantRow
<1>8. ASSUME NEW g \in Granter, GrantOrder(g) PROVE LTypeOK'
  <2>1. grant[g].dev \in Device
    BY <1>8 DEF IInv, Locked, GrantOrder
  <2> QED BY <1>8, <2>1 DEF IInv, LTypeOK, GrantOrder, GrantRow, NoGrant, OrderRow, DeviceRow
<1>9. ASSUME NEW g \in Granter, GrantAbort(g) PROVE LTypeOK'
  BY <1>9 DEF IInv, LTypeOK, GrantAbort, GrantRow, NoGrant
<1>10. ASSUME NEW e \in Ent, Revoke(e) \/ Recover(e) PROVE LTypeOK'
  <2>1. lics' \in [Ent -> LicRow]
    BY <1>10, ChangedType DEF IInv, Revoke, Recover
  <2> QED BY <1>10, <2>1 DEF IInv, LTypeOK, Revoke, Recover
<1>11. ASSUME NEW m \in Mover, NEW e \in Ent, NEW t \in Device, NEW b \in BOOLEAN, MoveFrom(m, e, t, b)
       PROVE LTypeOK'
  BY <1>11 DEF IInv, LTypeOK, MoveFrom, MoveRow
<1>12. ASSUME NEW m \in Mover, MoveTo(m) \/ MoveAbort(m) PROVE LTypeOK'
  BY <1>12 DEF IInv, LTypeOK, MoveTo, MoveAbort, MoveRow, NoMove
<1>13. ASSUME NEW m \in Mover, NEW f \in Ent, MoveCommit(m, f) PROVE LTypeOK'
  <2>1. move[m].ent \in Ent /\ move[m].to \in Device
    BY <1>13 DEF IInv, Moving, MoveCommit
  <2>2. ents' \in [Ent -> EntRow]
    BY <1>13, <2>1, MovedRowsType DEF IInv, MoveCommit
  <2>3. lics' \in [Ent -> LicRow]
    BY <1>13, <2>1, ChangedType DEF IInv, LTypeOK, MoveCommit
  <2>4. move' \in [Mover -> MoveRow]
    BY <1>13 DEF IInv, LTypeOK, MoveCommit, MoveRow, NoMove
  <2> QED BY <1>13, <2>2, <2>3, <2>4 DEF IInv, LTypeOK, MoveCommit
<1> QED
  BY <1>1, <1>2, <1>3, <1>4, <1>5, <1>6, <1>7, <1>8, <1>9, <1>10, <1>11, <1>12, <1>13,
     GrantLicenseType, FulfillType, ResetType DEF LNext

-----------------------------------------------------------------------------
(* Actions that touch neither entitlements nor licenses.                   *)

Aside ==
  \/ \E d \in Device : Claim(d) \/ EndOrder(d) \/ PayOrder(d)
  \/ \E c \in Code : CancelCode(c) \/ \E d \in Device : IssueCode(c, d)
  \/ \E g \in Granter :
       \/ \E k \in Kinds, d \in Device, c \in Code \cup {None} : GrantBegin(g, k, d, c)
       \/ GrantOrder(g) \/ GrantAbort(g)
  \/ \E m \in Mover :
       \/ \E e \in Ent, t \in Device, byCustomer \in BOOLEAN : MoveFrom(m, e, t, byCustomer)
       \/ MoveTo(m) \/ MoveAbort(m)

\* Actions that write the license of an entitlement that stays as it is.
Licensed ==
  \/ \E d \in Device, e \in Ent : PickUp(d, e)
  \/ \E e \in Ent : Revoke(e) \/ Recover(e)
  \/ \E d \in Device, blocked \in BOOLEAN : Restrict(d, blocked)

LEMMA NextCases ==
  ASSUME LNext
  PROVE  \/ Aside \/ Licensed
         \/ \E g \in Granter, f \in Ent : GrantLicense(g, f)
         \/ \E d \in Device, f \in Ent : Fulfill(d, f)
         \/ \E m \in Mover, f \in Ent : MoveCommit(m, f)
         \/ \E d \in Device : Reset(d)
BY DEF LNext, Aside, Licensed

LEMMA AsideEffect == ASSUME Aside PROVE UNCHANGED <<ents, lics>>
BY DEF Aside, Claim, EndOrder, PayOrder, CancelCode, IssueCode, GrantBegin, GrantOrder,
       GrantAbort, MoveFrom, MoveTo, MoveAbort

\* Licenses appear only for existing entitlements, and come into force only for
\* ACTIVE ones on the device's generation that serve it.
LEMMA LicensedEffect ==
  ASSUME IInv, Licensed
  PROVE  /\ UNCHANGED ents
         /\ \A e \in Ent : lics'[e] # lics[e] => ents[e].state # "NONE"
         /\ \A e \in Ent : lics'[e] # lics[e] /\ lics'[e].state = "ACTIVE" =>
              /\ ents[e].state = "ACTIVE" /\ ents[e].gen = device[ents[e].dev].gen
              /\ Serves(ents[e].dev) /\ UNCHANGED device
<1> USE DEF IInv, LTypeOK, Rooted, Fresh, LicRow
<1>1. ASSUME NEW d \in Device, NEW e \in Ent, PickUp(d, e)
      PROVE  /\ UNCHANGED <<ents, device>> /\ lics' = [lics EXCEPT ![e] = NewLicense]
             /\ ents[e].state = "ACTIVE" /\ ents[e].gen = device[ents[e].dev].gen
             /\ Serves(ents[e].dev)
  BY <1>1 DEF PickUp, ActiveOn, Here
<1>2. ASSUME NEW e \in Ent, Revoke(e)
      PROVE  /\ UNCHANGED ents /\ lics' = Changed(lics, {e}, "REVOKED")
             /\ ents[e].state # "NONE"
  BY <1>2 DEF Revoke
<1>3. ASSUME NEW e \in Ent, Recover(e)
      PROVE  /\ UNCHANGED <<ents, device>> /\ lics' = Changed(lics, {e}, "ACTIVE")
             /\ ents[e].state = "ACTIVE" /\ ents[e].gen = device[ents[e].dev].gen
             /\ Serves(ents[e].dev)
  BY <1>3 DEF Recover, Recoverable, ActiveOn, Here
<1>4. ASSUME NEW d \in Device, NEW b \in BOOLEAN, Restrict(d, b)
      PROVE  /\ UNCHANGED ents
             /\ \A e \in Ent : lics'[e] # lics[e] =>
                  lics[e].state = "ACTIVE" /\ lics'[e].state = "REVOKED"
  BY <1>4 DEF Restrict, Changed
<1> QED BY <1>1, <1>2, <1>3, <1>4 DEF Licensed, Changed

-----------------------------------------------------------------------------
(* Actions that insert an entitlement.                                     *)

\* A device that serves gets a new ACTIVE row, or a license for the one it has.
Granted(d, f) ==
  /\ UNCHANGED device /\ Serves(d)
  /\ \A e \in Ent \ {f} : ents'[e] = ents[e] /\ lics'[e] = lics[e]
  /\ ents'[f].state = "ACTIVE" /\ ents'[f].dev = d /\ ents'[f].gen = device[d].gen
  /\ \/ ents'[f] = ents[f]
     \/ Fresh(f) /\ ents'[f].from = None

\* A row changes its state and nothing else.
SamePlace(e) ==
  ents'[e].dev = ents[e].dev /\ ents'[e].gen = ents[e].gen /\ ents'[e].from = ents[e].from

LEMMA GrantEffect ==
  ASSUME IInv, NEW g \in Granter, NEW f \in Ent, GrantLicense(g, f)
  PROVE  grant[g].dev \in Device /\ Granted(grant[g].dev, f)
<1>1. grant[g].dev \in Device /\ Serves(grant[g].dev) /\ UNCHANGED device
  BY DEF IInv, Locked, GrantLicense
<1>2. CASE ActiveOn(grant[g].dev) = {}
  BY <1>1, <1>2 DEF IInv, LTypeOK, GrantLicense, Granted, NewEnt, EntRow
<1>3. CASE ActiveOn(grant[g].dev) # {}
  BY <1>1, <1>3 DEF IInv, LTypeOK, GrantLicense, Granted, ActiveOn, Here
<1> QED BY <1>2, <1>3

LEMMA FulfillEffect ==
  ASSUME IInv, NEW d \in Device, NEW f \in Ent, Fulfill(d, f)
  PROVE  Granted(d, f) \/ UNCHANGED <<device, ents, lics>>
BY DEF IInv, LTypeOK, Fulfill, Granted, Serves, NewEnt, EntRow

\* What a move leaves: the source is REVOKED, the new row has no license.
LEMMA MoveEffect ==
  ASSUME IInv, NEW m \in Mover, NEW f \in Ent, MoveCommit(m, f)
  PROVE  LET e == move[m].ent  t == move[m].to IN
         /\ e \in Ent /\ t \in Device /\ e # f /\ Fresh(f) /\ ents[e].state # "NONE"
         /\ UNCHANGED device /\ device[t].claimed
         /\ \A x \in Ent \ {e, f} : ents'[x] = ents[x] /\ lics'[x] = lics[x]
         /\ lics'[f] = lics[f] /\ lics'[e].state # "ACTIVE"
         /\ ents'[e].state = "REVOKED" /\ SamePlace(e)
         /\ ents'[f].state = "ACTIVE" /\ ents'[f].from = e
         /\ ents'[f].dev = t /\ ents'[f].gen = device[t].gen
<1>1. /\ move[m].ent \in Ent /\ move[m].to \in Device /\ ents[move[m].ent].state # "NONE"
      /\ device[move[m].to].claimed
  BY DEF IInv, Moving, MoveCommit
<1>2. Fresh(f) /\ move[m].ent # f
  BY <1>1 DEF MoveCommit, Fresh
<1>3. ents' = MovedRows(move[m].ent, move[m].to, f) /\ UNCHANGED device
  BY DEF MoveCommit
<1>4. \A x \in Ent \ {move[m].ent} : lics'[x] = lics[x]
  BY <1>1 DEF IInv, LTypeOK, MoveCommit, Changed
<1>5. lics'[move[m].ent].state # "ACTIVE"
  BY <1>1 DEF IInv, LTypeOK, MoveCommit, Changed
<1>6. ents'[f] = NewEnt(f, move[m].to, "TRANSFER", move[m].ent)
  BY <1>3 DEF IInv, LTypeOK, MovedRows
<1>7. /\ ents'[move[m].ent] = [ents[move[m].ent] EXCEPT !.state = "REVOKED"]
      /\ \A x \in Ent \ {move[m].ent, f} : ents'[x] = ents[x]
  BY <1>1, <1>2, <1>3 DEF IInv, LTypeOK, MovedRows
<1>8. ents'[move[m].ent].state = "REVOKED" /\ SamePlace(move[m].ent)
  BY <1>1, <1>7 DEF IInv, LTypeOK, EntRow, SamePlace
<1> QED BY <1>1, <1>2, <1>3, <1>4, <1>5, <1>6, <1>7, <1>8 DEF NewEnt

LEMMA ResetEffect ==
  ASSUME IInv, NEW d \in Device, Reset(d)
  PROVE  /\ \A x \in Device \ {d} : device'[x] = device[x]
         /\ \A e \in Ent : \/ ~Here(e, d) /\ ents'[e] = ents[e] /\ lics'[e] = lics[e]
                           \/ /\ Here(e, d) /\ lics'[e].state # "ACTIVE"
                              /\ ents'[e].state = "RESET" /\ SamePlace(e)
<1>1. \A x \in Device \ {d} : device'[x] = device[x]
  BY DEF IInv, LTypeOK, Reset
<1>2. \A e \in Ent : ~Here(e, d) => ents'[e] = ents[e] /\ lics'[e] = lics[e]
  BY DEF IInv, LTypeOK, Reset, ResetEnts, Changed
<1>3. \A e \in Ent : Here(e, d) => ents'[e].state = "RESET" /\ SamePlace(e)
  BY DEF IInv, LTypeOK, EntRow, Reset, ResetEnts, SamePlace
<1>4. \A e \in Ent : Here(e, d) => lics'[e].state # "ACTIVE"
  BY DEF IInv, LTypeOK, Reset, Changed
<1> QED BY <1>1, <1>2, <1>3, <1>4

-----------------------------------------------------------------------------
(* Rows that exist.                                                        *)

\* A code is issued for a device and its generation, and then only ends.
LEMMA CodesEffect ==
  ASSUME IInv, LNext
  PROVE  \A c \in Code : codes'[c].state = "ISSUED" =>
           \/ /\ codes[c].state = "ISSUED" /\ codes'[c] = codes[c]
              /\ \A d \in Device :
                   Reset(d) => codes[c].dev # d \/ codes[c].gen # device[d].gen
           \/ \E d \in Device :
                /\ codes'[c].dev = d /\ codes'[c].gen = device[d].gen
                /\ Serves(d) /\ UNCHANGED device
<1> USE DEF IInv, LTypeOK, CodeRow
<1>1. ASSUME NEW x \in Device, Reset(x)
      PROVE  \A c \in Code : codes'[c].state = "ISSUED" =>
               /\ codes[c].state = "ISSUED" /\ codes'[c] = codes[c]
               /\ codes[c].dev # x \/ codes[c].gen # device[x].gen
  BY <1>1 DEF Reset
<1>2. ASSUME NEW k \in Code, NEW d \in Device, IssueCode(k, d)
      PROVE  /\ codes'[k].dev = d /\ codes'[k].gen = device[d].gen
             /\ Serves(d) /\ UNCHANGED device
             /\ \A c \in Code \ {k} : codes'[c] = codes[c]
  BY <1>2 DEF IssueCode
<1>3. ASSUME NEW k \in Code, CancelCode(k)
      PROVE  \A c \in Code : codes'[c].state = "ISSUED" => codes'[c] = codes[c]
  BY <1>3 DEF CancelCode
<1>4. ASSUME NEW g \in Granter, NEW f \in Ent, GrantLicense(g, f)
      PROVE  \A c \in Code : codes'[c].state = "ISSUED" => codes'[c] = codes[c]
  BY <1>4 DEF GrantLicense
<1>5. CASE \A x \in Device : ~Reset(x)
  <2>1. \/ UNCHANGED codes
        \/ \E k \in Code : CancelCode(k) \/ \E d \in Device : IssueCode(k, d)
        \/ \E g \in Granter, f \in Ent : GrantLicense(g, f)
    BY <1>5 DEF LNext, Claim, EndOrder, PayOrder, GrantBegin, GrantOrder, GrantAbort, PickUp,
                Fulfill, Revoke, Recover, MoveFrom, MoveTo, MoveCommit, MoveAbort, Restrict
  <2>2. CASE UNCHANGED codes
    BY <2>2, <1>5
  <2>3. CASE \E k \in Code, d \in Device : IssueCode(k, d)
    BY <2>3, <1>2, <1>5
  <2>4. CASE \A c \in Code : codes'[c].state = "ISSUED" => codes'[c] = codes[c]
    BY <2>4, <1>5
  <2> QED BY <2>1, <2>2, <2>3, <2>4, <1>3, <1>4
<1> QED BY <1>1, <1>5

LEMMA NextRooted == ASSUME IInv, LNext PROVE Rooted'
<1> USE DEF IInv, LTypeOK, Rooted, Fresh, Moved
<1>1. \A c \in Code : codes'[c].state = "ISSUED" => codes'[c].dev \in Device
  BY CodesEffect DEF CodeRow
<1>2. CASE UNCHANGED <<ents, lics>>
  BY <1>1, <1>2
<1>3. CASE Licensed
  BY <1>1, <1>3, LicensedEffect
<1>4. ASSUME NEW d \in Device, NEW f \in Ent, Granted(d, f) PROVE Rooted'
  BY <1>1, <1>4, NoneIsNoRow DEF Granted
<1>5. ASSUME NEW m \in Mover, NEW f \in Ent, MoveCommit(m, f) PROVE Rooted'
  BY <1>1, <1>5, MoveEffect, NoneIsNoRow DEF SamePlace
<1>6. ASSUME NEW d \in Device, Reset(d) PROVE Rooted'
  BY <1>1, <1>6, ResetEffect DEF Here, SamePlace
<1> QED
  BY <1>2, <1>3, <1>4, <1>5, <1>6, NextCases, AsideEffect, GrantEffect, FulfillEffect

\* A moved entitlement stays dead: nothing writes to it but what ends it.
LEMMA NextMoved == ASSUME IInv, LNext PROVE MovedIsDead'
<1> USE DEF IInv, LTypeOK, Rooted, Fresh, Moved, MovedIsDead
<1>1. CASE UNCHANGED <<ents, lics>>
  BY <1>1
<1>2. CASE Licensed
  BY <1>2, LicensedEffect
<1>3. ASSUME NEW d \in Device, NEW f \in Ent, Granted(d, f) PROVE MovedIsDead'
  BY <1>3, NoneIsNoRow DEF Granted
<1>4. ASSUME NEW m \in Mover, NEW f \in Ent, MoveCommit(m, f) PROVE MovedIsDead'
  BY <1>4, MoveEffect, NoneIsNoRow DEF SamePlace
<1>5. ASSUME NEW d \in Device, Reset(d) PROVE MovedIsDead'
  BY <1>5, ResetEffect DEF Here, SamePlace
<1> QED
  BY <1>1, <1>2, <1>3, <1>4, <1>5, NextCases, AsideEffect, GrantEffect, FulfillEffect

-----------------------------------------------------------------------------
(* Checks that are still worth something.                                  *)

\* A device row changes only while no grant holds it.
LEMMA DeviceEffect ==
  ASSUME IInv, LNext
  PROVE  \/ UNCHANGED device
         \/ \E d \in Device :
              /\ DeviceFree(d) /\ \A x \in Device \ {d} : device'[x] = device[x]
              /\ device'[d].claimed \/ CustomerFree(d) \/ device'[d].claimed = device[d].claimed
              /\ UNCHANGED <<grant, move>>
<1> USE DEF IInv, LTypeOK, DeviceRow
<1>1. ASSUME NEW d \in Device, Claim(d) \/ Reset(d) \/ \E b \in BOOLEAN : Restrict(d, b)
      PROVE  /\ DeviceFree(d) /\ \A x \in Device \ {d} : device'[x] = device[x]
             /\ device'[d].claimed \/ CustomerFree(d) \/ device'[d].claimed = device[d].claimed
             /\ UNCHANGED <<grant, move>>
  BY <1>1 DEF Claim, Reset, ResetMayRun, Restrict
<1>2. CASE \A d \in Device : ~(Claim(d) \/ Reset(d) \/ \E b \in BOOLEAN : Restrict(d, b))
  BY <1>2 DEF LNext, EndOrder, PayOrder, CancelCode, IssueCode, GrantBegin, GrantLicense, GrantOrder,
              GrantAbort, PickUp, Fulfill, Revoke, Recover, MoveFrom, MoveTo, MoveCommit, MoveAbort
<1> QED BY <1>1, <1>2

LEMMA NextLocked == ASSUME IInv, LNext PROVE Locked'
<1> USE DEF IInv, LTypeOK, Locked, Serves
<1>1. CASE UNCHANGED <<device, grant>>
  BY <1>1
<1>2. CASE UNCHANGED grant /\ ~UNCHANGED device
  BY <1>2, DeviceEffect DEF DeviceFree
<1>3. ASSUME NEW g \in Granter, NEW k \in Kinds, NEW d \in Device, NEW c \in Code \cup {None},
             GrantBegin(g, k, d, c)
      PROVE  Locked'
  BY <1>3 DEF GrantBegin
<1>4. ASSUME NEW g \in Granter, UNCHANGED device, grant' = [grant EXCEPT ![g] = NoGrant]
      PROVE  Locked'
  BY <1>4 DEF NoGrant
<1>5. \/ UNCHANGED grant
      \/ \E g \in Granter, k \in Kinds, d \in Device, c \in Code \cup {None} : GrantBegin(g, k, d, c)
      \/ \E g \in Granter : UNCHANGED device /\ grant' = [grant EXCEPT ![g] = NoGrant]
  BY DEF LNext, Claim, EndOrder, PayOrder, CancelCode, IssueCode, GrantLicense, GrantOrder,
         GrantAbort, PickUp, Fulfill, Revoke, Recover, MoveFrom, MoveTo, MoveCommit, MoveAbort,
         Reset, Restrict
<1> QED BY <1>1, <1>2, <1>3, <1>4, <1>5

\* Rows that exist stay.
LEMMA RowsStay ==
  ASSUME IInv, LNext
  PROVE  \A e \in Ent : ents[e].state # "NONE" => ents'[e].state # "NONE"
<1>1. CASE UNCHANGED <<ents, lics>>
  BY <1>1
<1>2. CASE Licensed
  BY <1>2, LicensedEffect
<1>3. ASSUME NEW d \in Device, NEW f \in Ent, Granted(d, f)
      PROVE  \A e \in Ent : ents[e].state # "NONE" => ents'[e].state # "NONE"
  BY <1>3 DEF Granted
<1>4. ASSUME NEW m \in Mover, NEW f \in Ent, MoveCommit(m, f)
      PROVE  \A e \in Ent : ents[e].state # "NONE" => ents'[e].state # "NONE"
  BY <1>4, MoveEffect
<1>5. ASSUME NEW d \in Device, Reset(d)
      PROVE  \A e \in Ent : ents[e].state # "NONE" => ents'[e].state # "NONE"
  BY <1>5, ResetEffect
<1> QED
  BY <1>1, <1>2, <1>3, <1>4, <1>5, NextCases, AsideEffect, GrantEffect, FulfillEffect

LEMMA NextMoving == ASSUME IInv, LNext PROVE Moving'
<1> USE DEF IInv, LTypeOK, Moving
<1>1. CASE UNCHANGED <<device, move>>
  BY <1>1, RowsStay
<1>2. CASE UNCHANGED move /\ ~UNCHANGED device
  <2>1. PICK d \in Device :
          /\ \A x \in Device \ {d} : device'[x] = device[x]
          /\ device'[d].claimed \/ CustomerFree(d) \/ device'[d].claimed = device[d].claimed
    BY <1>2, DeviceEffect
  <2>2. ASSUME NEW m \in Mover, move[m].stage = "to"
        PROVE  device'[move[m].to].claimed
    <3>1. device[move[m].to].claimed /\ move[m].to \in Device /\ move[m].to \in Holds(m)
      BY <2>2 DEF Holds
    <3> QED BY <2>1, <3>1 DEF CustomerFree
  <2> QED BY <1>2, <2>2, RowsStay
<1>3. ASSUME NEW m \in Mover, NEW e \in Ent, NEW t \in Device, NEW b \in BOOLEAN,
             MoveFrom(m, e, t, b)
      PROVE  Moving'
  BY <1>3 DEF MoveFrom
<1>4. ASSUME NEW m \in Mover, MoveTo(m) PROVE Moving'
  BY <1>4 DEF MoveTo, MoveRow
<1>5. ASSUME NEW m \in Mover, UNCHANGED device, move' = [move EXCEPT ![m] = NoMove]
      PROVE  Moving'
  BY <1>5, RowsStay DEF NoMove
<1>6. \/ UNCHANGED move
      \/ \E m \in Mover, e \in Ent, t \in Device, b \in BOOLEAN : MoveFrom(m, e, t, b)
      \/ \E m \in Mover : MoveTo(m)
      \/ \E m \in Mover : UNCHANGED device /\ move' = [move EXCEPT ![m] = NoMove]
  BY DEF LNext, Claim, EndOrder, PayOrder, CancelCode, IssueCode, GrantBegin, GrantLicense,
         GrantOrder, GrantAbort, PickUp, Fulfill, Revoke, Recover, MoveCommit, MoveAbort, Reset,
         Restrict
<1> QED BY <1>1, <1>2, <1>3, <1>4, <1>5, <1>6

-----------------------------------------------------------------------------
(* What is in force.                                                       *)

\* How the row of a device changes: its generation only by a reset, its block
\* only by restrict, which leaves no license in force.
LEMMA DeviceKept ==
  ASSUME IInv, LNext, \A d \in Device : ~Reset(d)
  PROVE  /\ \A d \in Device : /\ device'[d].gen = device[d].gen
                              /\ device[d].claimed => device'[d].claimed
         /\ \A d \in Device : device'[d].blocked =>
              \/ device[d].blocked
              \/ /\ UNCHANGED ents
                 /\ \A e \in Ent : ents[e].dev = d => lics'[e].state # "ACTIVE"
<1>1. ASSUME NEW d \in Device, Claim(d)
      PROVE  \A x \in Device : /\ device'[x].gen = device[x].gen
                               /\ device[x].claimed => device'[x].claimed
                               /\ device'[x].blocked = device[x].blocked
  BY <1>1 DEF IInv, LTypeOK, DeviceRow, Claim
<1>2. ASSUME NEW d \in Device, NEW b \in BOOLEAN, Restrict(d, b)
      PROVE  /\ \A x \in Device : /\ device'[x].gen = device[x].gen
                                  /\ device[x].claimed => device'[x].claimed
                                  /\ x # d => device'[x].blocked = device[x].blocked
             /\ UNCHANGED ents
             /\ device'[d].blocked => \A e \in Ent : ents[e].dev = d => lics'[e].state # "ACTIVE"
  <2>1. device' = [device EXCEPT ![d].blocked = b] /\ UNCHANGED ents
    BY <1>2 DEF Restrict
  <2>2. b => \A e \in Ent : ents[e].dev = d => lics'[e].state # "ACTIVE"
    BY <1>2 DEF IInv, LTypeOK, Restrict, Changed, LicRow
  <2> QED BY <2>1, <2>2 DEF IInv, LTypeOK, DeviceRow
<1>3. \/ UNCHANGED device
      \/ \E d \in Device : Claim(d) \/ \E b \in BOOLEAN : Restrict(d, b)
  BY DEF LNext, EndOrder, PayOrder, CancelCode, IssueCode, GrantBegin, GrantLicense, GrantOrder,
         GrantAbort, PickUp, Fulfill, Revoke, Recover, MoveFrom, MoveTo, MoveCommit, MoveAbort
<1>4. CASE UNCHANGED device
  BY <1>4
<1>5. CASE \E d \in Device : Claim(d)
  BY <1>1, <1>5
<1>6. CASE \E d \in Device, b \in BOOLEAN : Restrict(d, b)
  <2>1. PICK d \in Device, b \in BOOLEAN : Restrict(d, b)
    BY <1>6
  <2> QED BY <1>2, <2>1
<1> QED BY <1>3, <1>4, <1>5, <1>6

\* Nothing of an old generation is in force.
LEMMA NextGeneration == ASSUME IInv, LNext PROVE OldGenerationIsDead'
<1> DEFINE InForce(e) == ents[e].state = "ACTIVE" \/ lics[e].state = "ACTIVE"
           Current(e) == ents[e].gen = device[ents[e].dev].gen /\ device[ents[e].dev].claimed
           CodesCurrent == \A c \in Code : codes[c].state = "ISSUED" =>
                             codes[c].gen = device[codes[c].dev].gen
<1>1. \A e \in Ent : InForce(e) => ents[e].dev \in Device /\ Current(e)
  BY DEF IInv, Rooted, Fresh, OldGenerationIsDead
<1>2. \A c \in Code : codes[c].state = "ISSUED" =>
        codes[c].dev \in Device /\ codes[c].gen = device[codes[c].dev].gen
  BY DEF IInv, Rooted, OldGenerationIsDead
<1>3. CASE \A d \in Device : ~Reset(d)
  <2>1. \A d \in Device : /\ device'[d].gen = device[d].gen
                          /\ device[d].claimed => device'[d].claimed
    BY <1>3, DeviceKept
  <2>2. CodesCurrent'
    <3>1. ASSUME NEW c \in Code, codes'[c].state = "ISSUED"
          PROVE  codes'[c].gen = device'[codes'[c].dev].gen
      <4>1. CASE codes[c].state = "ISSUED" /\ codes'[c] = codes[c]
        BY <1>2, <2>1, <3>1, <4>1
      <4>2. CASE \E d \in Device : /\ codes'[c].dev = d /\ codes'[c].gen = device[d].gen
                                   /\ UNCHANGED device
        BY <4>2
      <4> QED BY <3>1, <4>1, <4>2, CodesEffect
    <3> QED BY <3>1
  <2>3. ASSUME NEW e \in Ent, InForce(e)', ents'[e] = ents[e], Current(e), ents[e].dev \in Device
        PROVE  Current(e)'
    BY <2>1, <2>3, SMT
  <2>4. CASE UNCHANGED <<ents, lics>>
    <3>1. \A e \in Ent : InForce(e)' => Current(e)'
      BY <1>1, <2>3, <2>4
    <3> QED BY <2>2, <3>1 DEF OldGenerationIsDead
  <2>5. CASE Licensed
    <3>1. \A e \in Ent : InForce(e)' => Current(e) /\ ents[e].dev \in Device
      <4>1. ASSUME NEW e \in Ent, lics'[e] # lics[e], lics'[e].state = "ACTIVE"
            PROVE  InForce(e)
        BY <2>5, <4>1, LicensedEffect
      <4> QED BY <1>1, <2>5, <4>1, LicensedEffect
    <3>2. \A e \in Ent : InForce(e)' => Current(e)'
      BY <2>3, <2>5, <3>1, LicensedEffect
    <3> QED BY <2>2, <3>2 DEF OldGenerationIsDead
  <2>6. ASSUME NEW d \in Device, NEW f \in Ent, Granted(d, f) PROVE OldGenerationIsDead'
    <3>1. \A e \in Ent : InForce(e)' => Current(e)'
      BY <1>1, <2>3, <2>6 DEF Granted, Serves
    <3> QED BY <2>2, <3>1 DEF OldGenerationIsDead
  <2>7. ASSUME NEW m \in Mover, NEW f \in Ent, MoveCommit(m, f) PROVE OldGenerationIsDead'
    <3>1. \A e \in Ent : InForce(e)' => Current(e)'
      BY <1>1, <2>3, <2>7, MoveEffect DEF IInv, Rooted
    <3> QED BY <2>2, <3>1 DEF OldGenerationIsDead
  <2> QED
    BY <1>3, <2>4, <2>5, <2>6, <2>7, NextCases, AsideEffect, GrantEffect, FulfillEffect
<1>4. ASSUME NEW d \in Device, Reset(d) PROVE OldGenerationIsDead'
  <2>1. \A x \in Device \ {d} : device'[x] = device[x]
    BY <1>4, ResetEffect
  <2>2. device' # device
    BY <1>4 DEF IInv, LTypeOK, Reset, DeviceRow, Gen
  <2>3. CodesCurrent'
    <3>1. ASSUME NEW c \in Code, codes'[c].state = "ISSUED"
          PROVE  codes'[c].gen = device'[codes'[c].dev].gen
      <4>1. /\ codes[c].state = "ISSUED" /\ codes'[c] = codes[c]
            /\ codes[c].dev # d \/ codes[c].gen # device[d].gen
        BY <1>4, <2>2, <3>1, CodesEffect
      <4> QED BY <1>2, <2>1, <4>1
    <3> QED BY <3>1
  <2>4. ASSUME NEW e \in Ent, InForce(e)' PROVE Current(e)'
    <3>1. ~Here(e, d) /\ ents'[e] = ents[e] /\ lics'[e] = lics[e]
      BY <1>4, <2>4, ResetEffect
    <3>2. InForce(e)
      BY <2>4, <3>1
    <3>3. ents[e].dev \in Device \ {d} /\ Current(e)
      BY <1>1, <3>1, <3>2 DEF IInv, Rooted, Fresh, Here
    <3> QED BY <2>1, <3>1, <3>3
  <2> QED BY <2>3, <2>4 DEF OldGenerationIsDead
<1> QED BY <1>3, <1>4

\* No license comes into force on a blocked device.
LEMMA NextBlocked == ASSUME IInv, LNext PROVE BlockedHasNoLicense'
<1> USE DEF IInv, LTypeOK, Rooted, Fresh, BlockedHasNoLicense
<1>1. CASE \A d \in Device : ~Reset(d)
  <2>1. CASE UNCHANGED <<ents, lics>>
    BY <1>1, <2>1, DeviceKept
  <2>2. CASE Licensed
    <3>1. ASSUME NEW e \in Ent, lics'[e].state = "ACTIVE", device'[ents[e].dev].blocked
          PROVE  FALSE
      BY <1>1, <2>2, <3>1, LicensedEffect, DeviceKept DEF Serves
    <3> QED BY <2>2, <3>1, LicensedEffect
  <2>3. ASSUME NEW d \in Device, NEW f \in Ent, Granted(d, f) PROVE BlockedHasNoLicense'
    BY <2>3 DEF Granted, Serves
  <2>4. ASSUME NEW m \in Mover, NEW f \in Ent, MoveCommit(m, f) PROVE BlockedHasNoLicense'
    BY <2>4, MoveEffect DEF SamePlace
  <2> QED
    BY <1>1, <2>1, <2>2, <2>3, <2>4, NextCases, AsideEffect, GrantEffect, FulfillEffect
<1>2. ASSUME NEW d \in Device, Reset(d) PROVE BlockedHasNoLicense'
  <2>1. \A x \in Device : device'[x].blocked = device[x].blocked
    BY <1>2 DEF Reset, DeviceRow
  <2> QED BY <1>2, <2>1, ResetEffect DEF SamePlace
<1> QED BY <1>1, <1>2

-----------------------------------------------------------------------------
(* Theorems.                                                               *)

LEMMA LInitInvariant == LInit => IInv
<1> SUFFICES ASSUME LInit PROVE IInv
  OBVIOUS
<1>1. LTypeOK
  BY GenBound, VersionBound DEF LInit, LTypeOK, DeviceRow, EntRow, LicRow, CodeRow, OrderRow, MoveRow,
     GrantRow, NoMove, NoGrant, Gen
<1>2. Rooted /\ Locked /\ Moving
  BY NoneIsNoRow DEF LInit, Rooted, Locked, Moving, Fresh, Moved, NoMove, NoGrant
<1>3. MovedIsDead /\ OldGenerationIsDead /\ BlockedHasNoLicense
  BY DEF LInit, MovedIsDead, OldGenerationIsDead, BlockedHasNoLicense
<1> QED BY <1>1, <1>2, <1>3 DEF IInv

LEMMA LStepInvariant == IInv /\ [LNext]_lvars => IInv'
<1>1. ASSUME IInv, LNext PROVE IInv'
  BY <1>1, NextType, NextRooted, NextLocked, NextMoving, NextMoved, NextGeneration, NextBlocked
     DEF IInv
<1>2. ASSUME IInv, UNCHANGED lvars PROVE IInv'
  BY <1>2 DEF lvars, IInv, LTypeOK, Rooted, Locked, Moving, MovedIsDead, OldGenerationIsDead,
              BlockedHasNoLicense, Fresh, Moved, Serves
<1> QED BY <1>1, <1>2

LEMMA LInvariance == LSpec => []IInv
BY LInitInvariant, LStepInvariant, PTL DEF LSpec

\* Every row of the tables and every local of a transaction keeps its type.
THEOREM LicensingTypeCorrect == LSpec => []LTypeOK
BY LInvariance, PTL DEF IInv

\* An entitlement that was moved away, and its license, are never in force again,
\* however many moves, recoveries, grants and resets overlap.
THEOREM MovedStaysDead == LSpec => []MovedIsDead
BY LInvariance, PTL DEF IInv

\* Entitlements, licenses and codes in force belong to the present generation of
\* a claimed device: a reset ends everything, also what a move, a redemption or a
\* pickup has under way.
THEOREM ResetEndsAll == LSpec => []OldGenerationIsDead
BY LInvariance, PTL DEF IInv

\* No license is in force on a device that is blocked for the product.
THEOREM BlockHolds == LSpec => []BlockedHasNoLicense
BY LInvariance, PTL DEF IInv

-----------------------------------------------------------------------------
(* The tenure of a grant. What a move has locked stays where it is, so that a *)
(* chain of moves is in force on one device and a device has one chain.       *)

\* first is the row the chain of moves began with: the recursion over from.
Chained ==
  \A e \in Ent : ~Fresh(e) =>
    /\ ents[e].first \in Ent /\ ~Fresh(ents[e].first)
    /\ ents[e].first = IF ents[e].from = None THEN e ELSE ents[ents[e].from].first

\* Two rows in force are on two devices and of two grants.
Alone ==
  \A e, f \in Ent : ents[e].state = "ACTIVE" /\ ents[f].state = "ACTIVE" /\ e # f =>
    ents[e].dev # ents[f].dev /\ ents[e].first # ents[f].first

\* No customer is locked by two moves.
Apart == \A m, n \in Mover : m # n => Holds(m) \cap Holds(n) = {}

\* The entitlement a move has locked stays in force, and nothing arrives on the
\* target it has checked.
Held ==
  \A m \in Mover :
    /\ move[m].stage # "idle" => ents[move[m].ent].state = "ACTIVE"
    /\ move[m].stage = "to" => \A e \in Ent : ents[e].state = "ACTIVE" => ents[e].dev # move[m].to

TenureInv == IInv /\ Chained /\ Alone /\ Apart /\ Held

\* A row that exists stays where it is.
Placed == \A e \in Ent : ~Fresh(e) => SamePlace(e) /\ ents'[e].first = ents[e].first /\ ~Fresh(e)'

\* Inserts(d, f): the row of a grant or a delivery.
Inserts(d, f) ==
  /\ Fresh(f) /\ CustomerFree(d) /\ move' = move
  /\ \A e \in Ent : ents[e].state = "ACTIVE" => ents[e].dev # d
  /\ \A e \in Ent \ {f} : ents'[e] = ents[e]
  /\ ents'[f].state = "ACTIVE" /\ ents'[f].dev = d
  /\ ents'[f].from = None /\ ents'[f].first = f

LEMMA NewRow ==
  ASSUME IInv, NEW f \in Ent, NEW d \in Device, NEW src, ents' = [ents EXCEPT ![f] = NewEnt(f, d, src, None)]
  PROVE  /\ \A e \in Ent \ {f} : ents'[e] = ents[e]
         /\ ents'[f].state = "ACTIVE" /\ ents'[f].dev = d
         /\ ents'[f].from = None /\ ents'[f].first = f
<1>1. ents'[f] = NewEnt(f, d, src, None)
  BY DEF IInv, LTypeOK
<1> QED BY <1>1 DEF IInv, LTypeOK, NewEnt

LEMMA ActiveIsHere ==
  ASSUME IInv, NEW e \in Ent, ents[e].state = "ACTIVE"
  PROVE  ents[e].dev \in Device /\ Here(e, ents[e].dev) /\ ~Moved(e)
BY DEF IInv, Rooted, OldGenerationIsDead, MovedIsDead, Here

LEMMA GrantInserts ==
  ASSUME IInv, NEW g \in Granter, NEW f \in Ent, GrantLicense(g, f)
  PROVE  move' = move /\ (ents' = ents \/ \E d \in Device : Inserts(d, f))
<1> DEFINE d == grant[g].dev
<1>1. d \in Device /\ CustomerFree(d) /\ move' = move
  BY DEF IInv, Locked, GrantLicense
<1>2. CASE ActiveOn(d) = {}
  <2>1. Fresh(f) /\ \E src : ents' = [ents EXCEPT ![f] = NewEnt(f, d, src, None)]
    BY <1>2 DEF GrantLicense
  <2>2. \A e \in Ent : ents[e].state = "ACTIVE" => ents[e].dev # d
    BY <1>2, ActiveIsHere DEF ActiveOn
  <2> HIDE DEF d
  <2>3. PICK src : ents' = [ents EXCEPT ![f] = NewEnt(f, d, src, None)]
    BY <2>1
  <2>4. /\ \A e \in Ent \ {f} : ents'[e] = ents[e]
        /\ ents'[f].state = "ACTIVE" /\ ents'[f].dev = d
        /\ ents'[f].from = None /\ ents'[f].first = f
    BY <1>1, <2>3, NewRow
  <2>5. Inserts(d, f)
    BY <1>1, <2>1, <2>2, <2>4 DEF Inserts
  <2> QED BY <1>1, <2>5
<1>3. CASE ActiveOn(d) # {}
  BY <1>1, <1>3 DEF GrantLicense
<1> QED BY <1>1, <1>2, <1>3

LEMMA FulfillInserts ==
  ASSUME IInv, NEW d \in Device, NEW f \in Ent, Fulfill(d, f)
  PROVE  move' = move /\ (ents' = ents \/ Inserts(d, f))
<1>1. CASE ents' = ents
  BY <1>1 DEF Fulfill
<1>2. CASE ents' # ents
  <2>1. /\ ~Owns(d) /\ CustomerFree(d) /\ Fresh(f) /\ move' = move
        /\ ents' = [ents EXCEPT ![f] = NewEnt(f, d, "PURCHASE", None)]
    BY <1>2 DEF Fulfill
  <2>2. \A e \in Ent : ents[e].state = "ACTIVE" => ents[e].dev # d
    BY <2>1, ActiveIsHere DEF Owns
  <2> QED BY <2>1, <2>2, NewRow DEF Inserts
<1> QED BY <1>1, <1>2

\* Commits(m, e, t, f): the rows of a move.
Commits(m, e, t, f) ==
  /\ move[m].stage = "to" /\ move[m].ent = e /\ move[m].to = t /\ move' = [move EXCEPT ![m] = NoMove]
  /\ e # f /\ Fresh(f) /\ ~Fresh(e)
  /\ \A x \in Ent \ {e, f} : ents'[x] = ents[x]
  /\ ents'[e].state = "REVOKED" /\ SamePlace(e) /\ ents'[e].first = ents[e].first
  /\ ents'[f].state = "ACTIVE" /\ ents'[f].from = e /\ ents'[f].dev = t
  /\ ents'[f].first = ents[e].first

LEMMA CommitRows ==
  ASSUME IInv, NEW m \in Mover, NEW f \in Ent, MoveCommit(m, f)
  PROVE  \E e \in Ent, t \in Device : Commits(m, e, t, f)
<1> DEFINE e == move[m].ent
           t == move[m].to
<1>1. /\ e \in Ent /\ t \in Device /\ e # f /\ Fresh(f) /\ ~Fresh(e)
      /\ \A x \in Ent \ {e, f} : ents'[x] = ents[x]
      /\ ents'[e].state = "REVOKED" /\ SamePlace(e)
      /\ ents'[f].state = "ACTIVE" /\ ents'[f].from = e /\ ents'[f].dev = t
  BY MoveEffect DEF Fresh
<1>2. ents' = MovedRows(e, t, f) /\ move[m].stage = "to" /\ move' = [move EXCEPT ![m] = NoMove]
  BY DEF MoveCommit
<1> HIDE DEF e, t
<1>3. ents'[e].first = ents[e].first
  BY <1>1, <1>2 DEF IInv, LTypeOK, EntRow, MovedRows
<1>4. ents'[f].first = ents[e].first
  <2>1. ents'[f] = NewEnt(f, t, "TRANSFER", e)
    BY <1>1, <1>2 DEF IInv, LTypeOK, MovedRows
  <2> QED BY <1>1, <2>1, NoneIsNoRow DEF NewEnt
<1> QED BY <1>1, <1>2, <1>3, <1>4 DEF Commits, e, t

LEMMA ResetRows ==
  ASSUME IInv, NEW d \in Device, Reset(d)
  PROVE  /\ CustomerFree(d) /\ move' = move
         /\ \A e \in Ent : ents[e].dev # d => ents'[e] = ents[e]
         /\ \A e \in Ent : SamePlace(e) /\ ents'[e].first = ents[e].first
         /\ \A e \in Ent : ents'[e].state = "ACTIVE" => ents[e].state = "ACTIVE" /\ ents[e].dev # d
         /\ \A e \in Ent : ents'[e].state = "NONE" <=> ents[e].state = "NONE"
<1>1. CustomerFree(d) /\ move' = move /\ ents' = ResetEnts(d)
  BY DEF Reset, ResetMayRun
<1>2. \A e \in Ent : IF Here(e, d) THEN ents'[e] = [ents[e] EXCEPT !.state = "RESET"] ELSE ents'[e] = ents[e]
  BY <1>1 DEF ResetEnts
<1>3. \A e \in Ent : SamePlace(e) /\ ents'[e].first = ents[e].first
  BY <1>2 DEF IInv, LTypeOK, EntRow, SamePlace
<1>4. \A e \in Ent : Here(e, d) => ents'[e].state = "RESET" /\ ents[e].state # "NONE" /\ ents[e].dev = d
  BY <1>2 DEF IInv, LTypeOK, EntRow, Here
<1>5. \A e \in Ent : ents[e].state = "ACTIVE" /\ ents[e].dev = d => Here(e, d)
  BY ActiveIsHere
<1> QED BY <1>1, <1>2, <1>3, <1>4, <1>5

\* What a step does to entitlements and moves.
LEMMA TenureCases ==
  ASSUME IInv, LNext
  PROVE  \/ ents' = ents /\ move' = move
         \/ \E d \in Device, f \in Ent : Inserts(d, f)
         \/ \E m \in Mover, e \in Ent, t \in Device, f \in Ent : Commits(m, e, t, f)
         \/ \E d \in Device : Reset(d)
         \/ \E m \in Mover, e \in Ent, t \in Device, b \in BOOLEAN : MoveFrom(m, e, t, b)
         \/ \E m \in Mover : MoveTo(m) \/ MoveAbort(m)
<1>1. CASE Licensed
  BY <1>1 DEF Licensed, PickUp, Revoke, Recover, Restrict
<1>2. CASE Aside
  BY <1>2 DEF Aside, Claim, EndOrder, PayOrder, CancelCode, IssueCode, GrantBegin, GrantOrder, GrantAbort
<1> QED BY <1>1, <1>2, NextCases, GrantInserts, FulfillInserts, CommitRows

LEMMA RowsPlaced == ASSUME IInv, LNext PROVE Placed
<1>1. CASE ents' = ents
  BY <1>1 DEF Placed, SamePlace, Fresh
<1>2. ASSUME NEW d \in Device, NEW f \in Ent, Inserts(d, f) PROVE Placed
  BY <1>2 DEF Inserts, Placed, SamePlace, Fresh
<1>3. ASSUME NEW m \in Mover, NEW e \in Ent, NEW t \in Device, NEW f \in Ent, Commits(m, e, t, f)
      PROVE  Placed
  BY <1>3 DEF Commits, Placed, SamePlace, Fresh
<1>4. ASSUME NEW d \in Device, Reset(d) PROVE Placed
  BY <1>4, ResetRows DEF Placed, Fresh
<1>5. (\E m \in Mover : \/ \E e \in Ent, t \in Device, b \in BOOLEAN : MoveFrom(m, e, t, b)
                        \/ MoveTo(m) \/ MoveAbort(m)) => ents' = ents
  BY DEF MoveFrom, MoveTo, MoveAbort
<1> QED BY <1>1, <1>2, <1>3, <1>4, <1>5, TenureCases

LEMMA NextChained == ASSUME TenureInv, LNext PROVE Chained'
<1>0. IInv /\ Placed /\ Chained /\ \A e \in Ent : ents[e].from \in Ent \cup {None}
  BY RowsPlaced DEF TenureInv, IInv, LTypeOK, EntRow
<1>1. \A e \in Ent : ~Fresh(e) /\ ents[e].from # None => ~Fresh(ents[e].from)
  BY <1>0 DEF IInv, Rooted, Moved
<1> DEFINE Good(e) == /\ ents'[e].first \in Ent /\ ents'[ents'[e].first].state # "NONE"
                      /\ ents'[e].first = IF ents'[e].from = None THEN e ELSE ents'[ents'[e].from].first
<1>2. ASSUME NEW e \in Ent, ~Fresh(e) PROVE Good(e)
  BY <1>0, <1>1, <1>2 DEF Placed, SamePlace, Chained, Fresh
<1>3. ASSUME NEW d \in Device, NEW f \in Ent, Inserts(d, f)
      PROVE  Good(f) /\ \A e \in Ent \ {f} : Fresh(e) => Fresh(e)'
  BY <1>3 DEF Inserts, Fresh
<1>4. ASSUME NEW m \in Mover, NEW e \in Ent, NEW t \in Device, NEW f \in Ent, Commits(m, e, t, f)
      PROVE  Good(f) /\ \A x \in Ent \ {f} : Fresh(x) => Fresh(x)'
  <2>1. ents[e].first \in Ent /\ ~Fresh(ents[e].first) /\ ents[e].first # f
    BY <1>0, <1>4 DEF Commits, Chained
  <2>2. ents'[f].first \in Ent /\ ents'[ents'[f].first].state # "NONE"
    BY <1>0, <1>4, <2>1 DEF Commits, Placed, Fresh
  <2>3. ents'[f].from = e /\ ents'[e].first = ents'[f].first
    BY <1>4 DEF Commits
  <2>4. \A x \in Ent \ {f} : Fresh(x) => Fresh(x)'
    BY <1>4 DEF Commits, Fresh
  <2> QED BY <2>2, <2>3, <2>4, NoneIsNoRow
<1>5. ASSUME NEW d \in Device, Reset(d) PROVE \A e \in Ent : Fresh(e) => Fresh(e)'
  BY <1>0, <1>5, ResetRows DEF Fresh
<1>6. (\E m \in Mover : \/ \E e \in Ent, t \in Device, b \in BOOLEAN : MoveFrom(m, e, t, b)
                        \/ MoveTo(m) \/ MoveAbort(m)) => ents' = ents
  BY DEF MoveFrom, MoveTo, MoveAbort
<1>7. \A e \in Ent : ~Fresh(e)' => Good(e)
  <2> HIDE DEF Good
  <2>1. ents' = ents => \A e \in Ent : Fresh(e) => Fresh(e)'
    BY DEF Fresh
  <2> QED BY <1>0, <1>2, <1>3, <1>4, <1>5, <1>6, <2>1, TenureCases
<1> QED BY <1>7 DEF Chained, Fresh

LEMMA NextAlone == ASSUME TenureInv, LNext PROVE Alone'
<1>0. /\ IInv /\ Placed /\ Chained /\ Alone /\ Held
      /\ \A e \in Ent : ents[e].state = "ACTIVE" => ~Fresh(e)
  BY RowsPlaced DEF TenureInv, Fresh
<1>1. CASE \A e \in Ent : ents'[e].state = "ACTIVE" => ents[e].state = "ACTIVE"
  BY <1>0, <1>1 DEF Alone, Placed, SamePlace
<1>2. ASSUME NEW d \in Device, NEW f \in Ent, Inserts(d, f) PROVE Alone'
  <2>1. ASSUME NEW e \in Ent \ {f}, ents'[e].state = "ACTIVE"
        PROVE  ents'[e].dev # ents'[f].dev /\ ents'[e].first # ents'[f].first
    BY <1>0, <1>2, <2>1 DEF Inserts, Chained
  <2>2. \A x, y \in Ent \ {f} : ents'[x] = ents[x] /\ ents'[y] = ents[y]
    BY <1>2 DEF Inserts
  <2> QED BY <1>0, <2>1, <2>2 DEF Alone
<1>3. ASSUME NEW m \in Mover, NEW e \in Ent, NEW t \in Device, NEW f \in Ent, Commits(m, e, t, f)
      PROVE  Alone'
  <2>1. ents[e].state = "ACTIVE" /\ \A x \in Ent : ents[x].state = "ACTIVE" => ents[x].dev # t
    BY <1>0, <1>3 DEF Commits, Held
  <2>2. \A x \in Ent \ {e, f} : ents'[x] = ents[x]
    BY <1>3 DEF Commits
  <2>3. ASSUME NEW x \in Ent \ {f}, ents'[x].state = "ACTIVE"
        PROVE  x # e /\ ents'[x].dev # ents'[f].dev /\ ents'[x].first # ents'[f].first
    <3>1. x # e
      BY <1>3, <2>3 DEF Commits
    <3> QED BY <1>0, <1>3, <2>1, <2>2, <2>3, <3>1 DEF Commits, Alone
  <2> QED BY <1>0, <2>2, <2>3 DEF Alone
<1>4. ASSUME NEW d \in Device, Reset(d)
      PROVE  \A e \in Ent : ents'[e].state = "ACTIVE" => ents[e].state = "ACTIVE"
  BY <1>0, <1>4, ResetRows
<1>5. (\E m \in Mover : \/ \E e \in Ent, t \in Device, b \in BOOLEAN : MoveFrom(m, e, t, b)
                        \/ MoveTo(m) \/ MoveAbort(m)) => ents' = ents
  BY DEF MoveFrom, MoveTo, MoveAbort
<1> QED BY <1>0, <1>1, <1>2, <1>3, <1>4, <1>5, TenureCases

\* What a move holds changes only with its own steps.
LEMMA HoldsKept ==
  ASSUME IInv, LNext, NEW m \in Mover, move'[m] = move[m]
  PROVE  Holds(m)' = Holds(m)
<1>1. move[m].stage # "idle" => move[m].ent \in Ent /\ ~Fresh(move[m].ent)
  BY DEF IInv, Moving, Fresh
<1>2. move[m].stage # "idle" => ents'[move[m].ent].dev = ents[move[m].ent].dev
  BY <1>1, RowsPlaced DEF Placed, SamePlace
<1>3. move[m].stage \in {"idle", "from", "to"}
  BY DEF IInv, LTypeOK, MoveRow
<1> QED BY <1>2, <1>3 DEF Holds

\* The moves after a step: those before, one that ended, or one that locked a
\* customer that no move held.
LEMMA MoveRows ==
  ASSUME IInv, LNext
  PROVE  \/ move' = move
         \/ \E m \in Mover : move'[m] = NoMove /\ \A n \in Mover \ {m} : move'[n] = move[n]
         \/ \E m \in Mover, d \in Device :
              /\ ents' = ents /\ CustomerFree(d) /\ Holds(m)' \subseteq Holds(m) \cup {d}
              /\ \A n \in Mover \ {m} : move'[n] = move[n]
<1>1. ASSUME NEW m \in Mover, NEW e \in Ent, NEW t \in Device, NEW b \in BOOLEAN, MoveFrom(m, e, t, b)
      PROVE  \E d \in Device :
              /\ ents' = ents /\ CustomerFree(d) /\ Holds(m)' \subseteq Holds(m) \cup {d}
              /\ \A n \in Mover \ {m} : move'[n] = move[n]
  <2>1. /\ ents' = ents /\ CustomerFree(ents[e].dev) /\ ents[e].dev \in Device
        /\ move'[m] = [stage |-> "from", ent |-> e, to |-> t]
        /\ \A n \in Mover \ {m} : move'[n] = move[n]
    BY <1>1, ActiveIsHere DEF MoveFrom, IInv, LTypeOK
  <2>2. Holds(m)' = {ents[e].dev}
    BY <2>1 DEF Holds
  <2> QED BY <2>1, <2>2
<1>2. ASSUME NEW m \in Mover, MoveTo(m)
      PROVE  \E d \in Device :
              /\ ents' = ents /\ CustomerFree(d) /\ Holds(m)' \subseteq Holds(m) \cup {d}
              /\ \A n \in Mover \ {m} : move'[n] = move[n]
  <2>1. /\ ents' = ents /\ move[m].stage = "from" /\ CustomerFree(move[m].to) /\ move[m].to \in Device
        /\ move'[m].stage = "to" /\ move'[m].ent = move[m].ent /\ move'[m].to = move[m].to
        /\ \A n \in Mover \ {m} : move'[n] = move[n]
    BY <1>2 DEF MoveTo, IInv, LTypeOK, MoveRow, Moving
  <2>2. Holds(m)' \subseteq Holds(m) \cup {move[m].to}
    BY <2>1 DEF Holds
  <2> QED BY <2>1, <2>2
<1>3. ASSUME NEW m \in Mover, move' = [move EXCEPT ![m] = NoMove]
      PROVE  move'[m] = NoMove /\ \A n \in Mover \ {m} : move'[n] = move[n]
  BY <1>3 DEF IInv, LTypeOK
<1> QED BY <1>1, <1>2, <1>3, TenureCases, ResetRows DEF Inserts, Commits, MoveAbort

LEMMA NextApart == ASSUME TenureInv, LNext PROVE Apart'
<1>0. IInv /\ Apart
  BY DEF TenureInv
<1>1. ASSUME NEW k \in Mover, \A n \in Mover \ {k} : move'[n] = move[n] /\ Holds(n)' \cap Holds(k)' = {}
      PROVE  Apart'
  <2>1. \A n \in Mover \ {k} : Holds(n)' = Holds(n)
    BY <1>0, <1>1, HoldsKept
  <2> QED BY <1>0, <1>1, <2>1 DEF Apart
<1>2. CASE move' = move
  <2>1. \A n \in Mover : Holds(n)' = Holds(n)
    BY <1>0, <1>2, HoldsKept
  <2> QED BY <1>0, <2>1 DEF Apart
<1>3. ASSUME NEW m \in Mover, move'[m] = NoMove, \A n \in Mover \ {m} : move'[n] = move[n]
      PROVE  Apart'
  <2>1. Holds(m)' = {}
    BY <1>3 DEF Holds, NoMove
  <2> QED BY <1>1, <1>3, <2>1
<1>4. ASSUME NEW m \in Mover, NEW d \in Device, CustomerFree(d), Holds(m)' \subseteq Holds(m) \cup {d},
             \A n \in Mover \ {m} : move'[n] = move[n]
      PROVE  Apart'
  <2>1. ASSUME NEW n \in Mover \ {m} PROVE Holds(n)' \cap Holds(m)' = {}
    <3>1. Holds(n)' = Holds(n)
      BY <1>0, <1>4, HoldsKept
    <3> QED BY <1>0, <1>4, <3>1 DEF Apart, CustomerFree
  <2> QED BY <1>1, <1>4, <2>1
<1> QED BY <1>0, <1>2, <1>3, <1>4, MoveRows

LEMMA NextHeld == ASSUME TenureInv, LNext PROVE Held'
<1>0. IInv /\ Apart /\ Held
  BY DEF TenureInv
<1>1. \A n \in Mover : move[n].stage # "idle" => /\ move[n].ent \in Ent /\ ~Fresh(move[n].ent)
                                                 /\ ents[move[n].ent].dev \in Holds(n)
  BY <1>0 DEF IInv, LTypeOK, MoveRow, Moving, Holds, Fresh
<1>2. \A n \in Mover : move[n].stage = "to" => move[n].to \in Holds(n)
  BY DEF Holds
<1>3. ASSUME NEW d \in Device, NEW f \in Ent, Inserts(d, f) PROVE Held'
  <2>1. \A n \in Mover : move[n].stage # "idle" => move[n].ent # f
    BY <1>1, <1>3 DEF Inserts
  <2>2. \A n \in Mover : move[n].stage = "to" => move[n].to # d
    BY <1>2, <1>3 DEF Inserts, CustomerFree
  <2> QED BY <1>0, <1>1, <1>3, <2>1, <2>2 DEF Inserts, Held
<1>4. ASSUME NEW m \in Mover, NEW e \in Ent, NEW t \in Device, NEW f \in Ent, Commits(m, e, t, f)
      PROVE  Held'
  <2>1. move'[m].stage = "idle" /\ \A n \in Mover \ {m} : move'[n] = move[n]
    BY <1>0, <1>4 DEF Commits, NoMove, IInv, LTypeOK
  <2>2. ents[e].dev \in Holds(m) /\ t \in Holds(m)
    BY <1>1, <1>2, <1>4 DEF Commits
  <2>3. \A n \in Mover \ {m} : move[n].stage # "idle" => move[n].ent # e /\ move[n].ent # f
    BY <1>0, <1>1, <1>4, <2>2 DEF Apart, Commits
  <2>4. \A n \in Mover \ {m} : move[n].stage = "to" => move[n].to # t
    BY <1>0, <1>2, <2>2 DEF Apart
  <2> QED BY <1>0, <1>1, <1>4, <2>1, <2>3, <2>4 DEF Commits, Held
<1>5. ASSUME NEW d \in Device, Reset(d) PROVE Held'
  <2>1. \A n \in Mover : move[n].stage # "idle" => ents[move[n].ent].dev # d
    BY <1>0, <1>1, <1>5, ResetRows DEF CustomerFree
  <2> QED BY <1>0, <1>1, <1>5, <2>1, ResetRows DEF Held, SamePlace
<1>6. ASSUME NEW m \in Mover, NEW e \in Ent, NEW t \in Device, NEW b \in BOOLEAN, MoveFrom(m, e, t, b)
      PROVE  Held'
  BY <1>0, <1>6 DEF MoveFrom, Held, IInv, LTypeOK
<1>7. ASSUME NEW m \in Mover, MoveTo(m) PROVE Held'
  <2>1. \A e \in Ent : ents[e].state = "ACTIVE" => ents[e].dev # move[m].to
    BY <1>0, <1>7, ActiveIsHere DEF MoveTo, Owns
  <2>2. move'[m].ent = move[m].ent /\ move'[m].to = move[m].to /\ \A n \in Mover \ {m} : move'[n] = move[n]
    BY <1>0, <1>7 DEF MoveTo, IInv, LTypeOK, MoveRow
  <2> QED BY <1>0, <1>7, <2>1, <2>2 DEF MoveTo, Held
<1>8. ASSUME NEW m \in Mover, MoveAbort(m) PROVE Held'
  BY <1>0, <1>8 DEF MoveAbort, Held, NoMove, IInv, LTypeOK
<1>9. CASE ents' = ents /\ move' = move
  BY <1>0, <1>9 DEF Held
<1> QED BY <1>0, <1>3, <1>4, <1>5, <1>6, <1>7, <1>8, <1>9, TenureCases

LEMMA TenureInit == LInit => TenureInv
BY LInitInvariant DEF LInit, TenureInv, Chained, Alone, Apart, Held, Fresh, Holds, NoMove

LEMMA TenureStep == TenureInv /\ [LNext]_lvars => TenureInv'
<1>1. ASSUME TenureInv, LNext PROVE TenureInv'
  BY <1>1, LStepInvariant, NextChained, NextAlone, NextApart, NextHeld DEF TenureInv
<1>2. ASSUME TenureInv, UNCHANGED lvars PROVE TenureInv'
  <2>1. IInv'
    BY <1>2, LStepInvariant DEF TenureInv
  <2> QED BY <1>2, <2>1 DEF lvars, TenureInv, Chained, Alone, Apart, Held, Fresh, Holds
<1> QED BY <1>1, <1>2

LEMMA TenureInvariance == LSpec => []TenureInv
BY TenureInit, TenureStep, PTL DEF LSpec

-----------------------------------------------------------------------------
(* Steps of the rows are steps of the tenure.                              *)

\* The grants of Tenure that were given.
Given == {r \in Ent : ents[r].state # "NONE" /\ ents[r].from = None}

\* A device that no row is in force on is free.
LEMMA FreeDevice ==
  ASSUME NEW d \in Device, \A e \in Ent : ents[e].state = "ACTIVE" => ents[e].dev # d
  PROVE  \A r \in Ent : d \notin Tenancy[r]
BY DEF Tenancy, Chain

LEMMA InsertGives ==
  ASSUME TenureInv, NEW d \in Device, NEW f \in Ent, Inserts(d, f)
  PROVE  /\ f \notin Given /\ (\A r \in Ent : d \notin Tenancy[r])
         /\ Given' = Given \cup {f} /\ Tenancy' = [Tenancy EXCEPT ![f] = {d}]
<1>1. f \notin Given /\ Given' = Given \cup {f}
  BY DEF Inserts, Given, Fresh
<1>2. \A e \in Ent : ents[e].state = "ACTIVE" => ents[e].first # f
  BY DEF Inserts, TenureInv, Chained, Fresh
<1>3. Chain(f)' = {f}
  BY <1>2 DEF Inserts, Chain
<1>4. \A r \in Ent \ {f} : Chain(r)' = Chain(r) /\ f \notin Chain(r)
  BY DEF Inserts, Chain, Fresh
<1>5. Tenancy'[f] = {d}
  BY <1>3 DEF Inserts, Tenancy
<1>6. \A r \in Ent \ {f} : Tenancy'[r] = Tenancy[r]
  BY <1>4 DEF Inserts, Tenancy, Chain
<1>7. Tenancy' = [Tenancy EXCEPT ![f] = {d}]
  BY <1>5, <1>6 DEF Tenancy
<1> QED BY <1>1, <1>7, FreeDevice DEF Inserts

LEMMA CommitCarries ==
  ASSUME TenureInv, NEW m \in Mover, NEW e \in Ent, NEW t \in Device, NEW f \in Ent, Commits(m, e, t, f)
  PROVE  /\ ents[e].first \in Ent /\ ents[e].dev \in Device
         /\ Tenancy[ents[e].first] = {ents[e].dev} /\ (\A r \in Ent : t \notin Tenancy[r])
         /\ Given' = Given /\ Tenancy' = [Tenancy EXCEPT ![ents[e].first] = {t}]
<1> DEFINE r == ents[e].first
<1>1. IInv /\ ents[e].state = "ACTIVE" /\ \A x \in Ent : ents[x].state = "ACTIVE" => ents[x].dev # t
  BY DEF TenureInv, Held, Commits
<1>2. r \in Ent /\ ents[e].dev \in Device
  BY <1>1, ActiveIsHere DEF TenureInv, Chained, Fresh
<1>3. Chain(r) = {e}
  BY <1>1 DEF TenureInv, Alone, Chain
<1>4. Chain(r)' = {f}
  BY <1>1 DEF TenureInv, Alone, Commits, Chain
<1>5. \A q \in Ent \ {r} : /\ Chain(q)' = Chain(q)
                           /\ \A x \in Chain(q) : ents'[x] = ents[x]
  BY <1>1 DEF Commits, Chain, Fresh
<1>6. Tenancy[r] = {ents[e].dev} /\ Tenancy'[r] = {t}
  BY <1>2, <1>3, <1>4 DEF Tenancy, Commits
<1>7. \A q \in Ent \ {r} : Tenancy'[q] = Tenancy[q]
  BY <1>5 DEF Tenancy
<1> HIDE DEF r
<1>8. Tenancy' = [Tenancy EXCEPT ![r] = {t}]
  BY <1>6, <1>7 DEF Tenancy
<1>9. Given' = Given
  <2>1. ents'[f].from # None /\ ents[f].state = "NONE"
    BY NoneIsNoRow DEF Commits, Fresh
  <2>2. ents'[e].from = ents[e].from /\ ents[e].state # "NONE" /\ ents'[e].state # "NONE"
    BY DEF Commits, SamePlace, Fresh
  <2> QED BY <2>1, <2>2 DEF Given, Commits
<1> QED BY <1>1, <1>2, <1>6, <1>8, <1>9, FreeDevice DEF r

LEMMA ResetEnds ==
  ASSUME TenureInv, NEW d \in Device, Reset(d)
  PROVE  Given' = Given /\ Tenancy' = [r \in Ent |-> Tenancy[r] \ {d}]
<1>0. IInv
  BY DEF TenureInv
<1>1. Given' = Given
  BY <1>0, ResetRows DEF Given, SamePlace
<1>2. \A e \in Ent : ents[e].dev # d => ents'[e] = ents[e]
  BY <1>0, ResetRows
<1>3. \A e \in Ent : ents'[e].state = "ACTIVE" => ents[e].state = "ACTIVE" /\ ents[e].dev # d
  BY <1>0, ResetRows
<1>4. \A r \in Ent : Chain(r)' = {e \in Chain(r) : ents[e].dev # d}
  BY <1>2, <1>3 DEF Chain
<1>5. \A r \in Ent : Tenancy'[r] = Tenancy[r] \ {d}
  BY <1>2, <1>4 DEF Tenancy, Chain
<1> QED BY <1>1, <1>5 DEF Tenancy

\* Licensing implements Tenure: each grant is given once, to a device that was
\* free, is carried only to a free device, and once it ended is in force nowhere
\* again, however moves, grants, orders and resets interleave.
THEOREM ImplementsTenure == LSpec => KeepsTenure
<1>1. LInit => Title!Init
  BY DEF LInit, Title!Init, Tenancy, Chain
<1>2. TenureInv /\ [LNext]_lvars => [Title!Next]_<<Tenancy, Given>>
  <2> SUFFICES ASSUME TenureInv, [LNext]_lvars PROVE [Title!Next]_<<Tenancy, Given>>
    OBVIOUS
  <2>0. IInv
    BY DEF TenureInv
  <2>1. CASE ents' = ents
    BY <2>1 DEF Tenancy, Chain, Given
  <2>2. ASSUME NEW d \in Device, NEW f \in Ent, Inserts(d, f) PROVE Title!Give(f, d)
    BY <2>2, InsertGives DEF Title!Give, Title!Free, Given
  <2>3. ASSUME NEW m \in Mover, NEW e \in Ent, NEW t \in Device, NEW f \in Ent, Commits(m, e, t, f)
        PROVE  Title!Carry(ents[e].first, ents[e].dev, t)
    BY <2>3, CommitCarries DEF Title!Carry, Title!Free, Given
  <2>4. ASSUME NEW d \in Device, Reset(d) PROVE Title!End(d)
    BY <2>4, ResetEnds DEF Title!End, Given
  <2>5. (\E m \in Mover : \/ \E e \in Ent, t \in Device, b \in BOOLEAN : MoveFrom(m, e, t, b)
                          \/ MoveTo(m) \/ MoveAbort(m)) => ents' = ents
    BY DEF MoveFrom, MoveTo, MoveAbort
  <2>6. CASE LNext
    <3>1. ASSUME NEW m \in Mover, NEW e \in Ent, NEW t \in Device, NEW f \in Ent, Commits(m, e, t, f)
          PROVE  Title!Next
      BY <2>3, <3>1, CommitCarries DEF Title!Next
    <3> QED BY <2>0, <2>1, <2>2, <2>4, <2>5, <2>6, <3>1, TenureCases DEF Title!Next
  <2>7. CASE UNCHANGED lvars
    BY <2>1, <2>7 DEF lvars
  <2> QED BY <2>6, <2>7
<1> QED BY <1>1, <1>2, TenureInvariance, PTL DEF LSpec, KeepsTenure, Title!Spec, Given
=============================================================================
