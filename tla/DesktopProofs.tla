--------------------------- MODULE DesktopProofs ---------------------------
(***************************************************************************)
(* What Desktop keeps for every number of devices, processes and rows: the *)
(* two files of a store belong together, a learned decision only advances, *)
(* and a learned revocation lets no process in.                            *)
(*                                                                         *)
(* The steps of the server are steps of Licensing, so its invariant holds  *)
(* here too. DInv adds that whatever a process or a store holds of a       *)
(* license exists at the server, with at least its first decision.         *)
(***************************************************************************)
EXTENDS Desktop, LicensingProofs

\* The license was created; its decisions are numbered from one.
Exists(e) == e \in Ent /\ lics[e].state # "NONE"
Numbered == \A e \in Ent : lics[e].state # "NONE" => lics[e].version >= 1

\* What is stored, held or was replied is a license that exists.
StoreKnown == \A d \in Device : store[d].lic # None => Exists(store[d].lic)
Holder(p) ==
  /\ proc[p].lic # None => Exists(proc[p].lic)
  /\ proc[p].state \in {"purchased", "revoked"} => proc[p].lic # None
  /\ proc[p].state = "closed" => proc[p].op = "idle" /\ proc[p].sync = "idle"
Asking(p) ==
  /\ proc[p].op = "idle" => proc[p].reply = None
  /\ proc[p].sync = "asked" => proc[p].lic # None
  /\ proc[p].op = "recover" => proc[p].lic # None /\ proc[p].reply \in Decision \cup {None}
  /\ proc[p].op = "pickup" /\ proc[p].reply # None => Exists(proc[p].reply)
ProcKnown == \A p \in Proc : Holder(p) /\ Asking(p)

DInv == IInv /\ Numbered /\ DTypeOK /\ StoreIsWhole /\ StoreKnown /\ ProcKnown

-----------------------------------------------------------------------------
(* The server.                                                             *)

LEMMA ServerSteps == ASSUME DNext PROVE [LNext]_lvars
BY DevOfType DEF DNext, Start, Exit, Check, AskPickup, ServerPickup, Accept, AskSync, ServerSync,
   Learn, Recovered, NoReply, LNext

\* A license is created with decision 1, or an existing one gets its next decision.
NextDecision(e) ==
  \/ lics'[e] = lics[e]
  \/ lics'[e] = NewLicense
  \/ /\ lics[e].state # "NONE" /\ lics'[e].state # "NONE"
     /\ lics'[e].version = lics[e].version + 1

LEMMA DecisionSteps ==
  ASSUME IInv, [LNext]_lvars, NEW e \in Ent
  PROVE  NextDecision(e)
<1> USE DEF IInv, LTypeOK, NextDecision
<1>1. CASE UNCHANGED lvars
  BY <1>1 DEF lvars
<1>2. CASE Aside
  BY <1>2, AsideEffect
<1>3. ASSUME NEW d \in Device, NEW x \in Ent, PickUp(d, x) PROVE NextDecision(e)
  BY <1>3 DEF PickUp
<1>4. ASSUME NEW x \in Ent, Revoke(x) \/ Recover(x) PROVE NextDecision(e)
  BY <1>4 DEF Revoke, Recover, Changed
<1>5. ASSUME NEW d \in Device, NEW b \in BOOLEAN, Restrict(d, b) PROVE NextDecision(e)
  BY <1>5 DEF Restrict, Changed
<1>6. ASSUME NEW g \in Granter, NEW f \in Ent, GrantLicense(g, f) PROVE NextDecision(e)
  BY <1>6 DEF GrantLicense
<1>7. ASSUME NEW d \in Device, NEW f \in Ent, Fulfill(d, f) PROVE NextDecision(e)
  BY <1>7 DEF Fulfill
<1>8. ASSUME NEW m \in Mover, NEW f \in Ent, MoveCommit(m, f) PROVE NextDecision(e)
  BY <1>8 DEF MoveCommit, Changed
<1>9. ASSUME NEW d \in Device, Reset(d) PROVE NextDecision(e)
  BY <1>9 DEF Reset, Changed
<1>10. CASE Licensed
  BY <1>3, <1>4, <1>5, <1>10 DEF Licensed
<1> QED BY <1>1, <1>2, <1>6, <1>7, <1>8, <1>9, <1>10, NextCases

\* What exists stays, and is numbered.
LEMMA LicensesStay ==
  ASSUME IInv, Numbered, [LNext]_lvars
  PROVE  Numbered' /\ \A e : Exists(e) => Exists(e)'
BY DecisionSteps DEF IInv, LTypeOK, LicRow, NextDecision, NewLicense, Numbered, Exists

-----------------------------------------------------------------------------
(* Processes.                                                              *)

\* Only p changes, to a row of its type that knows what it holds.
ProcStep(p) ==
  /\ proc' \in [Proc -> ProcRow]
  /\ \A q \in Proc \ {p} : proc'[q] = proc[q]
  /\ Holder(p)' /\ Asking(p)'

LEMMA StoredRow ==
  ASSUME DInv, NEW p \in Proc
  PROVE  /\ Stored(p) \in StoreRow /\ DevOf[p] \in Device
         /\ Stored(p).lic # None => Exists(Stored(p).lic)
         /\ Stored(p).dec # None => Stored(p).dec.lic = Stored(p).lic /\ Stored(p).dec \in Decision
BY DevOfType DEF DInv, DTypeOK, StoreKnown, StoreIsWhole, Stored, StoreRow

\* What a start finds in a whole store.
LEMMA LocalAccess ==
  ASSUME DInv, NEW p \in Proc
  PROVE  LET s == Stored(p) IN
         /\ Local(s) \in {"none", "purchased", "revoked"}
         /\ Local(s) # "none" => s.lic # None
         /\ Local(s) = "purchased" => s.dec = None \/ s.dec.status = "ACTIVE"
<1> DEFINE s == Stored(p)
<1>1. CASE s.lic = None
  BY <1>1 DEF Local
<1>2. CASE s.lic # None /\ s.dec = None
  BY <1>2 DEF Local
<1>3. CASE s.lic # None /\ s.dec # None
  BY <1>3, StoredRow DEF Local, Decision
<1> QED BY <1>1, <1>2, <1>3

LEMMA NewestType ==
  ASSUME DInv, NEW e, Exists(e)
  PROVE  Newest(e) \in Decision
BY VersionBound DEF DInv, IInv, LTypeOK, LicRow, Numbered, Exists, Newest, Decision

LEMMA LocalSteps ==
  ASSUME DInv, NEW p \in Proc, Start(p) \/ Exit(p) \/ Check(p) \/ AskPickup(p) \/ AskSync(p) \/ NoReply(p)
  PROVE  ProcStep(p)
<1> USE DEF ProcStep, Holder, Asking, Exists
<1>1. /\ proc \in [Proc -> ProcRow] /\ Holder(p) /\ Asking(p)
  BY DEF DInv, DTypeOK, ProcKnown
<1>2. CASE Start(p)
  <2>1. Local(Stored(p)) \in {"none", "purchased", "revoked"} /\ Stored(p).lic \in Ent \cup {None}
    BY LocalAccess, StoredRow DEF StoreRow
  <2>2. proc' \in [Proc -> ProcRow] /\ \A q \in Proc \ {p} : proc'[q] = proc[q]
    <3>1. proc' = [proc EXCEPT ![p] = [proc[p] EXCEPT !.state = Local(Stored(p)), !.lic = Stored(p).lic]]
      BY <1>2 DEF Start
    <3>2. [proc[p] EXCEPT !.state = Local(Stored(p)), !.lic = Stored(p).lic] \in ProcRow
      BY <1>1, <2>1 DEF ProcRow
    <3> QED BY <1>1, <3>1, <3>2
  <2>3. /\ proc'[p].state = Local(Stored(p)) /\ proc'[p].lic = Stored(p).lic
        /\ proc'[p].op = "idle" /\ proc'[p].sync = "idle" /\ proc'[p].reply = None
    BY <1>1, <1>2 DEF Start, ProcRow
  <2>4. Holder(p)'
    <3>1. UNCHANGED lics
      BY <1>2 DEF Start, lvars
    <3>2. Stored(p).lic # None => Exists(Stored(p).lic)
      BY StoredRow
    <3>3. Local(Stored(p)) # "none" => Stored(p).lic # None
      BY LocalAccess
    <3> QED BY <2>1, <2>3, <3>1, <3>2, <3>3
  <2> QED BY <2>2, <2>3, <2>4
<1>3. CASE Exit(p)
  BY <1>1, <1>3 DEF Exit, Closed, ProcRow
<1>4. CASE Check(p)
  <2>1. Stored(p) \in StoreRow /\ (Stored(p).lic # None => Exists(Stored(p).lic))
    BY StoredRow
  <2>2. CASE proc' = [proc EXCEPT ![p].state = "purchased", ![p].lic = Stored(p).lic]
             /\ Stored(p).lic # None
    <3>1. /\ proc' \in [Proc -> ProcRow] /\ \A q \in Proc \ {p} : proc'[q] = proc[q]
          /\ proc'[p].state = "purchased" /\ proc'[p].lic = Stored(p).lic
          /\ proc'[p].op = proc[p].op /\ proc'[p].sync = proc[p].sync
          /\ proc'[p].reply = proc[p].reply
      BY <1>1, <2>1, <2>2, ZenonT(60) DEF ProcRow, StoreRow
    <3>2. UNCHANGED lics /\ proc[p].op = "idle"
      BY <1>4 DEF Check, lvars
    <3> QED BY <1>1, <2>1, <2>2, <3>1, <3>2
  <2>3. CASE proc' = [proc EXCEPT ![p].op = "pickup"]
    <3>1. /\ proc' \in [Proc -> ProcRow] /\ \A q \in Proc \ {p} : proc'[q] = proc[q]
          /\ proc'[p].state = proc[p].state /\ proc'[p].lic = proc[p].lic
          /\ proc'[p].op = "pickup" /\ proc'[p].sync = proc[p].sync
          /\ proc'[p].reply = proc[p].reply
      BY <1>1, <2>3 DEF ProcRow
    <3>2. /\ UNCHANGED lics /\ proc[p].op = "idle" /\ proc[p].state \in {"none", "invalid"}
      BY <1>4 DEF Check, lvars
    <3> QED BY <1>1, <3>1, <3>2
  <2> QED BY <1>4, <2>2, <2>3 DEF Check
<1>5. CASE AskPickup(p)
  BY <1>1, <1>5 DEF AskPickup, ProcRow, lvars
<1>6. CASE AskSync(p)
  BY <1>1, <1>6 DEF AskSync, ProcRow, lvars
<1>7. CASE NoReply(p)
  BY <1>1, <1>7 DEF NoReply, ProcRow, lvars
<1> QED BY <1>2, <1>3, <1>4, <1>5, <1>6, <1>7

LEMMA ReplySteps ==
  ASSUME DInv, NEW p \in Proc,
         ServerSync(p) \/ Accept(p) \/ Learn(p) \/ Recovered(p) \/ \E e \in Ent : ServerPickup(p, e)
  PROVE  ProcStep(p)
<1> USE DEF ProcStep, Holder, Asking
<1>1. /\ proc \in [Proc -> ProcRow] /\ Holder(p) /\ Asking(p)
  BY DEF DInv, DTypeOK, ProcKnown
<1>2. CASE ServerSync(p)
  <2>1. Newest(proc[p].lic) \in Decision
    BY <1>1, <1>2, NewestType DEF ServerSync
  <2> QED BY <1>1, <1>2, <2>1 DEF ServerSync, ProcRow, lvars, Exists
<1>3. CASE Accept(p)
  <2>1. Exists(proc[p].reply) /\ UNCHANGED lics
    BY <1>1, <1>3 DEF Accept, lvars
  <2> DEFINE done == [proc[p] EXCEPT !.op = "idle", !.reply = None]
             in == [done EXCEPT !.state = "purchased", !.lic = proc[p].reply]
  <2>2. proc' = [proc EXCEPT ![p] = in] \/ proc' = [proc EXCEPT ![p] = done]
    BY <1>3 DEF Accept
  <2>3. done \in ProcRow /\ in \in ProcRow
    BY <1>1, <2>1 DEF ProcRow, Exists
  <2>4. /\ proc' \in [Proc -> ProcRow] /\ (\A q \in Proc \ {p} : proc'[q] = proc[q])
        /\ proc'[p] \in {in, done}
    BY <1>1, <2>2, <2>3
  <2>5. /\ proc'[p].op = "idle" /\ proc'[p].reply = None /\ proc'[p].sync = proc[p].sync
        /\ \/ proc'[p].state = "purchased" /\ proc'[p].lic = proc[p].reply
           \/ proc'[p].state = proc[p].state /\ proc'[p].lic = proc[p].lic
    BY <1>1, <2>4, ZenonT(60) DEF ProcRow
  <2>6. proc[p].state # "closed" /\ proc[p].reply # None
    BY <1>1, <1>3 DEF Accept
  <2> HIDE DEF done, in
  <2> QED BY <1>1, <2>1, <2>4, <2>5, <2>6 DEF Exists
<1>4. CASE Learn(p)
  BY <1>1, <1>4 DEF Learn, ProcRow, lvars, Exists
<1>5. CASE Recovered(p)
  <2>1. UNCHANGED lics /\ proc[p].lic # None /\ proc[p].state # "closed"
    BY <1>1, <1>5 DEF Recovered, lvars
  <2> DEFINE done == [proc[p] EXCEPT !.op = "idle", !.reply = None]
             in == [done EXCEPT !.state = "purchased"]
  <2>2. proc' = [proc EXCEPT ![p] = in] \/ proc' = [proc EXCEPT ![p] = done]
    BY <1>5 DEF Recovered
  <2>3. done \in ProcRow /\ in \in ProcRow
    BY <1>1 DEF ProcRow
  <2>4. /\ proc' \in [Proc -> ProcRow] /\ (\A q \in Proc \ {p} : proc'[q] = proc[q])
        /\ proc'[p] \in {in, done}
    BY <1>1, <2>2, <2>3
  <2>5. /\ proc'[p].op = "idle" /\ proc'[p].reply = None /\ proc'[p].sync = proc[p].sync
        /\ proc'[p].lic = proc[p].lic /\ proc'[p].state \in {"purchased", proc[p].state}
    BY <1>1, <2>4, ZenonT(60) DEF ProcRow
  <2> HIDE DEF done, in
  <2> QED BY <1>1, <2>1, <2>4, <2>5 DEF Exists
<1>6. ASSUME NEW e \in Ent, ServerPickup(p, e) PROVE ProcStep(p)
  <2>1. [LNext]_lvars
    BY <1>6, DevOfType DEF ServerPickup, LNext
  <2>2. Exists(e)'
    <3>1. CASE UNCHANGED lvars /\ lics[e].state = "ACTIVE"
      BY <3>1 DEF lvars, Exists
    <3>2. CASE PickUp(DevOf[p], e)
      BY <3>2 DEF PickUp, Exists, NewLicense, DInv, IInv, LTypeOK
    <3> QED BY <1>6, <3>1, <3>2 DEF ServerPickup
  <2>3. \A x : Exists(x) => Exists(x)'
    BY <2>1, LicensesStay DEF DInv
  <2>4. /\ proc' \in [Proc -> ProcRow] /\ \A q \in Proc \ {p} : proc'[q] = proc[q]
        /\ proc'[p].state = proc[p].state /\ proc'[p].lic = proc[p].lic
        /\ proc'[p].op = "pickup" /\ proc'[p].sync = proc[p].sync /\ proc'[p].reply = e
    BY <1>1, <1>6 DEF ServerPickup, ProcRow
  <2> QED BY <1>1, <1>6, <2>2, <2>3, <2>4 DEF ServerPickup
<1> QED BY <1>2, <1>3, <1>4, <1>5, <1>6

-----------------------------------------------------------------------------
(* The store.                                                              *)

\* A store is left alone, gets an acceptable license, or a decision of the license
\* it holds that is newer than its last one.
StoreStep(d) ==
  \/ store'[d] = store[d]
  \/ /\ Acceptable(store[d], store'[d].lic) /\ Exists(store'[d].lic)
     /\ store'[d].dec = store[d].dec
  \/ /\ Persists(store[d], store'[d].dec)
     /\ store'[d].dec \in Decision \ {None} /\ store'[d].lic = store[d].lic

LEMMA StoreSteps ==
  ASSUME DInv, DNext
  PROVE  store' \in [Device -> StoreRow] /\ \A d \in Device : StoreStep(d)
<1>1. store \in [Device -> StoreRow] /\ proc \in [Proc -> ProcRow] /\ \A p \in Proc : Asking(p)
  BY DEF DInv, DTypeOK, ProcKnown
<1>2. ASSUME NEW p \in Proc, Accept(p)
      PROVE  store' \in [Device -> StoreRow] /\ \A d \in Device : StoreStep(d)
  <2>1. Exists(proc[p].reply) /\ DevOf[p] \in Device
    BY <1>1, <1>2, DevOfType DEF Accept, Asking
  <2> QED BY <1>1, <1>2, <2>1 DEF Accept, StoreStep, StoreRow, Stored, Exists
<1>3. ASSUME NEW p \in Proc, Learn(p)
      PROVE  store' \in [Device -> StoreRow] /\ \A d \in Device : StoreStep(d)
  <2>1. proc[p].learned \in Decision /\ DevOf[p] \in Device
    BY <1>1, <1>3, DevOfType DEF Learn, ProcRow
  <2> QED BY <1>1, <1>3, <2>1 DEF Learn, StoreStep, StoreRow, Stored
<1>4. ASSUME NEW p \in Proc, Recovered(p)
      PROVE  store' \in [Device -> StoreRow] /\ \A d \in Device : StoreStep(d)
  <2>1. proc[p].reply \in Decision /\ DevOf[p] \in Device
    BY <1>1, <1>4, DevOfType DEF Recovered, Asking
  <2> QED BY <1>1, <1>4, <2>1 DEF Recovered, StoreStep, StoreRow, Stored
<1>5. \/ store' = store
      \/ \E p \in Proc : Accept(p) \/ Learn(p) \/ Recovered(p)
  BY DEF DNext, dvars, Start, Exit, Check, AskPickup, ServerPickup, AskSync, ServerSync, NoReply
<1> QED BY <1>1, <1>2, <1>3, <1>4, <1>5 DEF StoreStep

-----------------------------------------------------------------------------
(* The invariant.                                                          *)

LEMMA DInitInvariant == DInit => DInv
<1> SUFFICES ASSUME DInit PROVE DInv
  OBVIOUS
<1>1. IInv /\ Numbered
  BY LInitInvariant DEF DInit, LInit, Numbered
<1>2. DTypeOK
  BY DEF DInit, DTypeOK, StoreRow, ProcRow, Closed
<1>3. StoreIsWhole /\ StoreKnown
  BY DEF DInit, StoreIsWhole, StoreKnown
<1>4. ProcKnown
  BY DEF DInit, ProcKnown, Holder, Asking, Closed
<1> QED BY <1>1, <1>2, <1>3, <1>4 DEF DInv

LEMMA NextProcs == ASSUME DInv, DNext PROVE proc' \in [Proc -> ProcRow] /\ ProcKnown'
<1>1. \A e : Exists(e) => Exists(e)'
  BY ServerSteps, LicensesStay DEF DInv
<1>2. \A p \in Proc : proc'[p] = proc[p] => Holder(p)' /\ Asking(p)'
  BY <1>1 DEF DInv, ProcKnown, Holder, Asking
<1>3. CASE UNCHANGED dvars
  BY <1>2, <1>3 DEF dvars, DInv, DTypeOK, ProcKnown
<1>4. CASE \E p \in Proc : ProcStep(p)
  BY <1>2, <1>4 DEF ProcStep, ProcKnown
<1> QED BY <1>3, <1>4, LocalSteps, ReplySteps DEF DNext

LEMMA DStepInvariant == DInv /\ [DNext]_<<lvars, dvars>> => DInv'
<1>1. ASSUME DInv, DNext PROVE DInv'
  <2>1. [LNext]_lvars
    BY <1>1, ServerSteps
  <2>2. IInv' /\ Numbered' /\ \A e : Exists(e) => Exists(e)'
    BY <1>1, <2>1, LStepInvariant, LicensesStay DEF DInv
  <2>3. DTypeOK' /\ ProcKnown'
    BY <1>1, NextProcs, StoreSteps DEF DTypeOK
  <2>4. StoreIsWhole'
    BY <1>1, StoreSteps DEF DInv, StoreIsWhole, StoreStep, Acceptable, Persists
  <2>5. StoreKnown'
    BY <1>1, <2>2, StoreSteps DEF DInv, StoreKnown, StoreStep
  <2> QED BY <2>2, <2>3, <2>4, <2>5 DEF DInv
<1>2. ASSUME DInv, UNCHANGED <<lvars, dvars>> PROVE DInv'
  <2>1. IInv'
    BY <1>2, LStepInvariant DEF DInv
  <2>2. Numbered' /\ DTypeOK' /\ StoreIsWhole' /\ StoreKnown'
    BY <1>2 DEF lvars, dvars, DInv, Numbered, DTypeOK, StoreIsWhole, StoreKnown, Exists
  <2>3. ProcKnown'
    BY <1>2 DEF lvars, dvars, DInv, ProcKnown, Holder, Asking, Exists
  <2> QED BY <2>1, <2>2, <2>3 DEF DInv
<1> QED BY <1>1, <1>2

LEMMA DInvariance == DSpec => []DInv
BY DInitInvariant, DStepInvariant, PTL DEF DSpec

-----------------------------------------------------------------------------
(* Theorems.                                                               *)

\* The files of every device and every process keep their types.
THEOREM DesktopTypeCorrect == DSpec => []DTypeOK
BY DInvariance, PTL DEF DInv

\* No interleaving of processes leaves a license and a decision of another one in
\* a store: AcceptPickedUpLicense and PersistDecision never damage it together.
THEOREM StoreStaysWhole == DSpec => []StoreIsWhole
BY DInvariance, PTL DEF DInv

\* The desktop's requests are steps of the server: what Licensing keeps holds with
\* any number of devices that pick up, recover and synchronise.
THEOREM DesktopServes == DSpec => LSpec
<1>1. DInit => LInit
  BY DEF DInit
<1>2. [DNext]_<<lvars, dvars>> => [LNext]_lvars
  BY ServerSteps DEF lvars
<1> QED BY <1>1, <1>2, PTL DEF DSpec, LSpec

\* A moved entitlement stays dead with desktops that ask for it all the time.
THEOREM DesktopMovedStaysDead == DSpec => []MovedIsDead
BY DInvariance, PTL DEF DInv, IInv

\* Replies in any order: what a device learned of a license is only replaced by a
\* newer decision of the same license.
THEOREM LearnedAdvances == DSpec => DecisionsOnlyAdvance
<1> DEFINE A == \A d \in Device : store[d].dec # None =>
                  /\ store'[d].dec # None
                  /\ store'[d].lic = store[d].lic
                  /\ store'[d].dec.version >= store[d].dec.version
<1>1. ASSUME DInv, [DNext]_<<lvars, dvars>> PROVE [A]_store
  <2>1. CASE DNext
    <3> SUFFICES ASSUME NEW d \in Device, store[d].dec # None
                 PROVE  /\ store'[d].dec # None
                        /\ store'[d].lic = store[d].lic
                        /\ store'[d].dec.version >= store[d].dec.version
      OBVIOUS
    <3>1. StoreStep(d)
      BY <1>1, <2>1, StoreSteps
    <3>2. store[d].dec.lic = store[d].lic /\ store[d].dec.version \in Nat
      BY <1>1 DEF DInv, StoreIsWhole, DTypeOK, StoreRow, Decision
    <3> QED BY <3>1, <3>2 DEF StoreStep, Acceptable, Persists, Decision
  <2> QED BY <1>1, <2>1 DEF dvars
<1> QED BY <1>1, DInvariance, PTL DEF DSpec, DecisionsOnlyAdvance

\* A process gains access only if the store then has no decision or an ACTIVE one,
\* whatever it asked for before another process learned of the revocation.
THEOREM RevocationHolds == DSpec => LearnedRevocationHolds
<1> DEFINE A == \A p \in Proc : proc[p].state # "purchased" /\ proc'[p].state = "purchased" =>
                  \/ store'[DevOf[p]].dec = None
                  \/ store'[DevOf[p]].dec.status = "ACTIVE"
<1>1. ASSUME DInv, [DNext]_<<lvars, dvars>> PROVE [A]_proc
  <2> SUFFICES ASSUME DNext, NEW p \in Proc,
                      proc[p].state # "purchased", proc'[p].state = "purchased"
               PROVE  store'[DevOf[p]].dec = None \/ store'[DevOf[p]].dec.status = "ACTIVE"
    BY <1>1 DEF dvars
  <2>1. PICK q \in Proc : \/ Start(q) \/ Exit(q) \/ Check(q) \/ AskPickup(q)
                          \/ \E e \in Ent : ServerPickup(q, e)
                          \/ Accept(q) \/ AskSync(q) \/ ServerSync(q)
                          \/ Learn(q) \/ Recovered(q) \/ NoReply(q)
    BY DEF DNext, dvars
  <2>2. q = p
    BY <1>1, <2>1, LocalSteps, ReplySteps DEF ProcStep
  <2>3. proc \in [Proc -> ProcRow] /\ store \in [Device -> StoreRow] /\ DevOf[p] \in Device
    BY <1>1, DevOfType DEF DInv, DTypeOK
  <2>4. CASE Start(p)
    BY <1>1, <2>3, <2>4, LocalAccess DEF Start, Stored, ProcRow
  <2>5. CASE Check(p)
    BY <2>3, <2>5 DEF Check, Stored, ProcRow
  <2>6. CASE Accept(p)
    <3>1. Acceptable(Stored(p), proc[p].reply)
      BY <2>3, <2>6 DEF Accept, ProcRow
    <3>2. store' = [store EXCEPT ![DevOf[p]].lic = proc[p].reply]
      BY <3>1, <2>6 DEF Accept
    <3> QED BY <2>3, <3>1, <3>2 DEF Stored, Acceptable, StoreRow
  <2>7. CASE Recovered(p)
    BY <2>3, <2>7, ZenonT(60) DEF Recovered, Stored, ProcRow, StoreRow
  <2>8. CASE Exit(p) \/ AskPickup(p) \/ AskSync(p) \/ ServerSync(p) \/ Learn(p) \/ NoReply(p)
             \/ \E e \in Ent : ServerPickup(p, e)
    BY <2>3, <2>8 DEF Exit, Closed, AskPickup, AskSync, ServerSync, Learn, NoReply, ServerPickup, ProcRow
  <2> QED BY <2>1, <2>2, <2>4, <2>5, <2>6, <2>7, <2>8
<1> QED BY <1>1, DInvariance, PTL DEF DSpec, LearnedRevocationHolds
=============================================================================
