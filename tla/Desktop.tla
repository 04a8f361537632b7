------------------------------ MODULE Desktop ------------------------------
(***************************************************************************)
(* The desktop program of a device: what it stores, when it opens the      *)
(* product, and how it learns what Licensing decided.                      *)
(*                                                                         *)
(* Several processes of one device share the store, two files under a      *)
(* write lock. Inside a process a semaphore admits one operation at a time,*)
(* but the background synchronisation does not take it. Every reply of the *)
(* server is a state of its own: another process, an Admin or a move may   *)
(* act before it is used.                                                  *)
(***************************************************************************)
EXTENDS Licensing

CONSTANTS
  Proc,     \* processes of the desktop program
  DevOf     \* the device a process runs on

ASSUME DevOfType == DevOf \in [Proc -> Device]

VARIABLES
  store,    \* the license and decision files of a device
  proc      \* DesktopAccessController of a process

dvars == <<store, proc>>

Decision == [lic: Ent, version: 1..MaxVersion, status: {"ACTIVE", "REVOKED"}]
StoreRow == [lic: Ent \cup {None}, dec: Decision \cup {None}]
\* op: the operation under the semaphore, with the license or decision that came
\* back; sync: the same for SynchronizePurchasedAsync.
ProcRow == [state: {"closed", "none", "purchased", "revoked", "invalid"}, lic: Ent \cup {None},
            op: {"idle", "pickup", "recover"}, reply: Ent \cup Decision \cup {None},
            sync: {"idle", "asked"}, learned: Decision \cup {None}]
Closed == [state |-> "closed", lic |-> None, op |-> "idle", reply |-> None,
           sync |-> "idle", learned |-> None]

DInit ==
  /\ LInit
  /\ store = [d \in Device |-> [lic |-> None, dec |-> None]]
  /\ proc = [p \in Proc |-> Closed]

Stored(p) == store[DevOf[p]]

-----------------------------------------------------------------------------
(* Start and stop.                                                         *)

\* ReadLocalAccess: local only. A decision of another license is a damaged store.
Local(s) ==
  CASE s.lic = None -> "none"
    [] s.lic # None /\ s.dec = None -> "purchased"
    [] s.lic # None /\ s.dec # None -> IF s.dec.lic # s.lic THEN "invalid"
                                       ELSE IF s.dec.status = "REVOKED" THEN "revoked" ELSE "purchased"

Start(p) ==
  /\ proc[p].state = "closed"
  /\ proc' = [proc EXCEPT ![p].state = Local(Stored(p)), ![p].lic = Stored(p).lic]
  /\ UNCHANGED <<lvars, store>>

\* Dispose, or the end of the process: replies on their way are lost.
Exit(p) ==
  /\ proc[p].state # "closed"
  /\ proc' = [proc EXCEPT ![p] = Closed]
  /\ UNCHANGED <<lvars, store>>

-----------------------------------------------------------------------------
(* Picking a license up.                                                   *)

\* CheckPurchasedLicenseAsync: a license another process stored is adopted,
\* otherwise the server is asked. A revoked license is not asked about.
Check(p) ==
  LET s == Stored(p) IN
  /\ proc[p].state \in {"none", "invalid"} /\ proc[p].op = "idle"
  /\ proc' = IF s.lic # None /\ (s.dec # None => s.dec.lic = s.lic /\ s.dec.status = "ACTIVE")
             THEN [proc EXCEPT ![p].state = "purchased", ![p].lic = s.lic]
             ELSE [proc EXCEPT ![p].op = "pickup"]
  /\ UNCHANGED <<lvars, store>>

\* PickupLicenseAsync: a revoked license asks for its recovery instead.
AskPickup(p) ==
  /\ proc[p].state \in {"none", "invalid", "revoked"} /\ proc[p].op = "idle"
  /\ proc' = [proc EXCEPT ![p].op = IF proc[p].state = "revoked" THEN "recover" ELSE "pickup"]
  /\ UNCHANGED <<lvars, store>>

\* The pickup request at the server: the license exists or is created.
ServerPickup(p, e) ==
  LET d == DevOf[p] IN
  /\ proc[p].op = "pickup" /\ proc[p].reply = None
  /\ \/ PickUp(d, e)
     \/ /\ DeviceFree(d) /\ Serves(d)
        /\ e \in ActiveOn(d) /\ \A m \in Mover : move[m].ent # e
        /\ lics[e].state = "ACTIVE"
        /\ UNCHANGED lvars
  /\ proc' = [proc EXCEPT ![p].reply = e]
  /\ UNCHANGED store

\* AcceptPickedUpLicense, under the write lock: a stored decision must be an
\* ACTIVE one of this very license.
\* slip: the stored decision is not looked at.
AcceptableAnyway(s, e) == TRUE
Acceptable(s, e) == s.dec # None => s.dec.lic = e /\ s.dec.status = "ACTIVE"

Accept(p) ==
  LET e == proc[p].reply
      done == [proc[p] EXCEPT !.op = "idle", !.reply = None]
  IN
  /\ proc[p].op = "pickup" /\ e # None
  /\ IF Acceptable(Stored(p), e)
     THEN /\ store' = [store EXCEPT ![DevOf[p]].lic = e]
          /\ proc' = [proc EXCEPT ![p] = [done EXCEPT !.state = "purchased", !.lic = e]]
     ELSE /\ proc' = [proc EXCEPT ![p] = done]
          /\ UNCHANGED store
  /\ UNCHANGED lvars

-----------------------------------------------------------------------------
(* Learning a decision.                                                    *)

AskSync(p) ==
  /\ proc[p].state = "purchased" /\ proc[p].sync = "idle"
  /\ proc' = [proc EXCEPT ![p].sync = "asked"]
  /\ UNCHANGED <<lvars, store>>

\* Licenses.sync: the newest decision; an ACTIVE one only to the device's
\* present customer.
Newest(e) == [lic |-> e, version |-> lics[e].version, status |-> lics[e].state]
Told(e) == \/ lics[e].state = "REVOKED"
           \/ ents[e].gen = device[ents[e].dev].gen /\ device[ents[e].dev].claimed

ServerSync(p) ==
  LET e == proc[p].lic IN
  /\ DeviceFree(DevOf[p])
  /\ \/ /\ proc[p].sync = "asked" /\ proc[p].learned = None /\ Told(e)
        /\ proc' = [proc EXCEPT ![p].learned = Newest(e)]
     \/ /\ proc[p].op = "recover" /\ proc[p].reply = None /\ Told(e)
        /\ proc' = [proc EXCEPT ![p].reply = Newest(e)]
  /\ UNCHANGED <<lvars, store>>

\* PersistDecision, under the write lock: only of the license that is stored,
\* and only a newer one.
\* slip: whatever license is stored now.
PersistsOther(s, dec) == s.dec # None => s.dec.version < dec.version
\* slip: whatever version is stored now.
PersistsOlder(s, dec) == s.lic = dec.lic
Persists(s, dec) ==
  s.lic = dec.lic /\ (s.dec # None => s.dec.lic = dec.lic /\ s.dec.version < dec.version)

\* SynchronizePurchasedAsync: access is frozen for this process.
Learn(p) ==
  LET dec == proc[p].learned IN
  /\ dec # None
  /\ store' = IF Persists(Stored(p), dec) THEN [store EXCEPT ![DevOf[p]].dec = dec] ELSE store
  /\ proc' = [proc EXCEPT ![p].sync = "idle", ![p].learned = None]
  /\ UNCHANGED lvars

\* PickupLicenseAsync: a newer ACTIVE decision recovers the license at once.
Recovered(p) ==
  LET dec == proc[p].reply
      done == [proc[p] EXCEPT !.op = "idle", !.reply = None]
  IN
  /\ proc[p].op = "recover" /\ dec # None
  /\ IF dec.status = "ACTIVE" /\ Persists(Stored(p), dec)
     THEN /\ store' = [store EXCEPT ![DevOf[p]].dec = dec]
          /\ proc' = [proc EXCEPT ![p] = [done EXCEPT !.state = "purchased"]]
     ELSE /\ proc' = [proc EXCEPT ![p] = done]
          /\ UNCHANGED store
  /\ UNCHANGED lvars

\* No reply, or one that refuses.
NoReply(p) ==
  /\ \/ /\ proc[p].op # "idle"
        /\ proc' = [proc EXCEPT ![p].op = "idle", ![p].reply = None]
     \/ /\ proc[p].sync # "idle"
        /\ proc' = [proc EXCEPT ![p].sync = "idle", ![p].learned = None]
  /\ UNCHANGED <<lvars, store>>

-----------------------------------------------------------------------------

DNext ==
  \/ LNext /\ UNCHANGED dvars
  \/ \E p \in Proc : \/ Start(p) \/ Exit(p) \/ Check(p) \/ AskPickup(p)
                     \/ \E e \in Ent : ServerPickup(p, e)
                     \/ Accept(p) \/ AskSync(p) \/ ServerSync(p)
                     \/ Learn(p) \/ Recovered(p) \/ NoReply(p)

DSpec == DInit /\ [][DNext]_<<lvars, dvars>>

-----------------------------------------------------------------------------
(* What must hold.                                                         *)

\* The files and every process have their types.
DTypeOK == store \in [Device -> StoreRow] /\ proc \in [Proc -> ProcRow]

\* The two files of a store always belong together, whichever processes wrote
\* them (AcceptPickedUpLicense against PersistDecision): no start ever finds
\* the store damaged.
StoreIsWhole ==
  \A d \in Device : store[d].dec # None => store[d].dec.lic = store[d].lic

\* What a device learned of a license is only replaced by something newer,
\* in whatever order replies and processes come (PersistDecision).
DecisionsOnlyAdvance ==
  [][\A d \in Device : store[d].dec # None =>
       /\ store'[d].dec # None
       /\ store'[d].lic = store[d].lic
       /\ store'[d].dec.version >= store[d].dec.version]_store

\* A revocation that one process learned lets no other process in: access is
\* gained only with no decision or an ACTIVE one in the store (start, check,
\* pickup and recovery against another process's synchronisation).
LearnedRevocationHolds ==
  [][\A p \in Proc : proc[p].state # "purchased" /\ proc'[p].state = "purchased" =>
       \/ store'[DevOf[p]].dec = None
       \/ store'[DevOf[p]].dec.status = "ACTIVE"]_proc

=============================================================================
