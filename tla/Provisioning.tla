---------------------------- MODULE Provisioning ----------------------------
(***************************************************************************)
(* The desktop's side of the enrolment (DesktopProvisioningClient) with    *)
(* the server (Identity): Connect, the polls that wait for the browser,    *)
(* and the renewal of credentials.                                         *)
(*                                                                         *)
(* One operation of a profile holds the semaphore at a time (op) and makes *)
(* one call at a time (call). A call that is given up may still reach the  *)
(* server later (late); its answer reaches nobody. The desktop can end at  *)
(* any time, and keeps then only its files (pending, stored).              *)
(***************************************************************************)
EXTENDS Identity

CONSTANT MaxFaults   \* bound: calls given up, dialogs closed early, crashes
ASSUME FaultBound == MaxFaults \in Nat

VARIABLES
  pending,   \* the pairing in the file of each profile
  stored,    \* profiles with an enrolment in its file
  mem,       \* the fields of the client: pairing, credential, scope
  dialog,    \* where LockPage is in Connect_Click
  op,        \* the operation that holds the semaphore
  call,      \* its call
  late,      \* calls given up that are still on their way
  faults

cvars == <<pending, stored, mem, dialog, op, call, late, faults>>
pvars == <<ivars, cvars>>

-----------------------------------------------------------------------------

\* A credential carries what its row says: the generation, and whether it was revoked.
Token == [gen: 0..MaxGen, live: BOOLEAN]
NoToken == [gen |-> 0, live |-> FALSE]
Pairings == {{p} : p \in Pairing} \cup {{}}   \* one pairing, or none
MemRow == [pairing: Pairings, cred: Token, scope: {"none", "desktop", "tombstone_only"}]
Blank == [pairing |-> {}, cred |-> NoToken, scope |-> "none"]
Ops == {"none", "begin", "complete", "get", "resume"}
Results == {"CREATED", "RATE_LIMITED", "PENDING", "PAIRING_INVALID", "KEY_ALREADY_ENROLLED",
            "ENROLLED", "desktop", "tombstone_only", "ENROLLMENT_REQUIRED"}
CallRow == [kind: {"none", "PAIR", "CONFIRM", "AUTH"}, pairing: Pairings,
            result: Results \cup {"waiting"}, cred: Token]
NoCall == [kind |-> "none", pairing |-> {}, result |-> "waiting", cred |-> NoToken]
Asks(kind, pairing) == [NoCall EXCEPT !.kind = kind, !.pairing = pairing]

PInit ==
  /\ IInit
  /\ pending = [k \in Profile |-> {}] /\ stored = {}
  /\ mem = [k \in Profile |-> Blank]
  /\ dialog = [k \in Profile |-> "closed"]
  /\ op = [k \in Profile |-> "none"]
  /\ call = [k \in Profile |-> NoCall]
  /\ late = [k \in Profile |-> {}]
  /\ faults = 0

-----------------------------------------------------------------------------
(* The server's handlers, with the credentials.                            *)

Revoked(c) == [gen |-> c.gen, live |-> FALSE]
\* slip: a credential is stamped with the generation of the device.
FreshCurrent(k) == [gen |-> gen, live |-> TRUE]
Fresh(k) == [gen |-> key'[k].gen, live |-> TRUE]

\* Every credential of the keys, in the client's memory or in an answer.
RevokeAll(ks) ==
  mem' = [k \in Profile |-> IF k \in ks THEN [mem[k] EXCEPT !.cred = Revoked(mem[k].cred)]
                            ELSE mem[k]]

\* The rows change as r asks, and the call of k gets its answer, if it still waits.
Serve(k, r, answers) ==
  \/ /\ r.kind = "PAIR"
     /\ \/ \E p \in Pairing :
             /\ CreatePairing(p, k)
             /\ call' = IF answers THEN [call EXCEPT ![k].result = "CREATED", ![k].pairing = {p}]
                        ELSE call
        \/ /\ \A p \in Pairing : pair[p].status # "none"
           /\ call' = IF answers THEN [call EXCEPT ![k].result = "RATE_LIMITED"] ELSE call
           /\ UNCHANGED ivars
     /\ UNCHANGED mem
  \/ /\ r.kind = "CONFIRM"
     /\ \E p \in r.pairing :
          /\ Pickup(p, k)
          /\ IF PickupResult(p, k) = "ENROLLED"
             THEN /\ RevokeAll({k})
                  /\ call' = IF answers
                             THEN [call EXCEPT ![k].result = "ENROLLED", ![k].cred = Fresh(k)]
                             ELSE [call EXCEPT ![k].cred = Revoked(call[k].cred)]
             ELSE /\ UNCHANGED mem
                  /\ call' = IF answers THEN [call EXCEPT ![k].result = PickupResult(p, k)] ELSE call
  \/ /\ r.kind = "AUTH"
     /\ UNCHANGED <<ivars, mem>>
     /\ call' = IF answers
                THEN [call EXCEPT ![k].result = AuthResult(k),
                                  ![k].cred = IF key[k].status = "none" THEN NoToken ELSE Fresh(k)]
                ELSE call

ServeCall(k) ==
  /\ call[k].kind # "none" /\ call[k].result = "waiting"
  /\ Serve(k, call[k], TRUE)
  /\ UNCHANGED <<pending, stored, dialog, op, late, faults>>

ServeLate(k) ==
  \E r \in late[k] :
    /\ Serve(k, r, FALSE)
    /\ late' = [late EXCEPT ![k] = @ \ {r}]
    /\ UNCHANGED <<pending, stored, dialog, op, faults>>

ResetDevice ==
  /\ Reset
  /\ LET ks == {k \in Profile : key[k].gen = gen}
     IN  /\ RevokeAll(ks)
         /\ call' = [k \in Profile |-> IF k \in ks THEN [call[k] EXCEPT !.cred = Revoked(call[k].cred)]
                                       ELSE call[k]]
  /\ UNCHANGED <<pending, stored, dialog, op, late, faults>>

-----------------------------------------------------------------------------
(* The client. Everything but its calls' answers needs the semaphore.      *)

Holds(k, o, r) == op' = [op EXCEPT ![k] = o] /\ call' = [call EXCEPT ![k] = r]
Releases(k) == Holds(k, "none", NoCall)

\* Connect_Click: ResumeAsync forgets the credential and asks for one.
Connect(k) ==
  /\ dialog[k] = "closed" /\ op[k] = "none"
  /\ mem' = [mem EXCEPT ![k].cred = NoToken, ![k].scope = "none"]
  /\ dialog' = [dialog EXCEPT ![k] = "resume"]
  /\ UNCHANGED <<ivars, pending, stored, op, call, late, faults>>

\* _pairingId ?? pending.Read()
Completes(k) == IF mem[k].pairing # {} THEN mem[k].pairing ELSE pending[k]

\* GetEnrolledCredentialAsync, of ResumeAsync or of any call of the app that
\* finds no credential.
Get(k, o) ==
  /\ op[k] = "none" /\ mem[k].cred = NoToken
  /\ o = "resume" => dialog[k] = "resume"
  /\ IF k \notin stored /\ pending[k] # {}
     THEN Holds(k, o, Asks("CONFIRM", Completes(k)))
     ELSE Holds(k, o, Asks("AUTH", {}))
  /\ UNCHANGED <<ivars, pending, stored, mem, dialog, late, faults>>

\* ResumeAsync returns; Connect_Click is done, or begins a pairing.
Resumed(k) ==
  /\ dialog[k] = "resume" /\ op[k] = "none" /\ mem[k].cred # NoToken
  /\ dialog' = [dialog EXCEPT ![k] = IF mem[k].scope = "desktop" /\ k \in stored
                                     THEN "closed" ELSE "begin"]
  /\ UNCHANGED <<ivars, pending, stored, mem, op, call, late, faults>>

Begin(k) ==
  /\ dialog[k] = "begin" /\ op[k] = "none"
  /\ Holds(k, "begin", Asks("PAIR", {}))
  /\ UNCHANGED <<ivars, pending, stored, mem, dialog, late, faults>>

\* The poll of the open dialog.
Complete(k) ==
  /\ dialog[k] = "open" /\ op[k] = "none" /\ Completes(k) # {}
  /\ Holds(k, "complete", Asks("CONFIRM", Completes(k)))
  /\ UNCHANGED <<ivars, pending, stored, mem, dialog, late, faults>>

\* An exception ends Connect_Click, but not if another call of the app met it.
DialogAfterError(k) == [dialog EXCEPT ![k] = IF op[k] = "get" THEN @ ELSE "closed"]

PairAnswered(k) ==
  /\ call[k].kind = "PAIR" /\ call[k].result # "waiting"
  /\ IF call[k].result = "CREATED"
     THEN /\ pending' = [pending EXCEPT ![k] = call[k].pairing]
          /\ mem' = [mem EXCEPT ![k].pairing = call[k].pairing]
          /\ dialog' = [dialog EXCEPT ![k] = "open"]
     ELSE dialog' = DialogAfterError(k) /\ UNCHANGED <<pending, mem>>
  /\ Releases(k)
  /\ UNCHANGED <<ivars, stored, late, faults>>

\* Accept: the enrolment goes to its file, the credential to memory.
Accepted(k, scope) ==
  /\ stored' = IF scope = "desktop" THEN stored \cup {k} ELSE stored
  /\ mem' = [mem EXCEPT ![k].cred = call[k].cred, ![k].scope = scope]

\* The operation goes on without a call: it clears the pairing (Clear).
PickupAnswered(k) ==
  /\ call[k].kind = "CONFIRM" /\ call[k].result # "waiting"
  /\ \/ /\ call[k].result = "ENROLLED"
        /\ Accepted(k, "desktop")
        /\ Holds(k, op[k], Asks("none", call[k].pairing))
        /\ UNCHANGED <<pending, dialog>>
     \/ /\ call[k].result = "PENDING"
        /\ IF op[k] = "complete" THEN Releases(k) ELSE Holds(k, op[k], Asks("AUTH", {}))
        /\ UNCHANGED <<pending, stored, mem, dialog>>
     \/ /\ call[k].result = "PAIRING_INVALID" /\ op[k] # "complete"
        /\ pending' = [pending EXCEPT ![k] = {}]
        /\ mem' = [mem EXCEPT ![k].pairing = {}]
        /\ Holds(k, op[k], Asks("AUTH", {}))
        /\ UNCHANGED <<stored, dialog>>
     \/ /\ \/ call[k].result = "PAIRING_INVALID" /\ op[k] = "complete"
           \/ call[k].result = "KEY_ALREADY_ENROLLED"
        /\ Releases(k) /\ dialog' = DialogAfterError(k)
        /\ UNCHANGED <<pending, stored, mem>>
  /\ UNCHANGED <<ivars, late, faults>>

Clear(k) ==
  /\ op[k] # "none" /\ call[k].kind = "none"
  /\ pending' = [pending EXCEPT ![k] = IF @ = call[k].pairing THEN {} ELSE @]
  /\ mem' = [mem EXCEPT ![k].pairing = {}]
  /\ dialog' = [dialog EXCEPT ![k] = IF op[k] = "complete" THEN "closed" ELSE @]
  /\ Releases(k)
  /\ UNCHANGED <<ivars, stored, late, faults>>

\* A tombstone credential is only for a profile that knows its device.
AuthAnswered(k) ==
  /\ call[k].kind = "AUTH" /\ call[k].result # "waiting"
  /\ \/ /\ call[k].result \in {"desktop", "tombstone_only"}
        /\ call[k].result = "desktop" \/ k \in stored
        /\ Accepted(k, call[k].result)
        /\ UNCHANGED dialog
     \/ /\ call[k].result = "tombstone_only" /\ k \notin stored
        /\ dialog' = DialogAfterError(k)
        /\ UNCHANGED <<stored, mem>>
     \/ /\ call[k].result = "ENROLLMENT_REQUIRED"
        /\ dialog' = [dialog EXCEPT ![k] = IF op[k] = "resume" THEN "begin" ELSE @]
        /\ UNCHANGED <<stored, mem>>
  /\ Releases(k)
  /\ UNCHANGED <<ivars, pending, late, faults>>

\* 14 minutes pass.
CredentialExpires(k) ==
  /\ mem[k].cred # NoToken
  /\ mem' = [mem EXCEPT ![k].cred = NoToken]
  /\ UNCHANGED <<ivars, pending, stored, dialog, op, call, late, faults>>

-----------------------------------------------------------------------------
(* Faults.                                                                 *)

\* The call is lost, or is on its way for as long as it takes.
Leaves(k) ==
  late' = [late EXCEPT ![k] =
             IF call[k].kind # "none" /\ call[k].result = "waiting" THEN @ \cup {call[k]} ELSE @]
Fault == faults < MaxFaults /\ faults' = faults + 1

GiveUp(k) ==
  /\ Fault /\ call[k].kind # "none"
  /\ Leaves(k) \/ UNCHANGED late
  /\ Releases(k) /\ dialog' = DialogAfterError(k)
  /\ UNCHANGED <<ivars, pending, stored, mem>>

Crash(k) ==
  /\ Fault
  /\ Leaves(k) \/ UNCHANGED late
  /\ Releases(k)
  /\ mem' = [mem EXCEPT ![k] = Blank]
  /\ dialog' = [dialog EXCEPT ![k] = "closed"]
  /\ UNCHANGED <<ivars, pending, stored>>

\* The dialog is closed, early or once its pairing has run out.
CloseDialog(k) ==
  /\ dialog[k] = "open" /\ op[k] = "none"
  /\ IF \E p \in Completes(k) : pair[p].open THEN Fault ELSE UNCHANGED faults
  /\ dialog' = [dialog EXCEPT ![k] = "closed"]
  /\ UNCHANGED <<ivars, pending, stored, mem, op, call, late>>

-----------------------------------------------------------------------------

Goes(k) ==
  \/ Connect(k) \/ Get(k, "resume") \/ Resumed(k) \/ Begin(k) \/ Complete(k)
  \/ PairAnswered(k) \/ PickupAnswered(k) \/ Clear(k) \/ AuthAnswered(k)
  \/ dialog[k] = "open" /\ (\A p \in Completes(k) : ~pair[p].open) /\ CloseDialog(k)

PNext ==
  \/ BrowserStep /\ UNCHANGED cvars
  \/ ResetDevice
  \/ \E p \in Pairing : PairingExpires(p) /\ UNCHANGED cvars
  \/ \E k \in Profile :
       \/ Goes(k) \/ ServeCall(k) \/ ServeLate(k)
       \/ Get(k, "get") \/ CredentialExpires(k)
       \/ GiveUp(k) \/ Crash(k) \/ CloseDialog(k)

\* The server answers, the client goes on with its operation, a pairing runs out
\* after five minutes, and the user connects again whenever he is not connected.
PFairness ==
  /\ \A k \in Profile : WF_pvars(Goes(k)) /\ WF_pvars(ServeCall(k))
  /\ \A p \in Pairing : WF_pvars(PairingExpires(p) /\ UNCHANGED cvars)

PSpec == PInit /\ [][PNext]_pvars /\ PFairness

-----------------------------------------------------------------------------
(* Properties.                                                             *)

PTypeOK ==
  /\ ITypeOK
  /\ pending \in [Profile -> Pairings] /\ stored \subseteq Profile
  /\ mem \in [Profile -> MemRow]
  /\ dialog \in [Profile -> {"closed", "resume", "begin", "open"}]
  /\ op \in [Profile -> Ops]
  /\ call \in [Profile -> CallRow]
  /\ late \in [Profile -> SUBSET CallRow]
  /\ faults \in 0..MaxFaults

\* A credential that security.device would accept, wherever it is, belongs to a
\* key that is enrolled for the device's owner.
UsableIsEnrolled ==
  \A k \in Profile, c \in Token :
    (c = mem[k].cred \/ c = call[k].cred) /\ c.live /\ c.gen = gen => Enrolled(k) /\ Owned

\* A profile whose key is enrolled learns it, although the answer to its pickup was
\* lost or another pairing took its place, as long as it stays enrolled.
EnrolledLearnsIt ==
  \A k \in Profile : Enrolled(k) ~> (mem[k].scope = "desktop" /\ k \in stored) \/ ~Enrolled(k)
=============================================================================
