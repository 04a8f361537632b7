------------------------------- MODULE Trials -------------------------------
(***************************************************************************)
(* The trials of one product on one device: the server's allocation, the   *)
(* Admin who renews it, and the desktop processes that play.               *)
(*                                                                         *)
(* A process draws one nonce for its life, so a process stands for its     *)
(* nonce. start and trialReset hold the device's row from begin to end and *)
(* are single steps. A call may be given up while the server still has it; *)
(* what the server does then is learned by nobody.                         *)
(*                                                                         *)
(* Left out: a nonce that comes back with another request                  *)
(* (IDEMPOTENCY_MISMATCH), which this client never sends.                  *)
(*                                                                         *)
(* An operator under a "slip:" comment is a plausible mistake in the       *)
(* definition of the same idea below it; no action uses it.                *)
(***************************************************************************)
EXTENDS FiniteSets, Integers

CONSTANTS
  Process,  \* processes of the desktop program, each with its nonce
  Request,  \* the Admin's requests to renew the allocation
  Budget,   \* the trials of an allocation: two in the code
  MaxGen,   \* the generations of the device that are looked at
  MaxLost   \* calls that get no answer

ASSUME FewProcesses == IsFiniteSet(Process) /\ IsFiniteSet(Request)
ASSUME Bounds       == Budget \in Nat \ {0} /\ MaxGen \in Nat \ {0} /\ MaxLost \in Nat

VARIABLES
  gen,     \* generation of the device
  offer,   \* whether the product can be tried on the device
  used,    \* trial_counters.used of a generation
  epoch,   \* trial_counters.allocation_epoch of a generation
  starts,  \* trial_starts
  asked,   \* the generation a request of the Admin was made for, 0 before it is made
  done,    \* the requests in admin_operations
  cred,    \* the generation of the credential the Windows profile holds
  state,   \* DesktopAccessController.State of a process
  call,    \* the operation under the semaphore of a process
  lost,    \* how many calls got no answer
  late     \* starts given up by their process and not yet served

server == <<gen, offer, used, epoch, starts>>
admin  == <<asked, done>>
tvars  == <<server, admin, cred, state, call, lost, late>>

-----------------------------------------------------------------------------

Gens == 1..MaxGen
StartRow == [nonce: Process, gen: Gens, epoch: Nat]
States == {"new", "none", "available", "exhausted", "unavailable", "blocked", "pending",
           "started", "purchased", "closed"}
Answers == {"none", "left", "exhausted", "granted", "blocked", "refused", "license"}
\* before: the state an upgrade goes back to.
CallRow == [kind: {"idle", "status", "start", "upgrade"}, cred: Gens, answer: Answers, before: States]
Idle == [kind |-> "idle", cred |-> 1, answer |-> "none", before |-> "none"]

TrialsInit ==
  /\ gen = 1 /\ offer = "open"
  /\ used = [g \in Gens |-> 0] /\ epoch = [g \in Gens |-> 1]
  /\ starts = {}
  /\ asked = [r \in Request |-> 0] /\ done = {}
  /\ cred = 1
  /\ state = [p \in Process |-> "new"] /\ call = [p \in Process |-> Idle]
  /\ lost = 0 /\ late = {}

RowsOf(p) == {s \in starts : s.nonce = p /\ s.gen = gen}
Row(p) == [nonce |-> p, gen |-> gen, epoch |-> epoch[gen]]
Running(p) == state[p] \notin {"new", "closed"}
CanEnter(p) == state[p] \in {"purchased", "started"}

-----------------------------------------------------------------------------
(* The server.                                                              *)

\* What the credential and the product allow: security.device, security.product.
Refusal(c) ==
  CASE c # gen -> "refused"
    [] c = gen /\ offer = "blocked" -> "blocked"
    [] c = gen /\ offer = "withdrawn" -> "refused"
    [] OTHER -> "none"

HasLeft == used[gen] < Budget

StatusAnswer(c) ==
  CASE Refusal(c) # "none" -> Refusal(c)
    [] OTHER -> IF HasLeft THEN "left" ELSE "exhausted"

\* slip: a nonce that was recorded is answered from its row, whichever allocation it is of.
AnyReplay(p) == RowsOf(p) # {}
\* A recorded nonce gets its answer again while its allocation is in force.
Replays(p) == Row(p) \in starts

Recorded(p) == RowsOf(p) # {}

StartAnswer(p, c) ==
  CASE Refusal(c) # "none" -> Refusal(c)
    [] Refusal(c) = "none" /\ Recorded(p) -> IF Replays(p) THEN "granted" ELSE "refused"
    [] OTHER -> IF HasLeft THEN "granted" ELSE "exhausted"

\* The transaction of start with a credential of generation c.
StartTransaction(p, c) ==
  LET new == StartAnswer(p, c) = "granted" /\ ~Recorded(p)
  IN  /\ starts' = IF new THEN starts \cup {Row(p)} ELSE starts
      /\ used' = IF new THEN [used EXCEPT ![gen] = @ + 1] ELSE used
      /\ UNCHANGED <<gen, offer, epoch>>

Answered(p, a) == call' = [call EXCEPT ![p].answer = a]

ServeStatus(p) ==
  /\ call[p].kind = "status" /\ call[p].answer = "none"
  /\ Answered(p, StatusAnswer(call[p].cred))
  /\ UNCHANGED <<server, admin, cred, state, lost, late>>

ServeStart(p) ==
  /\ call[p].kind = "start" /\ call[p].answer = "none"
  /\ StartTransaction(p, call[p].cred)
  /\ Answered(p, StartAnswer(p, call[p].cred))
  /\ UNCHANGED <<admin, cred, state, lost, late>>

\* A start whose process no longer waits for it.
ServeLate(r) ==
  /\ r \in late /\ late' = late \ {r}
  /\ StartTransaction(r.process, r.cred)
  /\ UNCHANGED <<admin, cred, state, call, lost>>

\* A pickup or a code: whether there is a license is Licensing's to say.
ServeUpgrade(p) ==
  /\ call[p].kind = "upgrade" /\ call[p].answer = "none"
  /\ \/ Answered(p, "refused")
     \/ call[p].cred = gen /\ Answered(p, "license")
  /\ UNCHANGED <<server, admin, cred, state, lost, late>>

-----------------------------------------------------------------------------
(* The Admin.                                                               *)

AskRenewal(r) ==
  /\ asked[r] = 0 /\ asked' = [asked EXCEPT ![r] = gen]
  /\ UNCHANGED <<server, done, cred, state, call, lost, late>>

\* slip: the operation is not looked up, so a repeated request runs again.
RunsAgain(r) == TRUE
\* A request that ran is answered from admin_operations.
FirstTime(r) == r \notin done

\* slip: the same allocation starts again.
SameEpoch(e) == e
NextEpoch(e) == e + 1

\* operation with trialReset. The request stays made: it may arrive again.
TrialReset(r) ==
  /\ asked[r] = gen /\ offer = "open" /\ FirstTime(r)
  /\ epoch' = [epoch EXCEPT ![gen] = NextEpoch(@)]
  /\ used' = [used EXCEPT ![gen] = 0]
  /\ done' = done \cup {r}
  /\ UNCHANGED <<gen, offer, starts, asked, cred, state, call, lost, late>>

\* The product is published or withdrawn (products), the device blocked for it or not
\* (restrict).
Offer(o) ==
  /\ offer # o /\ offer' = o
  /\ UNCHANGED <<gen, used, epoch, starts, admin, cred, state, call, lost, late>>

\* reset of the customer: the next generation has counters of its own.
DeviceReset ==
  /\ gen < MaxGen /\ gen' = gen + 1
  /\ UNCHANGED <<offer, used, epoch, starts, admin, cred, state, call, lost, late>>

-----------------------------------------------------------------------------
(* The desktop.                                                             *)

Launch(p) ==
  /\ state[p] = "new" /\ state' = [state EXCEPT ![p] = "none"]
  /\ UNCHANGED <<server, admin, cred, call, lost, late>>

\* The profile is enrolled again after a reset: Provisioning.
Enrol ==
  /\ cred # gen /\ cred' = gen
  /\ UNCHANGED <<server, admin, state, call, lost, late>>

Call(p, kind) ==
  call' = [call EXCEPT ![p] = [kind |-> kind, cred |-> cred, answer |-> "none",
                                before |-> IF kind = "upgrade" THEN state[p] ELSE "none"]]

\* RefreshTrialStatusAsync, when the page is shown and, while the server cannot be
\* reached, by its timer or a click.
Refresh(p) ==
  /\ Running(p) /\ call[p] = Idle /\ ~CanEnter(p)
  /\ Call(p, "status")
  /\ UNCHANGED <<server, admin, cred, state, lost, late>>

\* Trial_Click. The page starts a trial only where the server just said there is one.
Click(p) ==
  /\ Running(p) /\ call[p] = Idle /\ state[p] = "available"
  /\ Call(p, "start")
  /\ UNCHANGED <<server, admin, cred, state, lost, late>>

\* slip: whatever was shown before.
AlwaysPending(s) == "pending"
\* A trial that runs goes on while its product is bought.
WhileUpgrading(s) == IF s = "started" THEN s ELSE "pending"

\* PickupLicenseAsync, RedeemActivationCodeAsync.
Upgrade(p) ==
  /\ Running(p) /\ call[p] = Idle /\ state[p] # "purchased"
  /\ Call(p, "upgrade")
  /\ state' = [state EXCEPT ![p] = WhileUpgrading(@)]
  /\ UNCHANGED <<server, admin, cred, lost, late>>

\* What an answer makes of the state.
After(c) ==
  CASE c.answer = "left" -> "available"
    [] c.answer = "exhausted" -> "exhausted"
    [] c.answer = "granted" -> "started"
    [] c.answer = "license" -> "purchased"
    [] c.answer = "blocked" -> "blocked"
    [] OTHER -> IF c.kind = "upgrade" THEN c.before ELSE "unavailable"

Learn(p) ==
  /\ call[p].answer # "none"
  /\ state' = [state EXCEPT ![p] = After(call[p])]
  /\ call' = [call EXCEPT ![p] = Idle]
  /\ UNCHANGED <<server, admin, cred, lost, late>>

\* slip: a start that was sent is as good as granted.
AfterSending(c) == IF c.kind = "start" THEN "started" ELSE After([c EXCEPT !.answer = "none"])
\* A failed call, or one whose page was left, is a server that cannot be reached.
AfterFailure(c) == After([c EXCEPT !.answer = "none"])

Unserved(p) ==
  IF call[p].kind = "start" /\ call[p].answer = "none"
  THEN {[process |-> p, cred |-> call[p].cred]} ELSE {}

\* No answer in time, or the page is left and cancels its call.
NoAnswer(p) ==
  /\ call[p] # Idle /\ lost < MaxLost
  /\ state' = [state EXCEPT ![p] = AfterFailure(call[p])]
  /\ call' = [call EXCEPT ![p] = Idle]
  /\ late' = late \cup Unserved(p)
  /\ lost' = lost + 1
  /\ UNCHANGED <<server, admin, cred>>

\* Dispose, or the end of the process.
Exit(p) ==
  /\ Running(p)
  /\ state' = [state EXCEPT ![p] = "closed"]
  /\ call' = [call EXCEPT ![p] = Idle]
  /\ late' = late \cup Unserved(p)
  /\ UNCHANGED <<server, admin, cred, lost>>

-----------------------------------------------------------------------------

Serve(p) == ServeStatus(p) \/ ServeStart(p) \/ ServeUpgrade(p)

TrialsNext ==
  \/ \E p \in Process : \/ Launch(p) \/ Refresh(p) \/ Click(p) \/ Upgrade(p)
                        \/ Learn(p) \/ NoAnswer(p) \/ Exit(p) \/ Serve(p)
  \/ \E r \in late : ServeLate(r)
  \/ \E r \in Request : AskRenewal(r) \/ TrialReset(r)
  \/ \E o \in {"open", "withdrawn", "blocked"} : Offer(o)
  \/ DeviceReset \/ Enrol

TrialsSpec == TrialsInit /\ [][TrialsNext]_tvars

-----------------------------------------------------------------------------
(* Properties.                                                              *)

\* The counter says what the rows say: the starts of the allocation in force, never
\* more than it has, however starts, lost answers and renewals fall together.
AllocationIsExact ==
  \A g \in Gens :
    /\ used[g] = Cardinality({s \in starts : s.gen = g /\ s.epoch = epoch[g]})
    /\ used[g] <= Budget

\* What was played and what is still offered: an allocation and one more for every
\* renewal the Admin asked for, also when a request arrives again after trials were
\* played.
BudgetHolds ==
  \A g \in Gens : Cardinality({s \in starts : s.gen = g}) + (Budget - used[g]) <=
                  Budget * (1 + Cardinality({r \in Request : asked[r] = g}))

\* Nobody plays a trial the server has no record of: not on an answer that was lost,
\* refused or meant for another call.
PlayIsPaidFor == \A p \in Process : state[p] = "started" => \E s \in starts : s.nonce = p

\* A start that was recorded before a renewal and is repeated after it is not granted
\* on the allocation that was retired.
NoRetiredGrant ==
  [][\A p \in Process : call[p].answer = "none" /\ call'[p].answer = "granted" => (Row(p) \in starts)']_tvars

\* A trial that runs ends only with the process or in a purchase: no answer to another
\* call, no failed purchase and no decision of the Admin stops it.
TrialIsKept ==
  [][\A p \in Process : state[p] = "started" => state'[p] \in {"started", "purchased", "closed"}]_tvars

=============================================================================
