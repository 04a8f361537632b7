------------------------------ MODULE Payments ------------------------------
(***************************************************************************)
(* Paying an invoice of the YariZan shop: orders, their payment attempts   *)
(* at the bank provider (ZarinPal), the durable job queue that verifies,   *)
(* expires and fulfils them, and the coupon and ownership the payment buys.*)
(*                                                                         *)
(* All orders of the model belong to one customer, one device generation   *)
(* and one product: that triple is the scope in which the code keeps at    *)
(* most one unpaid invoice and at most one entitlement. A transaction of   *)
(* the code, which holds the device row and then the order row, is one     *)
(* action; a provider call holds no lock, so the state before it, the call *)
(* and the transaction that uses its answer are separate actions.          *)
(*                                                                         *)
(* An operator under a "slip:" comment is a plausible mistake in the       *)
(* definition of the same idea below it. No action uses it: it is there to *)
(* show that a property of this module tells the two apart.                *)
(***************************************************************************)
EXTENDS Integers, FiniteSets

CONSTANTS
  Order,      \* the order rows that can be created
  Attempt,    \* the payment attempt rows that can be created
  OrderOf,    \* the order an attempt pays
  Worker,     \* executions of a claimed job, in any number of API processes
  None,       \* SQL NULL
  Quota,      \* redemptions the discount code allows in all
  Events      \* the optional events this instance lets happen

EventNames ==
  {"cancel", "supersede", "return", "expiry", "bank_ends",
   "crash", "slow_worker", "lost_answer", "reused_reference",
   "void", "reopen", "reconcile", "block", "reset", "issue"}

ASSUME OrderOfType   == OrderOf \in [Attempt -> Order]
ASSUME NoneIsFresh   == None \notin Order \cup Attempt \cup Worker
ASSUME QuotaIsNat    == Quota \in Nat
ASSUME EventsAreNamed == Events \subseteq EventNames

VARIABLES
  orders,     \* rows of orders and their discount_reservations
  attempts,   \* rows of payment_attempts, with their events and inquiries
  jobs,       \* rows of commerce_jobs
  scope,      \* entitlement, restriction and generation of the device
  creating,   \* the provider.create call of an attempt, in initiate
  bank,       \* the provider's own record of an attempt's authority
  worker      \* what each running job execution holds in memory

vars == <<orders, attempts, jobs, scope, creating, bank, worker>>

-----------------------------------------------------------------------------
(* Rows and their types.                                                   *)

OpenStates   == {"CREATED", "PENDING", "UNKNOWN"}
EndedStates  == {"FAILED", "CANCELLED"}
OrderStates  == {"NONE", "PENDING", "FULFILLMENT_PENDING", "FULFILLED"} \cup EndedStates
AttemptStates == {"NONE", "VERIFIED"} \cup OpenStates \cup EndedStates
CouponStates == {"NONE", "RESERVED", "UNKNOWN", "RELEASED", "REDEEMED"}
\* slip: a double charge becomes clearable.
RetryableWithDuplicate == {"PRODUCT_BLOCKED", "RECONCILIATION_REVIEW", "DUPLICATE_CAPTURE"}
Retryable    == {"PRODUCT_BLOCKED", "RECONCILIATION_REVIEW"}
Codes == Retryable \cup
  {"REFERENCE_REUSED", "DUPLICATE_CAPTURE", "LATE_RELEASED_COUPON", "OWNERSHIP_CONFLICT",
   "ALREADY_VERIFIED_UNPROVEN", "PROVIDER_STATE_CONFLICT", "PROVIDER_REVERSED",
   "ACCOUNT_GENERATION_CHANGED"}
ASSUME NoneIsNoCode == None \notin Codes

\* window: "open" while the invoice may be paid, "grace" while only a bank page
\* opened in time may still finish, "over" once the invoice may be expired.
OrderRow == [state: OrderStates, accepted: Attempt \cup {None}, paid: BOOLEAN,
             exc: Codes \cup {None}, held: BOOLEAN,
             window: {"open", "grace", "over"}, coupon: CouponStates]

\* fail: what payment_inquiries proves. "fresh" is an unbroken run of FAILED
\* observations, "aged" one that began FAILED_CONFIRMATION_SECONDS ago.
AttemptRow == [state: AttemptStates, auth: BOOLEAN, ret: {"none", "OK", "NOK"},
               req: BOOLEAN, ans: BOOLEAN, fail: {"no", "fresh", "aged"}]

OrderKinds == {"EXPIRE", "FULFILL", "PURCHASE_NOTICE"}
Job == [kind: {"VERIFY"}, target: Attempt] \cup [kind: OrderKinds, target: Order]
JobRow == [state: {"NONE", "PENDING", "RUNNING", "DONE", "REVIEW"},
           holder: Worker \cup {None}, live: BOOLEAN]

Stages == {"idle", "verify", "mark", "ask", "answer", "unproven", "inquire", "observe",
           "settle", "list", "window", "close", "fulfill", "notice", "read", "complete"}
Answers == {"none", "CAPTURED", "ALREADY", "REUSED", "REFUSED", "SILENT", "FAILED"}
Statuses == {"VERIFIED", "PAID", "IN_BANK", "FAILED", "REVERSED"}
Outcomes == {"DONE", "RETRY", "LATER"}
WorkerRow == [stage: Stages, job: Job \cup {None}, att: Attempt \cup {None},
              auth: BOOLEAN, back: BOOLEAN, prior: BOOLEAN, silent: BOOLEAN,
              res: Answers \cup Statuses \cup Outcomes]
Idle == [stage |-> "idle", job |-> None, att |-> None, auth |-> FALSE, back |-> FALSE,
         prior |-> FALSE, silent |-> FALSE, res |-> "none"]

V(a) == [kind |-> "VERIFY", target |-> a]
E(o) == [kind |-> "EXPIRE", target |-> o]
F(o) == [kind |-> "FULFILL", target |-> o]
N(o) == [kind |-> "PURCHASE_NOTICE", target |-> o]
JobOrder(j) == IF j.kind = "VERIFY" THEN OrderOf[j.target] ELSE j.target

NoJob  == [state |-> "NONE", holder |-> None, live |-> FALSE]
NewJob == [NoJob EXCEPT !.state = "PENDING"]

Init ==
  /\ orders = [o \in Order |-> [state |-> "NONE", accepted |-> None, paid |-> FALSE, exc |-> None,
                                held |-> FALSE, window |-> "open", coupon |-> "NONE"]]
  /\ attempts = [a \in Attempt |-> [state |-> "NONE", auth |-> FALSE, ret |-> "none",
                                    req |-> FALSE, ans |-> FALSE, fail |-> "no"]]
  /\ jobs = [j \in Job |-> NoJob]
  /\ scope = [owner |-> None, blocked |-> FALSE, current |-> TRUE]
  /\ creating = [a \in Attempt |-> "idle"]
  /\ bank = [a \in Attempt |-> "none"]
  /\ worker = [w \in Worker |-> Idle]

-----------------------------------------------------------------------------
(* What the handlers share.                                                *)

AttemptsOf(o) == {a \in Attempt : OrderOf[a] = o}
OpenOf(o)     == {a \in AttemptsOf(o) : attempts[a].state \in OpenStates}
\* slip: the accepted payment is not looked at.
UnpaidUntilDelivered(o) == orders[o].state \in {"PENDING", "FULFILLMENT_PENDING"}
Unpaid(o)     == orders[o].state = "PENDING" /\ orders[o].accepted = None
ReportedPaid(o) == \E a \in OpenOf(o) : attempts[a].ret = "OK"

\* INSERT ... ON CONFLICT (kind, target_id) DO NOTHING
Scheduled(js, j) == IF js[j].state = "NONE" THEN [js EXCEPT ![j] = NewJob] ELSE js

\* payments.exception: the order shows the last code. held: the append-only
\* commerce_exceptions keep one that no reconciliation may clear.
Raised(os, o, code) == [os EXCEPT ![o].exc = code, ![o].held = @ \/ code \notin Retryable]

\* The unique index payment_one_unresolved refuses a second open attempt.
MayOpen(a) == OpenOf(OrderOf[a]) \subseteq {a}

\* close: what ends with an unpaid invoice. A job under a live lease is left alone.
EndAttempts(as, o, s) ==
  [a \in Attempt |-> IF OrderOf[a] = o /\ as[a].state \in OpenStates
                     THEN [as[a] EXCEPT !.state = s] ELSE as[a]]
EndJobs(o) ==
  [j \in Job |-> IF /\ j.kind \in {"VERIFY", "EXPIRE"} /\ JobOrder(j) = o
                    /\ jobs[j].state # "NONE" /\ ~jobs[j].live
                 THEN [jobs[j] EXCEPT !.state = "DONE", !.holder = None] ELSE jobs[j]]
\* slip: only RESERVED coupons are released.
EndOrderKeepingUnknown(o, s) ==
  [orders EXCEPT ![o].state = s, ![o].coupon = IF @ = "RESERVED" THEN "RELEASED" ELSE @]
EndOrder(o, s) ==
  [orders EXCEPT ![o].state = s,
                 ![o].coupon = IF @ \in {"RESERVED", "UNKNOWN"} THEN "RELEASED" ELSE @]

Close(o, s) ==
  /\ attempts' = EndAttempts(attempts, o, s)
  /\ jobs' = EndJobs(o)
  /\ orders' = EndOrder(o, s)

\* An order that forbids another one in the scope.
\* slip: only an unpaid order forbids another one.
StandsOnlyUnpaid(o) == orders[o].state = "PENDING"
Stands(o) == orders[o].state \notin {"NONE"} \cup EndedStates

CouponsInUse == Cardinality({o \in Order : orders[o].coupon \in {"RESERVED", "UNKNOWN", "REDEEMED"}})

-----------------------------------------------------------------------------
(* The customer's requests.                                                *)

\* Orders.create: one order may exist that is unpaid, paid or delivered.
CreateOrder(o, withCoupon) ==
  /\ orders[o].state = "NONE"
  /\ scope.current /\ ~scope.blocked /\ scope.owner = None
  /\ \A p \in Order : ~Stands(p)
  /\ withCoupon => CouponsInUse < Quota
  /\ orders' = [orders EXCEPT ![o].state = "PENDING",
                              ![o].coupon = IF withCoupon THEN "RESERVED" ELSE "NONE"]
  /\ jobs' = Scheduled(jobs, E(o))
  /\ UNCHANGED <<attempts, scope, creating, bank, worker>>

\* Payments.supersede: a request for a new invoice first ends the unpaid one
\* that went to the bank, in a transaction of its own.
Supersede(o) ==
  /\ "supersede" \in Events
  /\ scope.current
  /\ Unpaid(o) /\ ~ReportedPaid(o)
  /\ \E a \in AttemptsOf(o) : attempts[a].state # "NONE"
  /\ Close(o, "CANCELLED")
  /\ UNCHANGED <<scope, creating, bank, worker>>

Cancel(o) ==
  /\ "cancel" \in Events
  /\ scope.current
  /\ Unpaid(o) /\ ~ReportedPaid(o)
  /\ Close(o, "CANCELLED")
  /\ UNCHANGED <<scope, creating, bank, worker>>

\* Payments.initiate, the admission: the attempt and its VERIFY job are durable
\* before the provider is asked for a session.
Initiate(a) ==
  LET o == OrderOf[a] IN
  /\ attempts[a].state = "NONE"
  /\ orders[o].state = "PENDING" /\ orders[o].window = "open"
  /\ scope.current /\ ~scope.blocked /\ scope.owner = None
  /\ \A b \in AttemptsOf(o) : attempts[b].state \in {"NONE"} \cup EndedStates
  /\ attempts' = [attempts EXCEPT ![a].state = "CREATED"]
  /\ jobs' = Scheduled(jobs, V(a))
  /\ creating' = [creating EXCEPT ![a] = "asked"]
  /\ UNCHANGED <<orders, scope, bank, worker>>

\* provider.create: the session exists, but the reply may be lost or refused.
ProviderCreates(a) ==
  /\ creating[a] = "asked"
  /\ \/ /\ bank' = [bank EXCEPT ![a] = "open"]
        /\ creating' = [creating EXCEPT ![a] = "opened"]
     \/ /\ "lost_answer" \in Events
        /\ bank' = bank
        /\ creating' = [creating EXCEPT ![a] = "failed"]
  /\ UNCHANGED <<orders, attempts, jobs, scope, worker>>

\* transition, as initiate calls it after provider.create: it refuses only a
\* VERIFIED attempt and the unique index a second open one.
Transition(a) == attempts[a].state # "VERIFIED" /\ MayOpen(a)

RecordCreated(a) ==
  /\ creating[a] = "opened"
  /\ IF Transition(a)
     THEN /\ attempts' = [attempts EXCEPT ![a].state = "PENDING", ![a].auth = TRUE]
          /\ creating' = [creating EXCEPT ![a] = "idle"]
     ELSE /\ creating' = [creating EXCEPT ![a] = "failed"]
          /\ UNCHANGED attempts
  /\ UNCHANGED <<orders, jobs, scope, bank, worker>>

RecordAmbiguous(a) ==
  /\ creating[a] = "failed"
  /\ creating' = [creating EXCEPT ![a] = "idle"]
  /\ attempts' = IF Transition(a)
                 THEN [attempts EXCEPT ![a].state = "UNKNOWN"] ELSE attempts
  /\ UNCHANGED <<orders, jobs, scope, bank, worker>>

\* The browser comes back from the bank page, once or again, with any Status;
\* only the first OK or NOK is kept.
Returned(a, status) ==
  LET o == OrderOf[a]
      seen == IF attempts[a].ret = "none"
              THEN [attempts EXCEPT ![a].ret = status] ELSE attempts
  IN
  /\ "return" \in Events
  /\ attempts[a].auth
  /\ IF seen[a].ret = "NOK" /\ seen[a].state \in OpenStates /\ Unpaid(o)
     THEN /\ attempts' = EndAttempts(seen, o, "CANCELLED")
          /\ jobs' = EndJobs(o)
          /\ orders' = EndOrder(o, "CANCELLED")
     ELSE /\ attempts' = seen
          /\ jobs' = IF /\ ~(seen[a].ret = "NOK" /\ seen[a].state \in OpenStates)
                        /\ ~jobs[V(a)].live /\ jobs[V(a)].state = "RUNNING"
                     THEN [jobs EXCEPT ![V(a)].state = "PENDING"] ELSE jobs
          /\ UNCHANGED orders
  /\ UNCHANGED <<scope, creating, bank, worker>>

-----------------------------------------------------------------------------
(* The bank and the clock.                                                 *)

\* The customer pays at the bank page: the money is held, not yet captured.
CustomerPays(a) ==
  /\ attempts[a].auth /\ bank[a] = "open"
  /\ bank' = [bank EXCEPT ![a] = "paid"]
  /\ UNCHANGED <<orders, attempts, jobs, scope, creating, worker>>

\* The session ends unpaid, or held money that was never verified goes back.
BankEnds(a) ==
  /\ "bank_ends" \in Events
  /\ \/ bank[a] = "open" /\ bank' = [bank EXCEPT ![a] = "failed"]
     \/ bank[a] = "paid" /\ bank' = [bank EXCEPT ![a] = "reversed"]
  /\ UNCHANGED <<orders, attempts, jobs, scope, creating, worker>>

\* FAILED_CONFIRMATION_SECONDS outlast the bank session, so a payment that was
\* still possible at the first FAILED observation is decided by then.
InquiryAges(a) ==
  /\ attempts[a].fail = "fresh" /\ bank[a] # "open"
  /\ attempts' = [attempts EXCEPT ![a].fail = "aged"]
  /\ UNCHANGED <<orders, jobs, scope, creating, bank, worker>>

\* expires_at passes, then PAYMENT_GRACE_SECONDS of the latest open attempt.
WindowPasses(o) ==
  /\ "expiry" \in Events
  /\ orders[o].state = "PENDING" /\ orders[o].window # "over"
  /\ orders' = [orders EXCEPT ![o].window = IF @ = "open" THEN "grace" ELSE "over"]
  /\ UNCHANGED <<attempts, jobs, scope, creating, bank, worker>>

\* lease_until passes: its execution is gone, or slower than the 60 seconds.
LeaseExpires(j) ==
  /\ jobs[j].live
  /\ "slow_worker" \in Events \/ worker[jobs[j].holder].job # j
  /\ jobs' = [jobs EXCEPT ![j].live = FALSE]
  /\ UNCHANGED <<orders, attempts, scope, creating, bank, worker>>

Crash ==
  /\ "crash" \in Events
  /\ \/ \E w \in Worker : /\ worker[w].stage # "idle"
                          /\ worker' = [worker EXCEPT ![w] = Idle]
                          /\ UNCHANGED creating
     \/ \E a \in Attempt : /\ creating[a] # "idle"
                           /\ creating' = [creating EXCEPT ![a] = "idle"]
                           /\ UNCHANGED worker
  /\ UNCHANGED <<orders, attempts, jobs, scope, bank>>

-----------------------------------------------------------------------------
(* Payments.work: claim a due job, run it, complete it under its token.    *)

FirstStage(j) == CASE j.kind = "VERIFY" -> "verify"
                   [] j.kind = "EXPIRE" -> "window"
                   [] j.kind = "FULFILL" -> "fulfill"
                   [] j.kind = "PURCHASE_NOTICE" -> "notice"

\* EXPIRE is due when the invoice window ends, or at once after AdminReconcile,
\* every other job at once.
Due(j) == j.kind = "EXPIRE" => orders[j.target].window # "open" \/ "reconcile" \in Events

Claim(w, j) ==
  /\ worker[w].stage = "idle"
  /\ jobs[j].state \in {"PENDING", "RUNNING"} /\ ~jobs[j].live /\ Due(j)
  /\ jobs' = [jobs EXCEPT ![j] = [state |-> "RUNNING", holder |-> w, live |-> TRUE]]
  /\ worker' = [worker EXCEPT ![w] = [Idle EXCEPT
                  !.stage = FirstStage(j), !.job = j,
                  !.att = IF j.kind = "VERIFY" THEN j.target ELSE None]]
  /\ UNCHANGED <<orders, attempts, scope, creating, bank>>

At(w, stage) == worker[w].stage = stage

\* Go on to a stage with what the execution still needs there: Keep inside
\* verifyAttempt, Become when its locals have gone out of scope.
Keep(w, stage, res) == worker' = [worker EXCEPT ![w].stage = stage, ![w].res = res]
Become(w, stage, res) ==
  LET me == worker[w] IN
  worker' = [worker EXCEPT ![w] =
    [Idle EXCEPT !.stage = stage, !.job = me.job, !.res = res,
                 !.att = IF stage = "settle" THEN me.att ELSE None,
                 !.silent = me.silent /\ stage \in {"settle", "close"}]]
Goto(w, stage) == Become(w, stage, "none")

\* What follows verifyAttempt: EXPIRE goes on to close, VERIFY reads the result.
After(w) == IF worker[w].job.kind = "EXPIRE" THEN "close" ELSE "read"

\* verifyAttempt begins: the row and the 101 evidence are read, without a lock.
VerifyBegin(w) ==
  LET a == attempts[worker[w].att] IN
  /\ At(w, "verify")
  /\ IF a.state \in OpenStates
     THEN worker' = [worker EXCEPT ![w].stage = "mark", ![w].auth = a.auth,
                                   ![w].back = (a.ret = "OK"), ![w].prior = a.req /\ ~a.ans]
     ELSE Goto(w, After(w))
  /\ UNCHANGED <<orders, attempts, jobs, scope, creating, bank>>

VerifyMark(w) ==
  /\ At(w, "mark")
  /\ attempts' = [attempts EXCEPT ![worker[w].att].req = TRUE]
  /\ IF worker[w].auth THEN Keep(w, "ask", "none") ELSE Keep(w, "answer", "SILENT")
  /\ UNCHANGED <<orders, jobs, scope, creating, bank>>

\* provider.query, at the provider: verify captures held money. 100 (CAPTURED)
\* is the call that captured, 101 (ALREADY) a later one; the reply may be lost.
ProviderVerifies(w) ==
  LET a == worker[w].att IN
  /\ At(w, "ask")
  /\ \E reply \in (IF bank[a] = "paid" THEN {"CAPTURED"} \cup ({"reused_reference"} \cap Events)
                   ELSE IF bank[a] = "captured" THEN {"ALREADY"} ELSE {"REFUSED"})
                  \cup ({"lost_answer"} \cap Events) :
       /\ Keep(w, "answer", CASE reply = "lost_answer" -> "SILENT"
                                [] reply = "reused_reference" -> "REUSED"
                                [] OTHER -> reply)
       /\ bank' = IF bank[a] = "paid" THEN [bank EXCEPT ![a] = "captured"] ELSE bank
  /\ UNCHANGED <<orders, attempts, jobs, scope, creating>>

VerifyAnswered(w) ==
  LET r == worker[w].res IN
  /\ At(w, "answer")
  /\ attempts' = IF r = "SILENT" THEN attempts
                 ELSE [attempts EXCEPT ![worker[w].att].ans = TRUE]
  /\ worker' = [worker EXCEPT ![w].silent = r = "SILENT" /\ worker[w].job.kind = "EXPIRE",
                              ![w].back = @ /\ r = "REFUSED", ![w].auth = FALSE, ![w].prior = FALSE,
                              ![w].stage = CASE r = "ALREADY" /\ ~worker[w].prior -> "unproven"
                                             [] r = "REFUSED" -> "inquire"
                                             [] OTHER -> "settle"]
  /\ UNCHANGED <<orders, jobs, scope, creating, bank>>

\* An unexplained 101 is never a capture.
Unproven(w) ==
  /\ At(w, "unproven")
  /\ orders' = Raised(orders, OrderOf[worker[w].att], "ALREADY_VERIFIED_UNPROVEN")
  /\ Become(w, "settle", "SILENT")
  /\ UNCHANGED <<attempts, jobs, scope, creating, bank>>

\* provider.inquire: a status, or no documented answer. While the session is
\* live the provider may report a refused try as FAILED.
ProviderStatus(a) == CASE bank[a] = "open" -> {"IN_BANK", "FAILED"}
                       [] bank[a] = "paid" -> {"PAID"}
                       [] bank[a] = "captured" -> {"VERIFIED"}
                       [] bank[a] = "failed" -> {"FAILED"}
                       [] bank[a] = "reversed" -> {"REVERSED"}
                       [] OTHER -> {}

Inquire(w) ==
  /\ At(w, "inquire")
  /\ \/ \E s \in ProviderStatus(worker[w].att) : Keep(w, "observe", s)
     \/ "lost_answer" \in Events /\ Become(w, "settle", "SILENT")
  /\ UNCHANGED <<orders, attempts, jobs, scope, creating, bank>>

\* reconcile: the observation is kept and may end the attempt as FAILED: a
\* repeated FAILED, or any failure once the customer came back reporting success.
\* slip: a PAID inquiry is taken for a capture.
ObservedPaid(a, status, back) == IF status = "PAID" THEN "CAPTURED" ELSE "SILENT"
Observed(a, status, back) ==
  IF \/ status = "FAILED" /\ attempts[a].fail = "aged"
     \/ status \in {"IN_BANK", "FAILED"} /\ back
  THEN "FAILED" ELSE "SILENT"

Observe(w) ==
  LET a == worker[w].att
      o == OrderOf[a]
      s == worker[w].res
  IN
  /\ At(w, "observe")
  /\ IF attempts[a].state = "VERIFIED"
     THEN /\ Become(w, "settle", "SILENT")
          /\ UNCHANGED <<orders, attempts>>
     ELSE /\ attempts' = [attempts EXCEPT ![a].fail =
                            IF s # "FAILED" THEN "no" ELSE IF @ = "no" THEN "fresh" ELSE @]
          /\ orders' = CASE s = "VERIFIED" -> Raised(orders, o, "PROVIDER_STATE_CONFLICT")
                         [] s = "REVERSED" -> Raised(orders, o, "PROVIDER_REVERSED")
                         [] OTHER -> orders
          /\ Become(w, "settle", Observed(a, s, worker[w].back))
  /\ UNCHANGED <<jobs, scope, creating, bank>>

\* settle has nothing to do for an attempt that is verified; an ended one it
\* still settles, because its money may have been captured late.
\* slip: settle ignores ended attempts.
SettledOrEnded(a) == attempts[a].state \in {"VERIFIED"} \cup EndedStates
Settled(a) == attempts[a].state = "VERIFIED"

\* slip: a released reservation is redeemed all the same.
RedeemedAgain(coupon) == IF coupon = "NONE" THEN "NONE" ELSE "REDEEMED"
Redeemed(coupon) == IF coupon \in {"RESERVED", "UNKNOWN"} THEN "REDEEMED" ELSE coupon

\* The order of a verified attempt is paid; accepting the attempt as its payment
\* redeems the coupon, unless that was released before.
Paid(o) ==
  [orders EXCEPT ![o].paid = TRUE,
                 ![o].state = IF @ = "FULFILLED" THEN @ ELSE "FULFILLMENT_PENDING"]
Accepted(a, o) == [Paid(o) EXCEPT ![o].accepted = a, ![o].coupon = Redeemed(@)]

\* settle, a verified result. A reused reference pays the order without
\* accepting the attempt; after that paid_at may never be written again.
SettleVerified(w) ==
  LET a == worker[w].att
      o == OrderOf[a]
      reused == worker[w].res = "REUSED"
      verified == attempts' = [attempts EXCEPT ![a].state = "VERIFIED"] /\ Goto(w, After(w))
  IN
  /\ At(w, "settle") /\ worker[w].res \in {"CAPTURED", "ALREADY", "REUSED"}
  /\ ~Settled(a)
  /\ \/ /\ reused
        /\ verified /\ UNCHANGED jobs
        /\ orders' = Raised(Paid(o), o, "REFERENCE_REUSED")
     \/ /\ ~reused /\ orders[o].accepted # None
        /\ verified /\ UNCHANGED jobs
        /\ orders' = Raised(orders, o, "DUPLICATE_CAPTURE")
     \/ /\ ~reused /\ orders[o].accepted = None /\ orders[o].paid
        /\ Become(w, "complete", "RETRY")
        /\ UNCHANGED <<orders, attempts, jobs>>
     \/ /\ ~reused /\ orders[o].accepted = None /\ ~orders[o].paid
        /\ orders[o].coupon = "RELEASED"
        /\ verified /\ UNCHANGED jobs
        /\ orders' = Raised(Accepted(a, o), o, "LATE_RELEASED_COUPON")
     \/ /\ ~reused /\ orders[o].accepted = None /\ ~orders[o].paid
        /\ orders[o].coupon # "RELEASED"
        /\ verified
        /\ orders' = Accepted(a, o)
        /\ jobs' = Scheduled(jobs, F(o))
  /\ UNCHANGED <<scope, creating, bank>>

\* settle, a definite failure: the attempt ends, and with it the unpaid invoice.
SettleFailed(w) ==
  LET a == worker[w].att
      o == OrderOf[a]
      seen == [attempts EXCEPT ![a].state = "FAILED"]
  IN
  /\ At(w, "settle") /\ worker[w].res = "FAILED"
  /\ ~Settled(a)
  /\ IF Unpaid(o)
     THEN /\ attempts' = EndAttempts(seen, o, "FAILED")
          /\ jobs' = EndJobs(o)
          /\ orders' = EndOrder(o, "FAILED")
     ELSE attempts' = seen /\ UNCHANGED <<jobs, orders>>
  /\ Goto(w, After(w))
  /\ UNCHANGED <<scope, creating, bank>>

\* settle, no result: the attempt becomes UNKNOWN whatever it was before.
SettleUnknown(w) ==
  LET a == worker[w].att
      o == OrderOf[a]
  IN
  /\ At(w, "settle") /\ worker[w].res = "SILENT"
  /\ ~Settled(a)
  /\ IF MayOpen(a)
     THEN /\ attempts' = [attempts EXCEPT ![a].state = "UNKNOWN"]
          /\ orders' = [orders EXCEPT ![o].coupon = IF @ = "RESERVED" THEN "UNKNOWN" ELSE @]
          /\ Goto(w, After(w))
     ELSE Become(w, "complete", "RETRY") /\ UNCHANGED <<attempts, orders>>
  /\ UNCHANGED <<jobs, scope, creating, bank>>

SettleNothing(w) ==
  /\ At(w, "settle") /\ Settled(worker[w].att)
  /\ Goto(w, After(w))
  /\ UNCHANGED <<orders, attempts, jobs, scope, creating, bank>>

\* expire, first transaction: is the invoice over, and is nobody told it is paid?
\* slip: a run before the end of the grace time completes the job.
EarlyNeverLater(o) == IF orders[o].window # "over" THEN "DONE" ELSE "none"
Early(o) == CASE ~Unpaid(o) -> "DONE"
              [] Unpaid(o) /\ orders[o].window # "over" -> "LATER"
              [] Unpaid(o) /\ orders[o].window = "over" -> IF ReportedPaid(o) THEN "DONE" ELSE "none"

ExpireCheck(w) ==
  LET early == Early(worker[w].job.target) IN
  /\ At(w, "window")
  /\ IF early = "none" THEN Goto(w, "list") ELSE Become(w, "complete", early)
  /\ UNCHANGED <<orders, attempts, jobs, scope, creating, bank>>

\* One last verify call for the open attempt the provider knows.
ExpireList(w) ==
  LET o == worker[w].job.target
      asked == {a \in OpenOf(o) : attempts[a].auth}
  IN
  /\ At(w, "list")
  /\ IF asked = {} THEN Goto(w, "close")
     ELSE \E a \in asked : worker' = [worker EXCEPT ![w].stage = "verify", ![w].att = a]
  /\ UNCHANGED <<orders, attempts, jobs, scope, creating, bank>>

ExpireClose(w) ==
  LET o == worker[w].job.target IN
  /\ At(w, "close")
  /\ IF ~Unpaid(o)
     THEN Become(w, "complete", "DONE") /\ UNCHANGED <<orders, attempts, jobs>>
     ELSE IF worker[w].silent
     THEN Become(w, "complete", "RETRY") /\ UNCHANGED <<orders, attempts, jobs>>
     ELSE Close(o, "CANCELLED") /\ Become(w, "complete", "DONE")
  /\ UNCHANGED <<scope, creating, bank>>

\* fulfill: the entitlement and the license, or the exception that stops them.
FulfillBlock(o) == CASE ~scope.current -> "ACCOUNT_GENERATION_CHANGED"
                     [] scope.current /\ scope.blocked -> "PRODUCT_BLOCKED"
                     [] scope.current /\ ~scope.blocked /\ scope.owner \notin {None, o} -> "OWNERSHIP_CONFLICT"
                     [] OTHER -> None

Fulfill(w) ==
  LET o == worker[w].job.target IN
  /\ At(w, "fulfill")
  /\ IF orders[o].state = "FULFILLED" \/ (orders[o].accepted # None /\ orders[o].exc # None)
     THEN Goto(w, "read") /\ UNCHANGED <<orders, jobs, scope>>
     ELSE IF orders[o].accepted = None
     THEN Become(w, "complete", "RETRY") /\ UNCHANGED <<orders, jobs, scope>>
     ELSE IF FulfillBlock(o) # None
     THEN /\ orders' = Raised(orders, o, FulfillBlock(o))
          /\ Goto(w, "read") /\ UNCHANGED <<jobs, scope>>
     ELSE /\ orders' = [orders EXCEPT ![o].state = "FULFILLED"]
          /\ scope' = [scope EXCEPT !.owner = o]
          /\ jobs' = Scheduled(jobs, N(o))
          /\ Goto(w, "read")
  /\ UNCHANGED <<attempts, creating, bank>>

\* PURCHASE_NOTICE records one message for a delivered order.
Notify(w) ==
  /\ At(w, "notice")
  /\ Become(w, "complete", IF orders[worker[w].job.target].state = "FULFILLED"
                           THEN "DONE" ELSE "RETRY")
  /\ UNCHANGED <<orders, attempts, jobs, scope, creating, bank>>

\* The row is read again, outside the transaction that changed it.
ReadResult(w) ==
  LET j == worker[w].job
      done == IF j.kind = "VERIFY" THEN attempts[j.target].state \in {"VERIFIED"} \cup EndedStates
              ELSE orders[j.target].state = "FULFILLED"
  IN
  /\ At(w, "read")
  /\ Become(w, "complete", IF done THEN "DONE" ELSE "RETRY")
  /\ UNCHANGED <<orders, attempts, jobs, scope, creating, bank>>

\* The job is completed only by the execution whose token it still carries.
\* Which unfinished run is the eighth, that sends the job to REVIEW, is left open.
Complete(w) ==
  LET j == worker[w].job
      mine == jobs[j].holder = w
  IN
  /\ At(w, "complete")
  /\ worker' = [worker EXCEPT ![w] = Idle]
  /\ \/ mine /\ worker[w].res = "DONE"
        /\ jobs' = [jobs EXCEPT ![j] = [NewJob EXCEPT !.state = "DONE"]]
        /\ UNCHANGED orders
     \/ mine /\ worker[w].res # "DONE"
        /\ jobs' = [jobs EXCEPT ![j] = NewJob]
        /\ UNCHANGED orders
     \/ mine /\ worker[w].res = "RETRY"
        /\ jobs' = [jobs EXCEPT ![j] = [NewJob EXCEPT !.state = "REVIEW"]]
        /\ orders' = Raised(orders, JobOrder(j), "RECONCILIATION_REVIEW")
     \/ ~mine /\ UNCHANGED <<jobs, orders>>
  /\ UNCHANGED <<attempts, scope, creating, bank>>

WorkerStep(w) ==
  \/ VerifyBegin(w) \/ VerifyMark(w) \/ ProviderVerifies(w) \/ VerifyAnswered(w)
  \/ Unproven(w) \/ Inquire(w) \/ Observe(w)
  \/ SettleVerified(w) \/ SettleFailed(w) \/ SettleUnknown(w) \/ SettleNothing(w)
  \/ ExpireCheck(w) \/ ExpireList(w) \/ ExpireClose(w)
  \/ Fulfill(w) \/ Notify(w) \/ ReadResult(w) \/ Complete(w)

-----------------------------------------------------------------------------
(* Admin operations on an order and on its scope.                          *)

VoidOrder(o) ==
  /\ "void" \in Events
  /\ Unpaid(o)
  /\ Close(o, "CANCELLED")
  /\ UNCHANGED <<scope, creating, bank, worker>>

\* reopen: an ended, unpaid invoice returns to payment with a new window; its
\* coupon is counted again and its EXPIRE job starts over, whoever held it.
Reopen(o) ==
  LET other == \E p \in Order \ {o} : Stands(p)
      coupon == orders[o].coupon # "NONE"
  IN
  /\ "reopen" \in Events
  /\ orders[o].state \in EndedStates /\ orders[o].accepted = None
  /\ scope.current /\ scope.owner = None /\ ~other
  /\ coupon => CouponsInUse < Quota
  /\ orders' = [orders EXCEPT ![o].state = "PENDING", ![o].window = "open",
                              ![o].coupon = IF coupon THEN "RESERVED" ELSE @]
  /\ jobs' = [jobs EXCEPT ![E(o)] = NewJob]
  /\ UNCHANGED <<attempts, scope, creating, bank, worker>>

\* reconcile: clears a retryable exception and schedules the order's jobs again.
\* slip: jobs in REVIEW stay there.
RescheduledPending(o) ==
  [j \in Job |-> IF JobOrder(j) = o /\ jobs[j].state = "PENDING" THEN NewJob ELSE jobs[j]]
Rescheduled(o) ==
  [j \in Job |-> IF JobOrder(j) = o /\ jobs[j].state \in {"PENDING", "REVIEW"} THEN NewJob ELSE jobs[j]]

AdminReconcile(o) ==
  /\ "reconcile" \in Events
  /\ orders[o].state # "NONE"
  /\ orders' = [orders EXCEPT ![o].exc = IF @ \in Retryable THEN None ELSE @]
  /\ jobs' = Rescheduled(o)
  /\ UNCHANGED <<attempts, scope, creating, bank, worker>>

RestrictProduct ==
  /\ "block" \in Events
  /\ scope' = [scope EXCEPT !.blocked = ~@]
  /\ UNCHANGED <<orders, attempts, jobs, creating, bank, worker>>

\* reset: the device starts a new generation; its orders keep the old one.
Reset ==
  /\ "reset" \in Events /\ scope.current
  /\ scope' = [scope EXCEPT !.current = FALSE]
  /\ UNCHANGED <<orders, attempts, jobs, creating, bank, worker>>

\* An Admin grants the product by other means (an activation code's entitlement).
Grant ==
  /\ "issue" \in Events /\ scope.current /\ scope.owner = None
  /\ scope' = [scope EXCEPT !.owner = "granted"]
  /\ UNCHANGED <<orders, attempts, jobs, creating, bank, worker>>

-----------------------------------------------------------------------------

CustomerStep ==
  \/ \E o \in Order : \/ \E withCoupon \in BOOLEAN : CreateOrder(o, withCoupon)
                      \/ Supersede(o) \/ Cancel(o)
  \/ \E a \in Attempt : \/ Initiate(a) \/ ProviderCreates(a) \/ RecordCreated(a) \/ RecordAmbiguous(a)
                        \/ \E status \in {"OK", "NOK", "none"} : Returned(a, status)
                        \/ CustomerPays(a)

ClockStep ==
  \/ \E a \in Attempt : BankEnds(a) \/ InquiryAges(a)
  \/ \E o \in Order : WindowPasses(o)
  \/ \E j \in Job : LeaseExpires(j)
  \/ Crash

AdminStep ==
  \/ \E o \in Order : VoidOrder(o) \/ Reopen(o) \/ AdminReconcile(o)
  \/ RestrictProduct \/ Reset \/ Grant

Next ==
  \/ CustomerStep \/ ClockStep \/ AdminStep
  \/ \E w \in Worker : \/ \E j \in Job : Claim(w, j)
                       \/ WorkerStep(w)

Spec == Init /\ [][Next]_vars

\* setInterval keeps calling work; a claimed job runs on; ORDER BY due_at reaches
\* every due job; an admitted initiate finishes; time passes.
Fairness ==
  /\ \A w \in Worker : WF_vars(WorkerStep(w))
  /\ \A j \in Job : SF_vars(\E w \in Worker : Claim(w, j)) /\ WF_vars(LeaseExpires(j))
  /\ \A a \in Attempt : WF_vars(ProviderCreates(a) \/ RecordCreated(a) \/ RecordAmbiguous(a))
  /\ \A o \in Order : WF_vars(WindowPasses(o))

FairSpec == Spec /\ Fairness

-----------------------------------------------------------------------------
(* What must hold.                                                         *)

\* Every row and every local of an execution has its type.
TypeOK ==
  /\ orders \in [Order -> OrderRow]
  /\ attempts \in [Attempt -> AttemptRow]
  /\ jobs \in [Job -> JobRow]
  /\ scope \in [owner: Order \cup {None, "granted"}, blocked: BOOLEAN, current: BOOLEAN]
  /\ creating \in [Attempt -> {"idle", "asked", "opened", "failed"}]
  /\ bank \in [Attempt -> {"none", "open", "paid", "captured", "failed", "reversed"}]
  /\ worker \in [Worker -> WorkerRow]

\* Nothing is delivered for money the bank did not capture: a delivered order
\* accepted a VERIFIED attempt of its own, and the bank captured that attempt.
DeliveredIsCaptured ==
  \A o \in Order : orders[o].state = "FULFILLED" =>
    \E a \in AttemptsOf(o) : /\ orders[o].accepted = a
                             /\ attempts[a].state = "VERIFIED" /\ bank[a] = "captured"

\* The product is delivered once per device generation: whoever else was paid
\* for it, or granted it, the delivered order is its owner (fulfill).
DeliveredOnce ==
  \A o \in Order : orders[o].state = "FULFILLED" => scope.owner = o

\* An accepted capture is final: no cancellation, expiry, failure or second
\* capture takes the order back or replaces the accepted attempt, and the
\* triggers that refuse such an update never have to.
PaidStaysPaid ==
  [][\A o \in Order : orders[o].accepted # None =>
        /\ orders'[o].accepted = orders[o].accepted
        /\ orders'[o].state \in {"FULFILLMENT_PENDING", "FULFILLED"}]_vars

\* A paid order that is not delivered has a FULFILL job that will run, or shows
\* the exception that stopped it.
PaidIsServed ==
  \A o \in Order : orders[o].state = "FULFILLMENT_PENDING" =>
    orders[o].exc # None \/ jobs[F(o)].state \in {"PENDING", "RUNNING"}

\* Captured money is on record, carried to the record by a running execution,
\* or flagged on the order for a person. Two verifications of one attempt, an
\* expiry and a cancellation may all race for it.
CaptureIsAccounted ==
  \A a \in Attempt : bank[a] = "captured" =>
    \/ attempts[a].state = "VERIFIED"
    \/ orders[OrderOf[a]].exc # None
    \/ \E w \in Worker : worker[w].att = a /\ worker[w].stage \in {"answer", "unproven", "settle"}

\* "a customer who paid but never came back still receives the product"
\* (expire): no ended invoice holds captured money that nobody is recording.
EndedHoldsNoMoney ==
  \A a \in Attempt : bank[a] = "captured" /\ orders[OrderOf[a]].state \in EndedStates =>
    \E w \in Worker : worker[w].att = a /\ worker[w].stage \in {"answer", "unproven", "settle"}

\* A customer charged twice for one order is never served in silence: a code
\* that reconcile may not clear is kept.
DoubleChargeIsHeld ==
  \A o \in Order :
    Cardinality({a \in AttemptsOf(o) : attempts[a].state = "VERIFIED"}) > 1 => orders[o].held

\* Late captures, reopened and superseded invoices never use a discount code
\* more often than its quota allows.
CouponWithinQuota == CouponsInUse <= Quota

\* An unpaid order holds its coupon, an ended one gave it back, a delivered one
\* redeemed it, and a paid one that lost it is not served without a person.
CouponFollowsOrder ==
  \A o \in Order : orders[o].coupon # "NONE" =>
    CASE orders[o].state = "PENDING" -> orders[o].coupon \in {"RESERVED", "UNKNOWN"}
      [] orders[o].state \in EndedStates -> orders[o].coupon = "RELEASED"
      [] orders[o].state = "FULFILLED" -> orders[o].coupon = "REDEEMED"
      [] OTHER -> orders[o].coupon = "REDEEMED" \/ orders[o].held

\* An invoice does not stay unpaid for ever, unless the bank reported it paid
\* and nobody confirmed that, or a person was asked to look.
UnpaidEnds ==
  \A o \in Order : orders[o].state = "PENDING" ~>
    \/ orders[o].state # "PENDING" \/ orders[o].exc # None \/ ReportedPaid(o)

\* Money taken by the bank reaches the product, or a person.
CaptureIsDelivered ==
  \A a \in Attempt : bank[a] = "captured" ~>
    orders[OrderOf[a]].state = "FULFILLED" \/ orders[OrderOf[a]].exc # None

\* The abstract purchase this design implements.
Promise ==
  INSTANCE Purchase WITH
    invoice <- [o \in Order |->
      CASE orders[o].state = "NONE" -> "none"
        [] orders[o].state = "PENDING" -> "unpaid"
        [] orders[o].state \in EndedStates -> "ended"
        [] orders[o].state = "FULFILLMENT_PENDING" -> "paid"
        [] orders[o].state = "FULFILLED" -> "delivered"],
    captured <- [o \in Order |-> \E a \in AttemptsOf(o) : bank[a] = "captured"]

KeepsPromise == Promise!Spec

=============================================================================
