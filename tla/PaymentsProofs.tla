--------------------------- MODULE PaymentsProofs ---------------------------
(***************************************************************************)
(* What Payments keeps for every number of orders, attempts, workers and   *)
(* events: rows keep their types, an accepted capture is final, and nothing*)
(* is delivered twice or for money the bank did not capture; coupons follow*)
(* their orders within the quota; captured money and paid orders are not   *)
(* lost; and Payments implements Purchase.                                 *)
(*                                                                         *)
(* The invariant IInv strengthens those claims until one step preserves it:*)
(* what an execution holds in memory (WorkerOK, Carried), what a row that  *)
(* does not exist yet cannot have (Fresh), and what a VERIFIED attempt and *)
(* an accepted payment prove (Proven). PInv, in the second half, adds what *)
(* an order's coupon, job, code and attempts have to do with each other.   *)
(***************************************************************************)
EXTENDS Payments, FiniteSetTheorems, TLAPS

Results == Answers \cup Statuses \cup Outcomes

\* The stages inside verifyAttempt and settle, which work on one attempt.
Verifying == {"verify", "mark", "ask", "answer", "unproven", "inquire", "observe", "settle"}

\* An execution has the job and the attempt its stage works on.
RowOK(row) ==
  /\ row.stage # "idle" => row.job \in Job
  /\ row.stage \in Verifying => row.att \in Attempt
  /\ row.stage \in {"window", "list", "close"} => row.job.kind = "EXPIRE"
  /\ row.stage = "fulfill" => row.job.kind = "FULFILL"
  /\ row.stage = "notice" => row.job.kind = "PURCHASE_NOTICE"

WorkerOK == \A w \in Worker : RowOK(worker[w])

\* The bank knows nothing of an attempt before provider.create.
Fresh ==
  \A a \in Attempt :
    /\ attempts[a].state = "NONE" => bank[a] = "none" /\ creating[a] = "idle"
    /\ creating[a] = "asked" => bank[a] = "none"

\* A success an execution carries to settle is a capture.
Carried ==
  \A w \in Worker :
    worker[w].stage \in {"answer", "settle"} /\ worker[w].res \in {"CAPTURED", "ALREADY", "REUSED"} =>
      bank[worker[w].att] = "captured"

\* A VERIFIED attempt was captured; an accepted payment is a VERIFIED attempt of
\* its order, which it keeps out of every unpaid or ended state.
Proven ==
  /\ \A a \in Attempt : attempts[a].state = "VERIFIED" => bank[a] = "captured"
  /\ \A o \in Order : orders[o].accepted # None =>
       /\ OrderOf[orders[o].accepted] = o
       /\ attempts[orders[o].accepted].state = "VERIFIED"
       /\ orders[o].state \in {"FULFILLMENT_PENDING", "FULFILLED"}
  /\ \A o \in Order : orders[o].state = "FULFILLED" => orders[o].accepted # None

IInv == TypeOK /\ WorkerOK /\ Fresh /\ Carried /\ Proven /\ DeliveredOnce

-----------------------------------------------------------------------------
(* Names of states, codes and jobs.                                        *)

LEMMA StateNames ==
  /\ {"PENDING", "FULFILLMENT_PENDING", "FULFILLED"} \cup EndedStates \subseteq OrderStates
  /\ {"VERIFIED"} \cup OpenStates \cup EndedStates \subseteq AttemptStates
  /\ {"NONE", "RESERVED", "UNKNOWN", "RELEASED", "REDEEMED"} \subseteq CouponStates
  /\ OpenStates = {"CREATED", "PENDING", "UNKNOWN"} /\ EndedStates = {"FAILED", "CANCELLED"}
BY DEF OrderStates, AttemptStates, CouponStates, OpenStates, EndedStates

LEMMA WorkerNames ==
  /\ {"idle", "verify", "mark", "ask", "answer", "unproven", "inquire", "observe", "settle",
      "list", "window", "close", "fulfill", "notice", "read", "complete"} = Stages
  /\ {"none", "CAPTURED", "ALREADY", "REUSED", "REFUSED", "SILENT", "FAILED", "VERIFIED",
      "PAID", "IN_BANK", "REVERSED", "DONE", "RETRY", "LATER"} = Results
BY DEF Stages, Results, Answers, Statuses, Outcomes

LEMMA CodeNames ==
  {"PRODUCT_BLOCKED", "RECONCILIATION_REVIEW", "REFERENCE_REUSED", "DUPLICATE_CAPTURE",
   "LATE_RELEASED_COUPON", "OWNERSHIP_CONFLICT", "ALREADY_VERIFIED_UNPROVEN",
   "PROVIDER_STATE_CONFLICT", "PROVIDER_REVERSED", "ACCOUNT_GENERATION_CHANGED"} = Codes
BY DEF Codes, Retryable

LEMMA JobNames ==
  /\ \A j \in Job : JobOrder(j) \in Order
  /\ \A a \in Attempt : V(a) \in Job
  /\ \A o \in Order : E(o) \in Job /\ F(o) \in Job /\ N(o) \in Job
BY OrderOfType DEF JobOrder, Job, OrderKinds, V, E, F, N

-----------------------------------------------------------------------------
(* What the shared operators return.                                       *)

LEMMA RaisedType ==
  ASSUME NEW os \in [Order -> OrderRow], NEW o \in Order, NEW code \in Codes
  PROVE  Raised(os, o, code) \in [Order -> OrderRow]
BY ZenonT(60) DEF Raised, OrderRow

LEMMA StateCoupon ==
  ASSUME NEW row \in OrderRow, NEW s \in OrderStates, NEW coupon \in CouponStates
  PROVE  [row EXCEPT !.state = s, !.coupon = coupon] \in OrderRow
BY DEF OrderRow

LEMMA EndOrderType ==
  ASSUME orders \in [Order -> OrderRow], NEW o \in Order, NEW s \in EndedStates
  PROVE  EndOrder(o, s) \in [Order -> OrderRow]
<1> DEFINE coupon == IF orders[o].coupon \in {"RESERVED", "UNKNOWN"} THEN "RELEASED"
                     ELSE orders[o].coupon
<1>1. s \in OrderStates /\ coupon \in CouponStates
  BY StateNames DEF OrderRow
<1>2. EndOrder(o, s) = [orders EXCEPT ![o] = [@ EXCEPT !.state = s, !.coupon = coupon]]
  BY DEF EndOrder
<1> HIDE DEF coupon
<1>3. [orders[o] EXCEPT !.state = s, !.coupon = coupon] \in OrderRow
  BY <1>1, StateCoupon
<1> QED BY <1>2, <1>3

LEMMA EndAttemptsType ==
  ASSUME NEW as \in [Attempt -> AttemptRow], NEW o \in Order, NEW s \in EndedStates
  PROVE  EndAttempts(as, o, s) \in [Attempt -> AttemptRow]
BY DEF EndAttempts, AttemptRow, AttemptStates, EndedStates

LEMMA EndJobsType ==
  ASSUME jobs \in [Job -> JobRow], NEW o \in Order
  PROVE  EndJobs(o) \in [Job -> JobRow]
BY DEF EndJobs, JobRow

LEMMA ScheduledType ==
  ASSUME NEW js \in [Job -> JobRow], NEW j \in Job
  PROVE  Scheduled(js, j) \in [Job -> JobRow]
BY DEF Scheduled, JobRow, NewJob, NoJob

LEMMA RescheduledType ==
  ASSUME jobs \in [Job -> JobRow], NEW o \in Order
  PROVE  Rescheduled(o) \in [Job -> JobRow]
BY DEF Rescheduled, JobRow, NewJob, NoJob

LEMMA CloseType ==
  ASSUME TypeOK, NEW o \in Order, NEW s \in EndedStates, Close(o, s)
  PROVE  /\ orders' \in [Order -> OrderRow]
         /\ attempts' \in [Attempt -> AttemptRow]
         /\ jobs' \in [Job -> JobRow]
BY EndOrderType, EndAttemptsType, EndJobsType DEF Close, TypeOK

LEMMA BecomeType ==
  ASSUME worker \in [Worker -> WorkerRow], NEW w \in Worker, NEW stage \in Stages,
         NEW res \in Results, Become(w, stage, res)
  PROVE  worker' \in [Worker -> WorkerRow]
BY DEF Become, WorkerRow, Idle, Results

LEMMA GotoType ==
  ASSUME worker \in [Worker -> WorkerRow], NEW w \in Worker, NEW stage \in Stages, Goto(w, stage)
  PROVE  worker' \in [Worker -> WorkerRow]
BY BecomeType, WorkerNames DEF Goto

LEMMA KeepType ==
  ASSUME worker \in [Worker -> WorkerRow], NEW w \in Worker, NEW stage \in Stages,
         NEW res \in Results, Keep(w, stage, res)
  PROVE  worker' \in [Worker -> WorkerRow]
BY ZenonT(60) DEF Keep, WorkerRow, Results

LEMMA AfterStage == \A w \in Worker : After(w) \in Stages
BY WorkerNames DEF After
-----------------------------------------------------------------------------
(* One step keeps the types.                                               *)

LEMMA CustomerType ==
  ASSUME TypeOK, CustomerStep
  PROVE  TypeOK'
<1>1. ASSUME NEW o \in Order, NEW c \in BOOLEAN, CreateOrder(o, c) PROVE TypeOK'
  <2>1. orders' \in [Order -> OrderRow]
    <3> DEFINE coupon == IF c THEN "RESERVED" ELSE "NONE"
               row == [orders[o] EXCEPT !.state = "PENDING", !.coupon = coupon]
    <3>1. coupon \in CouponStates /\ "PENDING" \in OrderStates
      BY StateNames
    <3>2. orders' = [orders EXCEPT ![o] = row]
      BY <1>1 DEF CreateOrder
    <3>3. row \in OrderRow
      BY <3>1, StateCoupon DEF TypeOK
    <3> HIDE DEF row
    <3> QED BY <3>2, <3>3 DEF TypeOK
  <2> QED BY <1>1, <2>1, JobNames, ScheduledType DEF CreateOrder, TypeOK
<1>2. ASSUME NEW o \in Order, Supersede(o) \/ Cancel(o) PROVE TypeOK'
  <2>1. Close(o, "CANCELLED") /\ "CANCELLED" \in EndedStates
    BY <1>2, StateNames DEF Supersede, Cancel
  <2> QED BY <1>2, <2>1, CloseType DEF Supersede, Cancel, TypeOK
<1>3. ASSUME NEW a \in Attempt, Initiate(a) PROVE TypeOK'
  <2>1. attempts' \in [Attempt -> AttemptRow]
    BY <1>3 DEF Initiate, TypeOK, AttemptRow, AttemptStates, OpenStates
  <2> QED BY <1>3, <2>1, JobNames, ScheduledType DEF Initiate, TypeOK
<1>4. ASSUME NEW a \in Attempt, ProviderCreates(a) PROVE TypeOK'
  BY <1>4 DEF ProviderCreates, TypeOK
<1>5. ASSUME NEW a \in Attempt, RecordCreated(a) PROVE TypeOK'
  BY <1>5, SMTT(30) DEF RecordCreated, TypeOK, AttemptRow, AttemptStates, OpenStates
<1>6. ASSUME NEW a \in Attempt, RecordAmbiguous(a) PROVE TypeOK'
  BY <1>6, SMTT(30) DEF RecordAmbiguous, TypeOK, AttemptRow, AttemptStates, OpenStates
<1>7. ASSUME NEW a \in Attempt, NEW s \in {"OK", "NOK", "none"}, Returned(a, s) PROVE TypeOK'
  <2> DEFINE seen == IF attempts[a].ret = "none" THEN [attempts EXCEPT ![a].ret = s] ELSE attempts
  <2>1. V(a) \in Job /\ OrderOf[a] \in Order /\ "CANCELLED" \in EndedStates
    BY JobNames, OrderOfType, StateNames
  <2>2. seen \in [Attempt -> AttemptRow]
    BY <1>7 DEF TypeOK, AttemptRow
  <2>3. jobs' \in [Job -> JobRow]
    <3>1. [jobs EXCEPT ![V(a)].state = "PENDING"] \in [Job -> JobRow]
      BY <2>1 DEF TypeOK, JobRow
    <3> QED BY <1>7, <2>1, <3>1, EndJobsType DEF Returned, TypeOK
  <2>4. orders' \in [Order -> OrderRow]
    BY <1>7, <2>1, EndOrderType DEF Returned, TypeOK
  <2>5. attempts' \in [Attempt -> AttemptRow]
    <3>1. attempts' = seen \/ attempts' = EndAttempts(seen, OrderOf[a], "CANCELLED")
      BY <1>7 DEF Returned
    <3> HIDE DEF seen
    <3> QED BY <2>1, <2>2, <3>1, EndAttemptsType
  <2> QED BY <1>7, <2>3, <2>4, <2>5 DEF Returned, TypeOK
<1>8. ASSUME NEW a \in Attempt, CustomerPays(a) PROVE TypeOK'
  BY <1>8 DEF CustomerPays, TypeOK
<1> QED BY <1>1, <1>2, <1>3, <1>4, <1>5, <1>6, <1>7, <1>8 DEF CustomerStep

LEMMA ClockType ==
  ASSUME TypeOK, ClockStep
  PROVE  TypeOK'
<1>1. ASSUME NEW a \in Attempt, BankEnds(a) PROVE TypeOK'
  BY <1>1 DEF BankEnds, TypeOK
<1>2. ASSUME NEW a \in Attempt, InquiryAges(a) PROVE TypeOK'
  BY <1>2 DEF InquiryAges, TypeOK, AttemptRow
<1>3. ASSUME NEW o \in Order, WindowPasses(o) PROVE TypeOK'
  BY <1>3 DEF WindowPasses, TypeOK, OrderRow
<1>4. ASSUME NEW j \in Job, LeaseExpires(j) PROVE TypeOK'
  BY <1>4 DEF LeaseExpires, TypeOK, JobRow
<1>5. ASSUME Crash PROVE TypeOK'
  <2>1. Idle \in WorkerRow
    BY DEF Idle, WorkerRow, Stages, Answers
  <2> QED BY <1>5, <2>1 DEF Crash, TypeOK
<1> QED BY <1>1, <1>2, <1>3, <1>4, <1>5 DEF ClockStep

LEMMA AdminType ==
  ASSUME TypeOK, AdminStep
  PROVE  TypeOK'
<1>1. ASSUME NEW o \in Order, VoidOrder(o) PROVE TypeOK'
  BY <1>1, CloseType, StateNames DEF VoidOrder, TypeOK
<1>2. ASSUME NEW o \in Order, Reopen(o) PROVE TypeOK'
  <2>1. orders' \in [Order -> OrderRow]
    <3> DEFINE coupon == IF orders[o].coupon # "NONE" THEN "RESERVED" ELSE orders[o].coupon
               row == [orders[o] EXCEPT !.state = "PENDING", !.window = "open", !.coupon = coupon]
    <3>1. coupon \in CouponStates /\ "PENDING" \in OrderStates
      BY StateNames DEF TypeOK, OrderRow
    <3>2. orders' = [orders EXCEPT ![o] = row]
      BY <1>2 DEF Reopen
    <3>3. row \in OrderRow
      <4> HIDE DEF coupon
      <4> QED BY <3>1, ZenonT(60) DEF TypeOK, OrderRow
    <3> HIDE DEF row
    <3> QED BY <3>2, <3>3 DEF TypeOK
  <2>2. jobs' \in [Job -> JobRow]
    BY <1>2, JobNames DEF Reopen, TypeOK, JobRow, NewJob, NoJob
  <2> QED BY <1>2, <2>1, <2>2 DEF Reopen, TypeOK
<1>3. ASSUME NEW o \in Order, AdminReconcile(o) PROVE TypeOK'
  <2>1. orders' \in [Order -> OrderRow]
    BY <1>3 DEF AdminReconcile, TypeOK, OrderRow
  <2> QED BY <1>3, <2>1, RescheduledType DEF AdminReconcile, TypeOK
<1>4. ASSUME RestrictProduct \/ Reset \/ Grant PROVE TypeOK'
  BY <1>4 DEF RestrictProduct, Reset, Grant, TypeOK
<1> QED BY <1>1, <1>2, <1>3, <1>4 DEF AdminStep

LEMMA ClaimType ==
  ASSUME TypeOK, NEW w \in Worker, NEW j \in Job, Claim(w, j)
  PROVE  TypeOK'
<1> DEFINE row == [Idle EXCEPT !.stage = FirstStage(j), !.job = j,
                               !.att = IF j.kind = "VERIFY" THEN j.target ELSE None]
<1>1. FirstStage(j) \in Stages
  BY WorkerNames DEF FirstStage, Job, OrderKinds
<1>2. (IF j.kind = "VERIFY" THEN j.target ELSE None) \in Attempt \cup {None}
  BY DEF Job, OrderKinds
<1>3. Idle \in WorkerRow
  BY DEF Idle, WorkerRow, Stages, Answers
<1>4. row \in WorkerRow
  BY <1>1, <1>2, <1>3 DEF WorkerRow
<1>5. worker' \in [Worker -> WorkerRow]
  <2>1. worker' = [worker EXCEPT ![w] = row]
    BY DEF Claim
  <2> HIDE DEF row
  <2> QED BY <1>4, <2>1 DEF TypeOK
<1>6. jobs' \in [Job -> JobRow]
  BY DEF Claim, TypeOK, JobRow
<1> QED BY <1>5, <1>6 DEF Claim, TypeOK
\* The attempt of an execution that verifies or settles, and its order.
LEMMA OwnAttempt ==
  ASSUME WorkerOK, NEW w \in Worker, worker[w].stage \in Verifying
  PROVE  worker[w].att \in Attempt /\ OrderOf[worker[w].att] \in Order
BY OrderOfType DEF WorkerOK, RowOK

LEMMA BegunType ==
  ASSUME NEW row \in WorkerRow, NEW auth \in BOOLEAN, NEW back \in BOOLEAN, NEW prior \in BOOLEAN
  PROVE  [row EXCEPT !.stage = "mark", !.auth = auth, !.back = back, !.prior = prior] \in WorkerRow
BY WorkerNames, ZenonT(60) DEF WorkerRow

LEMMA AnsweredType ==
  ASSUME NEW row \in WorkerRow, NEW silent \in BOOLEAN, NEW back \in BOOLEAN, NEW stage \in Stages
  PROVE  [row EXCEPT !.silent = silent, !.back = back, !.auth = FALSE, !.prior = FALSE,
                     !.stage = stage] \in WorkerRow
BY DEF WorkerRow

LEMMA VerifyBeginType ==
  ASSUME TypeOK, NEW w \in Worker, worker[w].att \in Attempt, VerifyBegin(w)
  PROVE  worker' \in [Worker -> WorkerRow]
<1> DEFINE a == worker[w].att
           auth == attempts[a].auth
           back == (attempts[a].ret = "OK")
           prior == attempts[a].req /\ ~attempts[a].ans
<1>1. worker' = [worker EXCEPT ![w] = [@ EXCEPT !.stage = "mark", !.auth = auth, !.back = back,
                                                !.prior = prior]] \/ Goto(w, After(w))
  BY DEF VerifyBegin
<1>2. auth \in BOOLEAN /\ back \in BOOLEAN /\ prior \in BOOLEAN
  BY DEF TypeOK, AttemptRow
<1> HIDE DEF auth, back, prior
<1>3. [worker[w] EXCEPT !.stage = "mark", !.auth = auth, !.back = back, !.prior = prior] \in WorkerRow
  BY <1>2, BegunType DEF TypeOK
<1>4. CASE Goto(w, After(w))
  BY <1>4, GotoType, AfterStage DEF TypeOK
<1> QED BY <1>1, <1>3, <1>4 DEF TypeOK

LEMMA VerifyAnsweredType ==
  ASSUME TypeOK, NEW w \in Worker, worker[w].att \in Attempt, VerifyAnswered(w)
  PROVE  /\ worker' \in [Worker -> WorkerRow]
         /\ attempts' \in [Attempt -> AttemptRow]
<1> DEFINE r == worker[w].res
           stage == CASE r = "ALREADY" /\ ~worker[w].prior -> "unproven"
                      [] r = "REFUSED" -> "inquire"
                      [] OTHER -> "settle"
           silent == r = "SILENT" /\ worker[w].job.kind = "EXPIRE"
           back == worker[w].back /\ r = "REFUSED"
<1>1. worker' = [worker EXCEPT ![w] = [@ EXCEPT !.silent = silent, !.back = back, !.auth = FALSE,
                                                !.prior = FALSE, !.stage = stage]]
  BY DEF VerifyAnswered, TypeOK
<1>2. stage \in Stages /\ silent \in BOOLEAN /\ back \in BOOLEAN
  BY WorkerNames
<1>3. worker' \in [Worker -> WorkerRow]
  <2> HIDE DEF stage, silent, back
  <2> QED BY <1>1, <1>2, AnsweredType DEF TypeOK
<1>4. attempts' = attempts \/ attempts' = [attempts EXCEPT ![worker[w].att].ans = TRUE]
  BY DEF VerifyAnswered
<1>5. [attempts EXCEPT ![worker[w].att].ans = TRUE] \in [Attempt -> AttemptRow]
  BY ZenonT(60) DEF TypeOK, AttemptRow
<1> QED BY <1>3, <1>4, <1>5 DEF TypeOK

LEMMA VerifyType ==
  ASSUME TypeOK, WorkerOK, NEW w \in Worker,
         \/ VerifyBegin(w) \/ VerifyMark(w) \/ ProviderVerifies(w) \/ VerifyAnswered(w)
         \/ Unproven(w) \/ Inquire(w) \/ Observe(w)
  PROVE  TypeOK'
<1> DEFINE a == worker[w].att
<1>0. a \in Attempt /\ OrderOf[a] \in Order
  BY OwnAttempt DEF Verifying, At, VerifyBegin, VerifyMark, ProviderVerifies, VerifyAnswered,
                    Unproven, Inquire, Observe
<1>1. CASE VerifyBegin(w)
  BY <1>0, <1>1, VerifyBeginType DEF VerifyBegin, TypeOK
<1>2. CASE VerifyMark(w)
  <2>1. worker' \in [Worker -> WorkerRow]
    BY <1>2, KeepType, WorkerNames DEF VerifyMark, TypeOK
  <2> QED BY <1>2, <2>1, ZenonT(60) DEF VerifyMark, TypeOK, AttemptRow
<1>3. CASE ProviderVerifies(w)
  <2>1. worker' \in [Worker -> WorkerRow]
    BY <1>3, KeepType, WorkerNames DEF ProviderVerifies, TypeOK
  <2>2. bank' \in [Attempt -> {"none", "open", "paid", "captured", "failed", "reversed"}]
    BY <1>3 DEF ProviderVerifies, TypeOK
  <2> QED BY <1>3, <2>1, <2>2 DEF ProviderVerifies, TypeOK
<1>4. CASE VerifyAnswered(w)
  BY <1>0, <1>4, VerifyAnsweredType DEF VerifyAnswered, TypeOK
<1>5. CASE Unproven(w)
  <2>1. worker' \in [Worker -> WorkerRow]
    BY <1>5, BecomeType, WorkerNames DEF Unproven, TypeOK
  <2>2. orders' \in [Order -> OrderRow]
    BY <1>0, <1>5, RaisedType, CodeNames DEF Unproven, TypeOK
  <2> QED BY <1>5, <2>1, <2>2 DEF Unproven, TypeOK
<1>6. CASE Inquire(w)
  <2>1. ProviderStatus(a) \subseteq Results
    BY <1>0, WorkerNames DEF ProviderStatus, TypeOK
  <2>2. worker' \in [Worker -> WorkerRow]
    BY <1>6, <2>1, KeepType, BecomeType, WorkerNames DEF Inquire, TypeOK
  <2> QED BY <1>6, <2>2 DEF Inquire, TypeOK
<1>7. CASE Observe(w)
  <2>1. worker' \in [Worker -> WorkerRow]
    BY <1>7, BecomeType, WorkerNames DEF Observe, TypeOK, Observed
  <2>2. \/ orders' = orders
        \/ orders' = Raised(orders, OrderOf[a], "PROVIDER_STATE_CONFLICT")
        \/ orders' = Raised(orders, OrderOf[a], "PROVIDER_REVERSED")
    BY <1>7 DEF Observe
  <2>3. orders' \in [Order -> OrderRow]
    BY <1>0, <2>2, RaisedType, CodeNames DEF TypeOK
  <2>4. attempts' \in [Attempt -> AttemptRow]
    BY <1>7 DEF Observe, TypeOK, AttemptRow
  <2> QED BY <1>7, <2>1, <2>3, <2>4 DEF Observe, TypeOK
<1> QED BY <1>1, <1>2, <1>3, <1>4, <1>5, <1>6, <1>7

LEMMA PaidType ==
  ASSUME orders \in [Order -> OrderRow], NEW o \in Order, NEW a \in Attempt
  PROVE  Paid(o) \in [Order -> OrderRow] /\ Accepted(a, o) \in [Order -> OrderRow]
<1>1. Paid(o) \in [Order -> OrderRow]
  <2> DEFINE state == IF orders[o].state = "FULFILLED" THEN orders[o].state ELSE "FULFILLMENT_PENDING"
  <2>1. state \in OrderStates
    BY StateNames
  <2>2. Paid(o) = [orders EXCEPT ![o] = [@ EXCEPT !.paid = TRUE, !.state = state]]
    BY DEF Paid
  <2>3. [orders[o] EXCEPT !.paid = TRUE, !.state = state] \in OrderRow
    <3> HIDE DEF state
    <3> QED BY <2>1 DEF OrderRow
  <2> HIDE DEF state
  <2> QED BY <2>2, <2>3
<1>2. Accepted(a, o) \in [Order -> OrderRow]
  <2> DEFINE coupon == Redeemed(Paid(o)[o].coupon)
  <2>1. coupon \in CouponStates
    BY <1>1, StateNames DEF Redeemed, OrderRow
  <2>2. Accepted(a, o) = [Paid(o) EXCEPT ![o] = [@ EXCEPT !.accepted = a, !.coupon = coupon]]
    BY DEF Accepted
  <2>3. [Paid(o)[o] EXCEPT !.accepted = a, !.coupon = coupon] \in OrderRow
    <3> HIDE DEF coupon
    <3> QED BY <1>1, <2>1 DEF OrderRow
  <2> HIDE DEF coupon
  <2> QED BY <1>1, <2>2, <2>3
<1> QED BY <1>1, <1>2

LEMMA SettledOrders ==
  ASSUME TypeOK, NEW w \in Worker, SettleVerified(w),
         worker[w].att \in Attempt, OrderOf[worker[w].att] \in Order
  PROVE  LET a == worker[w].att
             o == OrderOf[a]
         IN  /\ \/ orders' = orders
                \/ orders' = Raised(Paid(o), o, "REFERENCE_REUSED")
                \/ orders' = Raised(orders, o, "DUPLICATE_CAPTURE")
                \/ orders[o].accepted = None /\ orders' = Raised(Accepted(a, o), o, "LATE_RELEASED_COUPON")
                \/ orders[o].accepted = None /\ orders' = Accepted(a, o)
             /\ jobs' = jobs \/ jobs' = Scheduled(jobs, F(o))
BY DEF SettleVerified

LEMMA SettleType ==
  ASSUME TypeOK, WorkerOK, NEW w \in Worker,
         SettleVerified(w) \/ SettleFailed(w) \/ SettleUnknown(w) \/ SettleNothing(w)
  PROVE  TypeOK'
<1> DEFINE a == worker[w].att
           o == OrderOf[a]
<1>0. a \in Attempt /\ o \in Order
  BY OwnAttempt DEF Verifying, At, SettleVerified, SettleFailed, SettleUnknown, SettleNothing
<1>1. \A s \in {"VERIFIED", "FAILED", "UNKNOWN"} :
        [attempts EXCEPT ![a].state = s] \in [Attempt -> AttemptRow]
  <2>1. attempts \in [Attempt -> AttemptRow] /\ attempts[a] \in AttemptRow
    BY <1>0 DEF TypeOK
  <2>2. \A s \in {"VERIFIED", "FAILED", "UNKNOWN"} : [attempts[a] EXCEPT !.state = s] \in AttemptRow
    BY <2>1, StateNames DEF AttemptRow
  <2> HIDE DEF a
  <2> QED BY <1>0, <2>1, <2>2
<1>2. CASE SettleVerified(w)
  <2>1. worker' \in [Worker -> WorkerRow]
    BY <1>2, BecomeType, GotoType, AfterStage, WorkerNames DEF SettleVerified, TypeOK
  <2>2. attempts' \in [Attempt -> AttemptRow]
    BY <1>1, <1>2 DEF SettleVerified, TypeOK
  <2>3. orders' \in [Order -> OrderRow]
    <3>1. \/ orders' = orders
          \/ orders' = Raised(Paid(o), o, "REFERENCE_REUSED")
          \/ orders' = Raised(orders, o, "DUPLICATE_CAPTURE")
          \/ orders' = Raised(Accepted(a, o), o, "LATE_RELEASED_COUPON")
          \/ orders' = Accepted(a, o)
      BY <1>0, <1>2, SettledOrders
    <3>2. orders \in [Order -> OrderRow]
      BY DEF TypeOK
    <3>3. Paid(o) \in [Order -> OrderRow] /\ Accepted(a, o) \in [Order -> OrderRow]
      BY <1>0, <3>2, PaidType
    <3> HIDE DEF o, a
    <3> QED BY <1>0, <3>1, <3>2, <3>3, RaisedType, CodeNames
  <2>4. jobs' \in [Job -> JobRow]
    <3>1. jobs' = jobs \/ jobs' = Scheduled(jobs, F(o))
      BY <1>0, <1>2, SettledOrders
    <3>2. F(o) \in Job
      BY <1>0, JobNames
    <3>3. Scheduled(jobs, F(o)) \in [Job -> JobRow]
      BY <3>2, ScheduledType DEF TypeOK
    <3> QED BY <3>1, <3>3 DEF TypeOK
  <2> QED BY <1>2, <2>1, <2>2, <2>3, <2>4 DEF SettleVerified, TypeOK
<1>3. CASE SettleFailed(w)
  <2>1. worker' \in [Worker -> WorkerRow]
    BY <1>3, GotoType, AfterStage, WorkerNames DEF SettleFailed, TypeOK
  <2>2. orders' \in [Order -> OrderRow]
    BY <1>0, <1>3, EndOrderType, StateNames DEF SettleFailed, TypeOK
  <2>3. attempts' \in [Attempt -> AttemptRow]
    <3> DEFINE seen == [attempts EXCEPT ![a].state = "FAILED"]
    <3>1. attempts' = seen \/ attempts' = EndAttempts(seen, o, "FAILED")
      BY <1>3 DEF SettleFailed
    <3>2. seen \in [Attempt -> AttemptRow] /\ "FAILED" \in EndedStates
      BY <1>1, StateNames
    <3> HIDE DEF seen
    <3> QED BY <1>0, <3>1, <3>2, EndAttemptsType
  <2>4. jobs' \in [Job -> JobRow]
    BY <1>0, <1>3, EndJobsType DEF SettleFailed, TypeOK
  <2> QED BY <1>3, <2>1, <2>2, <2>3, <2>4 DEF SettleFailed, TypeOK
<1>4. CASE SettleUnknown(w)
  <2>1. worker' \in [Worker -> WorkerRow]
    BY <1>4, BecomeType, GotoType, AfterStage, WorkerNames DEF SettleUnknown, TypeOK
  <2>2. orders' \in [Order -> OrderRow]
    BY <1>4, StateNames DEF SettleUnknown, TypeOK, OrderRow
  <2>3. attempts' \in [Attempt -> AttemptRow]
    BY <1>1, <1>4 DEF SettleUnknown, TypeOK
  <2> QED BY <1>4, <2>1, <2>2, <2>3 DEF SettleUnknown, TypeOK
<1>5. CASE SettleNothing(w)
  BY <1>5, GotoType, AfterStage DEF SettleNothing, TypeOK
<1> QED BY <1>2, <1>3, <1>4, <1>5

LEMMA JobType ==
  ASSUME TypeOK, WorkerOK, NEW w \in Worker,
         \/ ExpireCheck(w) \/ ExpireList(w) \/ ExpireClose(w)
         \/ Fulfill(w) \/ Notify(w) \/ ReadResult(w) \/ Complete(w)
  PROVE  TypeOK'
<1>1. CASE ExpireCheck(w)
  <2>1. Early(worker[w].job.target) \in Results
    BY WorkerNames DEF Early
  <2> QED BY <1>1, <2>1, GotoType, BecomeType, WorkerNames DEF ExpireCheck, TypeOK
<1>2. CASE ExpireList(w)
  <2>1. worker' \in [Worker -> WorkerRow]
    BY <1>2, GotoType, WorkerNames DEF ExpireList, TypeOK, OpenOf, AttemptsOf, WorkerRow
  <2> QED BY <1>2, <2>1 DEF ExpireList, TypeOK
<1>3. CASE ExpireClose(w)
  <2>1. worker[w].job.target \in Order
    BY <1>3 DEF ExpireClose, WorkerOK, RowOK, At, Job
  <2>2. worker' \in [Worker -> WorkerRow]
    BY <1>3, BecomeType, WorkerNames DEF ExpireClose, TypeOK
  <2> QED BY <1>3, <2>1, <2>2, CloseType, StateNames DEF ExpireClose, TypeOK
<1>4. CASE Fulfill(w)
  <2> DEFINE o == worker[w].job.target
  <2>1. o \in Order
    BY <1>4 DEF Fulfill, WorkerOK, RowOK, At, Job
  <2>2. worker' \in [Worker -> WorkerRow]
    BY <1>4, BecomeType, GotoType, WorkerNames DEF Fulfill, TypeOK
  <2>3. FulfillBlock(o) \in Codes \cup {None}
    BY CodeNames DEF FulfillBlock
  <2>4. \/ orders' \in {orders, [orders EXCEPT ![o].state = "FULFILLED"]}
        \/ orders' = Raised(orders, o, FulfillBlock(o)) /\ FulfillBlock(o) # None
    BY <1>4 DEF Fulfill
  <2>5. [orders EXCEPT ![o].state = "FULFILLED"] \in [Order -> OrderRow]
    <3>1. [orders[o] EXCEPT !.state = "FULFILLED"] \in OrderRow
      BY <2>1, StateNames DEF TypeOK, OrderRow
    <3> QED BY <2>1, <3>1 DEF TypeOK
  <2>6. orders' \in [Order -> OrderRow]
    BY <2>1, <2>3, <2>4, <2>5, RaisedType DEF TypeOK
  <2>7. jobs' \in [Job -> JobRow]
    BY <1>4, <2>1, ScheduledType, JobNames, SMTT(30) DEF Fulfill, TypeOK
  <2>8. scope' \in [owner: Order \cup {None, "granted"}, blocked: BOOLEAN, current: BOOLEAN]
    BY <1>4, <2>1 DEF Fulfill, TypeOK
  <2> QED BY <1>4, <2>2, <2>6, <2>7, <2>8 DEF Fulfill, TypeOK
<1>5. CASE Notify(w)
  BY <1>5, BecomeType, WorkerNames DEF Notify, TypeOK
<1>6. CASE ReadResult(w)
  BY <1>6, BecomeType, WorkerNames DEF ReadResult, TypeOK
<1>7. CASE Complete(w)
  <2> DEFINE j == worker[w].job
  <2>1. j \in Job
    BY <1>7 DEF Complete, WorkerOK, RowOK, At
  <2>2. Idle \in WorkerRow
    BY DEF Idle, WorkerRow, Stages, Answers
  <2>3. jobs' = jobs \/ \E s \in {"DONE", "PENDING", "REVIEW"} :
                          jobs' = [jobs EXCEPT ![j] = [NewJob EXCEPT !.state = s]]
    BY <1>7 DEF Complete, NewJob
  <2>4. \A s \in {"DONE", "PENDING", "REVIEW"} : [NewJob EXCEPT !.state = s] \in JobRow
    BY DEF JobRow, NewJob, NoJob
  <2>5. jobs' \in [Job -> JobRow]
    BY <2>1, <2>3, <2>4 DEF TypeOK
  <2>6. orders' \in [Order -> OrderRow]
    BY <1>7, <2>1, JobNames, RaisedType, CodeNames DEF Complete, TypeOK
  <2> QED BY <1>7, <2>2, <2>5, <2>6 DEF Complete, TypeOK
<1> QED BY <1>1, <1>2, <1>3, <1>4, <1>5, <1>6, <1>7

LEMMA NextType ==
  ASSUME TypeOK, WorkerOK, Next
  PROVE  TypeOK'
BY CustomerType, ClockType, AdminType, ClaimType, VerifyType, SettleType, JobType
   DEF Next, WorkerStep
-----------------------------------------------------------------------------
(* One step keeps what an execution holds.                                 *)

LEMMA BecomeEffect ==
  ASSUME worker \in [Worker -> WorkerRow], NEW w \in Worker, NEW stage, NEW res,
         Become(w, stage, res)
  PROVE  /\ worker'[w].stage = stage /\ worker'[w].res = res
         /\ worker'[w].job = worker[w].job
         /\ stage = "settle" => worker'[w].att = worker[w].att
         /\ \A v \in Worker \ {w} : worker'[v] = worker[v]
BY DEF Become, Idle, WorkerRow

LEMMA KeepEffect ==
  ASSUME worker \in [Worker -> WorkerRow], NEW w \in Worker, NEW stage, NEW res,
         Keep(w, stage, res)
  PROVE  /\ worker'[w].stage = stage /\ worker'[w].res = res
         /\ worker'[w].job = worker[w].job /\ worker'[w].att = worker[w].att
         /\ \A v \in Worker \ {w} : worker'[v] = worker[v]
BY DEF Keep, WorkerRow

\* Every step of an execution keeps its job, unless it ends; the others stand still.
LEMMA OthersStand ==
  ASSUME TypeOK, NEW w \in Worker, WorkerStep(w)
  PROVE  \A v \in Worker \ {w} : worker'[v] = worker[v]
<1>0. worker \in [Worker -> WorkerRow]
  BY DEF TypeOK
<1>1. ASSUME NEW stage, NEW res, Become(w, stage, res) \/ Keep(w, stage, res)
      PROVE \A v \in Worker \ {w} : worker'[v] = worker[v]
  BY <1>0, <1>1 DEF Become, Keep
<1>2. CASE VerifyBegin(w)
  BY <1>0, <1>1, <1>2 DEF VerifyBegin, Goto
<1>3. CASE VerifyMark(w) \/ ProviderVerifies(w)
  BY <1>1, <1>3 DEF VerifyMark, ProviderVerifies
<1>4. CASE VerifyAnswered(w)
  BY <1>0, <1>4 DEF VerifyAnswered
<1>5. CASE Unproven(w) \/ Inquire(w) \/ Observe(w)
  BY <1>1, <1>5 DEF Unproven, Inquire, Observe
<1>6. CASE SettleVerified(w) \/ SettleFailed(w) \/ SettleUnknown(w) \/ SettleNothing(w)
  BY <1>1, <1>6 DEF SettleVerified, SettleFailed, SettleUnknown, SettleNothing, Goto
<1>7. CASE ExpireCheck(w) \/ ExpireClose(w)
  BY <1>1, <1>7 DEF ExpireCheck, ExpireClose, Goto
<1>8. CASE ExpireList(w)
  BY <1>0, <1>1, <1>8 DEF ExpireList, Goto
<1>9. CASE Fulfill(w)
  BY <1>1, <1>9 DEF Fulfill, Goto
<1>10. CASE Notify(w) \/ ReadResult(w)
  BY <1>1, <1>10 DEF Notify, ReadResult
<1>11. CASE Complete(w)
  BY <1>0, <1>11 DEF Complete
<1> QED BY <1>2, <1>3, <1>4, <1>5, <1>6, <1>7, <1>8, <1>9, <1>10, <1>11 DEF WorkerStep

\* A step to a stage, as far as RowOK is concerned.
LEMMA BecomeOK ==
  ASSUME TypeOK, NEW w \in Worker, RowOK(worker[w]), worker[w].stage # "idle",
         NEW stage \in {"settle", "list", "close", "read", "complete"}, NEW res,
         Become(w, stage, res),
         stage = "settle" => worker[w].stage \in Verifying,
         stage \in {"list", "close"} => worker[w].job.kind = "EXPIRE"
  PROVE  RowOK(worker'[w])
BY BecomeEffect DEF RowOK, TypeOK, Verifying

LEMMA AfterOK ==
  ASSUME TypeOK, NEW w \in Worker, RowOK(worker[w]), worker[w].stage # "idle",
         Goto(w, After(w))
  PROVE  RowOK(worker'[w])
<1>1. After(w) \in {"close", "read"} /\ (After(w) = "close" => worker[w].job.kind = "EXPIRE")
  BY DEF After
<1> QED BY <1>1, BecomeOK DEF Goto

LEMMA KeepOK ==
  ASSUME TypeOK, NEW w \in Worker, RowOK(worker[w]), worker[w].stage \in Verifying,
         NEW stage \in Verifying, NEW res, Keep(w, stage, res)
  PROVE  RowOK(worker'[w])
BY KeepEffect DEF RowOK, TypeOK, Verifying

LEMMA StepRow ==
  ASSUME TypeOK, WorkerOK, NEW w \in Worker, WorkerStep(w)
  PROVE  RowOK(worker'[w])
<1>0. worker \in [Worker -> WorkerRow] /\ RowOK(worker[w])
  BY DEF TypeOK, WorkerOK
<1>1. CASE VerifyBegin(w)
  <2>1. worker[w].stage = "verify"
    BY <1>1 DEF VerifyBegin, At
  <2>2. CASE attempts[worker[w].att].state \in OpenStates
    <3>1. worker'[w].stage = "mark" /\ worker'[w].job = worker[w].job /\ worker'[w].att = worker[w].att
      BY <1>0, <1>1, <2>2 DEF VerifyBegin, WorkerRow
    <3> QED BY <1>0, <2>1, <3>1 DEF RowOK, Verifying
  <2>3. CASE Goto(w, After(w))
    BY <1>0, <2>1, <2>3, AfterOK
  <2> QED BY <1>1, <2>2, <2>3 DEF VerifyBegin
<1>2. CASE VerifyMark(w)
  BY <1>0, <1>2, KeepOK DEF VerifyMark, At, Verifying
<1>3. CASE ProviderVerifies(w)
  BY <1>0, <1>3, KeepOK DEF ProviderVerifies, At, Verifying
<1>4. CASE VerifyAnswered(w)
  <2>1. /\ worker'[w].stage \in {"unproven", "inquire", "settle"}
        /\ worker'[w].job = worker[w].job /\ worker'[w].att = worker[w].att
    BY <1>0, <1>4 DEF VerifyAnswered, WorkerRow
  <2> QED BY <1>0, <1>4, <2>1 DEF VerifyAnswered, At, RowOK, Verifying
<1>5. CASE Unproven(w)
  BY <1>0, <1>5, BecomeOK DEF Unproven, At, Verifying
<1>6. CASE Inquire(w)
  <2>1. worker[w].stage = "inquire"
    BY <1>6 DEF Inquire, At
  <2>2. ASSUME NEW s, Keep(w, "observe", s) PROVE RowOK(worker'[w])
    BY <1>0, <2>1, <2>2, KeepOK DEF Verifying
  <2>3. ASSUME Become(w, "settle", "SILENT") PROVE RowOK(worker'[w])
    BY <1>0, <2>1, <2>3, BecomeOK DEF Verifying
  <2> QED BY <1>6, <2>2, <2>3 DEF Inquire
<1>7. CASE Observe(w)
  <2>1. worker[w].stage = "observe" /\ \E res : Become(w, "settle", res)
    BY <1>7 DEF Observe, At
  <2> QED BY <1>0, <2>1, BecomeOK DEF Verifying
<1>8. CASE SettleVerified(w) \/ SettleFailed(w) \/ SettleUnknown(w) \/ SettleNothing(w)
  <2>1. worker[w].stage = "settle" /\ (Goto(w, After(w)) \/ Become(w, "complete", "RETRY"))
    BY <1>8 DEF SettleVerified, SettleFailed, SettleUnknown, SettleNothing, At
  <2> QED BY <1>0, <2>1, AfterOK, BecomeOK
<1>9. CASE ExpireCheck(w)
  <2>1. worker[w].stage = "window" /\ worker[w].job.kind = "EXPIRE"
    BY <1>0, <1>9 DEF ExpireCheck, At, RowOK
  <2>2. Become(w, "list", "none") \/ \E res : Become(w, "complete", res)
    BY <1>9 DEF ExpireCheck, Goto
  <2> QED BY <1>0, <2>1, <2>2, BecomeOK
<1>10. CASE ExpireList(w)
  <2>1. worker[w].stage = "list" /\ worker[w].job.kind = "EXPIRE"
    BY <1>0, <1>10 DEF ExpireList, At, RowOK
  <2>2. CASE Goto(w, "close")
    BY <1>0, <2>1, <2>2, BecomeOK DEF Goto
  <2>3. ASSUME NEW a \in Attempt, worker' = [worker EXCEPT ![w].stage = "verify", ![w].att = a]
        PROVE RowOK(worker'[w])
    <3>1. worker'[w].stage = "verify" /\ worker'[w].job = worker[w].job /\ worker'[w].att = a
      BY <1>0, <2>3 DEF WorkerRow
    <3> QED BY <1>0, <2>1, <3>1 DEF RowOK, Verifying
  <2> QED BY <1>10, <2>2, <2>3 DEF ExpireList, OpenOf, AttemptsOf
<1>11. CASE ExpireClose(w)
  <2>1. worker[w].stage = "close" /\ \E res : Become(w, "complete", res)
    BY <1>11 DEF ExpireClose, At
  <2> QED BY <1>0, <2>1, BecomeOK
<1>12. CASE Fulfill(w)
  <2>1. worker[w].stage = "fulfill" /\ (Become(w, "read", "none") \/ Become(w, "complete", "RETRY"))
    BY <1>12 DEF Fulfill, At, Goto
  <2> QED BY <1>0, <2>1, BecomeOK
<1>13. CASE Notify(w) \/ ReadResult(w)
  <2>1. worker[w].stage \in {"notice", "read"} /\ \E res : Become(w, "complete", res)
    BY <1>13 DEF Notify, ReadResult, At
  <2> QED BY <1>0, <2>1, BecomeOK
<1>14. CASE Complete(w)
  BY <1>0, <1>14 DEF Complete, Idle, RowOK, Verifying
<1> QED BY <1>1, <1>2, <1>3, <1>4, <1>5, <1>6, <1>7, <1>8, <1>9, <1>10, <1>11, <1>12, <1>13,
           <1>14 DEF WorkerStep

LEMMA NextWorker ==
  ASSUME TypeOK, WorkerOK, Next
  PROVE  WorkerOK'
<1>1. CASE CustomerStep \/ AdminStep
  <2>1. worker' = worker
    BY <1>1 DEF CustomerStep, AdminStep, CreateOrder, Supersede, Cancel, Initiate, ProviderCreates,
                RecordCreated, RecordAmbiguous, Returned, CustomerPays, VoidOrder, Reopen,
                AdminReconcile, RestrictProduct, Reset, Grant
  <2> QED BY <2>1 DEF WorkerOK
<1>2. CASE ClockStep
  <2>1. worker' = worker \/ \E w \in Worker : worker' = [worker EXCEPT ![w] = Idle]
    BY <1>2 DEF ClockStep, BankEnds, InquiryAges, WindowPasses, LeaseExpires, Crash
  <2>2. RowOK(Idle)
    BY DEF RowOK, Idle, Verifying
  <2> QED BY <2>1, <2>2 DEF WorkerOK, TypeOK
<1>3. ASSUME NEW w \in Worker, NEW j \in Job, Claim(w, j) PROVE WorkerOK'
  <2> DEFINE row == [Idle EXCEPT !.stage = FirstStage(j), !.job = j,
                                 !.att = IF j.kind = "VERIFY" THEN j.target ELSE None]
  <2>1. RowOK(row)
    BY DEF RowOK, Idle, Verifying, FirstStage, Job, OrderKinds
  <2>2. worker' = [worker EXCEPT ![w] = row]
    BY <1>3 DEF Claim
  <2> HIDE DEF row
  <2> QED BY <2>1, <2>2 DEF WorkerOK, TypeOK
<1>4. ASSUME NEW w \in Worker, WorkerStep(w) PROVE WorkerOK'
  BY <1>4, OthersStand, StepRow DEF WorkerOK
<1> QED BY <1>1, <1>2, <1>3, <1>4 DEF Next
-----------------------------------------------------------------------------
(* What every step but a settlement leaves alone.                          *)

\* No attempt becomes VERIFIED, stops being so, or is undone.
AttemptsKept ==
  \A a \in Attempt : /\ attempts'[a].state = "VERIFIED" <=> attempts[a].state = "VERIFIED"
                     /\ attempts'[a].state = "NONE" => attempts[a].state = "NONE"

\* No order is accepted or delivered, and only one without a payment ends or opens.
OrdersKept ==
  \A o \in Order : /\ orders'[o].accepted = orders[o].accepted
                   /\ \/ orders'[o].state = orders[o].state
                      \/ orders[o].accepted = None /\ orders'[o].state # "FULFILLED"

LEMMA RaisedKeeps ==
  ASSUME NEW os \in [Order -> OrderRow], NEW o \in Order, NEW code
  PROVE  \A p \in Order : /\ Raised(os, o, code)[p].state = os[p].state
                          /\ Raised(os, o, code)[p].accepted = os[p].accepted
BY DEF Raised, OrderRow

LEMMA EndOrderKeeps ==
  ASSUME orders \in [Order -> OrderRow], NEW o \in Order, NEW s \in EndedStates
  PROVE  /\ \A p \in Order \ {o} : EndOrder(o, s)[p] = orders[p]
         /\ EndOrder(o, s)[o].accepted = orders[o].accepted
         /\ EndOrder(o, s)[o].state = s
BY DEF EndOrder, OrderRow

LEMMA EndAttemptsKeeps ==
  ASSUME NEW as \in [Attempt -> AttemptRow], NEW o \in Order, NEW s \in EndedStates
  PROVE  \A a \in Attempt :
           /\ EndAttempts(as, o, s)[a].state = "VERIFIED" <=> as[a].state = "VERIFIED"
           /\ EndAttempts(as, o, s)[a].state = "NONE" => as[a].state = "NONE"
BY DEF EndAttempts, AttemptRow, OpenStates, EndedStates

LEMMA CloseKeeps ==
  ASSUME TypeOK, NEW o \in Order, NEW s \in EndedStates, Unpaid(o), Close(o, s)
  PROVE  AttemptsKept /\ OrdersKept
<1>1. AttemptsKept
  BY EndAttemptsKeeps DEF Close, AttemptsKept, TypeOK
<1>2. OrdersKept
  BY EndOrderKeeps DEF Close, OrdersKept, TypeOK, Unpaid, EndedStates
<1> QED BY <1>1, <1>2

LEMMA CustomerKeeps ==
  ASSUME TypeOK, Proven, CustomerStep
  PROVE  AttemptsKept /\ OrdersKept
<1>1. ASSUME NEW o \in Order, NEW c \in BOOLEAN, CreateOrder(o, c) PROVE AttemptsKept /\ OrdersKept
  <2>1. AttemptsKept
    BY <1>1 DEF CreateOrder, AttemptsKept
  <2>2. orders[o].accepted = None
    BY <1>1 DEF CreateOrder, Proven
  <2>3. OrdersKept
    BY <1>1, <2>2 DEF CreateOrder, OrdersKept, TypeOK, OrderRow
  <2> QED BY <2>1, <2>3
<1>2. ASSUME NEW o \in Order, Supersede(o) \/ Cancel(o) PROVE AttemptsKept /\ OrdersKept
  BY <1>2, CloseKeeps, StateNames DEF Supersede, Cancel
<1>3. ASSUME NEW a \in Attempt, Initiate(a) PROVE AttemptsKept /\ OrdersKept
  BY <1>3 DEF Initiate, AttemptsKept, OrdersKept, TypeOK, AttemptRow
<1>4. ASSUME NEW a \in Attempt, ProviderCreates(a) \/ CustomerPays(a) PROVE AttemptsKept /\ OrdersKept
  BY <1>4 DEF ProviderCreates, CustomerPays, AttemptsKept, OrdersKept
<1>5. ASSUME NEW a \in Attempt, RecordCreated(a) \/ RecordAmbiguous(a) PROVE AttemptsKept /\ OrdersKept
  BY <1>5 DEF RecordCreated, RecordAmbiguous, Transition, AttemptsKept, OrdersKept, TypeOK, AttemptRow
<1>6. ASSUME NEW a \in Attempt, NEW s \in {"OK", "NOK", "none"}, Returned(a, s)
      PROVE AttemptsKept /\ OrdersKept
  <2> DEFINE seen == IF attempts[a].ret = "none" THEN [attempts EXCEPT ![a].ret = s] ELSE attempts
  <2>1. OrderOf[a] \in Order /\ "CANCELLED" \in EndedStates
    BY OrderOfType, StateNames
  <2>2. seen \in [Attempt -> AttemptRow] /\ \A b \in Attempt : seen[b].state = attempts[b].state
    BY <1>6 DEF TypeOK, AttemptRow
  <2>3. attempts' = seen \/ attempts' = EndAttempts(seen, OrderOf[a], "CANCELLED")
    BY <1>6 DEF Returned
  <2>4. AttemptsKept
    <3> HIDE DEF seen
    <3> QED BY <2>1, <2>2, <2>3, EndAttemptsKeeps DEF AttemptsKept
  <2>5. orders' = orders \/ (Unpaid(OrderOf[a]) /\ orders' = EndOrder(OrderOf[a], "CANCELLED"))
    BY <1>6 DEF Returned
  <2>6. OrdersKept
    BY <2>1, <2>5, EndOrderKeeps DEF OrdersKept, TypeOK, Unpaid
  <2> QED BY <2>4, <2>6
<1> QED BY <1>1, <1>2, <1>3, <1>4, <1>5, <1>6 DEF CustomerStep

LEMMA ClockAdminKeeps ==
  ASSUME TypeOK, ClockStep \/ AdminStep
  PROVE  AttemptsKept /\ OrdersKept
<1>1. ASSUME NEW a \in Attempt, BankEnds(a) \/ InquiryAges(a) PROVE AttemptsKept /\ OrdersKept
  BY <1>1 DEF BankEnds, InquiryAges, AttemptsKept, OrdersKept, TypeOK, AttemptRow
<1>2. ASSUME NEW o \in Order, WindowPasses(o) \/ AdminReconcile(o) PROVE AttemptsKept /\ OrdersKept
  BY <1>2 DEF WindowPasses, AdminReconcile, AttemptsKept, OrdersKept, TypeOK, OrderRow
<1>3. ASSUME (\E j \in Job : LeaseExpires(j)) \/ Crash \/ RestrictProduct \/ Reset \/ Grant
      PROVE AttemptsKept /\ OrdersKept
  BY <1>3 DEF LeaseExpires, Crash, RestrictProduct, Reset, Grant, AttemptsKept, OrdersKept
<1>4. ASSUME NEW o \in Order, VoidOrder(o) PROVE AttemptsKept /\ OrdersKept
  BY <1>4, CloseKeeps, StateNames DEF VoidOrder
<1>5. ASSUME NEW o \in Order, Reopen(o) PROVE AttemptsKept /\ OrdersKept
  BY <1>5 DEF Reopen, AttemptsKept, OrdersKept, TypeOK, OrderRow
<1> QED BY <1>1, <1>2, <1>3, <1>4, <1>5 DEF ClockStep, AdminStep

LEMMA WorkerKeeps ==
  ASSUME TypeOK, WorkerOK, NEW w \in Worker, WorkerStep(w), ~SettleVerified(w), ~Fulfill(w)
  PROVE  AttemptsKept /\ OrdersKept
<1>1. CASE VerifyBegin(w) \/ Inquire(w) \/ ProviderVerifies(w) \/ SettleNothing(w)
           \/ ExpireCheck(w) \/ ExpireList(w) \/ Notify(w) \/ ReadResult(w)
  <2>1. attempts' = attempts /\ orders' = orders
    BY <1>1 DEF VerifyBegin, Inquire, ProviderVerifies, SettleNothing, ExpireCheck, ExpireList,
                Notify, ReadResult
  <2> QED BY <2>1 DEF AttemptsKept, OrdersKept
<1>2. CASE VerifyMark(w) \/ VerifyAnswered(w)
  <2>1. orders' = orders
    BY <1>2 DEF VerifyMark, VerifyAnswered
  <2>2. \/ attempts' = attempts
        \/ attempts' = [attempts EXCEPT ![worker[w].att].req = TRUE]
        \/ attempts' = [attempts EXCEPT ![worker[w].att].ans = TRUE]
    BY <1>2 DEF VerifyMark, VerifyAnswered
  <2> QED BY <2>1, <2>2 DEF AttemptsKept, OrdersKept, TypeOK, AttemptRow
<1>3. CASE Unproven(w)
  <2>1. OrderOf[worker[w].att] \in Order
    BY <1>3, OwnAttempt DEF Unproven, At, Verifying
  <2> QED BY <1>3, <2>1, RaisedKeeps DEF Unproven, AttemptsKept, OrdersKept, TypeOK
<1>4. CASE Observe(w)
  <2> DEFINE o == OrderOf[worker[w].att]
  <2>1. o \in Order
    BY <1>4, OwnAttempt DEF Observe, At, Verifying
  <2>2. orders' = orders \/ \E code \in Codes : orders' = Raised(orders, o, code)
    BY <1>4, CodeNames DEF Observe
  <2>3. AttemptsKept
    BY <1>4 DEF Observe, AttemptsKept, TypeOK, AttemptRow
  <2> QED BY <2>1, <2>2, <2>3, RaisedKeeps DEF OrdersKept, TypeOK
<1>5. CASE SettleFailed(w)
  <2> DEFINE a == worker[w].att
             o == OrderOf[a]
             seen == [attempts EXCEPT ![a].state = "FAILED"]
  <2>1. a \in Attempt /\ o \in Order /\ "FAILED" \in EndedStates
    BY <1>5, OwnAttempt, StateNames DEF SettleFailed, At, Verifying
  <2>2. seen \in [Attempt -> AttemptRow]
    BY <2>1, StateNames, ZenonT(60) DEF TypeOK, AttemptRow
  <2>3. attempts[a].state # "VERIFIED"
    BY <1>5 DEF SettleFailed, Settled
  <2>4. \A b \in Attempt : /\ seen[b].state = "VERIFIED" <=> attempts[b].state = "VERIFIED"
                           /\ seen[b].state = "NONE" => attempts[b].state = "NONE"
    BY <2>3 DEF TypeOK, AttemptRow
  <2>5. attempts' = seen \/ attempts' = EndAttempts(seen, o, "FAILED")
    BY <1>5 DEF SettleFailed
  <2>6. AttemptsKept
    <3> HIDE DEF seen, o
    <3> QED BY <2>1, <2>2, <2>4, <2>5, EndAttemptsKeeps DEF AttemptsKept
  <2>7. orders' = orders \/ (Unpaid(o) /\ orders' = EndOrder(o, "FAILED"))
    BY <1>5 DEF SettleFailed
  <2>8. OrdersKept
    BY <2>1, <2>7, EndOrderKeeps DEF OrdersKept, TypeOK, Unpaid
  <2> QED BY <2>6, <2>8
<1>6. CASE SettleUnknown(w)
  <2>1. AttemptsKept
    BY <1>6 DEF SettleUnknown, Settled, AttemptsKept, TypeOK, AttemptRow
  <2>2. OrdersKept
    BY <1>6 DEF SettleUnknown, OrdersKept, TypeOK, OrderRow
  <2> QED BY <2>1, <2>2
<1>7. CASE ExpireClose(w)
  <2>1. worker[w].job.target \in Order
    BY <1>7 DEF ExpireClose, WorkerOK, RowOK, At, Job
  <2>2. CASE attempts' = attempts /\ orders' = orders
    BY <2>2 DEF AttemptsKept, OrdersKept
  <2> QED BY <1>7, <2>1, <2>2, CloseKeeps, StateNames DEF ExpireClose
<1>8. CASE Complete(w)
  <2>1. JobOrder(worker[w].job) \in Order
    BY <1>8, JobNames DEF Complete, WorkerOK, RowOK, At
  <2>2. attempts' = attempts
    BY <1>8 DEF Complete
  <2>3. orders' = orders \/ orders' = Raised(orders, JobOrder(worker[w].job), "RECONCILIATION_REVIEW")
    BY <1>8 DEF Complete
  <2> QED BY <2>1, <2>2, <2>3, RaisedKeeps DEF AttemptsKept, OrdersKept, TypeOK
<1> QED BY <1>1, <1>2, <1>3, <1>4, <1>5, <1>6, <1>7, <1>8 DEF WorkerStep

\* The step that delivers, and the one that records a capture.
LEMMA FulfillEffect ==
  ASSUME TypeOK, WorkerOK, NEW w \in Worker, Fulfill(w)
  PROVE  /\ AttemptsKept
         /\ \A o \in Order : orders'[o].accepted = orders[o].accepted
         /\ \/ scope' = scope /\ \A o \in Order : orders'[o].state = orders[o].state
            \/ \E o \in Order :
                 /\ orders[o].accepted # None /\ scope.owner \in {None, o}
                 /\ scope' = [scope EXCEPT !.owner = o]
                 /\ orders'[o].state = "FULFILLED"
                 /\ \A p \in Order \ {o} : orders'[p].state = orders[p].state
<1> DEFINE o == worker[w].job.target
<1>1. o \in Order
  BY DEF Fulfill, WorkerOK, RowOK, At, Job
<1>2. AttemptsKept
  BY DEF Fulfill, AttemptsKept
<1>3. CASE orders' = orders /\ scope' = scope
  BY <1>2, <1>3
<1>4. CASE orders' = Raised(orders, o, FulfillBlock(o)) /\ scope' = scope
  BY <1>1, <1>2, <1>4, RaisedKeeps DEF TypeOK
<1>5. CASE /\ orders[o].accepted # None /\ FulfillBlock(o) = None
           /\ orders' = [orders EXCEPT ![o].state = "FULFILLED"]
           /\ scope' = [scope EXCEPT !.owner = o]
  <2>1. scope.owner \in {None, o}
    BY <1>5, CodeNames, NoneIsNoCode DEF FulfillBlock, TypeOK
  <2>2. \A p \in Order : orders'[p].accepted = orders[p].accepted
    BY <1>5 DEF TypeOK, OrderRow
  <2>3. orders'[o].state = "FULFILLED" /\ \A p \in Order \ {o} : orders'[p].state = orders[p].state
    BY <1>1, <1>5 DEF TypeOK, OrderRow
  <2> QED BY <1>1, <1>2, <1>5, <2>1, <2>2, <2>3
<1> QED BY <1>3, <1>4, <1>5 DEF Fulfill
LEMMA PaidKeeps ==
  ASSUME orders \in [Order -> OrderRow], NEW o \in Order, NEW a \in Attempt
  PROVE  /\ \A p \in Order \ {o} : Paid(o)[p] = orders[p] /\ Accepted(a, o)[p] = orders[p]
         /\ Paid(o)[o].accepted = orders[o].accepted /\ Accepted(a, o)[o].accepted = a
         /\ Paid(o)[o].state = Accepted(a, o)[o].state
         /\ Paid(o)[o].state = (IF orders[o].state = "FULFILLED" THEN "FULFILLED"
                                ELSE "FULFILLMENT_PENDING")
<1>1. /\ \A p \in Order \ {o} : Paid(o)[p] = orders[p]
      /\ Paid(o)[o].accepted = orders[o].accepted
      /\ Paid(o)[o].state = (IF orders[o].state = "FULFILLED" THEN "FULFILLED"
                             ELSE "FULFILLMENT_PENDING")
  BY DEF Paid, OrderRow
<1>2. Paid(o) \in [Order -> OrderRow]
  BY PaidType
<1>3. /\ \A p \in Order \ {o} : Accepted(a, o)[p] = Paid(o)[p]
      /\ Accepted(a, o)[o].accepted = a
      /\ Accepted(a, o)[o].state = Paid(o)[o].state
  BY <1>2 DEF Accepted, OrderRow
<1> QED BY <1>1, <1>3

LEMMA SettledEffect ==
  ASSUME TypeOK, WorkerOK, Carried, Proven, NEW w \in Worker, SettleVerified(w)
  PROVE  LET a == worker[w].att IN
         /\ \A b \in Attempt :
              /\ attempts[b].state = "VERIFIED" => attempts'[b].state = "VERIFIED"
              /\ attempts'[b].state = "VERIFIED" => attempts[b].state = "VERIFIED" \/ bank[b] = "captured"
              /\ attempts'[b].state = "NONE" => attempts[b].state = "NONE"
         /\ \A o \in Order :
              /\ orders[o].accepted # None =>
                   /\ orders'[o].accepted = orders[o].accepted
                   /\ orders'[o].state \in {"FULFILLMENT_PENDING", "FULFILLED"}
              /\ orders[o].accepted = None =>
                   \/ orders'[o].accepted = None
                   \/ /\ o = OrderOf[a] /\ orders'[o].accepted = a /\ attempts'[a].state = "VERIFIED"
                      /\ orders'[o].state \in {"FULFILLMENT_PENDING", "FULFILLED"}
              /\ orders'[o].state = "FULFILLED" => orders[o].state = "FULFILLED"
<1> DEFINE a == worker[w].att
           q == OrderOf[a]
<1>1. a \in Attempt /\ q \in Order /\ bank[a] = "captured"
  BY OwnAttempt DEF SettleVerified, At, Verifying, Carried
<1>2. attempts' = attempts \/ attempts' = [attempts EXCEPT ![a].state = "VERIFIED"]
  BY DEF SettleVerified
<1>3. \A b \in Attempt :
        /\ attempts[b].state = "VERIFIED" => attempts'[b].state = "VERIFIED"
        /\ attempts'[b].state = "VERIFIED" => attempts[b].state = "VERIFIED" \/ bank[b] = "captured"
        /\ attempts'[b].state = "NONE" => attempts[b].state = "NONE"
  BY <1>1, <1>2 DEF TypeOK, AttemptRow
<1>4. orders \in [Order -> OrderRow] /\ Paid(q) \in [Order -> OrderRow] /\ Accepted(a, q) \in [Order -> OrderRow]
  BY <1>1, PaidType DEF TypeOK
<1>5. \/ orders' = orders
      \/ orders' = Raised(Paid(q), q, "REFERENCE_REUSED")
      \/ orders' = Raised(orders, q, "DUPLICATE_CAPTURE")
      \/ /\ orders[q].accepted = None /\ attempts' = [attempts EXCEPT ![a].state = "VERIFIED"]
         /\ orders' = Raised(Accepted(a, q), q, "LATE_RELEASED_COUPON") \/ orders' = Accepted(a, q)
  BY DEF SettleVerified
<1>6. \A o \in Order : orders[o].accepted # None => orders[o].state \in {"FULFILLMENT_PENDING", "FULFILLED"}
  BY DEF Proven
<1>7. ASSUME attempts' = [attempts EXCEPT ![a].state = "VERIFIED"] PROVE attempts'[a].state = "VERIFIED"
  BY <1>1, <1>7 DEF TypeOK, AttemptRow
<1>8. \A o \in Order :
        /\ orders[o].accepted # None =>
             /\ orders'[o].accepted = orders[o].accepted
             /\ orders'[o].state \in {"FULFILLMENT_PENDING", "FULFILLED"}
        /\ orders[o].accepted = None =>
             \/ orders'[o].accepted = None
             \/ /\ o = q /\ orders'[o].accepted = a /\ attempts'[a].state = "VERIFIED"
                /\ orders'[o].state \in {"FULFILLMENT_PENDING", "FULFILLED"}
        /\ orders'[o].state = "FULFILLED" => orders[o].state = "FULFILLED"
  <2> HIDE DEF a, q
  <2>1. CASE orders' = orders
    BY <1>6, <2>1
  <2>2. CASE orders' = Raised(Paid(q), q, "REFERENCE_REUSED")
    BY <1>1, <1>4, <1>6, <2>2, RaisedKeeps, PaidKeeps
  <2>3. CASE orders' = Raised(orders, q, "DUPLICATE_CAPTURE")
    BY <1>1, <1>4, <1>6, <2>3, RaisedKeeps
  <2>4. CASE /\ orders[q].accepted = None /\ attempts' = [attempts EXCEPT ![a].state = "VERIFIED"]
             /\ orders' = Raised(Accepted(a, q), q, "LATE_RELEASED_COUPON") \/ orders' = Accepted(a, q)
    <3>1. \A o \in Order : /\ orders'[o].state = Accepted(a, q)[o].state
                           /\ orders'[o].accepted = Accepted(a, q)[o].accepted
      BY <1>1, <1>4, <2>4, RaisedKeeps
    <3> QED BY <1>1, <1>4, <1>6, <1>7, <2>4, <3>1, PaidKeeps
  <2> QED BY <1>5, <2>1, <2>2, <2>3, <2>4
<1> QED BY <1>3, <1>8

LEMMA NextKeeps ==
  ASSUME TypeOK, WorkerOK, Proven, Next,
         \A w \in Worker : ~SettleVerified(w) /\ ~Fulfill(w)
  PROVE  AttemptsKept /\ OrdersKept
<1>1. ASSUME NEW w \in Worker, NEW j \in Job, Claim(w, j) PROVE AttemptsKept /\ OrdersKept
  BY <1>1 DEF Claim, AttemptsKept, OrdersKept
<1> QED BY <1>1, CustomerKeeps, ClockAdminKeeps, WorkerKeeps DEF Next

-----------------------------------------------------------------------------
(* One step keeps the rest of the invariant.                               *)

LEMMA BankFrame ==
  ASSUME Next
  PROVE  \/ UNCHANGED <<bank, creating>>
         \/ \E a \in Attempt : \/ Initiate(a) \/ ProviderCreates(a) \/ RecordCreated(a)
                               \/ RecordAmbiguous(a) \/ CustomerPays(a) \/ BankEnds(a)
         \/ Crash
         \/ \E w \in Worker : ProviderVerifies(w)
<1>1. ASSUME NEW w \in Worker, WorkerStep(w), ~ProviderVerifies(w) PROVE UNCHANGED <<bank, creating>>
  BY <1>1 DEF WorkerStep, VerifyBegin, VerifyMark, VerifyAnswered, Unproven, Inquire, Observe,
              SettleVerified, SettleFailed, SettleUnknown, SettleNothing, ExpireCheck, ExpireList,
              ExpireClose, Fulfill, Notify, ReadResult, Complete
<1>2. ASSUME NEW w \in Worker, NEW j \in Job, Claim(w, j) PROVE UNCHANGED <<bank, creating>>
  BY <1>2 DEF Claim
<1>3. ASSUME AdminStep PROVE UNCHANGED <<bank, creating>>
  BY <1>3 DEF AdminStep, VoidOrder, Reopen, AdminReconcile, RestrictProduct, Reset, Grant
<1>4. ASSUME NEW o \in Order, WindowPasses(o) \/ Supersede(o) \/ Cancel(o) \/ \E c \in BOOLEAN : CreateOrder(o, c)
      PROVE UNCHANGED <<bank, creating>>
  BY <1>4 DEF WindowPasses, Supersede, Cancel, CreateOrder
<1>5. ASSUME NEW a \in Attempt, InquiryAges(a) \/ \E s \in {"OK", "NOK", "none"} : Returned(a, s)
      PROVE UNCHANGED <<bank, creating>>
  BY <1>5 DEF InquiryAges, Returned
<1>6. ASSUME NEW j \in Job, LeaseExpires(j) PROVE UNCHANGED <<bank, creating>>
  BY <1>6 DEF LeaseExpires
<1> QED BY <1>1, <1>2, <1>3, <1>4, <1>5, <1>6 DEF Next, CustomerStep, ClockStep

\* Nothing takes captured money back.
LEMMA CapturedStays ==
  ASSUME TypeOK, Fresh, Next
  PROVE  \A a \in Attempt : bank[a] = "captured" => bank'[a] = "captured"
<1>1. ASSUME NEW b \in Attempt, Initiate(b) \/ RecordCreated(b) \/ RecordAmbiguous(b) \/ CustomerPays(b) \/ BankEnds(b)
      PROVE \A a \in Attempt : bank[a] = "captured" => bank'[a] = "captured"
  BY <1>1 DEF Initiate, RecordCreated, RecordAmbiguous, CustomerPays, BankEnds, TypeOK
<1>2. ASSUME NEW b \in Attempt, ProviderCreates(b)
      PROVE \A a \in Attempt : bank[a] = "captured" => bank'[a] = "captured"
  BY <1>2 DEF ProviderCreates, Fresh, TypeOK
<1>3. ASSUME NEW w \in Worker, ProviderVerifies(w)
      PROVE \A a \in Attempt : bank[a] = "captured" => bank'[a] = "captured"
  BY <1>3 DEF ProviderVerifies, TypeOK
<1> QED BY <1>1, <1>2, <1>3, BankFrame DEF Crash

LEMMA VerifiedStays ==
  ASSUME TypeOK, WorkerOK, Carried, Proven, Next
  PROVE  \A a \in Attempt :
           /\ attempts[a].state = "VERIFIED" => attempts'[a].state = "VERIFIED"
           /\ attempts'[a].state = "VERIFIED" => attempts[a].state = "VERIFIED" \/ bank[a] = "captured"
           /\ attempts'[a].state = "NONE" => attempts[a].state = "NONE"
BY NextKeeps, SettledEffect, FulfillEffect DEF AttemptsKept

LEMMA NextFresh ==
  ASSUME TypeOK, WorkerOK, Fresh, Carried, Proven, Next
  PROVE  Fresh'
<1>1. \A a \in Attempt : attempts'[a].state = "NONE" => attempts[a].state = "NONE"
  BY VerifiedStays
<1>2. CASE UNCHANGED <<bank, creating>>
  BY <1>1, <1>2 DEF Fresh
<1>3. ASSUME NEW b \in Attempt, Initiate(b) PROVE Fresh'
  BY <1>1, <1>3 DEF Initiate, Fresh, TypeOK, AttemptRow
<1>4. ASSUME NEW b \in Attempt, ProviderCreates(b) PROVE Fresh'
  BY <1>1, <1>4 DEF ProviderCreates, Fresh, TypeOK
<1>5. ASSUME NEW b \in Attempt, RecordCreated(b) \/ RecordAmbiguous(b) \/ CustomerPays(b) \/ BankEnds(b)
      PROVE Fresh'
  BY <1>1, <1>5 DEF RecordCreated, RecordAmbiguous, CustomerPays, BankEnds, Fresh, TypeOK
<1>6. CASE Crash
  BY <1>1, <1>6 DEF Crash, Fresh, TypeOK
<1>7. ASSUME NEW w \in Worker, ProviderVerifies(w) PROVE Fresh'
  BY <1>1, <1>7 DEF ProviderVerifies, Fresh, TypeOK
<1> QED BY <1>2, <1>3, <1>4, <1>5, <1>6, <1>7, BankFrame

\* The success an execution holds after a step is the one it held, or the
\* provider's answer to a captured payment.
CarriesCapture(row, b) ==
  row.stage \in {"answer", "settle"} /\ row.res \in {"CAPTURED", "ALREADY", "REUSED"} =>
    b[row.att] = "captured"

LEMMA StepCarries ==
  ASSUME TypeOK, WorkerOK, Carried, NEW w \in Worker, WorkerStep(w)
  PROVE  CarriesCapture(worker'[w], bank')
<1>0. worker \in [Worker -> WorkerRow]
  BY DEF TypeOK
<1>1. ASSUME NEW stage, NEW res, Become(w, stage, res),
             stage \in {"answer", "settle"} => res \in {"SILENT", "FAILED"}
      PROVE CarriesCapture(worker'[w], bank')
  BY <1>0, <1>1, BecomeEffect DEF CarriesCapture
<1>2. ASSUME Goto(w, After(w)) PROVE CarriesCapture(worker'[w], bank')
  BY <1>1, <1>2 DEF Goto, After
<1>3. CASE VerifyBegin(w)
  <2>1. CASE worker'[w].stage = "mark"
    BY <2>1 DEF CarriesCapture
  <2> QED BY <1>0, <1>2, <1>3, <2>1 DEF VerifyBegin, WorkerRow
<1>4. CASE VerifyMark(w)
  <2>1. worker'[w].res \in {"none", "SILENT"}
    BY <1>0, <1>4, KeepEffect DEF VerifyMark
  <2> QED BY <2>1 DEF CarriesCapture
<1>5. CASE ProviderVerifies(w)
  <2> DEFINE a == worker[w].att
  <2>1. worker'[w].att = a /\ a \in Attempt
    BY <1>0, <1>5, KeepEffect, OwnAttempt DEF ProviderVerifies, At, Verifying
  <2>2. worker'[w].res \in {"CAPTURED", "REUSED"} => bank[a] = "paid"
    BY <1>0, <1>5, KeepEffect DEF ProviderVerifies
  <2>3. worker'[w].res = "ALREADY" => bank[a] = "captured"
    BY <1>0, <1>5, KeepEffect DEF ProviderVerifies
  <2>4. (bank[a] = "paid" => bank'[a] = "captured") /\ (bank[a] = "captured" => bank'[a] = "captured")
    BY <1>5, <2>1 DEF ProviderVerifies, TypeOK
  <2> QED BY <2>1, <2>2, <2>3, <2>4 DEF CarriesCapture
<1>6. CASE VerifyAnswered(w)
  <2>1. /\ worker'[w].res = worker[w].res /\ worker'[w].att = worker[w].att
        /\ worker[w].stage = "answer" /\ bank' = bank
    BY <1>0, <1>6 DEF VerifyAnswered, At, WorkerRow
  <2> QED BY <2>1 DEF CarriesCapture, Carried
<1>7. CASE Unproven(w)
  BY <1>1, <1>7 DEF Unproven
<1>8. CASE Inquire(w)
  <2>1. ASSUME NEW s, Keep(w, "observe", s) PROVE CarriesCapture(worker'[w], bank')
    BY <1>0, <2>1, KeepEffect DEF CarriesCapture
  <2> QED BY <1>1, <1>8, <2>1 DEF Inquire
<1>9. CASE Observe(w)
  <2>1. Become(w, "settle", "FAILED") \/ Become(w, "settle", "SILENT")
    BY <1>9 DEF Observe, Observed
  <2> QED BY <1>1, <2>1
<1>10. CASE SettleVerified(w) \/ SettleFailed(w) \/ SettleUnknown(w) \/ SettleNothing(w)
  BY <1>1, <1>2, <1>10 DEF SettleVerified, SettleFailed, SettleUnknown, SettleNothing
<1>11. CASE ExpireCheck(w) \/ ExpireClose(w)
  BY <1>1, <1>11 DEF ExpireCheck, ExpireClose, Goto
<1>12. CASE ExpireList(w)
  <2>1. CASE worker'[w].stage = "verify"
    BY <2>1 DEF CarriesCapture
  <2> QED BY <1>0, <1>1, <1>12, <2>1 DEF ExpireList, Goto, WorkerRow
<1>13. CASE Fulfill(w)
  BY <1>1, <1>13 DEF Fulfill, Goto
<1>14. CASE Notify(w) \/ ReadResult(w)
  BY <1>1, <1>14 DEF Notify, ReadResult
<1>15. CASE Complete(w)
  <2>1. worker'[w].stage = "idle"
    BY <1>0, <1>15 DEF Complete, Idle
  <2> QED BY <2>1 DEF CarriesCapture
<1> QED BY <1>3, <1>4, <1>5, <1>6, <1>7, <1>8, <1>9, <1>10, <1>11, <1>12, <1>13, <1>14, <1>15
        DEF WorkerStep

LEMMA NextCarried ==
  ASSUME TypeOK, WorkerOK, Fresh, Carried, Proven, Next
  PROVE  Carried'
<1>0. \A v \in Worker : worker[v].stage \in {"answer", "settle"} => worker[v].att \in Attempt
  BY OwnAttempt DEF Verifying
<1>1. ASSUME NEW v \in Worker, worker'[v] = worker[v] PROVE CarriesCapture(worker'[v], bank')
  BY <1>0, <1>1, CapturedStays DEF CarriesCapture, Carried
<1>2. ASSUME NEW v \in Worker, worker'[v].stage \notin {"answer", "settle"}
      PROVE CarriesCapture(worker'[v], bank')
  BY <1>2 DEF CarriesCapture
<1>3. \A v \in Worker : CarriesCapture(worker'[v], bank')
  <2>1. CASE CustomerStep \/ AdminStep
    <3>1. worker' = worker
      BY <2>1 DEF CustomerStep, AdminStep, CreateOrder, Supersede, Cancel, Initiate, ProviderCreates,
                  RecordCreated, RecordAmbiguous, Returned, CustomerPays, VoidOrder, Reopen,
                  AdminReconcile, RestrictProduct, Reset, Grant
    <3> QED BY <1>1, <3>1
  <2>2. CASE ClockStep
    <3>1. worker' = worker \/ \E w \in Worker : worker' = [worker EXCEPT ![w] = Idle]
      BY <2>2 DEF ClockStep, BankEnds, InquiryAges, WindowPasses, LeaseExpires, Crash
    <3> QED BY <1>1, <1>2, <3>1 DEF TypeOK, Idle
  <2>3. ASSUME NEW w \in Worker, NEW j \in Job, Claim(w, j)
        PROVE \A v \in Worker : CarriesCapture(worker'[v], bank')
    <3>1. \A v \in Worker \ {w} : worker'[v] = worker[v]
      BY <2>3 DEF Claim, TypeOK
    <3>2. worker'[w].stage \notin {"answer", "settle"}
      BY <2>3 DEF Claim, TypeOK, FirstStage, Idle, Job, OrderKinds
    <3> QED BY <1>1, <1>2, <3>1, <3>2
  <2>4. ASSUME NEW w \in Worker, WorkerStep(w) PROVE \A v \in Worker : CarriesCapture(worker'[v], bank')
    BY <1>1, <2>4, OthersStand, StepCarries
  <2> QED BY <2>1, <2>2, <2>3, <2>4 DEF Next
<1> QED BY <1>3 DEF Carried, CarriesCapture

LEMMA NextProven ==
  ASSUME TypeOK, WorkerOK, Fresh, Carried, Proven, Next
  PROVE  Proven'
<1>1. \A a \in Attempt : attempts'[a].state = "VERIFIED" => bank'[a] = "captured"
  BY VerifiedStays, CapturedStays DEF Proven
<1>2. \A a \in Attempt : attempts[a].state = "VERIFIED" => attempts'[a].state = "VERIFIED"
  BY VerifiedStays
<1>3. \A o \in Order : orders[o].accepted \in Attempt \cup {None}
  BY DEF TypeOK, OrderRow
<1>4. ASSUME \A w \in Worker : ~SettleVerified(w) /\ ~Fulfill(w) PROVE Proven'
  BY <1>1, <1>2, <1>3, <1>4, NextKeeps DEF OrdersKept, Proven
<1>5. ASSUME NEW w \in Worker, Fulfill(w) PROVE Proven'
  BY <1>1, <1>2, <1>3, <1>5, FulfillEffect DEF Proven
<1>6. ASSUME NEW w \in Worker, SettleVerified(w) PROVE Proven'
  <2> DEFINE a == worker[w].att
  <2>1. a \in Attempt /\ a # None
    BY <1>6, OwnAttempt, NoneIsFresh DEF SettleVerified, At, Verifying
  <2>2. \A o \in Order :
          /\ orders[o].accepted # None =>
               /\ orders'[o].accepted = orders[o].accepted
               /\ orders'[o].state \in {"FULFILLMENT_PENDING", "FULFILLED"}
          /\ orders[o].accepted = None =>
               \/ orders'[o].accepted = None
               \/ /\ o = OrderOf[a] /\ orders'[o].accepted = a /\ attempts'[a].state = "VERIFIED"
                  /\ orders'[o].state \in {"FULFILLMENT_PENDING", "FULFILLED"}
          /\ orders'[o].state = "FULFILLED" => orders[o].state = "FULFILLED"
    BY <1>6, SettledEffect
  <2>3. \A o \in Order : orders'[o].accepted # None =>
          /\ OrderOf[orders'[o].accepted] = o
          /\ attempts'[orders'[o].accepted].state = "VERIFIED"
          /\ orders'[o].state \in {"FULFILLMENT_PENDING", "FULFILLED"}
    <3> HIDE DEF a
    <3> QED BY <1>2, <1>3, <2>1, <2>2 DEF Proven
  <2>4. \A o \in Order : orders'[o].state = "FULFILLED" => orders'[o].accepted # None
    <3> HIDE DEF a
    <3> QED BY <2>1, <2>2 DEF Proven
  <2> QED BY <1>1, <2>3, <2>4 DEF Proven
<1> QED BY <1>4, <1>5, <1>6

LEMMA ScopeFrame ==
  ASSUME Next, \A w \in Worker : ~Fulfill(w)
  PROVE  \/ scope' = scope \/ Grant
         \/ scope' = [scope EXCEPT !.blocked = ~@] \/ scope' = [scope EXCEPT !.current = FALSE]
<1>1. ASSUME NEW w \in Worker, WorkerStep(w), ~Fulfill(w) PROVE scope' = scope
  BY <1>1 DEF WorkerStep, VerifyBegin, VerifyMark, ProviderVerifies, VerifyAnswered, Unproven,
              Inquire, Observe, SettleVerified, SettleFailed, SettleUnknown, SettleNothing,
              ExpireCheck, ExpireList, ExpireClose, Notify, ReadResult, Complete
<1>2. ASSUME CustomerStep PROVE scope' = scope
  BY <1>2 DEF CustomerStep, CreateOrder, Supersede, Cancel, Initiate, ProviderCreates,
              RecordCreated, RecordAmbiguous, Returned, CustomerPays
<1>3. ASSUME ClockStep PROVE scope' = scope
  BY <1>3 DEF ClockStep, BankEnds, InquiryAges, WindowPasses, LeaseExpires, Crash
<1>4. ASSUME NEW w \in Worker, NEW j \in Job, Claim(w, j) PROVE scope' = scope
  BY <1>4 DEF Claim
<1>5. ASSUME AdminStep, ~Grant
      PROVE \/ scope' = scope \/ scope' = [scope EXCEPT !.blocked = ~@]
            \/ scope' = [scope EXCEPT !.current = FALSE]
  BY <1>5 DEF AdminStep, VoidOrder, Reopen, AdminReconcile, RestrictProduct, Reset
<1> QED BY <1>1, <1>2, <1>3, <1>4, <1>5 DEF Next

LEMMA NextDelivered ==
  ASSUME TypeOK, WorkerOK, Carried, Proven, DeliveredOnce, Next
  PROVE  DeliveredOnce'
<1>1. ASSUME \A w \in Worker : ~Fulfill(w) PROVE DeliveredOnce'
  <2>1. \A o \in Order : orders'[o].state = "FULFILLED" => orders[o].state = "FULFILLED"
    BY <1>1, NextKeeps, SettledEffect DEF OrdersKept
  <2>2. scope'.owner = scope.owner \/ (Grant /\ scope.owner = None)
    BY <1>1, ScopeFrame DEF TypeOK, Grant
  <2>3. \A o \in Order : o # None
    BY NoneIsFresh
  <2>4. CASE scope'.owner = scope.owner
    BY <2>1, <2>4 DEF DeliveredOnce
  <2>5. CASE scope.owner = None
    BY <2>1, <2>3, <2>5 DEF DeliveredOnce
  <2> QED BY <2>2, <2>4, <2>5
<1>2. ASSUME NEW w \in Worker, Fulfill(w) PROVE DeliveredOnce'
  <2>1. CASE scope' = scope /\ \A o \in Order : orders'[o].state = orders[o].state
    BY <2>1 DEF DeliveredOnce
  <2>2. ASSUME NEW o \in Order, scope.owner \in {None, o}, scope' = [scope EXCEPT !.owner = o],
               \A p \in Order \ {o} : orders'[p].state = orders[p].state
        PROVE DeliveredOnce'
    <3>1. scope'.owner = o
      BY <2>2 DEF TypeOK
    <3>2. \A p \in Order \ {o} : orders[p].state # "FULFILLED"
      BY <2>2, NoneIsFresh DEF DeliveredOnce
    <3> QED BY <2>2, <3>1, <3>2 DEF DeliveredOnce
  <2> QED BY <1>2, <2>1, <2>2, FulfillEffect
<1> QED BY <1>1, <1>2

-----------------------------------------------------------------------------
(* The theorems.                                                           *)

LEMMA InitInvariant == Init => IInv
<1> SUFFICES ASSUME Init PROVE IInv
  OBVIOUS
<1>1. orders \in [Order -> OrderRow]
  BY DEF Init, OrderRow, OrderStates, CouponStates
<1>2. attempts \in [Attempt -> AttemptRow]
  BY DEF Init, AttemptRow, AttemptStates
<1>3. jobs \in [Job -> JobRow]
  BY DEF Init, JobRow, NoJob
<1>4. worker \in [Worker -> WorkerRow]
  BY DEF Init, WorkerRow, Idle, Stages, Answers
<1>5. TypeOK
  BY <1>1, <1>2, <1>3, <1>4 DEF Init, TypeOK
<1>6. WorkerOK /\ Carried
  BY DEF Init, Idle, WorkerOK, RowOK, Verifying, Carried
<1>7. Fresh /\ Proven /\ DeliveredOnce
  BY DEF Init, Fresh, Proven, DeliveredOnce
<1> QED BY <1>5, <1>6, <1>7 DEF IInv

LEMMA StepInvariant == IInv /\ [Next]_vars => IInv'
<1>1. ASSUME IInv, Next PROVE IInv'
  BY <1>1, NextType, NextWorker, NextFresh, NextCarried, NextProven, NextDelivered DEF IInv
<1>2. ASSUME IInv, UNCHANGED vars PROVE IInv'
  BY <1>2 DEF vars, IInv, TypeOK, WorkerOK, Fresh, Carried, Proven, DeliveredOnce
<1> QED BY <1>1, <1>2

LEMMA Invariance == Spec => []IInv
BY InitInvariant, StepInvariant, PTL DEF Spec

\* Every row of the tables and every local of a job execution keeps its type.
THEOREM TypeCorrect == Spec => []TypeOK
BY Invariance, PTL DEF IInv

\* No order is delivered but for a VERIFIED attempt of its own whose money the
\* bank captured, however executions, crashes and Admin operations interleave.
THEOREM DeliveryIsCaptured == Spec => []DeliveredIsCaptured
<1>1. IInv => DeliveredIsCaptured
  BY DEF IInv, TypeOK, OrderRow, Proven, DeliveredIsCaptured, AttemptsOf
<1> QED BY <1>1, Invariance, PTL

\* One device generation is delivered the product for one order at most, also
\* against a grant made while the order was being paid.
THEOREM DeliveryIsOnce == Spec => []DeliveredOnce
BY Invariance, PTL DEF IInv

\* A step never takes an accepted payment from an order, replaces it, or moves
\* the order back to an unpaid or ended state.
LEMMA PaidStep ==
  ASSUME IInv, [Next]_vars
  PROVE  \A o \in Order : orders[o].accepted # None =>
           /\ orders'[o].accepted = orders[o].accepted
           /\ orders'[o].state \in {"FULFILLMENT_PENDING", "FULFILLED"}
<1>1. \A o \in Order : orders[o].accepted # None => orders[o].state \in {"FULFILLMENT_PENDING", "FULFILLED"}
  BY DEF IInv, Proven
<1>2. CASE UNCHANGED vars
  BY <1>1, <1>2 DEF vars
<1>3. CASE Next /\ \A w \in Worker : ~SettleVerified(w) /\ ~Fulfill(w)
  BY <1>1, <1>3, NextKeeps DEF IInv, OrdersKept
<1>4. ASSUME NEW w \in Worker, SettleVerified(w)
      PROVE \A o \in Order : orders[o].accepted # None =>
              /\ orders'[o].accepted = orders[o].accepted
              /\ orders'[o].state \in {"FULFILLMENT_PENDING", "FULFILLED"}
  BY <1>4, SettledEffect DEF IInv
<1>5. ASSUME NEW w \in Worker, Fulfill(w)
      PROVE \A o \in Order : orders[o].accepted # None =>
              /\ orders'[o].accepted = orders[o].accepted
              /\ orders'[o].state \in {"FULFILLMENT_PENDING", "FULFILLED"}
  BY <1>1, <1>5, FulfillEffect DEF IInv
<1> QED BY <1>2, <1>3, <1>4, <1>5

\* An accepted capture is final: expiry, cancellation, failure, Admin operations
\* and second captures never take a paid order back.
THEOREM PaidIsFinal == Spec => PaidStaysPaid
<1>1. IInv /\ [Next]_vars =>
        [\A o \in Order : orders[o].accepted # None =>
            /\ orders'[o].accepted = orders[o].accepted
            /\ orders'[o].state \in {"FULFILLMENT_PENDING", "FULFILLED"}]_vars
  BY PaidStep
<1> QED BY <1>1, Invariance, PTL DEF Spec, PaidStaysPaid

-----------------------------------------------------------------------------
(* What one step does to the row of an order.                              *)

Same(p) ==
  /\ orders'[p].state = orders[p].state /\ orders'[p].accepted = orders[p].accepted
  /\ orders'[p].paid = orders[p].paid
  /\ \/ orders'[p].coupon = orders[p].coupon
     \/ orders[p].coupon = "RESERVED" /\ orders'[p].coupon = "UNKNOWN"

Ends(p) ==
  /\ Unpaid(p) /\ orders'[p].state \in EndedStates
  /\ orders'[p].accepted = orders[p].accepted /\ orders'[p].paid = orders[p].paid
  /\ orders'[p].coupon = IF orders[p].coupon \in {"RESERVED", "UNKNOWN"} THEN "RELEASED"
                         ELSE orders[p].coupon
  /\ \A q \in Order \ {p} : orders'[q] = orders[q]

Opens(p) ==
  /\ orders[p].state \in {"NONE"} \cup EndedStates /\ orders[p].accepted = None
  /\ orders'[p].state = "PENDING"
  /\ orders'[p].accepted = orders[p].accepted /\ orders'[p].paid = orders[p].paid
  /\ \/ orders'[p].coupon = "NONE"
     \/ orders'[p].coupon = "RESERVED" /\ CouponsInUse < Quota
  /\ \A q \in Order \ {p} : orders'[q] = orders[q]
  /\ \A q \in Order : ~Stands(q)

Delivers(p) ==
  /\ orders[p].accepted # None /\ scope.owner \in {None, p}
  /\ orders[p].state # "FULFILLED" /\ orders'[p].state = "FULFILLED"
  /\ orders'[p].accepted = orders[p].accepted /\ orders'[p].paid = orders[p].paid
  /\ orders'[p].coupon = orders[p].coupon
  /\ \E w \in Worker : worker[w].stage = "fulfill" /\ worker[w].job = F(p)
  /\ \A q \in Order \ {p} : orders'[q] = orders[q]

\* held stays; it is never set without a code, and only reconcile clears a code.
Flags(p) ==
  /\ orders[p].held => orders'[p].held
  /\ orders'[p].held => orders[p].held \/ orders'[p].exc # None
  /\ orders[p].exc # None => orders'[p].exc # None \/ AdminReconcile(p)

Moves(p) == (Same(p) \/ Ends(p) \/ Opens(p) \/ Delivers(p)) /\ Flags(p)

LEMMA RaisedRow ==
  ASSUME NEW os \in [Order -> OrderRow], NEW o \in Order, NEW code \in Codes
  PROVE  LET r == Raised(os, o, code) IN
         /\ \A p \in Order \ {o} : r[p] = os[p]
         /\ r[o].state = os[o].state /\ r[o].accepted = os[o].accepted
         /\ r[o].paid = os[o].paid /\ r[o].coupon = os[o].coupon
         /\ r[o].exc = code /\ code # None
         /\ r[o].held = (os[o].held \/ code \notin Retryable)
<1> DEFINE row == [os[o] EXCEPT !.exc = code, !.held = @ \/ code \notin Retryable]
<1>1. Raised(os, o, code) = [os EXCEPT ![o] = row]
  BY DEF Raised
<1>2. /\ row.state = os[o].state /\ row.accepted = os[o].accepted /\ row.paid = os[o].paid
      /\ row.coupon = os[o].coupon /\ row.exc = code
      /\ row.held = (os[o].held \/ code \notin Retryable)
  BY DEF OrderRow
<1> HIDE DEF row
<1>3. code # None
  BY NoneIsNoCode
<1> QED BY <1>1, <1>2, <1>3

LEMMA StillMoves == ASSUME orders' = orders PROVE \A p \in Order : Moves(p)
BY DEF Moves, Same, Flags

LEMMA RaisedMoves ==
  ASSUME TypeOK, NEW o \in Order, NEW code \in Codes, orders' = Raised(orders, o, code)
  PROVE  \A p \in Order : Moves(p)
<1>1. /\ \A p \in Order \ {o} : orders'[p] = orders[p]
      /\ orders'[o].state = orders[o].state /\ orders'[o].accepted = orders[o].accepted
      /\ orders'[o].paid = orders[o].paid /\ orders'[o].coupon = orders[o].coupon
      /\ orders'[o].exc # None
      /\ orders'[o].held = (orders[o].held \/ code \notin Retryable)
  BY RaisedRow DEF TypeOK
<1>2. Same(o) /\ Flags(o)
  BY <1>1 DEF Same, Flags
<1> QED BY <1>1, <1>2 DEF Moves, Same, Flags

LEMMA EndOrderRow ==
  ASSUME orders \in [Order -> OrderRow], NEW o \in Order, NEW s \in EndedStates
  PROVE  LET r == EndOrder(o, s) IN
         /\ \A p \in Order \ {o} : r[p] = orders[p]
         /\ r[o].state = s /\ r[o].accepted = orders[o].accepted /\ r[o].paid = orders[o].paid
         /\ r[o].exc = orders[o].exc /\ r[o].held = orders[o].held
         /\ r[o].coupon = IF orders[o].coupon \in {"RESERVED", "UNKNOWN"} THEN "RELEASED"
                          ELSE orders[o].coupon
BY DEF EndOrder, OrderRow

LEMMA EndMoves ==
  ASSUME TypeOK, NEW o \in Order, NEW s \in EndedStates, Unpaid(o), orders' = EndOrder(o, s)
  PROVE  \A p \in Order : Moves(p)
BY EndOrderRow DEF Moves, Same, Ends, Flags, TypeOK

LEMMA CustomerMoves ==
  ASSUME TypeOK, Proven, CustomerStep
  PROVE  \A p \in Order : Moves(p)
<1>1. ASSUME NEW o \in Order, NEW c \in BOOLEAN, CreateOrder(o, c) PROVE \A p \in Order : Moves(p)
  <2>1. orders[o].accepted = None
    BY <1>1 DEF CreateOrder, Proven
  <2>2. /\ \A p \in Order \ {o} : orders'[p] = orders[p]
        /\ orders'[o].state = "PENDING" /\ orders'[o].accepted = orders[o].accepted
        /\ orders'[o].paid = orders[o].paid /\ orders'[o].exc = orders[o].exc
        /\ orders'[o].held = orders[o].held
        /\ orders'[o].coupon = "NONE" \/ (orders'[o].coupon = "RESERVED" /\ CouponsInUse < Quota)
    BY <1>1 DEF CreateOrder, TypeOK, OrderRow
  <2>3. Opens(o)
    BY <1>1, <2>1, <2>2 DEF CreateOrder, Opens
  <2> QED BY <2>2, <2>3 DEF Moves, Same, Flags
<1>2. ASSUME NEW o \in Order, Supersede(o) \/ Cancel(o) PROVE \A p \in Order : Moves(p)
  BY <1>2, EndMoves, StateNames DEF Supersede, Cancel, Close
<1>3. ASSUME NEW a \in Attempt,
             \/ Initiate(a) \/ ProviderCreates(a) \/ RecordCreated(a) \/ RecordAmbiguous(a) \/ CustomerPays(a)
      PROVE \A p \in Order : Moves(p)
  BY <1>3, StillMoves DEF Initiate, ProviderCreates, RecordCreated, RecordAmbiguous, CustomerPays
<1>4. ASSUME NEW a \in Attempt, NEW s \in {"OK", "NOK", "none"}, Returned(a, s)
      PROVE \A p \in Order : Moves(p)
  <2>1. orders' = orders \/ (Unpaid(OrderOf[a]) /\ orders' = EndOrder(OrderOf[a], "CANCELLED"))
    BY <1>4 DEF Returned
  <2> QED BY <2>1, EndMoves, StillMoves, OrderOfType, StateNames
<1> QED BY <1>1, <1>2, <1>3, <1>4 DEF CustomerStep

LEMMA ClockAdminMoves ==
  ASSUME TypeOK, ClockStep \/ AdminStep
  PROVE  \A p \in Order : Moves(p)
<1>1. ASSUME NEW o \in Order, WindowPasses(o) PROVE \A p \in Order : Moves(p)
  BY <1>1 DEF WindowPasses, Moves, Same, Flags, TypeOK, OrderRow
<1>2. CASE \/ \E a \in Attempt : BankEnds(a) \/ InquiryAges(a)
           \/ \E j \in Job : LeaseExpires(j)
           \/ Crash \/ RestrictProduct \/ Reset \/ Grant
  <2>1. orders' = orders
    BY <1>2 DEF BankEnds, InquiryAges, LeaseExpires, Crash, RestrictProduct, Reset, Grant
  <2> QED BY <2>1, StillMoves
<1>3. ASSUME NEW o \in Order, VoidOrder(o) PROVE \A p \in Order : Moves(p)
  BY <1>3, EndMoves, StateNames DEF VoidOrder, Close
<1>4. ASSUME NEW o \in Order, Reopen(o) PROVE \A p \in Order : Moves(p)
  <2>1. /\ \A p \in Order \ {o} : orders'[p] = orders[p]
        /\ orders'[o].state = "PENDING" /\ orders'[o].accepted = orders[o].accepted
        /\ orders'[o].paid = orders[o].paid /\ orders'[o].exc = orders[o].exc
        /\ orders'[o].held = orders[o].held
        /\ orders'[o].coupon = "NONE" \/ (orders'[o].coupon = "RESERVED" /\ CouponsInUse < Quota)
    BY <1>4 DEF Reopen, TypeOK, OrderRow
  <2>2. \A q \in Order : ~Stands(q)
    BY <1>4 DEF Reopen, Stands
  <2>3. Opens(o)
    BY <1>4, <2>1, <2>2 DEF Reopen, Opens
  <2> QED BY <2>1, <2>3 DEF Moves, Same, Flags
<1>5. ASSUME NEW o \in Order, AdminReconcile(o) PROVE \A p \in Order : Moves(p)
  <2>1. orders' = [orders EXCEPT ![o].exc = IF @ \in Retryable THEN None ELSE @]
    BY <1>5 DEF AdminReconcile
  <2> QED BY <1>5, <2>1 DEF Moves, Same, Flags, TypeOK, OrderRow
<1> QED BY <1>1, <1>2, <1>3, <1>4, <1>5 DEF ClockStep, AdminStep

LEMMA WorkerMoves ==
  ASSUME TypeOK, WorkerOK, NEW w \in Worker, WorkerStep(w), ~SettleVerified(w)
  PROVE  \A p \in Order : Moves(p)
<1>1. CASE \/ VerifyBegin(w) \/ VerifyMark(w) \/ ProviderVerifies(w) \/ VerifyAnswered(w)
           \/ Inquire(w) \/ SettleNothing(w) \/ ExpireCheck(w) \/ ExpireList(w)
           \/ Notify(w) \/ ReadResult(w)
  <2>1. orders' = orders
    BY <1>1 DEF VerifyBegin, VerifyMark, ProviderVerifies, VerifyAnswered, Inquire, SettleNothing,
                ExpireCheck, ExpireList, Notify, ReadResult
  <2> QED BY <2>1, StillMoves
<1>2. CASE Unproven(w)
  <2>1. OrderOf[worker[w].att] \in Order
    BY <1>2, OwnAttempt DEF Unproven, At, Verifying
  <2> QED BY <1>2, <2>1, RaisedMoves, CodeNames DEF Unproven
<1>3. CASE Observe(w)
  <2>1. OrderOf[worker[w].att] \in Order
    BY <1>3, OwnAttempt DEF Observe, At, Verifying
  <2>2. \/ orders' = orders
        \/ \E code \in Codes : orders' = Raised(orders, OrderOf[worker[w].att], code)
    BY <1>3, CodeNames DEF Observe
  <2> QED BY <2>1, <2>2, RaisedMoves, StillMoves
<1>4. CASE SettleFailed(w)
  <2>1. OrderOf[worker[w].att] \in Order /\ "FAILED" \in EndedStates
    BY <1>4, OwnAttempt, StateNames DEF SettleFailed, At, Verifying
  <2>2. \/ orders' = orders
        \/ Unpaid(OrderOf[worker[w].att]) /\ orders' = EndOrder(OrderOf[worker[w].att], "FAILED")
    BY <1>4 DEF SettleFailed
  <2> QED BY <2>1, <2>2, EndMoves, StillMoves
<1>5. CASE SettleUnknown(w)
  <2> DEFINE o == OrderOf[worker[w].att]
  <2>1. o \in Order
    BY <1>5, OwnAttempt DEF SettleUnknown, At, Verifying
  <2>2. \/ orders' = orders
        \/ orders' = [orders EXCEPT ![o].coupon = IF @ = "RESERVED" THEN "UNKNOWN" ELSE @]
    BY <1>5 DEF SettleUnknown
  <2> HIDE DEF o
  <2> QED BY <2>1, <2>2, StillMoves DEF Moves, Same, Flags, TypeOK, OrderRow
<1>6. CASE ExpireClose(w)
  <2>1. worker[w].job.target \in Order
    BY <1>6 DEF ExpireClose, WorkerOK, RowOK, At, Job
  <2>2. \/ orders' = orders
        \/ Unpaid(worker[w].job.target) /\ orders' = EndOrder(worker[w].job.target, "CANCELLED")
    BY <1>6 DEF ExpireClose, Close
  <2> QED BY <2>1, <2>2, EndMoves, StillMoves, StateNames
<1>7. CASE Fulfill(w)
  <2> DEFINE o == worker[w].job.target
  <2>1. o \in Order /\ worker[w].job = F(o)
    BY <1>7 DEF Fulfill, WorkerOK, RowOK, At, Job, OrderKinds, F
  <2>2. FulfillBlock(o) \in Codes \cup {None}
    BY CodeNames DEF FulfillBlock
  <2>3. CASE orders' = orders
    BY <2>3, StillMoves
  <2>4. CASE FulfillBlock(o) # None /\ orders' = Raised(orders, o, FulfillBlock(o))
    BY <2>1, <2>2, <2>4, RaisedMoves
  <2>5. CASE /\ orders[o].accepted # None /\ orders[o].state # "FULFILLED" /\ FulfillBlock(o) = None
             /\ orders' = [orders EXCEPT ![o].state = "FULFILLED"]
    <3>1. /\ \A p \in Order \ {o} : orders'[p] = orders[p]
          /\ orders'[o].state = "FULFILLED" /\ orders'[o].accepted = orders[o].accepted
          /\ orders'[o].paid = orders[o].paid /\ orders'[o].exc = orders[o].exc
          /\ orders'[o].held = orders[o].held /\ orders'[o].coupon = orders[o].coupon
      BY <2>1, <2>5 DEF TypeOK, OrderRow
    <3>2. scope.owner \in {None, o}
      BY <2>5, CodeNames, NoneIsNoCode DEF FulfillBlock
    <3>3. Delivers(o)
      BY <1>7, <2>1, <2>5, <3>1, <3>2 DEF Fulfill, At, Delivers
    <3> QED BY <3>1, <3>3 DEF Moves, Same, Flags
  <2> QED BY <1>7, <2>3, <2>4, <2>5 DEF Fulfill
<1>8. CASE Complete(w)
  <2>1. JobOrder(worker[w].job) \in Order
    BY <1>8, JobNames DEF Complete, WorkerOK, RowOK, At
  <2>2. orders' = orders \/ orders' = Raised(orders, JobOrder(worker[w].job), "RECONCILIATION_REVIEW")
    BY <1>8 DEF Complete
  <2> QED BY <2>1, <2>2, RaisedMoves, StillMoves, CodeNames
<1> QED BY <1>1, <1>2, <1>3, <1>4, <1>5, <1>6, <1>7, <1>8 DEF WorkerStep

\* A step that settles no verified result moves an order in one of these ways.
LEMMA OrderMoves ==
  ASSUME TypeOK, WorkerOK, Proven, Next, \A w \in Worker : ~SettleVerified(w)
  PROVE  \A p \in Order : Moves(p)
<1>1. ASSUME NEW w \in Worker, NEW j \in Job, Claim(w, j) PROVE \A p \in Order : Moves(p)
  BY <1>1, StillMoves DEF Claim
<1> QED BY <1>1, CustomerMoves, ClockAdminMoves, WorkerMoves DEF Next

-----------------------------------------------------------------------------
(* What settling a verified result does to the order of the attempt.       *)

PaidState(o) == IF orders[o].state = "FULFILLED" THEN "FULFILLED" ELSE "FULFILLMENT_PENDING"

\* A reused reference, a second capture, an accepted payment that lost its
\* coupon, and an accepted payment.
Reuses(o) ==
  /\ orders'[o].state = PaidState(o) /\ orders'[o].accepted = orders[o].accepted
  /\ orders'[o].coupon = orders[o].coupon /\ orders'[o].held /\ jobs' = jobs
Duplicates(o) ==
  /\ orders[o].accepted # None /\ orders'[o].state = orders[o].state
  /\ orders'[o].accepted = orders[o].accepted
  /\ orders'[o].coupon = orders[o].coupon /\ orders'[o].held /\ jobs' = jobs
AcceptsLate(o, a) ==
  /\ orders[o].accepted = None /\ orders[o].coupon = "RELEASED"
  /\ orders'[o].state = PaidState(o) /\ orders'[o].accepted = a
  /\ orders'[o].coupon = "RELEASED" /\ orders'[o].held /\ jobs' = jobs
Accepts(o, a) ==
  /\ orders[o].accepted = None /\ orders[o].coupon # "RELEASED"
  /\ orders'[o].state = PaidState(o) /\ orders'[o].accepted = a
  /\ orders'[o].coupon = Redeemed(orders[o].coupon)
  /\ jobs' = Scheduled(jobs, F(o))
Refuses(o) ==
  /\ orders[o].accepted = None /\ orders[o].paid
  /\ orders' = orders /\ attempts' = attempts /\ jobs' = jobs

LEMMA PaidRow ==
  ASSUME orders \in [Order -> OrderRow], NEW o \in Order, NEW a \in Attempt
  PROVE  /\ \A p \in Order \ {o} : Paid(o)[p] = orders[p] /\ Accepted(a, o)[p] = orders[p]
         /\ Paid(o)[o].state = PaidState(o) /\ Accepted(a, o)[o].state = PaidState(o)
         /\ Paid(o)[o].accepted = orders[o].accepted /\ Accepted(a, o)[o].accepted = a
         /\ Paid(o)[o].held = orders[o].held /\ Accepted(a, o)[o].held = orders[o].held
         /\ Paid(o)[o].exc = orders[o].exc /\ Accepted(a, o)[o].exc = orders[o].exc
         /\ Paid(o)[o].coupon = orders[o].coupon
         /\ Accepted(a, o)[o].coupon = Redeemed(orders[o].coupon)
<1>1. /\ \A p \in Order \ {o} : Paid(o)[p] = orders[p]
      /\ Paid(o)[o].accepted = orders[o].accepted /\ Paid(o)[o].held = orders[o].held
      /\ Paid(o)[o].exc = orders[o].exc /\ Paid(o)[o].coupon = orders[o].coupon
      /\ Paid(o)[o].state = PaidState(o)
  BY DEF Paid, OrderRow, PaidState
<1>2. Paid(o) \in [Order -> OrderRow]
  BY PaidType
<1>3. /\ \A p \in Order \ {o} : Accepted(a, o)[p] = Paid(o)[p]
      /\ Accepted(a, o)[o].accepted = a /\ Accepted(a, o)[o].held = Paid(o)[o].held
      /\ Accepted(a, o)[o].exc = Paid(o)[o].exc /\ Accepted(a, o)[o].state = Paid(o)[o].state
      /\ Accepted(a, o)[o].coupon = Redeemed(Paid(o)[o].coupon)
  BY <1>2 DEF Accepted, OrderRow
<1> QED BY <1>1, <1>3

\* An order row that an incident was raised on, from rows that differ in it only.
LEMMA RaisedOn ==
  ASSUME NEW os \in [Order -> OrderRow], NEW o \in Order, NEW code \in Codes, code \notin Retryable,
         orders' = Raised(os, o, code), \A p \in Order \ {o} : os[p] = orders[p]
  PROVE  /\ \A p \in Order \ {o} : orders'[p] = orders[p]
         /\ orders'[o].state = os[o].state /\ orders'[o].accepted = os[o].accepted
         /\ orders'[o].coupon = os[o].coupon /\ orders'[o].held /\ Flags(o)
<1> DEFINE r == Raised(os, o, code)
<1>1. /\ \A p \in Order \ {o} : r[p] = os[p]
      /\ r[o].state = os[o].state /\ r[o].accepted = os[o].accepted
      /\ r[o].coupon = os[o].coupon /\ r[o].exc # None
  BY RaisedRow
<1>2. r[o].held
  <2>1. r[o].held = (os[o].held \/ code \notin Retryable)
    BY RaisedRow
  <2> QED BY <2>1
<1> HIDE DEF r
<1>3. orders' = r
  BY DEF r
<1>4. Flags(o)
  BY <1>1, <1>2, <1>3 DEF Flags
<1>5. \A p \in Order \ {o} : orders'[p] = orders[p]
  BY <1>1, <1>3
<1> QED BY <1>1, <1>2, <1>3, <1>4, <1>5

LEMMA RaisedCode ==
  ASSUME NEW os \in [Order -> OrderRow], NEW o \in Order, NEW code \in Codes,
         orders' = Raised(os, o, code)
  PROVE  orders'[o].exc # None /\ (code \notin Retryable => orders'[o].held)
<1>1. orders'[o].held = (os[o].held \/ code \notin Retryable)
  BY RaisedRow
<1>2. orders'[o].exc # None
  BY RaisedRow
<1> QED BY <1>1, <1>2

LEMMA SettledCodes ==
  /\ "REFERENCE_REUSED" \in Codes /\ "REFERENCE_REUSED" \notin Retryable
  /\ "DUPLICATE_CAPTURE" \in Codes /\ "DUPLICATE_CAPTURE" \notin Retryable
  /\ "LATE_RELEASED_COUPON" \in Codes /\ "LATE_RELEASED_COUPON" \notin Retryable
BY CodeNames DEF Retryable

LEMMA ReusesRow ==
  ASSUME orders \in [Order -> OrderRow], NEW o \in Order, NEW a \in Attempt,
         jobs' = jobs, orders' = Raised(Paid(o), o, "REFERENCE_REUSED")
  PROVE  (\A p \in Order \ {o} : orders'[p] = orders[p]) /\ Flags(o) /\ Reuses(o)
<1> DEFINE os == Paid(o)
<1>1. os \in [Order -> OrderRow]
  BY PaidType
<1>2. /\ \A p \in Order \ {o} : os[p] = orders[p]
      /\ os[o].state = PaidState(o) /\ os[o].accepted = orders[o].accepted
      /\ os[o].coupon = orders[o].coupon
  BY PaidRow
<1> HIDE DEF os
<1>3. orders' = Raised(os, o, "REFERENCE_REUSED")
  BY DEF os
<1>4. /\ \A p \in Order \ {o} : orders'[p] = orders[p]
      /\ orders'[o].state = os[o].state /\ orders'[o].accepted = os[o].accepted
      /\ orders'[o].coupon = os[o].coupon /\ orders'[o].held /\ Flags(o)
  BY <1>1, <1>2, <1>3, RaisedOn, SettledCodes
<1> QED BY <1>2, <1>4 DEF Reuses

LEMMA DuplicatesRow ==
  ASSUME orders \in [Order -> OrderRow], NEW o \in Order, orders[o].accepted # None,
         jobs' = jobs, orders' = Raised(orders, o, "DUPLICATE_CAPTURE")
  PROVE  (\A p \in Order \ {o} : orders'[p] = orders[p]) /\ Flags(o) /\ Duplicates(o)
<1>1. /\ \A p \in Order \ {o} : orders'[p] = orders[p]
      /\ orders'[o].state = orders[o].state /\ orders'[o].accepted = orders[o].accepted
      /\ orders'[o].coupon = orders[o].coupon /\ orders'[o].held /\ Flags(o)
  BY RaisedOn, SettledCodes
<1> QED BY <1>1 DEF Duplicates

LEMMA AcceptsLateRow ==
  ASSUME orders \in [Order -> OrderRow], NEW o \in Order, NEW a \in Attempt,
         orders[o].accepted = None, orders[o].coupon = "RELEASED",
         jobs' = jobs, orders' = Raised(Accepted(a, o), o, "LATE_RELEASED_COUPON")
  PROVE  (\A p \in Order \ {o} : orders'[p] = orders[p]) /\ Flags(o) /\ AcceptsLate(o, a)
<1> DEFINE os == Accepted(a, o)
<1>1. os \in [Order -> OrderRow]
  BY PaidType
<1>2. /\ \A p \in Order \ {o} : os[p] = orders[p]
      /\ os[o].state = PaidState(o) /\ os[o].accepted = a
      /\ os[o].coupon = Redeemed(orders[o].coupon)
  BY PaidRow
<1>3. Redeemed(orders[o].coupon) = "RELEASED"
  BY DEF Redeemed
<1> HIDE DEF os
<1>4. orders' = Raised(os, o, "LATE_RELEASED_COUPON")
  BY DEF os
<1>5. /\ \A p \in Order \ {o} : orders'[p] = orders[p]
      /\ orders'[o].state = os[o].state /\ orders'[o].accepted = os[o].accepted
      /\ orders'[o].coupon = os[o].coupon /\ orders'[o].held /\ Flags(o)
  BY <1>1, <1>2, <1>4, RaisedOn, SettledCodes
<1> QED BY <1>2, <1>3, <1>5 DEF AcceptsLate

LEMMA AcceptsRow ==
  ASSUME orders \in [Order -> OrderRow], NEW o \in Order, NEW a \in Attempt,
         orders[o].accepted = None, orders[o].coupon # "RELEASED",
         orders' = Accepted(a, o), jobs' = Scheduled(jobs, F(o))
  PROVE  (\A p \in Order \ {o} : orders'[p] = orders[p]) /\ Flags(o) /\ Accepts(o, a)
<1>1. /\ \A p \in Order \ {o} : orders'[p] = orders[p]
      /\ orders'[o].state = PaidState(o) /\ orders'[o].accepted = a
      /\ orders'[o].coupon = Redeemed(orders[o].coupon)
      /\ orders'[o].held = orders[o].held /\ orders'[o].exc = orders[o].exc
  BY PaidRow
<1> QED BY <1>1 DEF Accepts, Flags

LEMMA SettledRow ==
  ASSUME TypeOK, WorkerOK, NEW w \in Worker, SettleVerified(w),
         NEW a, a = worker[w].att, NEW o, o = OrderOf[a]
  PROVE  /\ a \in Attempt /\ o \in Order
         /\ \A p \in Order \ {o} : orders'[p] = orders[p]
         /\ Flags(o)
         /\ \/ Refuses(o)
            \/ /\ attempts' = [attempts EXCEPT ![a].state = "VERIFIED"]
               /\ Reuses(o) \/ Duplicates(o) \/ AcceptsLate(o, a) \/ Accepts(o, a)
<1>1. a \in Attempt /\ o \in Order
  BY OwnAttempt DEF SettleVerified, At, Verifying
<1>2. orders \in [Order -> OrderRow]
  BY DEF TypeOK
<1> DEFINE Others == \A p \in Order \ {o} : orders'[p] = orders[p]
<1>4. ASSUME Refuses(o) PROVE Others /\ Flags(o)
  BY <1>1, <1>4 DEF Refuses, Flags
<1>5. ASSUME jobs' = jobs, orders' = Raised(Paid(o), o, "REFERENCE_REUSED")
      PROVE Others /\ Flags(o) /\ Reuses(o)
  BY <1>1, <1>2, <1>5, ReusesRow
<1>6. ASSUME orders[o].accepted # None, jobs' = jobs, orders' = Raised(orders, o, "DUPLICATE_CAPTURE")
      PROVE Others /\ Flags(o) /\ Duplicates(o)
  BY <1>1, <1>2, <1>6, DuplicatesRow
<1>7. ASSUME orders[o].accepted = None, orders[o].coupon = "RELEASED", jobs' = jobs,
             orders' = Raised(Accepted(a, o), o, "LATE_RELEASED_COUPON")
      PROVE Others /\ Flags(o) /\ AcceptsLate(o, a)
  BY <1>1, <1>2, <1>7, AcceptsLateRow
<1>8. ASSUME orders[o].accepted = None, orders[o].coupon # "RELEASED",
             orders' = Accepted(a, o), jobs' = Scheduled(jobs, F(o))
      PROVE Others /\ Flags(o) /\ Accepts(o, a)
  BY <1>1, <1>2, <1>8, AcceptsRow
<1>9. \/ Refuses(o)
      \/ /\ attempts' = [attempts EXCEPT ![a].state = "VERIFIED"]
         /\ \/ jobs' = jobs /\ orders' = Raised(Paid(o), o, "REFERENCE_REUSED")
            \/ orders[o].accepted # None /\ jobs' = jobs /\ orders' = Raised(orders, o, "DUPLICATE_CAPTURE")
            \/ /\ orders[o].accepted = None /\ orders[o].coupon = "RELEASED" /\ jobs' = jobs
               /\ orders' = Raised(Accepted(a, o), o, "LATE_RELEASED_COUPON")
            \/ /\ orders[o].accepted = None /\ orders[o].coupon # "RELEASED"
               /\ orders' = Accepted(a, o) /\ jobs' = Scheduled(jobs, F(o))
  BY DEF SettleVerified, Refuses
<1> HIDE DEF Others
<1>10. Others /\ Flags(o)
  BY <1>4, <1>5, <1>6, <1>7, <1>8, <1>9
<1>11. \/ Refuses(o)
       \/ /\ attempts' = [attempts EXCEPT ![a].state = "VERIFIED"]
          /\ Reuses(o) \/ Duplicates(o) \/ AcceptsLate(o, a) \/ Accepts(o, a)
  BY <1>5, <1>6, <1>7, <1>8, <1>9
<1> QED BY <1>1, <1>10, <1>11 DEF Others

-----------------------------------------------------------------------------
(* What one step does to a job.                                            *)

\* An execution works on a job that was scheduled.
Working == \A w \in Worker : worker[w].stage # "idle" => jobs[worker[w].job].state # "NONE"

JobMoves(j) ==
  \/ jobs'[j].state = jobs[j].state
  \/ /\ j.kind # "FULFILL" /\ jobs'[j].state # "NONE"
     /\ j.kind = "VERIFY" /\ jobs[j].state = "NONE" => Initiate(j.target)
  \/ jobs[j].state # "NONE" /\ jobs'[j].state \in {"PENDING", "RUNNING"}
  \/ /\ jobs[j].state # "NONE" /\ jobs'[j].state = "REVIEW"
     /\ orders'[JobOrder(j)].exc # None
  \/ /\ jobs[j].state # "NONE" /\ jobs'[j].state = "DONE"
     /\ \E w \in Worker : worker[w].stage = "complete" /\ worker[w].res = "DONE" /\ worker[w].job = j
  \/ jobs'[j].state = "PENDING" /\ \E w \in Worker : SettleVerified(w) /\ j = F(OrderOf[worker[w].att])

LEMMA ScheduledMoves ==
  ASSUME jobs \in [Job -> JobRow], NEW i \in Job, jobs' = Scheduled(jobs, i)
  PROVE  \A j \in Job : \/ jobs'[j].state = jobs[j].state
                        \/ j = i /\ jobs'[j].state = "PENDING"
BY DEF Scheduled, NewJob, NoJob

LEMMA EndJobsMoves ==
  ASSUME jobs \in [Job -> JobRow], NEW o \in Order, jobs' = EndJobs(o)
  PROVE  \A j \in Job : JobMoves(j)
BY DEF EndJobs, JobRow, JobMoves

LEMMA JobKinds ==
  /\ \A a \in Attempt : V(a) \in Job /\ V(a).kind = "VERIFY" /\ V(a).target = a
  /\ \A o \in Order : /\ E(o) \in Job /\ E(o).kind = "EXPIRE"
                      /\ N(o) \in Job /\ N(o).kind = "PURCHASE_NOTICE"
BY JobNames DEF V, E, N

LEMMA CustomerJobs ==
  ASSUME TypeOK, CustomerStep
  PROVE  \A j \in Job : JobMoves(j)
<1>0. jobs \in [Job -> JobRow]
  BY DEF TypeOK
<1>1. ASSUME NEW o \in Order, \/ Supersede(o) \/ Cancel(o) \/ \E c \in BOOLEAN : CreateOrder(o, c)
      PROVE \A j \in Job : JobMoves(j)
  <2>1. jobs' = EndJobs(o) \/ jobs' = Scheduled(jobs, E(o))
    BY <1>1 DEF Supersede, Cancel, Close, CreateOrder
  <2>2. CASE jobs' = Scheduled(jobs, E(o))
    BY <1>0, <2>2, JobKinds, ScheduledMoves DEF JobMoves
  <2> QED BY <1>0, <2>1, <2>2, EndJobsMoves
<1>2. ASSUME NEW a \in Attempt, Initiate(a) PROVE \A j \in Job : JobMoves(j)
  <2>1. jobs' = Scheduled(jobs, V(a)) /\ V(a) \in Job /\ V(a).kind = "VERIFY" /\ V(a).target = a
    BY <1>2, JobKinds DEF Initiate
  <2>2. \A j \in Job : jobs'[j].state = jobs[j].state \/ (j = V(a) /\ jobs'[j].state = "PENDING")
    BY <1>0, <2>1, ScheduledMoves
  <2> QED BY <1>2, <2>1, <2>2 DEF JobMoves
<1>3. ASSUME NEW a \in Attempt, \/ ProviderCreates(a) \/ RecordCreated(a)
                                \/ RecordAmbiguous(a) \/ CustomerPays(a)
      PROVE \A j \in Job : JobMoves(j)
  BY <1>3 DEF ProviderCreates, RecordCreated, RecordAmbiguous, CustomerPays, JobMoves
<1>4. ASSUME NEW a \in Attempt, NEW s \in {"OK", "NOK", "none"}, Returned(a, s)
      PROVE \A j \in Job : JobMoves(j)
  <2>1. \/ jobs' = jobs \/ jobs' = EndJobs(OrderOf[a])
        \/ jobs[V(a)].state = "RUNNING" /\ jobs' = [jobs EXCEPT ![V(a)].state = "PENDING"]
    BY <1>4 DEF Returned
  <2>2. CASE jobs[V(a)].state = "RUNNING" /\ jobs' = [jobs EXCEPT ![V(a)].state = "PENDING"]
    BY <1>0, <2>2, JobKinds DEF JobMoves, JobRow
  <2>3. CASE jobs' = jobs
    BY <2>3 DEF JobMoves
  <2> QED BY <1>0, <2>1, <2>2, <2>3, EndJobsMoves, OrderOfType
<1> QED BY <1>1, <1>2, <1>3, <1>4 DEF CustomerStep

LEMMA ClockAdminJobs ==
  ASSUME TypeOK, ClockStep \/ AdminStep
  PROVE  \A j \in Job : JobMoves(j)
<1>0. jobs \in [Job -> JobRow]
  BY DEF TypeOK
<1>1. CASE \/ \E a \in Attempt : BankEnds(a) \/ InquiryAges(a)
           \/ \E o \in Order : WindowPasses(o)
           \/ Crash \/ RestrictProduct \/ Reset \/ Grant
  BY <1>1 DEF BankEnds, InquiryAges, WindowPasses, Crash, RestrictProduct, Reset, Grant, JobMoves
<1>2. ASSUME NEW i \in Job, LeaseExpires(i) PROVE \A j \in Job : JobMoves(j)
  BY <1>0, <1>2 DEF LeaseExpires, JobMoves, JobRow
<1>3. ASSUME NEW o \in Order, VoidOrder(o) PROVE \A j \in Job : JobMoves(j)
  BY <1>0, <1>3, EndJobsMoves DEF VoidOrder, Close
<1>4. ASSUME NEW o \in Order, Reopen(o) PROVE \A j \in Job : JobMoves(j)
  BY <1>0, <1>4, JobKinds DEF Reopen, JobMoves, NewJob, NoJob
<1>5. ASSUME NEW o \in Order, AdminReconcile(o) PROVE \A j \in Job : JobMoves(j)
  BY <1>0, <1>5 DEF AdminReconcile, Rescheduled, JobMoves, NewJob, NoJob
<1> QED BY <1>1, <1>2, <1>3, <1>4, <1>5 DEF ClockStep, AdminStep

LEMMA WorkerJobs ==
  ASSUME TypeOK, WorkerOK, Working, NEW w \in Worker, WorkerStep(w)
  PROVE  \A j \in Job : JobMoves(j)
<1>0. jobs \in [Job -> JobRow]
  BY DEF TypeOK
<1>1. CASE \/ VerifyBegin(w) \/ VerifyMark(w) \/ ProviderVerifies(w) \/ VerifyAnswered(w)
           \/ Unproven(w) \/ Inquire(w) \/ Observe(w) \/ SettleUnknown(w) \/ SettleNothing(w)
           \/ ExpireCheck(w) \/ ExpireList(w) \/ Notify(w) \/ ReadResult(w)
  <2>1. jobs' = jobs
    BY <1>1 DEF VerifyBegin, VerifyMark, ProviderVerifies, VerifyAnswered, Unproven, Inquire,
                Observe, SettleUnknown, SettleNothing, ExpireCheck, ExpireList, Notify, ReadResult
  <2> QED BY <2>1 DEF JobMoves
<1>2. CASE SettleVerified(w)
  <2>1. OrderOf[worker[w].att] \in Order
    BY <1>2, OwnAttempt DEF SettleVerified, At, Verifying
  <2>2. F(OrderOf[worker[w].att]) \in Job
    BY <2>1, JobNames
  <2>3. jobs' = jobs \/ jobs' = Scheduled(jobs, F(OrderOf[worker[w].att]))
    BY <1>2 DEF SettleVerified
  <2>4. \A j \in Job : \/ jobs'[j].state = jobs[j].state
                       \/ j = F(OrderOf[worker[w].att]) /\ jobs'[j].state = "PENDING"
    BY <1>0, <2>2, <2>3, ScheduledMoves
  <2> QED BY <1>2, <2>4 DEF JobMoves
<1>3. CASE SettleFailed(w)
  <2>1. OrderOf[worker[w].att] \in Order
    BY <1>3, OwnAttempt DEF SettleFailed, At, Verifying
  <2>2. jobs' = jobs \/ jobs' = EndJobs(OrderOf[worker[w].att])
    BY <1>3 DEF SettleFailed
  <2>3. CASE jobs' = jobs
    BY <2>3 DEF JobMoves
  <2> QED BY <1>0, <2>1, <2>2, <2>3, EndJobsMoves
<1>4. CASE ExpireClose(w)
  <2>1. worker[w].job.target \in Order
    BY <1>4 DEF ExpireClose, WorkerOK, RowOK, At, Job
  <2>2. jobs' = jobs \/ jobs' = EndJobs(worker[w].job.target)
    BY <1>4 DEF ExpireClose, Close
  <2>3. CASE jobs' = jobs
    BY <2>3 DEF JobMoves
  <2> QED BY <1>0, <2>1, <2>2, <2>3, EndJobsMoves
<1>5. CASE Fulfill(w)
  <2>1. worker[w].job.target \in Order
    BY <1>5 DEF Fulfill, WorkerOK, RowOK, At, Job
  <2>2. jobs' = jobs \/ jobs' = Scheduled(jobs, N(worker[w].job.target))
    BY <1>5 DEF Fulfill
  <2>3. CASE jobs' = jobs
    BY <2>3 DEF JobMoves
  <2>4. CASE jobs' = Scheduled(jobs, N(worker[w].job.target))
    BY <1>0, <2>1, <2>4, JobKinds, ScheduledMoves DEF JobMoves
  <2> QED BY <2>2, <2>3, <2>4
<1>6. CASE Complete(w)
  <2> DEFINE i == worker[w].job
  <2>1. i \in Job /\ JobOrder(i) \in Order /\ jobs[i].state # "NONE" /\ worker[w].stage = "complete"
    BY <1>6, JobNames DEF Complete, WorkerOK, RowOK, At, Working
  <2>2. \/ jobs' = jobs
        \/ worker[w].res = "DONE" /\ jobs' = [jobs EXCEPT ![i] = [NewJob EXCEPT !.state = "DONE"]]
        \/ jobs' = [jobs EXCEPT ![i] = NewJob]
        \/ /\ jobs' = [jobs EXCEPT ![i] = [NewJob EXCEPT !.state = "REVIEW"]]
           /\ orders' = Raised(orders, JobOrder(i), "RECONCILIATION_REVIEW")
    BY <1>6 DEF Complete
  <2> HIDE DEF i
  <2>3. CASE jobs' = jobs
    BY <2>3 DEF JobMoves
  <2>4. CASE worker[w].res = "DONE" /\ jobs' = [jobs EXCEPT ![i] = [NewJob EXCEPT !.state = "DONE"]]
    BY <1>0, <2>1, <2>4 DEF JobMoves, NewJob, NoJob, i
  <2>5. CASE jobs' = [jobs EXCEPT ![i] = NewJob]
    BY <1>0, <2>1, <2>5 DEF JobMoves, NewJob, NoJob
  <2>6. CASE /\ jobs' = [jobs EXCEPT ![i] = [NewJob EXCEPT !.state = "REVIEW"]]
             /\ orders' = Raised(orders, JobOrder(i), "RECONCILIATION_REVIEW")
    <3>1. orders'[JobOrder(i)].exc # None
      BY <2>1, <2>6, CodeNames, RaisedCode DEF TypeOK
    <3> QED BY <1>0, <2>1, <2>6, <3>1 DEF JobMoves, NewJob, NoJob
  <2> QED BY <2>2, <2>3, <2>4, <2>5, <2>6
<1> QED BY <1>1, <1>2, <1>3, <1>4, <1>5, <1>6 DEF WorkerStep

LEMMA NextJobs ==
  ASSUME TypeOK, WorkerOK, Working, Next
  PROVE  \A j \in Job : JobMoves(j)
<1>1. ASSUME NEW w \in Worker, NEW i \in Job, Claim(w, i) PROVE \A j \in Job : JobMoves(j)
  BY <1>1 DEF Claim, TypeOK, JobMoves
<1> QED BY <1>1, CustomerJobs, ClockAdminJobs, WorkerJobs DEF Next

-----------------------------------------------------------------------------
(* The invariant about an order's coupon, exception and FULFILL job.       *)

\* A FULFILL job is scheduled with the payment that redeems the coupon.
Ready ==
  \A o \in Order : jobs[F(o)].state # "NONE" =>
    orders[o].accepted # None /\ orders[o].coupon \in {"NONE", "REDEEMED"}

CouponOK ==
  \A o \in Order :
    /\ orders[o].state = "NONE" => orders[o].coupon = "NONE"
    /\ orders[o].state = "PENDING" => orders[o].coupon \in {"NONE", "RESERVED", "UNKNOWN"}
    /\ orders[o].state \in EndedStates => orders[o].coupon \in {"NONE", "RELEASED"}
    /\ orders[o].state = "FULFILLED" => orders[o].coupon \in {"NONE", "REDEEMED"}
    /\ orders[o].state = "FULFILLMENT_PENDING" =>
         orders[o].coupon \in {"NONE", "REDEEMED"} \/ orders[o].held

\* Only a held order waits for delivery without a FULFILL job, and the job is
\* completed by a delivery alone.
Served ==
  /\ \A o \in Order : orders[o].state = "FULFILLMENT_PENDING" =>
       orders[o].held \/ jobs[F(o)].state # "NONE"
  /\ \A o \in Order : jobs[F(o)].state = "REVIEW" => orders[o].exc # None
  /\ \A o \in Order : jobs[F(o)].state = "DONE" => orders[o].state = "FULFILLED"
  /\ \A w \in Worker, o \in Order :
       worker[w].stage = "complete" /\ worker[w].res = "DONE" /\ worker[w].job = F(o) =>
         orders[o].state = "FULFILLED"

\* A captured attempt beyond the accepted one, or beside a payment without one,
\* is flagged for good.
Charged ==
  /\ \A a \in Attempt : attempts[a].state = "VERIFIED" =>
       orders[OrderOf[a]].accepted = a \/ orders[OrderOf[a]].held
  /\ \A o \in Order : orders[o].paid /\ orders[o].accepted = None => orders[o].held

\* What an execution keeps of its job, and when it may call it done.
LEMMA StepJob ==
  ASSUME TypeOK, WorkerOK, NEW w \in Worker, WorkerStep(w), worker'[w].stage # "idle"
  PROVE  /\ worker[w].stage # "idle" /\ worker'[w].job = worker[w].job
         /\ worker'[w].stage = "complete" /\ worker'[w].res = "DONE" /\ worker[w].job.kind = "FULFILL" =>
              orders' = orders /\ orders[worker[w].job.target].state = "FULFILLED"
<1>0. worker \in [Worker -> WorkerRow] /\ RowOK(worker[w])
  BY DEF TypeOK, WorkerOK
<1>1. ASSUME NEW stage, NEW res, Become(w, stage, res) \/ Keep(w, stage, res),
             stage # "complete" \/ res # "DONE"
      PROVE  worker'[w].job = worker[w].job /\ (worker'[w].stage # "complete" \/ worker'[w].res # "DONE")
  BY <1>0, <1>1, BecomeEffect, KeepEffect
<1>2. CASE VerifyBegin(w)
  <2>1. CASE Goto(w, After(w))
    BY <1>1, <1>2, <2>1 DEF Goto, VerifyBegin, At
  <2>2. CASE ~Goto(w, After(w))
    BY <1>0, <1>2, <2>2 DEF VerifyBegin, At, WorkerRow
  <2> QED BY <2>1, <2>2
<1>3. CASE VerifyMark(w) \/ ProviderVerifies(w)
  BY <1>1, <1>3 DEF VerifyMark, ProviderVerifies, At
<1>4. CASE VerifyAnswered(w)
  <2>1. worker'[w].job = worker[w].job /\ worker'[w].stage \in {"unproven", "inquire", "settle"}
    BY <1>0, <1>4 DEF VerifyAnswered, WorkerRow
  <2> QED BY <1>4, <2>1 DEF VerifyAnswered, At
<1>5. CASE Unproven(w) \/ Inquire(w) \/ Observe(w)
  BY <1>1, <1>5 DEF Unproven, Inquire, Observe, At
<1>6. CASE SettleVerified(w) \/ SettleFailed(w) \/ SettleUnknown(w) \/ SettleNothing(w)
  <2>1. Goto(w, After(w)) \/ Become(w, "complete", "RETRY")
    BY <1>6 DEF SettleVerified, SettleFailed, SettleUnknown, SettleNothing
  <2>2. worker[w].stage = "settle"
    BY <1>6 DEF SettleVerified, SettleFailed, SettleUnknown, SettleNothing, At
  <2> QED BY <1>1, <2>1, <2>2 DEF Goto
<1>7. CASE ExpireCheck(w) \/ ExpireClose(w) \/ Notify(w)
  <2>1. worker[w].stage \in {"window", "close", "notice"} /\ worker[w].job.kind # "FULFILL"
    BY <1>0, <1>7 DEF ExpireCheck, ExpireClose, Notify, At, RowOK
  <2>2. \E stage, res : Become(w, stage, res)
    BY <1>7 DEF ExpireCheck, ExpireClose, Notify, Goto
  <2>3. worker'[w].job = worker[w].job
    BY <1>0, <2>2, BecomeEffect
  <2> QED BY <2>1, <2>3
<1>8. CASE ExpireList(w)
  <2>1. worker[w].stage = "list" /\ worker[w].job.kind # "FULFILL"
    BY <1>0, <1>8 DEF ExpireList, At, RowOK
  <2>2. CASE Goto(w, "close")
    BY <1>1, <2>1, <2>2 DEF Goto
  <2>3. CASE \E a \in Attempt : worker' = [worker EXCEPT ![w].stage = "verify", ![w].att = a]
    BY <1>0, <2>1, <2>3 DEF WorkerRow
  <2> QED BY <1>8, <2>2, <2>3 DEF ExpireList, OpenOf, AttemptsOf
<1>9. CASE Fulfill(w)
  BY <1>1, <1>9 DEF Fulfill, Goto, At
<1>10. CASE ReadResult(w)
  <2> DEFINE j == worker[w].job
             done == IF j.kind = "VERIFY" THEN attempts[j.target].state \in {"VERIFIED"} \cup EndedStates
                     ELSE orders[j.target].state = "FULFILLED"
  <2>1. Become(w, "complete", IF done THEN "DONE" ELSE "RETRY") /\ orders' = orders /\ worker[w].stage = "read"
    BY <1>10 DEF ReadResult, At
  <2>2. worker'[w].job = worker[w].job /\ worker'[w].res = IF done THEN "DONE" ELSE "RETRY"
    <3> HIDE DEF done
    <3> QED BY <1>0, <2>1, BecomeEffect
  <2> QED BY <2>1, <2>2
<1>11. CASE Complete(w)
  <2>1. worker'[w].stage = "idle"
    BY <1>0, <1>11 DEF Complete, Idle
  <2> QED BY <2>1
<1> QED BY <1>2, <1>3, <1>4, <1>5, <1>6, <1>7, <1>8, <1>9, <1>10, <1>11 DEF WorkerStep

\* Every execution after a step: it stood still, became idle, claimed, or moved on.
LEMMA WorkerFrame ==
  ASSUME TypeOK, Next
  PROVE  \A v \in Worker :
           \/ worker'[v] = worker[v]
           \/ worker'[v].stage = "idle" /\ "crash" \in Events
           \/ \E j \in Job : Claim(v, j)
           \/ WorkerStep(v)
<1>1. CASE CustomerStep \/ AdminStep
  <2>1. worker' = worker
    BY <1>1 DEF CustomerStep, AdminStep, CreateOrder, Supersede, Cancel, Initiate, ProviderCreates,
                RecordCreated, RecordAmbiguous, Returned, CustomerPays, VoidOrder, Reopen,
                AdminReconcile, RestrictProduct, Reset, Grant
  <2> QED BY <2>1
<1>2. CASE ClockStep
  <2>1. worker' = worker \/ ("crash" \in Events /\ \E w \in Worker : worker' = [worker EXCEPT ![w] = Idle])
    BY <1>2 DEF ClockStep, BankEnds, InquiryAges, WindowPasses, LeaseExpires, Crash
  <2> QED BY <2>1 DEF TypeOK, Idle
<1>3. ASSUME NEW w \in Worker, NEW j \in Job, Claim(w, j)
      PROVE \A v \in Worker : worker'[v] = worker[v] \/ Claim(v, j)
  BY <1>3 DEF Claim, TypeOK
<1>4. ASSUME NEW w \in Worker, WorkerStep(w) PROVE \A v \in Worker : worker'[v] = worker[v] \/ WorkerStep(v)
  BY <1>4, OthersStand
<1> QED BY <1>1, <1>2, <1>3, <1>4 DEF Next

LEMMA ClaimRow ==
  ASSUME TypeOK, NEW w \in Worker, NEW j \in Job, Claim(w, j)
  PROVE  /\ worker'[w].job = j /\ worker'[w].stage \in {"verify", "window", "fulfill", "notice"}
         /\ worker[w].stage = "idle" /\ jobs[j].state \in {"PENDING", "RUNNING"}
         /\ jobs'[j].state = "RUNNING"
BY DEF Claim, FirstStage, TypeOK, JobRow, Job, OrderKinds, Idle

LEMMA NextWorking ==
  ASSUME TypeOK, WorkerOK, Working, Next
  PROVE  Working'
<1>1. \A j \in Job : jobs[j].state # "NONE" => jobs'[j].state # "NONE"
  BY NextJobs DEF JobMoves
<1> SUFFICES ASSUME NEW v \in Worker, worker'[v].stage # "idle"
             PROVE  jobs'[worker'[v].job].state # "NONE"
  BY DEF Working
<1>2. CASE worker'[v] = worker[v]
  BY <1>1, <1>2 DEF Working, WorkerOK, RowOK
<1>3. ASSUME NEW j \in Job, Claim(v, j) PROVE jobs'[worker'[v].job].state # "NONE"
  BY <1>3, ClaimRow
<1>4. CASE WorkerStep(v)
  BY <1>1, <1>4, StepJob DEF Working, WorkerOK, RowOK
<1> QED BY <1>2, <1>3, <1>4, WorkerFrame

-----------------------------------------------------------------------------
(* One step keeps it.                                                      *)

Settles(p) == \E w \in Worker : SettleVerified(w) /\ p = OrderOf[worker[w].att]

LEMMA RowMoves ==
  ASSUME TypeOK, WorkerOK, Proven, Next
  PROVE  \A p \in Order : Flags(p) /\ (Moves(p) \/ Settles(p))
<1>1. ASSUME NEW w \in Worker, SettleVerified(w)
      PROVE  \A p \in Order : Flags(p) /\ (Moves(p) \/ Settles(p))
  <2> DEFINE o == OrderOf[worker[w].att]
  <2>1. o \in Order /\ Flags(o) /\ \A p \in Order \ {o} : orders'[p] = orders[p]
    BY <1>1, SettledRow
  <2>2. \A p \in Order \ {o} : Moves(p)
    BY <2>1 DEF Moves, Same, Flags
  <2>3. Settles(o)
    BY <1>1 DEF Settles
  <2> QED BY <2>1, <2>2, <2>3 DEF Moves
<1> QED BY <1>1, OrderMoves DEF Moves

\* Settles, read from the order.
LEMMA SettledOrder ==
  ASSUME TypeOK, WorkerOK, NEW o \in Order, Settles(o)
  PROVE  \/ Refuses(o)
         \/ \E a \in Attempt : /\ OrderOf[a] = o /\ attempts' = [attempts EXCEPT ![a].state = "VERIFIED"]
                               /\ Reuses(o) \/ Duplicates(o) \/ AcceptsLate(o, a) \/ Accepts(o, a)
<1>1. PICK w \in Worker : SettleVerified(w) /\ o = OrderOf[worker[w].att]
  BY DEF Settles
<1> QED BY <1>1, SettledRow

LEMMA DeliveredStays ==
  ASSUME TypeOK, WorkerOK, Proven, Next
  PROVE  \A o \in Order : orders[o].state = "FULFILLED" => orders'[o].state = "FULFILLED"
<1> SUFFICES ASSUME NEW o \in Order, orders[o].state = "FULFILLED" PROVE orders'[o].state = "FULFILLED"
  OBVIOUS
<1>1. CASE Moves(o)
  BY <1>1, StateNames DEF Moves, Same, Ends, Opens, Delivers, Unpaid
<1>2. CASE Settles(o)
  BY <1>2, SettledOrder DEF Reuses, Duplicates, AcceptsLate, Accepts, Refuses, PaidState
<1> QED BY <1>1, <1>2, RowMoves

LEMMA NextReady ==
  ASSUME TypeOK, WorkerOK, Proven, Working, Ready, Next
  PROVE  Ready'
<1> SUFFICES ASSUME NEW o \in Order, jobs'[F(o)].state # "NONE"
             PROVE  orders'[o].accepted # None /\ orders'[o].coupon \in {"NONE", "REDEEMED"}
  BY DEF Ready
<1>1. CASE jobs[F(o)].state # "NONE"
  <2>1. orders[o].accepted # None /\ orders[o].coupon \in {"NONE", "REDEEMED"}
    BY <1>1 DEF Ready
  <2>2. CASE Moves(o)
    BY <2>1, <2>2 DEF Moves, Same, Ends, Opens, Delivers, Unpaid
  <2>3. CASE Settles(o)
    BY <2>1, <2>3, SettledOrder DEF Reuses, Duplicates, AcceptsLate, Accepts, Refuses
  <2> QED BY <2>2, <2>3, RowMoves
<1>2. CASE jobs[F(o)].state = "NONE"
  <2>1. F(o) \in Job /\ F(o).kind = "FULFILL"
    BY JobNames DEF F
  <2>2. PICK w \in Worker : SettleVerified(w) /\ F(o) = F(OrderOf[worker[w].att])
    BY <1>2, <2>1, NextJobs DEF JobMoves
  <2>3. o = OrderOf[worker[w].att]
    BY <2>2 DEF F
  <2>4. Settles(o)
    BY <2>2, <2>3 DEF Settles
  <2>5. PICK a \in Attempt : Accepts(o, a)
    BY <1>2, <2>4, SettledOrder DEF Reuses, Duplicates, AcceptsLate, Refuses
  <2>6. a # None /\ orders[o].coupon \in CouponStates
    BY NoneIsFresh DEF TypeOK, OrderRow
  <2> QED BY <2>5, <2>6 DEF Accepts, Redeemed, CouponStates
<1> QED BY <1>1, <1>2

LEMMA NextCoupon ==
  ASSUME TypeOK, WorkerOK, Proven, Working, Ready, CouponOK, Next
  PROVE  CouponOK'
<1> SUFFICES ASSUME NEW o \in Order
    PROVE  /\ orders'[o].state = "NONE" => orders'[o].coupon = "NONE"
           /\ orders'[o].state = "PENDING" => orders'[o].coupon \in {"NONE", "RESERVED", "UNKNOWN"}
           /\ orders'[o].state \in EndedStates => orders'[o].coupon \in {"NONE", "RELEASED"}
           /\ orders'[o].state = "FULFILLED" => orders'[o].coupon \in {"NONE", "REDEEMED"}
           /\ orders'[o].state = "FULFILLMENT_PENDING" =>
                orders'[o].coupon \in {"NONE", "REDEEMED"} \/ orders'[o].held
  BY DEF CouponOK
<1>1. EndedStates = {"FAILED", "CANCELLED"}
  BY StateNames
<1>2. Flags(o)
  BY RowMoves
<1>3. CASE Same(o)
  BY <1>1, <1>2, <1>3 DEF Same, Flags, CouponOK
<1>4. CASE Ends(o)
  BY <1>1, <1>4 DEF Ends, Unpaid, CouponOK
<1>5. CASE Opens(o)
  BY <1>1, <1>5 DEF Opens
<1>6. CASE Delivers(o)
  <2>1. jobs[F(o)].state # "NONE"
    BY <1>6 DEF Delivers, Working
  <2>2. orders[o].coupon \in {"NONE", "REDEEMED"}
    BY <2>1 DEF Ready
  <2> QED BY <1>1, <1>6, <2>2 DEF Delivers
<1>7. CASE Settles(o)
  <2>1. orders[o].accepted = None => orders[o].state # "FULFILLED"
    BY DEF Proven
  <2>2. orders[o].accepted # None => orders[o].state \in {"FULFILLMENT_PENDING", "FULFILLED"}
    BY DEF Proven
  <2>3. orders[o].state = "FULFILLED" => orders[o].coupon \in {"NONE", "REDEEMED"}
    BY DEF CouponOK
  <2>4. CASE Refuses(o)
    BY <2>4 DEF Refuses, CouponOK
  <2>5. CASE Reuses(o)
    BY <1>1, <2>3, <2>5 DEF Reuses, PaidState
  <2>6. CASE Duplicates(o)
    BY <1>1, <2>2, <2>3, <2>6 DEF Duplicates
  <2>7. ASSUME NEW a \in Attempt, AcceptsLate(o, a)
        PROVE orders'[o].state = "FULFILLMENT_PENDING" /\ orders'[o].held
    BY <2>1, <2>7 DEF AcceptsLate, PaidState
  <2>8. ASSUME NEW a \in Attempt, Accepts(o, a)
        PROVE orders'[o].state = "FULFILLMENT_PENDING" /\ orders'[o].coupon \in {"NONE", "REDEEMED"}
    <3>1. orders[o].coupon \in CouponStates
      BY DEF TypeOK, OrderRow
    <3> QED BY <2>1, <2>8, <3>1 DEF Accepts, PaidState, Redeemed, CouponStates
  <2> QED BY <1>1, <1>7, <2>4, <2>5, <2>6, <2>7, <2>8, SettledOrder
<1> QED BY <1>3, <1>4, <1>5, <1>6, <1>7, RowMoves DEF Moves

LEMMA NextServed ==
  ASSUME TypeOK, WorkerOK, Proven, Working, Ready, Served, Next
  PROVE  Served'
<1>0. \A o \in Order : F(o) \in Job /\ F(o).kind = "FULFILL" /\ JobOrder(F(o)) = o /\ F(o).target = o
  BY JobNames DEF F, JobOrder
<1>1. ASSUME NEW o \in Order, orders'[o].state = "FULFILLMENT_PENDING"
      PROVE  orders'[o].held \/ jobs'[F(o)].state # "NONE"
  <2>1. CASE Moves(o)
    <3>1. orders[o].state = "FULFILLMENT_PENDING" /\ Flags(o)
      BY <1>1, <2>1, StateNames DEF Moves, Same, Ends, Opens, Delivers
    <3>2. jobs[F(o)].state # "NONE" => jobs'[F(o)].state # "NONE"
      BY <1>0, NextJobs DEF JobMoves
    <3> QED BY <3>1, <3>2 DEF Served, Flags
  <2>2. CASE Settles(o)
    <3>1. CASE Refuses(o)
      BY <1>1, <3>1 DEF Refuses, Served
    <3>2. ASSUME NEW a \in Attempt, Accepts(o, a) PROVE jobs'[F(o)].state # "NONE"
      BY <1>0, <3>2 DEF Accepts, Scheduled, NewJob, NoJob, TypeOK
    <3> QED BY <2>2, <3>1, <3>2, SettledOrder DEF Reuses, Duplicates, AcceptsLate
  <2> QED BY <2>1, <2>2, RowMoves
<1>2. ASSUME NEW o \in Order, jobs'[F(o)].state = "REVIEW" PROVE orders'[o].exc # None
  <2>1. JobMoves(F(o)) /\ Flags(o)
    BY <1>0, NextJobs, RowMoves
  <2>2. CASE jobs[F(o)].state = "REVIEW"
    <3>1. ~AdminReconcile(o)
      BY <1>0, <1>2, <2>2 DEF AdminReconcile, Rescheduled, NewJob, NoJob
    <3> QED BY <2>1, <2>2, <3>1 DEF Flags, Served
  <2> QED BY <1>0, <1>2, <2>1, <2>2 DEF JobMoves
<1>3. ASSUME NEW o \in Order, jobs'[F(o)].state = "DONE" PROVE orders'[o].state = "FULFILLED"
  <2>1. JobMoves(F(o))
    BY <1>0, NextJobs
  <2>2. orders[o].state = "FULFILLED"
    BY <1>0, <1>3, <2>1 DEF JobMoves, Served
  <2> QED BY <2>2, DeliveredStays
<1>4. ASSUME NEW v \in Worker, NEW o \in Order, worker'[v].stage = "complete",
             worker'[v].res = "DONE", worker'[v].job = F(o)
      PROVE  orders'[o].state = "FULFILLED"
  <2>1. CASE worker'[v] = worker[v]
    BY <1>4, <2>1, DeliveredStays DEF Served
  <2>2. ASSUME NEW j \in Job, Claim(v, j) PROVE FALSE
    BY <1>4, <2>2, ClaimRow
  <2>3. CASE WorkerStep(v)
    <3>1. /\ worker'[v].job = worker[v].job
          /\ worker[v].job.kind = "FULFILL" =>
               orders' = orders /\ orders[worker[v].job.target].state = "FULFILLED"
      BY <1>4, <2>3, StepJob
    <3>2. F(o).kind = "FULFILL" /\ F(o).target = o
      BY DEF F
    <3> QED BY <1>4, <3>1, <3>2
  <2> QED BY <1>4, <2>1, <2>2, <2>3, WorkerFrame
<1> QED BY <1>1, <1>2, <1>3, <1>4 DEF Served

LEMMA NextCharged ==
  ASSUME IInv, Charged, Next
  PROVE  Charged'
<1>0. TypeOK /\ WorkerOK /\ Proven /\ Carried
  BY DEF IInv
<1>1. ASSUME NEW a \in Attempt, attempts'[a].state = "VERIFIED"
      PROVE  orders'[OrderOf[a]].accepted = a \/ orders'[OrderOf[a]].held
  <2> DEFINE o == OrderOf[a]
  <2>0. o \in Order /\ a # None
    BY OrderOfType, NoneIsFresh
  <2>1. CASE attempts[a].state = "VERIFIED"
    <3>1. orders[o].accepted = a \/ orders[o].held
      BY <2>1 DEF Charged
    <3>2. orders[o].held => orders'[o].held
      BY <1>0, <2>0, RowMoves DEF Flags
    <3>3. orders[o].accepted = a => orders'[o].accepted = a
      BY <2>0, PaidStep
    <3> QED BY <3>1, <3>2, <3>3
  <2>2. CASE attempts[a].state # "VERIFIED"
    <3>1. PICK w \in Worker : SettleVerified(w)
      BY <1>0, <1>1, <2>2, NextKeeps, FulfillEffect DEF AttemptsKept
    <3>2. a = worker[w].att
      <4>1. attempts' = attempts \/ attempts' = [attempts EXCEPT ![worker[w].att].state = "VERIFIED"]
        BY <3>1 DEF SettleVerified
      <4> QED BY <1>0, <1>1, <2>2, <4>1 DEF TypeOK
    <3>3. \/ Refuses(o) \/ Reuses(o) \/ Duplicates(o) \/ AcceptsLate(o, a) \/ Accepts(o, a)
      BY <1>0, <3>1, <3>2, SettledRow
    <3> QED BY <1>1, <2>2, <3>3 DEF Refuses, Reuses, Duplicates, AcceptsLate, Accepts
  <2> QED BY <2>1, <2>2
<1>2. ASSUME NEW o \in Order, orders'[o].paid, orders'[o].accepted = None PROVE orders'[o].held
  <2>1. CASE Moves(o)
    <3>1. orders'[o].paid = orders[o].paid /\ orders'[o].accepted = orders[o].accepted /\ Flags(o)
      BY <2>1 DEF Moves, Same, Ends, Opens, Delivers
    <3> QED BY <1>2, <3>1 DEF Charged, Flags
  <2>2. CASE Settles(o)
    <3>1. \A a \in Attempt : a # None
      BY NoneIsFresh
    <3> QED BY <1>0, <1>2, <2>2, <3>1, SettledOrder
            DEF Refuses, Reuses, Duplicates, AcceptsLate, Accepts, Charged
  <2> QED BY <1>0, <2>1, <2>2, RowMoves
<1> QED BY <1>1, <1>2 DEF Charged

-----------------------------------------------------------------------------
(* An attempt is of an order that exists.                                  *)

Placed ==
  /\ \A a \in Attempt : attempts[a].state # "NONE" => orders[OrderOf[a]].state # "NONE"
  /\ \A a \in Attempt : jobs[V(a)].state # "NONE" => attempts[a].state # "NONE"
  /\ \A w \in Worker : worker[w].stage \in Verifying => attempts[worker[w].att].state # "NONE"

\* No attempt but that of Initiate comes into being.
NoneBegins == \A a \in Attempt : attempts[a].state = "NONE" => attempts'[a].state = "NONE"

LEMMA EndNotBegins ==
  ASSUME NEW as \in [Attempt -> AttemptRow], NEW o \in Order, NEW s \in EndedStates
  PROVE  \A a \in Attempt : as[a].state = "NONE" => EndAttempts(as, o, s)[a].state = "NONE"
BY DEF EndAttempts, OpenStates

LEMMA CustomerBegins ==
  ASSUME TypeOK, Fresh, CustomerStep, \A a \in Attempt : ~Initiate(a)
  PROVE  NoneBegins
<1>1. ASSUME NEW o \in Order, \/ Supersede(o) \/ Cancel(o) \/ \E c \in BOOLEAN : CreateOrder(o, c)
      PROVE NoneBegins
  <2>1. attempts' = attempts \/ attempts' = EndAttempts(attempts, o, "CANCELLED")
    BY <1>1 DEF Supersede, Cancel, CreateOrder, Close
  <2> QED BY <2>1, EndNotBegins, StateNames DEF NoneBegins, TypeOK
<1>2. ASSUME NEW a \in Attempt, ProviderCreates(a) \/ CustomerPays(a) PROVE NoneBegins
  BY <1>2 DEF ProviderCreates, CustomerPays, NoneBegins
<1>3. ASSUME NEW a \in Attempt, RecordCreated(a) \/ RecordAmbiguous(a) PROVE NoneBegins
  <2>1. attempts[a].state # "NONE"
    BY <1>3 DEF RecordCreated, RecordAmbiguous, Fresh
  <2> QED BY <1>3, <2>1 DEF RecordCreated, RecordAmbiguous, NoneBegins, TypeOK, AttemptRow
<1>4. ASSUME NEW a \in Attempt, NEW s \in {"OK", "NOK", "none"}, Returned(a, s) PROVE NoneBegins
  <2> DEFINE seen == IF attempts[a].ret = "none" THEN [attempts EXCEPT ![a].ret = s] ELSE attempts
  <2>1. OrderOf[a] \in Order /\ "CANCELLED" \in EndedStates
    BY OrderOfType, StateNames
  <2>2. seen \in [Attempt -> AttemptRow] /\ \A b \in Attempt : seen[b].state = attempts[b].state
    BY <1>4 DEF TypeOK, AttemptRow
  <2>3. attempts' = seen \/ attempts' = EndAttempts(seen, OrderOf[a], "CANCELLED")
    BY <1>4 DEF Returned
  <2> HIDE DEF seen
  <2> QED BY <2>1, <2>2, <2>3, EndNotBegins DEF NoneBegins
<1> QED BY <1>1, <1>2, <1>3, <1>4 DEF CustomerStep

LEMMA ClockAdminBegins ==
  ASSUME TypeOK, ClockStep \/ AdminStep
  PROVE  NoneBegins
<1>1. CASE \/ \E a \in Attempt : BankEnds(a)
           \/ \E o \in Order : WindowPasses(o) \/ Reopen(o) \/ AdminReconcile(o)
           \/ \E j \in Job : LeaseExpires(j)
           \/ Crash \/ RestrictProduct \/ Reset \/ Grant
  <2>1. attempts' = attempts
    BY <1>1 DEF BankEnds, WindowPasses, Reopen, AdminReconcile, LeaseExpires, Crash, RestrictProduct, Reset, Grant
  <2> QED BY <2>1 DEF NoneBegins
<1>2. ASSUME NEW a \in Attempt, InquiryAges(a) PROVE NoneBegins
  BY <1>2 DEF InquiryAges, NoneBegins, TypeOK, AttemptRow
<1>3. ASSUME NEW o \in Order, VoidOrder(o) PROVE NoneBegins
  BY <1>3, EndNotBegins, StateNames DEF VoidOrder, Close, NoneBegins, TypeOK
<1> QED BY <1>1, <1>2, <1>3 DEF ClockStep, AdminStep

LEMMA WorkerBegins ==
  ASSUME TypeOK, WorkerOK, Placed, NEW w \in Worker, WorkerStep(w)
  PROVE  NoneBegins
<1> DEFINE a == worker[w].att
<1>1. CASE \/ VerifyBegin(w) \/ ProviderVerifies(w) \/ Unproven(w) \/ Inquire(w) \/ SettleNothing(w)
           \/ ExpireCheck(w) \/ ExpireList(w) \/ Fulfill(w) \/ Notify(w) \/ ReadResult(w) \/ Complete(w)
  <2>1. attempts' = attempts
    BY <1>1 DEF VerifyBegin, ProviderVerifies, Unproven, Inquire, SettleNothing, ExpireCheck,
                ExpireList, Fulfill, Notify, ReadResult, Complete
  <2> QED BY <2>1 DEF NoneBegins
<1>2. CASE VerifyMark(w) \/ VerifyAnswered(w) \/ Observe(w)
  <2>1. \/ attempts' = attempts
        \/ attempts' = [attempts EXCEPT ![a].req = TRUE]
        \/ attempts' = [attempts EXCEPT ![a].ans = TRUE]
        \/ \E f : attempts' = [attempts EXCEPT ![a].fail = f]
    <3>1. CASE Observe(w)
      BY <3>1 DEF Observe
    <3> QED BY <1>2, <3>1 DEF VerifyMark, VerifyAnswered
  <2> HIDE DEF a
  <2> QED BY <2>1 DEF NoneBegins, TypeOK, AttemptRow
<1>3. CASE SettleVerified(w) \/ SettleFailed(w) \/ SettleUnknown(w)
  <2>1. a \in Attempt /\ OrderOf[a] \in Order /\ attempts[a].state # "NONE"
    BY <1>3, OwnAttempt DEF SettleVerified, SettleFailed, SettleUnknown, At, Verifying, Placed
  <2>2. \A s \in {"VERIFIED", "FAILED", "UNKNOWN"} :
          /\ [attempts EXCEPT ![a].state = s] \in [Attempt -> AttemptRow]
          /\ \A b \in Attempt : attempts[b].state = "NONE" => [attempts EXCEPT ![a].state = s][b].state = "NONE"
    <3>1. attempts \in [Attempt -> AttemptRow] /\ attempts[a] \in AttemptRow
      BY <2>1 DEF TypeOK
    <3>2. \A s \in {"VERIFIED", "FAILED", "UNKNOWN"} : [attempts[a] EXCEPT !.state = s] \in AttemptRow
      BY <3>1, StateNames DEF AttemptRow
    <3> HIDE DEF a
    <3> QED BY <2>1, <3>1, <3>2
  <2>3. \/ attempts' = attempts
        \/ \E s \in {"VERIFIED", "FAILED", "UNKNOWN"} :
             \/ attempts' = [attempts EXCEPT ![a].state = s]
             \/ attempts' = EndAttempts([attempts EXCEPT ![a].state = s], OrderOf[a], "FAILED")
    BY <1>3 DEF SettleVerified, SettleFailed, SettleUnknown
  <2> HIDE DEF a
  <2>4. CASE attempts' = attempts
    BY <2>4 DEF NoneBegins
  <2>5. ASSUME NEW s \in {"VERIFIED", "FAILED", "UNKNOWN"}, attempts' = [attempts EXCEPT ![a].state = s]
        PROVE NoneBegins
    BY <2>2, <2>5 DEF NoneBegins
  <2>6. ASSUME NEW s \in {"VERIFIED", "FAILED", "UNKNOWN"},
               attempts' = EndAttempts([attempts EXCEPT ![a].state = s], OrderOf[a], "FAILED")
        PROVE NoneBegins
    <3> DEFINE seen == [attempts EXCEPT ![a].state = s]
    <3>1. seen \in [Attempt -> AttemptRow] /\ \A b \in Attempt : attempts[b].state = "NONE" => seen[b].state = "NONE"
      BY <2>2
    <3>2. attempts' = EndAttempts(seen, OrderOf[a], "FAILED") /\ "FAILED" \in EndedStates
      BY <2>6, StateNames
    <3> HIDE DEF seen
    <3> QED BY <2>1, <3>1, <3>2, EndNotBegins DEF NoneBegins
  <2> QED BY <2>3, <2>4, <2>5, <2>6
<1>4. CASE ExpireClose(w)
  <2>1. worker[w].job.target \in Order
    BY <1>4 DEF ExpireClose, WorkerOK, RowOK, At, Job
  <2>2. attempts' = attempts \/ attempts' = EndAttempts(attempts, worker[w].job.target, "CANCELLED")
    BY <1>4 DEF ExpireClose, Close
  <2> QED BY <2>1, <2>2, EndNotBegins, StateNames DEF NoneBegins, TypeOK
<1> QED BY <1>1, <1>2, <1>3, <1>4 DEF WorkerStep

LEMMA NextBegins ==
  ASSUME TypeOK, WorkerOK, Fresh, Placed, Next
  PROVE  \A a \in Attempt : attempts[a].state = "NONE" => attempts'[a].state = "NONE" \/ Initiate(a)
<1>1. ASSUME NEW w \in Worker, NEW j \in Job, Claim(w, j) PROVE NoneBegins
  BY <1>1 DEF Claim, NoneBegins
<1>2. ASSUME NEW b \in Attempt, Initiate(b)
      PROVE \A a \in Attempt : attempts[a].state = "NONE" => attempts'[a].state = "NONE" \/ Initiate(a)
  BY <1>2 DEF Initiate, TypeOK, AttemptRow
<1> QED BY <1>1, <1>2, CustomerBegins, ClockAdminBegins, WorkerBegins DEF Next, NoneBegins

\* An execution goes on with its attempt, or EXPIRE takes up an open one.
LEMMA StepAttempt ==
  ASSUME TypeOK, WorkerOK, NEW w \in Worker, WorkerStep(w), worker'[w].stage \in Verifying
  PROVE  \/ worker[w].stage \in Verifying /\ worker'[w].att = worker[w].att
         \/ worker'[w].att \in Attempt /\ attempts[worker'[w].att].state \in OpenStates
<1>0. worker \in [Worker -> WorkerRow]
  BY DEF TypeOK
<1>2. CASE VerifyBegin(w)
  <2>1. worker[w].stage \in Verifying
    BY <1>2 DEF VerifyBegin, At, Verifying
  <2>2. CASE Goto(w, After(w))
    BY <1>0, <2>2, BecomeEffect DEF Goto, After, Verifying
  <2>3. CASE ~Goto(w, After(w))
    BY <1>0, <1>2, <2>1, <2>3 DEF VerifyBegin, WorkerRow
  <2> QED BY <2>2, <2>3
<1>3. CASE VerifyMark(w) \/ ProviderVerifies(w)
  BY <1>0, <1>3, KeepEffect DEF VerifyMark, ProviderVerifies, At, Verifying
<1>4. CASE VerifyAnswered(w)
  BY <1>0, <1>4 DEF VerifyAnswered, WorkerRow, At, Verifying
<1>5. CASE Unproven(w) \/ Observe(w)
  BY <1>0, <1>5, BecomeEffect DEF Unproven, Observe, At, Verifying
<1>6. CASE Inquire(w)
  <2>1. worker[w].stage \in Verifying
    BY <1>6 DEF Inquire, At, Verifying
  <2>2. (\E s : Keep(w, "observe", s)) \/ Become(w, "settle", "SILENT")
    BY <1>6 DEF Inquire
  <2> QED BY <1>0, <2>1, <2>2, BecomeEffect, KeepEffect
<1>7. CASE \/ SettleVerified(w) \/ SettleFailed(w) \/ SettleUnknown(w) \/ SettleNothing(w)
  <2>1. Goto(w, After(w)) \/ Become(w, "complete", "RETRY")
    BY <1>7 DEF SettleVerified, SettleFailed, SettleUnknown, SettleNothing
  <2>2. worker'[w].stage \in {"close", "read", "complete"}
    BY <1>0, <2>1, BecomeEffect DEF Goto, After
  <2> QED BY <2>2 DEF Verifying
<1>8. CASE ExpireCheck(w) \/ ExpireClose(w) \/ Fulfill(w) \/ Notify(w) \/ ReadResult(w)
  <2>1. \E stage \in {"list", "complete", "read"} : \E res : Become(w, stage, res)
    BY <1>8 DEF ExpireCheck, ExpireClose, Fulfill, Notify, ReadResult, Goto
  <2>2. worker'[w].stage \in {"list", "read", "complete"}
    BY <1>0, <2>1, BecomeEffect
  <2> QED BY <2>2 DEF Verifying
<1>9. CASE ExpireList(w)
  <2>1. CASE Goto(w, "close")
    BY <1>0, <2>1, BecomeEffect DEF Goto, Verifying
  <2>2. ASSUME NEW a \in Attempt, attempts[a].state \in OpenStates,
               worker' = [worker EXCEPT ![w].stage = "verify", ![w].att = a]
        PROVE  worker'[w].att \in Attempt /\ attempts[worker'[w].att].state \in OpenStates
    BY <1>0, <2>2 DEF WorkerRow
  <2> QED BY <1>9, <2>1, <2>2 DEF ExpireList, OpenOf, AttemptsOf
<1>10. CASE Complete(w)
  BY <1>0, <1>10 DEF Complete, Idle, Verifying
<1> QED BY <1>2, <1>3, <1>4, <1>5, <1>6, <1>7, <1>8, <1>9, <1>10 DEF WorkerStep

LEMMA NextPlaced ==
  ASSUME IInv, Working, Placed, Next
  PROVE  Placed'
<1>0. TypeOK /\ WorkerOK /\ Proven /\ Fresh /\ Carried
  BY DEF IInv
<1>1. \A o \in Order : orders[o].state # "NONE" => orders'[o].state # "NONE"
  <2> SUFFICES ASSUME NEW o \in Order, orders[o].state # "NONE" PROVE orders'[o].state # "NONE"
    OBVIOUS
  <2>1. CASE Moves(o)
    BY <2>1, StateNames DEF Moves, Same, Ends, Opens, Delivers
  <2>2. CASE Settles(o)
    BY <1>0, <2>2, SettledOrder DEF Refuses, Reuses, Duplicates, AcceptsLate, Accepts, PaidState
  <2> QED BY <1>0, <2>1, <2>2, RowMoves
<1>2. \A a \in Attempt : attempts[a].state # "NONE" => attempts'[a].state # "NONE"
  BY <1>0, VerifiedStays
<1>3. ASSUME NEW a \in Attempt, attempts'[a].state # "NONE" PROVE orders'[OrderOf[a]].state # "NONE"
  <2>1. CASE attempts[a].state # "NONE"
    BY <1>1, <2>1, OrderOfType DEF Placed
  <2>2. CASE Initiate(a)
    BY <2>2 DEF Initiate
  <2> QED BY <1>0, <1>3, <2>1, <2>2, NextBegins
<1>4. ASSUME NEW a \in Attempt, jobs'[V(a)].state # "NONE" PROVE attempts'[a].state # "NONE"
  <2>1. CASE jobs[V(a)].state # "NONE"
    BY <1>2, <2>1 DEF Placed
  <2>2. CASE jobs[V(a)].state = "NONE"
    <3>1. V(a) \in Job /\ V(a).kind = "VERIFY" /\ V(a).target = a /\ JobMoves(V(a))
      BY <1>0, JobKinds, NextJobs
    <3>2. \A o \in Order : V(a) # F(o)
      BY DEF V, F
    <3>3. \A w \in Worker : SettleVerified(w) => OrderOf[worker[w].att] \in Order
      BY <1>0, OwnAttempt DEF SettleVerified, At, Verifying
    <3>4. Initiate(a)
      BY <1>4, <2>2, <3>1, <3>2, <3>3 DEF JobMoves
    <3> QED BY <1>0, <3>4 DEF Initiate, TypeOK, AttemptRow
  <2> QED BY <2>1, <2>2
<1>5. ASSUME NEW v \in Worker, worker'[v].stage \in Verifying PROVE attempts'[worker'[v].att].state # "NONE"
  <2>1. CASE worker'[v] = worker[v]
    BY <1>0, <1>2, <1>5, <2>1, OwnAttempt DEF Placed
  <2>2. ASSUME NEW j \in Job, Claim(v, j) PROVE attempts'[worker'[v].att].state # "NONE"
    <3>1. worker'[v].stage = "verify" /\ jobs[j].state # "NONE"
      BY <1>0, <1>5, <2>2, ClaimRow DEF Verifying
    <3>2. j.kind = "VERIFY"
      BY <1>0, <2>2, <3>1 DEF Claim, FirstStage, TypeOK, Idle, Job, OrderKinds
    <3>3. j.target \in Attempt /\ j = V(j.target)
      BY <3>2 DEF Job, OrderKinds, V
    <3>4. worker'[v].att = j.target
      BY <1>0, <2>2, <3>2 DEF Claim, TypeOK, Idle
    <3> QED BY <1>2, <3>1, <3>3, <3>4 DEF Placed
  <2>3. CASE WorkerStep(v)
    <3>1. CASE worker[v].stage \in Verifying /\ worker'[v].att = worker[v].att
      BY <1>0, <1>2, <3>1, OwnAttempt DEF Placed
    <3>2. CASE worker'[v].att \in Attempt /\ attempts[worker'[v].att].state \in OpenStates
      BY <1>2, <3>2 DEF OpenStates
    <3> QED BY <1>0, <1>5, <2>3, <3>1, <3>2, StepAttempt
  <2>4. CASE worker'[v].stage = "idle"
    BY <1>5, <2>4 DEF Verifying
  <2> QED BY <1>0, <2>1, <2>2, <2>3, <2>4, WorkerFrame
<1> QED BY <1>3, <1>4, <1>5 DEF Placed

-----------------------------------------------------------------------------
(* Coupons in use.                                                         *)

InUse == {o \in Order : orders[o].coupon \in {"RESERVED", "UNKNOWN", "REDEEMED"}}

QuotaKept == IsFiniteSet(InUse) /\ CouponsInUse <= Quota

\* Coupons come into use one at a time, while the quota allows one more.
LEMMA InUseSteps ==
  ASSUME TypeOK, WorkerOK, Proven, Next
  PROVE  \/ InUse' \subseteq InUse
         \/ CouponsInUse < Quota /\ \E o \in Order : InUse' \subseteq InUse \cup {o}
<1>1. ASSUME NEW o \in Order, Same(o) \/ Ends(o) \/ Delivers(o) \/ Settles(o)
      PROVE  o \in InUse' => o \in InUse
  <2>1. CASE Same(o) \/ Ends(o) \/ Delivers(o)
    BY <2>1 DEF Same, Ends, Delivers, InUse
  <2>2. CASE Settles(o)
    <3>1. orders[o].coupon \in CouponStates
      BY DEF TypeOK, OrderRow
    <3> QED BY <2>2, <3>1, SettledOrder
            DEF Refuses, Reuses, Duplicates, AcceptsLate, Accepts, Redeemed, CouponStates, InUse
  <2> QED BY <1>1, <2>1, <2>2
<1>2. ASSUME NEW o \in Order, Opens(o)
      PROVE  \/ InUse' \subseteq InUse
             \/ CouponsInUse < Quota /\ InUse' \subseteq InUse \cup {o}
  BY <1>2 DEF Opens, InUse
<1>3. CASE \A o \in Order : ~Opens(o)
  <2>1. \A o \in Order : o \in InUse' => o \in InUse
    BY <1>1, <1>3, RowMoves DEF Moves
  <2> QED BY <2>1 DEF InUse
<1> QED BY <1>2, <1>3

LEMMA NextQuota ==
  ASSUME TypeOK, WorkerOK, Proven, QuotaKept, Next
  PROVE  QuotaKept'
<1>1. CouponsInUse = Cardinality(InUse) /\ CouponsInUse' = Cardinality(InUse')
  BY DEF CouponsInUse, InUse
<1>2. IsFiniteSet(InUse) /\ Cardinality(InUse) \in Nat /\ Cardinality(InUse) <= Quota
  BY <1>1, FS_CardinalityType DEF QuotaKept
<1>3. CASE InUse' \subseteq InUse
  <2>1. IsFiniteSet(InUse') /\ Cardinality(InUse') <= Cardinality(InUse)
    BY <1>2, <1>3, FS_Subset
  <2>2. Cardinality(InUse') \in Nat
    BY <2>1, FS_CardinalityType
  <2> QED BY <1>1, <1>2, <2>1, <2>2, QuotaIsNat DEF QuotaKept
<1>4. ASSUME NEW o \in Order, Cardinality(InUse) < Quota, InUse' \subseteq InUse \cup {o} PROVE QuotaKept'
  <2>1. IsFiniteSet(InUse \cup {o}) /\ Cardinality(InUse \cup {o}) <= Cardinality(InUse) + 1
    <3>1. /\ IsFiniteSet(InUse \cup {o})
          /\ Cardinality(InUse \cup {o}) = IF o \in InUse THEN Cardinality(InUse) ELSE Cardinality(InUse) + 1
      BY <1>2, FS_AddElement
    <3> QED BY <1>2, <3>1
  <2>2. IsFiniteSet(InUse') /\ Cardinality(InUse') <= Cardinality(InUse \cup {o})
    BY <1>4, <2>1, FS_Subset
  <2>3. Cardinality(InUse') \in Nat /\ Cardinality(InUse \cup {o}) \in Nat
    BY <2>1, <2>2, FS_CardinalityType
  <2> QED BY <1>1, <1>2, <1>4, <2>1, <2>2, <2>3, QuotaIsNat DEF QuotaKept
<1> QED BY <1>1, <1>3, <1>4, InUseSteps

-----------------------------------------------------------------------------
(* Where captured money is.                                                *)

\* The execution row brings the capture of a to the record.
Carries(row, a) ==
  /\ row.att = a
  /\ \/ row.stage = "unproven"
     \/ row.stage \in {"answer", "settle"} /\ row.res \in {"CAPTURED", "ALREADY", "REUSED"}

\* A capture is recorded, held, or carried. A crash or a lost answer loses the
\* carrier (the next execution asks the bank again).
Undisturbed == {"crash", "lost_answer"} \cap Events = {}
OnRecord ==
  Undisturbed =>
    \A a \in Attempt : bank[a] = "captured" =>
      \/ attempts[a].state = "VERIFIED" \/ orders[OrderOf[a]].held
      \/ \E w \in Worker : Carries(worker[w], a)

LEMMA CarrierSteps ==
  ASSUME TypeOK, WorkerOK, Charged, NEW w \in Worker, NEW a \in Attempt, WorkerStep(w), Carries(worker[w], a)
  PROVE  \/ attempts'[a].state = "VERIFIED" \/ orders'[OrderOf[a]].held
         \/ Carries(worker'[w], a)
<1>0. worker \in [Worker -> WorkerRow] /\ a = worker[w].att /\ OrderOf[a] \in Order
  BY OrderOfType DEF TypeOK, Carries
<1>1. CASE VerifyAnswered(w)
  <2>1. /\ worker'[w].res = worker[w].res /\ worker'[w].att = a
        /\ worker[w].res \in {"CAPTURED", "ALREADY", "REUSED"} => worker'[w].stage \in {"unproven", "settle"}
    BY <1>0, <1>1 DEF VerifyAnswered, WorkerRow
  <2>2. worker[w].res \in {"CAPTURED", "ALREADY", "REUSED"}
    BY <1>1 DEF VerifyAnswered, At, Carries
  <2> QED BY <2>1, <2>2 DEF Carries
<1>2. CASE Unproven(w)
  <2>1. orders' = Raised(orders, OrderOf[a], "ALREADY_VERIFIED_UNPROVEN")
    BY <1>0, <1>2 DEF Unproven
  <2>2. "ALREADY_VERIFIED_UNPROVEN" \in Codes /\ "ALREADY_VERIFIED_UNPROVEN" \notin Retryable
    BY CodeNames DEF Retryable
  <2> QED BY <1>0, <2>1, <2>2, RaisedCode DEF TypeOK
<1>3. CASE SettleVerified(w)
  <2>1. \/ Refuses(OrderOf[a]) \/ attempts' = [attempts EXCEPT ![a].state = "VERIFIED"]
    BY <1>0, <1>3, SettledRow
  <2>2. CASE Refuses(OrderOf[a])
    BY <1>0, <2>2 DEF Refuses, Charged
  <2>3. CASE attempts' = [attempts EXCEPT ![a].state = "VERIFIED"]
    BY <2>3 DEF TypeOK, AttemptRow
  <2> QED BY <2>1, <2>2, <2>3
<1>4. CASE SettleNothing(w)
  BY <1>0, <1>4 DEF SettleNothing, Settled
<1> QED BY <1>1, <1>2, <1>3, <1>4
        DEF Carries, WorkerStep, VerifyBegin, VerifyMark, ProviderVerifies, Inquire, Observe, SettleFailed,
            SettleUnknown, ExpireCheck, ExpireList, ExpireClose, Fulfill, Notify, ReadResult, Complete, At

\* Where money is captured, the execution that asked carries the answer.
LEMMA CaptureSteps ==
  ASSUME TypeOK, Fresh, WorkerOK, Next, NEW a \in Attempt, bank[a] # "captured", bank'[a] = "captured"
  PROVE  /\ bank[a] = "paid" /\ bank' = [bank EXCEPT ![a] = "captured"] /\ orders' = orders
         /\ \E w \in Worker : "lost_answer" \notin Events => Carries(worker'[w], a)
<1>1. \A b \in Attempt : ~Initiate(b) /\ ~RecordCreated(b) /\ ~RecordAmbiguous(b) /\ ~CustomerPays(b)
                        /\ ~BankEnds(b) /\ ~ProviderCreates(b)
  BY DEF Initiate, RecordCreated, RecordAmbiguous, CustomerPays, BankEnds, ProviderCreates, TypeOK
<1>2. ~Crash
  BY DEF Crash
<1>3. PICK w \in Worker : ProviderVerifies(w)
  BY <1>1, <1>2, BankFrame
<1>4. /\ a = worker[w].att /\ bank[a] = "paid"
      /\ bank' = [bank EXCEPT ![a] = "captured"] /\ orders' = orders
  BY <1>3 DEF ProviderVerifies, TypeOK
<1>5. \E res : Keep(w, "answer", res) /\ ("lost_answer" \notin Events => res \in {"CAPTURED", "REUSED"})
  BY <1>3, <1>4 DEF ProviderVerifies
<1>6. "lost_answer" \notin Events => Carries(worker'[w], a)
  BY <1>4, <1>5, KeepEffect DEF TypeOK, Carries
<1> QED BY <1>4, <1>6

LEMMA NextRecord ==
  ASSUME IInv, Charged, OnRecord, Next
  PROVE  OnRecord'
<1>0. TypeOK /\ WorkerOK /\ Proven /\ Fresh /\ Carried
  BY DEF IInv
<1> SUFFICES ASSUME Undisturbed, NEW a \in Attempt, bank'[a] = "captured"
             PROVE  \/ attempts'[a].state = "VERIFIED" \/ orders'[OrderOf[a]].held
                    \/ \E w \in Worker : Carries(worker'[w], a)
  BY DEF OnRecord, Undisturbed
<1>1. CASE bank[a] # "captured"
  BY <1>0, <1>1, CaptureSteps DEF Undisturbed
<1>2. CASE bank[a] = "captured" /\ attempts[a].state = "VERIFIED"
  BY <1>0, <1>2, VerifiedStays
<1>3. CASE bank[a] = "captured" /\ orders[OrderOf[a]].held
  BY <1>0, <1>3, RowMoves, OrderOfType DEF Flags
<1>4. ASSUME NEW w \in Worker, Carries(worker[w], a)
      PROVE  \/ attempts'[a].state = "VERIFIED" \/ orders'[OrderOf[a]].held
             \/ Carries(worker'[w], a)
  <2>1. worker[w].stage # "idle"
    BY <1>4 DEF Carries
  <2>2. worker'[w] = worker[w] \/ WorkerStep(w)
    BY <1>0, <2>1, WorkerFrame, ClaimRow DEF Undisturbed
  <2> QED BY <1>0, <1>4, <2>2, CarrierSteps
<1> QED BY <1>1, <1>2, <1>3, <1>4 DEF OnRecord

-----------------------------------------------------------------------------
(* All of it is invariant.                                                 *)

\* Only reconcile clears a code.
Flagged == "reconcile" \notin Events => \A o \in Order : orders[o].held => orders[o].exc # None

PInv == /\ IInv /\ Working /\ Ready /\ CouponOK /\ Served /\ Charged /\ Placed
        /\ QuotaKept /\ OnRecord /\ Flagged

LEMMA InitPInv == Init => PInv
<1> SUFFICES ASSUME Init PROVE PInv
  OBVIOUS
<1>1. IInv
  BY InitInvariant
<1>2. \A j \in Job : jobs[j].state = "NONE"
  BY DEF Init, NoJob
<1>3. \A o \in Order : /\ orders[o].state = "NONE" /\ ~orders[o].paid /\ ~orders[o].held
                      /\ orders[o].coupon = "NONE"
  BY DEF Init
<1>4. /\ \A a \in Attempt : attempts[a].state = "NONE" /\ bank[a] = "none"
      /\ \A w \in Worker : worker[w].stage = "idle"
  BY DEF Init, Idle
<1>5. Working /\ Ready /\ Placed
  BY <1>2, <1>4, JobNames DEF Working, Ready, Placed, Verifying
<1>6. CouponOK
  BY <1>3 DEF CouponOK, EndedStates
<1>7. Served
  BY <1>2, <1>3, <1>4, JobNames DEF Served
<1>8. Charged /\ OnRecord /\ Flagged
  BY <1>3, <1>4 DEF Charged, OnRecord, Flagged
<1>9. QuotaKept
  <2>1. InUse = {} /\ CouponsInUse = Cardinality(InUse)
    BY <1>3 DEF InUse, CouponsInUse
  <2> QED BY <2>1, FS_EmptySet, QuotaIsNat DEF QuotaKept
<1> QED BY <1>1, <1>5, <1>6, <1>7, <1>8, <1>9 DEF PInv

LEMMA StepPInv == PInv /\ [Next]_vars => PInv'
<1>1. ASSUME PInv, Next PROVE PInv'
  <2>1. TypeOK /\ WorkerOK /\ Proven
    BY <1>1 DEF PInv, IInv
  <2>2. Flagged'
    BY <1>1, <2>1, RowMoves DEF PInv, Flagged, Flags, AdminReconcile
  <2>3. IInv'
    BY <1>1, StepInvariant DEF PInv
  <2> QED BY <1>1, <2>1, <2>2, <2>3, NextWorking, NextReady, NextCoupon, NextServed, NextCharged,
             NextPlaced, NextQuota, NextRecord DEF PInv
<1>2. ASSUME PInv, UNCHANGED vars PROVE PInv'
  <2>1. IInv'
    BY <1>2, StepInvariant DEF PInv
  <2>2. Working' /\ Ready' /\ CouponOK' /\ Served' /\ Charged' /\ Placed' /\ Flagged'
    BY <1>2 DEF PInv, vars, Working, Ready, CouponOK, Served, Charged, Placed, Flagged
  <2>3. QuotaKept' /\ OnRecord'
    BY <1>2 DEF PInv, vars, QuotaKept, CouponsInUse, InUse, OnRecord, Carries
  <2> QED BY <2>1, <2>2, <2>3 DEF PInv
<1> QED BY <1>1, <1>2

LEMMA PInvariance == Spec => []PInv
BY InitPInv, StepPInv, PTL DEF Spec

\* A second VERIFIED attempt of an order leaves a code on it that no reconciliation
\* clears, whichever execution settles it and in whatever order.
THEOREM DoubleChargesAreHeld == Spec => []DoubleChargeIsHeld
<1>1. PInv => DoubleChargeIsHeld
  <2> SUFFICES ASSUME PInv, NEW o \in Order, ~orders[o].held
      PROVE  ~(Cardinality({a \in AttemptsOf(o) : attempts[a].state = "VERIFIED"}) > 1)
    BY DEF DoubleChargeIsHeld
  <2> DEFINE S == {a \in AttemptsOf(o) : attempts[a].state = "VERIFIED"}
  <2>1. S \subseteq {orders[o].accepted}
    BY DEF PInv, Charged, AttemptsOf
  <2>2. IsFiniteSet({orders[o].accepted}) /\ Cardinality({orders[o].accepted}) = 1
    BY FS_Singleton
  <2>3. IsFiniteSet(S) /\ Cardinality(S) <= 1
    BY <2>1, <2>2, FS_Subset
  <2>4. Cardinality(S) \in Nat
    BY <2>3, FS_CardinalityType
  <2> HIDE DEF S
  <2>5. ~(Cardinality(S) > 1)
    BY <2>3, <2>4
  <2> QED BY <2>5 DEF S
<1> QED BY <1>1, PInvariance, PTL

\* An order's coupon is where its state says, whatever was released, reopened and
\* captured late.
THEOREM CouponsFollowOrders == Spec => []CouponFollowsOrder
<1>1. PInv => CouponFollowsOrder
  <2> SUFFICES ASSUME PInv, NEW o \in Order, orders[o].coupon # "NONE"
      PROVE CASE orders[o].state = "PENDING" -> orders[o].coupon \in {"RESERVED", "UNKNOWN"}
              [] orders[o].state \in EndedStates -> orders[o].coupon = "RELEASED"
              [] orders[o].state = "FULFILLED" -> orders[o].coupon = "REDEEMED"
              [] OTHER -> orders[o].coupon = "REDEEMED" \/ orders[o].held
    BY DEF CouponFollowsOrder
  <2>1. orders[o].state \in OrderStates
    BY DEF PInv, IInv, TypeOK, OrderRow
  <2> QED BY <2>1 DEF PInv, CouponOK, OrderStates, EndedStates
<1> QED BY <1>1, PInvariance, PTL

\* A discount code is never in use more often than its quota allows.
THEOREM QuotaHolds == Spec => []CouponWithinQuota
<1>1. PInv => CouponWithinQuota
  BY DEF PInv, QuotaKept, CouponWithinQuota
<1> QED BY <1>1, PInvariance, PTL

\* While no execution dies, no answer is lost and no Admin clears codes, captured
\* money is recorded, flagged, or in the hands of a running execution.
THEOREM CapturesAreAccounted ==
  ASSUME {"crash", "lost_answer", "reconcile"} \cap Events = {}
  PROVE  Spec => []CaptureIsAccounted
<1>1. PInv => CaptureIsAccounted
  BY OrderOfType DEF PInv, OnRecord, Undisturbed, Flagged, Carries, CaptureIsAccounted
<1> QED BY <1>1, PInvariance, PTL

\* A paid order waits for its FULFILL job, shows a code or is held for a person;
\* reconcile may clear the code of a held one.
PaidIsServedOrHeld ==
  \A o \in Order : orders[o].state = "FULFILLMENT_PENDING" =>
    orders[o].held \/ orders[o].exc # None \/ jobs[F(o)].state \in {"PENDING", "RUNNING"}

LEMMA ServedOrHeld == PInv => PaidIsServedOrHeld
<1> SUFFICES ASSUME PInv, NEW o \in Order, orders[o].state = "FULFILLMENT_PENDING", ~orders[o].held
             PROVE  orders[o].exc # None \/ jobs[F(o)].state \in {"PENDING", "RUNNING"}
  BY DEF PaidIsServedOrHeld
<1>1. jobs[F(o)].state \in {"NONE", "PENDING", "RUNNING", "DONE", "REVIEW"}
  BY JobNames DEF PInv, IInv, TypeOK, JobRow
<1> QED BY <1>1 DEF PInv, Served

\* Whatever an Admin reconciles, no paid order is left without its job, a code or
\* the mark that holds it.
THEOREM PaidOrdersWait == Spec => []PaidIsServedOrHeld
BY ServedOrHeld, PInvariance, PTL

\* Where no Admin clears codes, a paid order that is not delivered shows why or
\* has the job that delivers it.
THEOREM PaidOrdersAreServed ==
  ASSUME "reconcile" \notin Events
  PROVE  Spec => []PaidIsServed
<1>1. PInv => PaidIsServed
  BY ServedOrHeld DEF PInv, Flagged, PaidIsServedOrHeld, PaidIsServed
<1> QED BY <1>1, PInvariance, PTL

-----------------------------------------------------------------------------
(* The purchase the customer and the shop see.                             *)

Invoice(state) ==
  CASE state = "NONE" -> "none"
    [] state = "PENDING" -> "unpaid"
    [] state \in EndedStates -> "ended"
    [] state = "FULFILLMENT_PENDING" -> "paid"
    [] state = "FULFILLED" -> "delivered"

Invoices == [o \in Order |-> Invoice(orders[o].state)]
Captures == [o \in Order |-> \E a \in AttemptsOf(o) : bank[a] = "captured"]

LEMMA InvoiceNames ==
  ASSUME NEW s \in OrderStates
  PROVE  /\ Invoice(s) = "none" <=> s = "NONE"
         /\ Invoice(s) = "unpaid" <=> s = "PENDING"
         /\ Invoice(s) = "ended" <=> s \in EndedStates
         /\ Invoice(s) = "paid" <=> s = "FULFILLMENT_PENDING"
         /\ Invoice(s) = "delivered" <=> s = "FULFILLED"
BY DEF Invoice, OrderStates, EndedStates

\* A step that changes the state of one order changes one invoice.
LEMMA OneInvoice ==
  ASSUME NEW o \in Order, NEW s, orders'[o].state = s,
         \A p \in Order \ {o} : orders'[p].state = orders[p].state
  PROVE  Invoices' = [Invoices EXCEPT ![o] = Invoice(s)]
BY DEF Invoices

LEMMA PromiseInit == Init => Promise!Init
<1> SUFFICES ASSUME Init PROVE Promise!Init
  OBVIOUS
<1>1. \A o \in Order : orders[o].state = "NONE"
  BY DEF Init
<1>2. \A a \in Attempt : bank[a] # "captured"
  BY DEF Init
<1> QED BY <1>1, <1>2 DEF Promise!Init, AttemptsOf, EndedStates

\* What Promise!Next says, with the mapping by name.
PromiseStep ==
  \E o \in Order :
    \/ /\ Invoices[o] \in {"none", "ended"}
       /\ \A p \in Order : Invoices[p] \notin {"unpaid", "paid", "delivered"}
       /\ Invoices' = [Invoices EXCEPT ![o] = "unpaid"] /\ Captures' = Captures
    \/ /\ Invoices[o] = "unpaid"
       /\ Invoices' = [Invoices EXCEPT ![o] = "ended"] /\ Captures' = Captures
    \/ /\ Invoices[o] # "none"
       /\ Captures' = [Captures EXCEPT ![o] = TRUE] /\ Invoices' = Invoices
    \/ /\ Invoices[o] \in {"unpaid", "ended"} /\ Captures[o]
       /\ Invoices' = [Invoices EXCEPT ![o] = "paid"] /\ Captures' = Captures
    \/ /\ Invoices[o] = "paid" /\ \A p \in Order : Invoices[p] # "delivered"
       /\ Invoices' = [Invoices EXCEPT ![o] = "delivered"] /\ Captures' = Captures

LEMMA PromiseStepIs ==
  (PromiseStep \/ UNCHANGED <<Invoices, Captures>>) =>
    [Promise!Next]_<<Invoices, Captures>>
BY DEF PromiseStep, Promise!Next, Promise!Open, Promise!End, Promise!Capture, Promise!Pay, Promise!Deliver,
       Promise!Standing, Invoices, Captures, Invoice

LEMMA NextPromise ==
  ASSUME PInv, Next
  PROVE  PromiseStep \/ UNCHANGED <<Invoices, Captures>>
<1>0. TypeOK /\ WorkerOK /\ Fresh /\ Carried /\ Proven /\ DeliveredOnce /\ Placed
  BY DEF PInv, IInv
<1>1. \A o \in Order : Invoices[o] = Invoice(orders[o].state) /\ orders[o].state \in OrderStates
  BY <1>0 DEF Invoices, TypeOK, OrderRow
<1>2. CASE \E a \in Attempt : bank[a] # "captured" /\ bank'[a] = "captured"
  <2>1. PICK a \in Attempt : bank[a] # "captured" /\ bank'[a] = "captured"
    BY <1>2
  <2>2. bank[a] = "paid" /\ bank' = [bank EXCEPT ![a] = "captured"] /\ orders' = orders
    BY <1>0, <2>1, CaptureSteps
  <2> DEFINE o == OrderOf[a]
  <2>3. o \in Order /\ orders[o].state # "NONE"
    BY <1>0, <2>2, OrderOfType DEF Fresh, Placed
  <2>4. Invoices' = Invoices
    BY <2>2 DEF Invoices
  <2>5. Captures' = [Captures EXCEPT ![o] = TRUE]
    <3>1. \A p \in Order : (\E b \in AttemptsOf(p) : bank'[b] = "captured") =
                          (IF p = o THEN TRUE ELSE \E b \in AttemptsOf(p) : bank[b] = "captured")
      BY <1>0, <2>1, <2>2 DEF AttemptsOf, TypeOK
    <3> QED BY <3>1 DEF Captures, AttemptsOf
  <2>6. Invoices[o] # "none"
    BY <1>1, <2>3, InvoiceNames
  <2> QED BY <2>3, <2>4, <2>5, <2>6 DEF PromiseStep
<1>3. CASE \A a \in Attempt : bank'[a] = "captured" => bank[a] = "captured"
  <2>1. Captures' = Captures
    <3>1. \A a \in Attempt : bank'[a] = "captured" <=> bank[a] = "captured"
      BY <1>0, <1>3, CapturedStays
    <3> QED BY <3>1 DEF Captures, AttemptsOf
  <2>2. ASSUME NEW o \in Order, Opens(o) PROVE PromiseStep
    <3>1. Invoices' = [Invoices EXCEPT ![o] = Invoice("PENDING")]
      BY <2>2, OneInvoice DEF Opens
    <3>2. Invoice("PENDING") = "unpaid"
      BY DEF Invoice, EndedStates
    <3>3. Invoices[o] \in {"none", "ended"}
      BY <1>1, <2>2, InvoiceNames DEF Opens
    <3>4. \A p \in Order : Invoices[p] \notin {"unpaid", "paid", "delivered"}
      BY <1>1, <2>2, InvoiceNames, StateNames DEF Opens, Stands
    <3> QED BY <2>1, <3>1, <3>2, <3>3, <3>4 DEF PromiseStep
  <2>3. ASSUME NEW o \in Order, Ends(o) PROVE PromiseStep
    <3>1. Invoices' = [Invoices EXCEPT ![o] = Invoice(orders'[o].state)]
      BY <2>3, OneInvoice DEF Ends
    <3>2. Invoice(orders'[o].state) = "ended"
      BY <2>3 DEF Ends, Invoice, EndedStates
    <3>3. Invoices[o] = "unpaid"
      BY <1>1, <2>3, InvoiceNames DEF Ends, Unpaid
    <3> QED BY <2>1, <3>1, <3>2, <3>3 DEF PromiseStep
  <2>4. ASSUME NEW o \in Order, Delivers(o) PROVE PromiseStep
    <3>1. Invoices' = [Invoices EXCEPT ![o] = Invoice("FULFILLED")]
      BY <2>4, OneInvoice DEF Delivers
    <3>2. Invoice("FULFILLED") = "delivered"
      BY DEF Invoice, EndedStates
    <3>3. orders[o].state = "FULFILLMENT_PENDING"
      BY <1>0, <2>4 DEF Delivers, Proven
    <3>4. Invoices[o] = "paid"
      BY <1>1, <3>3, InvoiceNames
    <3>5. \A p \in Order : orders[p].state # "FULFILLED"
      BY <1>0, <2>4, <3>3, NoneIsFresh DEF Delivers, DeliveredOnce
    <3>6. \A p \in Order : Invoices[p] # "delivered"
      BY <1>1, <3>5, InvoiceNames
    <3> QED BY <2>1, <3>1, <3>2, <3>4, <3>6 DEF PromiseStep
  <2>5. ASSUME NEW o \in Order, Settles(o) PROVE PromiseStep \/ Invoices' = Invoices
    <3>1. PICK w \in Worker : SettleVerified(w) /\ o = OrderOf[worker[w].att]
      BY <2>5 DEF Settles
    <3> DEFINE a == worker[w].att
    <3>2. /\ a \in Attempt /\ \A p \in Order \ {o} : orders'[p] = orders[p]
          /\ orders'[o].state \in {orders[o].state, PaidState(o)}
      BY <1>0, <3>1, SettledRow DEF Refuses, Reuses, Duplicates, AcceptsLate, Accepts
    <3>3. bank[a] = "captured"
      BY <1>0, <3>1 DEF SettleVerified, At, Carried
    <3>4. Captures[o] /\ orders[o].state # "NONE"
      BY <1>0, <3>1, <3>2, <3>3 DEF Captures, AttemptsOf, Fresh, Placed
    <3>5. CASE orders'[o].state = orders[o].state
      BY <3>2, <3>5 DEF Invoices
    <3>6. CASE orders'[o].state # orders[o].state
      <4>1. orders'[o].state = "FULFILLMENT_PENDING" /\ orders[o].state \in {"PENDING"} \cup EndedStates
        BY <1>1, <3>2, <3>4, <3>6 DEF PaidState, OrderStates
      <4>2. Invoices' = [Invoices EXCEPT ![o] = Invoice("FULFILLMENT_PENDING")]
        BY <3>2, <4>1, OneInvoice
      <4>3. Invoice("FULFILLMENT_PENDING") = "paid"
        BY DEF Invoice, EndedStates
      <4>4. Invoices[o] \in {"unpaid", "ended"}
        BY <1>1, <4>1, InvoiceNames
      <4> QED BY <2>1, <3>4, <4>2, <4>3, <4>4 DEF PromiseStep
    <3> QED BY <3>5, <3>6
  <2>6. CASE \A o \in Order : Same(o)
    BY <2>1, <2>6 DEF Same, Invoices
  <2> QED BY <1>0, <2>1, <2>2, <2>3, <2>4, <2>5, <2>6, RowMoves DEF Moves
<1> QED BY <1>2, <1>3

\* The design implements the purchase: an invoice opens alone, is paid only with
\* captured money, stays paid and is delivered once, for any number of attempts,
\* executions and disturbances.
THEOREM ImplementsPurchase == Spec => KeepsPromise
<1>1. Init => Promise!Init
  BY PromiseInit
<1>2. PInv /\ [Next]_vars => [Promise!Next]_<<Invoices, Captures>>
  <2>1. ASSUME UNCHANGED vars PROVE UNCHANGED <<Invoices, Captures>>
    BY <2>1 DEF vars, Invoices, Captures, AttemptsOf
  <2> QED BY <2>1, NextPromise, PromiseStepIs
<1> QED BY <1>1, <1>2, PInvariance, PTL DEF Spec, KeepsPromise, Promise!Spec, Invoices, Captures, Invoice

=============================================================================
