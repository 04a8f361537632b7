# A TLA+ model of the YariZan licensing and shop platform

YariZan sells desktop learning products. A desktop program identifies its
device, shows a pairing code, and the customer signs in on the web shop, pays at
a bank gateway (ZarinPal) or enters an activation code, and the device picks a
signed license up. This directory models the parts of that system in which
several actors change the same state: transactions of concurrent requests, a
durable job queue, the bank, the queue of SMS in a process, sign-ins, Admin
operations, and the desktop with its files.

All paths below are relative to the repository root. TLA+ modules, TLC
configurations and this file are the whole project; `PROJECT.json` maps every
definition to the lines it models, lists the runs, the theorems, the hazards and
one plausible mistake per property that the property detects.

## 1. Inventory

| Part | State it keeps | Operations | What is hard about it | What makes it correct |
|---|---|---|---|---|
| **Payments** `backend/src/commerce/payments.ts`, `gateway.ts` | `orders`, `payment_attempts`, `payment_inquiries`, `commerce_jobs`, `commerce_exceptions` | initiate, return, verify, settle, expire, fulfill, work (claim, complete), supersede, cancel | a provider call holds no lock; replies get lost; leases run out; late captures; crashes between an answer and its transaction | captured money is accounted for; nothing is delivered unpaid or twice; a paid order stays paid; every paid order reaches the product or a person |
| **Orders** `commerce/orders.ts` | `orders`, `discount_reservations` | quote, create | one open order per scope, coupon quota under late redemption | quota and scope are never exceeded |
| **Commerce administration** `commerce/administration.ts` | exceptions, jobs, campaigns, codes | reconcile, voidOrder, reopen, edits | reopening while a job still runs | a held exception is never cleared |
| **Licenses, entitlements, moves** `licenses/licenses.ts`, `device-licenses.ts` | `entitlements`, `licenses`, `license_decisions` | issue, ensureLicense, pickup, move | a move holds no device row while every other operation does | one active entitlement per device and product; what a move, a reset or a block ended stays ended |
| **Activation codes** `activation/activation.ts` | `activation_codes` | redeem | checks made before waiting for a row | a code is used once; a revoked license is not bypassed |
| **Admin operations** `admin/admin.ts` | operation envelopes, generations, restrictions | revoke, recover, reset, restrict, issue code | two Admins, optimistic revisions | an operation is applied once |
| **Trials** `trials/trials.ts`, `LockPage.xaml.cs` | `trial_counters`, `trial_starts`, the state of a desktop process | status, start, reset, play | answers that are lost and repeated, before and after a renewal | two starts per allocation; nobody plays unrecorded; a trial that runs goes on |
| **Identity and pairing** `identity/identity.ts`, `admin/enrollment.ts` | devices, challenges, pairings, credentials | enroll, authenticate, pair, confirm, pick up | one-use challenges, a reset between confirmation and pickup | a device is enrolled once, a pairing consumed once |
| **One-time passwords** `accounts/otp.ts`, `sms.ts` | `otp_challenges`; an in-memory queue of lanes | issue, dispatch, deliver, consume, shutdown | in-memory counters against rows; superseded while on the way | the newest delivered code alone works, once |
| **Sign-in flows** `accounts/auth-flows.ts`, `accounts.ts`, `sessions.ts` | `customers`, `customer_sessions`, codes bound to stamps of credentials | sign in by password, code or number; recover; change password or number; rotate, sign out | credentials that change while a sign-in is under way | a session stands for the credentials the account has now |
| **Notifications** `accounts/notifications.ts` | `outbox_events`, what a process has claimed | claim, send, shut down | a crash after the claim, several processes | a notice is sent at most once, the audit is true |
| **Rate limits** `security/*.ts` | counters | admit | none beyond one SQL statement | limits hold |
| **Promotions** `commerce/promotions.ts` | `product_promotions`, `product_prices` | create, update, deactivate, restore, edit of the list price | checks made before the write, a list price that moves under a promotion, a window that ends while an order is placed | an order is priced wholly by one promotion or by the list price; what customers see does not change |
| **Desktop access** `src/YariZan.Core/V2/DesktopAccessController.cs`, `LicenseStore.cs`, `PaidActivation.cs` | one store on disk for several processes: license, decision, revoked marker | start, check, pick up, redeem, synchronise | decisions that arrive out of order, two processes | a learned revocation is not forgotten |
| **Desktop provisioning** `DeviceProvisioning.cs`, `LockPage.xaml.cs` | the files of the pending pairing and the enrolment, a credential in memory | connect, begin, complete, resume, renew | a crash between two files, an answer that is lost, a call that arrives late | an enrolled desktop learns that it is |
| Controllers, signing, canonical JSON, packer, release tools, blog, web UI, legacy PHP | – | – | pure functions, content, rendering or build tooling | not modelled |

The parts meet in the database: orders, entitlements and licenses refer to a
device row and a *generation*; `fulfill` calls the license module inside its own
transaction; Admin operations and the customer's requests take the same device
row; the desktop only ever sees signed artifacts, and asks again by polling.

Hazards, each at its line and with the properties that would notice it, are in
`PROJECT.json`.

## 2. Modules

| Module | Models | Kind |
|---|---|---|
| `Payments` | orders, attempts, job queue, bank, coupon and ownership | component |
| `Purchase` | what paying promises, without attempts, jobs or calls | abstract specification of `Payments` |
| `MCPayments` | small instances and symmetry | model checking |
| `PaymentsProofs` | theorems about `Payments!Spec` | proofs |
| `Licensing` | devices, entitlements, licenses, codes, the order of a device; grants and moves in their lock steps | component |
| `Tenure` | what a granted product promises, without rows or locks | abstract specification of `Licensing` |
| `MCLicensing` | small instances and symmetry | model checking |
| `LicensingProofs` | theorems about `Licensing!LSpec` | proofs |
| `Desktop` | the desktop's store and processes, over `Licensing` as its server | composition (`EXTENDS Licensing`) |
| `MCDesktop` | small instances and symmetry | model checking |
| `DesktopProofs` | theorems about `Desktop!DSpec` | proofs |
| `Otp` | one-time passwords: rows, lanes, queue, delivery, shutdown, use | component |
| `Codes` | what a one-time code promises | abstract specification of `Otp` |
| `Notices` | outbox events and the processes that send them | component |
| `Messages` | the process that runs `Otp` and `Notices`, its shutdown and its end | composition (`EXTENDS Otp, Notices`) |
| `MCMessages` | a small instance | model checking |
| `MessagesProofs` | theorems about `Otp!OSpec` and `Messages!MSpec` | proofs |
| `Identity` | generations, accounts, pairings and keys of one device | component |
| `Provisioning` | the desktop that pairs and renews its credential, over `Identity` as its server | composition (`EXTENDS Identity`) |
| `MCProvisioning` | an instance | model checking |
| `ProvisioningProofs` | theorems about `Identity!ISpec` and `Provisioning!PSpec` | proofs |
| `Accounts` | sign-ins, sessions and changes of credentials | component |
| `MCAccounts` | small instances and symmetry | model checking |
| `AccountsProofs` | theorems about `Accounts!ASpec` | proofs |
| `Promotions` | promotions, the list price and the orders priced by them | component |
| `MCPromotions` | symmetry | model checking |
| `PromotionsProofs` | theorems about `Promotions!PromosSpec` | proofs |
| `Trials` | the allocation of trials, its renewal, and the processes that play | component |
| `MCTrials` | symmetry | model checking |
| `TrialsProofs` | theorems about `Trials!TrialsSpec` | proofs |

### Payments

The state is the rows: `orders` (with the order's coupon reservation), `attempts`
(with the facts its event and inquiry rows prove), `jobs`, `scope` (entitlement,
block and generation of the one device and product all orders of the model
belong to). To these come what is outside of the database: `creating` and
`worker`, which hold where a request of `initiate` and each running job
execution are and what their local variables remember, and `bank`, the
provider's own record.

A database transaction of the code locks the device row, then the order row,
and holds both until it commits. It is one action. A provider call and every
read or write outside such a transaction is a separate action, so that anything
may happen between them. `verifyAttempt` therefore is the chain `VerifyBegin`
(rows and 101 evidence, unlocked) → `VerifyMark` (`verify_requested`) →
`ProviderVerifies` (the bank captures) → `VerifyAnswered` (`verify_answered`) →
`Unproven` or `Inquire` and `Observe` → one of the `Settle…` actions (the
transaction). `expire` is `ExpireCheck` → `ExpireList` → the same chain →
`ExpireClose`. `work` is `Claim` and `Complete`.

Data that no property tells apart is abstracted: times are the phases of the
invoice window (`open`, `grace`, `over`) and of an inquiry (`no`, `fresh`,
`aged`); amounts, numbers and texts are absent; the optional events of an
instance are the members of the constant `Events`, which is the only bound on
them besides the finite sets of orders, attempts and executions. The eighth
failed run of a job, which sends it to REVIEW, may be any failed run
(`Complete`), a superset of what the counter allows.

Assumptions on the outside world: the bank captures only in answer to `verify`;
an authority that was captured answers 101; a payment that was still possible
when the first FAILED inquiry was observed is decided once
`FAILED_CONFIRMATION_SECONDS` have passed (`InquiryAges`), which is what the
constant's comment states as its purpose. Signing does not fail.

Left out: `simulate` (drives the provider of the tests), the branch
`VERIFICATION_MISMATCH` of `settle`, which the ZarinPal adapter cannot produce
because it echoes the values of the request, and the optimistic `revision`
check, which only refuses an Admin's request.

### Purchase

The promise: an invoice opens only when no other one stands, ends or is paid,
is paid only with captured money (late money pays an ended invoice), stays paid,
and one invoice is delivered. `Payments` implements it under the refinement
mapping at its end (`KeepsPromise`), checked in two runs.

### Licensing

The state is the rows of one product on the devices of one verified mobile number:
`device` (generation, whether the generation has its ACTIVE customer, the product
restriction), `ents`, `lics` (a license has the name of its entitlement, which is
UNIQUE in the table), `codes`, and `orders`, one per device and as coarse as an
entitlement sees it. `move` and `grant` are what transactions that have not
committed hold and know.

Locks decide what is one action. Every operation but `move` and `cancel` of a code
begins with `FOR UPDATE` on the device row and keeps it to its commit, so one that
only writes what it read under it is one action guarded by `DeviceFree`. A grant
(`redeem`, the Admin's `issue`, `Orders.create`) checks, and then writes rows for
which it may have to wait: `GrantBegin`, then `GrantLicense` or `GrantOrder`. `move`
takes no device row. It locks the entitlement and its customer (`MoveFrom`), then the
target's customer (`MoveTo`), and writes (`MoveCommit`). Inserting an entitlement or
an order refers to its customer by a foreign key, takes a key-share lock on it and so
waits for a move that holds it (`CustomerFree`); `reset` locks the customer itself.
What waits may be refused by `lock_timeout` or by the database's deadlock detection
(`GrantAbort`, `MoveAbort`): the crossing lock orders of `move` and `reset`, or of
two moves, end there.

The unique index `entitlements_active_product` is not in the model. `KeepsTenure`
shows that no device ever gets two ACTIVE entitlements without it. Where the code
reads, waits for a move to the same device and then meets the index, the model shows
the refusal (`GrantAbort`) or what a retry finds (`Fulfill`).

Abstracted: expiry of codes and the replay of a repeated `request_id`; optimistic
revisions, which only refuse; whether a product is enabled. An order whose fulfilment
meets a blocked product stays paid, since `reconcile` clears that exception.
`sync` is in `Desktop`, its only reader. Not modelled: `setLabel`, the lists.

### Tenure

Each grant is given once to a device that has none, may be carried to another such
device, and once it ended is in force nowhere again. The mapping `Tenancy` puts the
rows of one chain of `transferred_from` together by the entitlement it began with, which
each row carries as history (`first`: no column of the table; actions only copy it). An
order of moves, recoveries and resets that put one purchase on two devices, or brought an
ended one back, would not be a behaviour of `Tenure`.

### Desktop

`store` is the license and the decision file of a device, `proc` the
`DesktopAccessController` of each process that shares them: its state, the license
it holds in memory, the operation under its semaphore with the reply that came back,
and the background synchronisation, which does not take the semaphore. Asking, the
server's transaction and using the reply are three actions, so another process, an
Admin, a move or the end of the process may come in between; a reply may be lost
(`NoReply`). Whatever the code does under the store's write lock is one action
(`Accept`, `Learn`, `Recovered`). The server's actions are those of `Licensing`.

A redemption's reply goes through the same `AcceptPickedUpLicense` as a pickup's.
Not modelled: enrollment states, damaged or unreadable files.

### Otp, Codes

The state is the rows of `otp_challenges` (`chal`) and the memory of the one process
that sends their SMS: the queue (`pending`), what the shutdown still drains (`drain`),
the lanes' counters (`admitted`), where each request is (`job`). JavaScript runs from
one `await` to the next without interruption, so that is one action, and a transaction
is one. `issue` therefore is `Reserve` (the slot is taken before the first await) →
`Refuse` or `Store` (the transaction, which supersedes the older challenge) → `Enqueue`,
or `Interrupt` when the process began to shut down meanwhile. `deliver` is `Look` →
`Send` → `Record` → `Finish`, which starts the next delivery. `Admit` counts a try,
`Consume` checks again under the row's lock. A provider's answer may be lost, the write
of `Record` may fail, a challenge may expire or be superseded at each of these points.

`Codes` is what the customer relies on: a new code ends the older one, a code can be
used after its SMS, by one who was admitted to try it, within the number of tries, once.
`KeepsCode` maps a row to the life of its code.

A request and its challenge have one name. Rate limits only refuse (`Refuse`); decoys
for unknown numbers (`Real`) go the same way without an SMS.

### Notices, Messages

`Drain` claims some events in one statement (`FOR UPDATE SKIP LOCKED`), and then each is
read, sent and audited, in three awaits. A process that ends loses what it had claimed.
`Messages` puts this beside `Otp` in one process: both shutdown hooks run, the process
exits when both have returned, and a crash ends both. Other processes share only the
outbox with it.

### Identity, Provisioning

`Identity` is the server for one device: its generations, the account of each, the
pairings, the keys. `pairing`, `claim`, `cancel`, `pickup`, `authenticate` and the Admin's
`reset` all lock the device row first, so a transaction is one action. `claim` reads the
owner before it, and what a browser has read is state (`ClaimRead`, `ClaimCommit`).

`Provisioning` adds the desktops: the two files of a Windows profile, the fields of the
client, the dialog of `LockPage`, the semaphore with the operation that holds it and its
one call. A call may be lost, be given up and still arrive (`late`), the user may close
the dialog, and the desktop may end at any point. A challenge can be used once; in the
model a call is served at most once.

### Accounts

The state is the credentials of each account, the codes with the stamp of credentials
they are bound to, and the sessions with what was proved to open them, which no row of
the program holds and only the properties read. A transaction that compares under the
account's row lock whatever it uses is one action. The two that use what they read
before it are two: password sign-in, whose hash is computed outside of the transaction
(`ReadPassword`, `LoginPassword`), and sign-in by a number of several accounts
(`ReadNumber`, `LoginNumber`). The request of a code is one action: a code bound to an
older state is the code of a request made then.

Codes are as `Otp` leaves them: live until used, superseded or expired.

### Promotions

Creating and deactivating a promotion and placing an order check and write under locks
that they hold to their commit, and are one action each. `update` and `restore` lock only
the promotion (and `restore` the price row), check, and write later: `UpdateBegin` or
`RestoreBegin`, then `Write` or `Rollback`. The Admin's product edit locks the product,
asks `assertBasePriceFree`, and then writes the price: `EditBegin`, `EditCommit`. In
between the clock goes on, and everything runs that the locks do not keep waiting.

Time is a few instants. The tolerance of 60 seconds for a start in the past is less than
an instant. An order's instant is the one in which its promotion was found to apply. Left
out are expected revisions and edits that keep the price; `LOCAL_TEST_PRICE_G1_IRR` is
refused outside of development.

### Trials

`start`, `status` and `trialReset` take the device's row first and keep it to their commit:
each is one action. `StartTransaction` is the whole of `start`, from the credential to the
counter. An Admin's request stays made and may arrive any number of times; `operation` finds
it in `admin_operations`.

A process of the desktop draws its nonce once, so the model names a start by its process.
`call` is the operation under the semaphore of the controller; `LockPage` decides which one
may begin: a status when the page is shown or the server could not be reached (`Refresh`), a
start only where a status just said that there is one (`Click`). A call may be given up,
because it took too long or the page was left (`NoAnswer`), and be served later (`late`). A
pickup or a code runs beside a trial (`Upgrade`); whether it finds a license is
`Licensing`'s to say and may go either way here.

Not modelled: IDEMPOTENCY_MISMATCH, which a client with one nonce and one process
identifier cannot meet, the end of `allocation_epoch` at 2^53, and credentials that expire
without a reset.

## 3. Runs

| Run | Instance | Shows |
|---|---|---|
| `PaymentsLifecycle` | 1 order with coupon, 1 attempt, 1 execution; cancel, return, expiry, bank ends, crash, lost answer, void, reopen, reconcile | `DeliveredIsCaptured`, `PaidIsServed`, `CouponFollowsOrder`, refinement `KeepsPromise` |
| `PaymentsRace` | 1 order, 2 attempts, 2 executions; expiry, reopen, reused reference | `DoubleChargeIsHeld`, `CaptureIsAccounted`, `PaidStaysPaid` |
| `PaymentsScope` | 2 orders of one scope, 1 execution, quota 1; supersede, Admin grant | `CouponWithinQuota`, refinement `KeepsPromise` |
| `PaymentsLive` | 1 order, 1 attempt, fair queue; cancel, return, expiry, bank ends, block, reset | `UnpaidEnds`, `CaptureIsDelivered` |
| `PaymentsExpiredPaid` | 1 attempt; expiry, crash | violation of `EndedHoldsNoMoney` |
| `Licensing` | 2 devices, 3 entitlements, 1 code, 2 generations, 1 move and 1 grant at a time; redeem, purchase, block, reset, revoke, recover | `OldGenerationIsDead`, `BlockedHasNoLicense`, refinement `KeepsTenure` |
| `Desktop` | 2 processes on one of 2 devices, 3 entitlements, decision versions to 3; Admin grants, moves, blocks, revocations and recoveries | `StoreIsWhole`, `MovedIsDead`, `DecisionsOnlyAdvance`, `LearnedRevocationHolds` |
| `Messages` | 2 requests for one account in a lane of 2, 1 delivery at a time, 1 try, 1 verifier; 1 notice, 2 processes; crash, shutdown, expiry | `LaneIsExact`, `QueueIsServed`, `SentAtMostOnce`, `AuditIsTrue`, refinement `KeepsCode`, `AdmittedLeaves` |
| `Identity` | 1 profile, 2 pairings, 2 browsers, 2 generations, 1 fault | `EnrolledIsOwned`, `OneCodeOneAccount`, `EnrolledOnce`, `UsableIsEnrolled`, `ApprovedByOwner`, `EnrolledLearnsIt` |
| `Accounts` | 2 accounts with one number, or one of them with none; 2 codes, 2 sessions, 1 sign-in, 1 change of password | `SessionIsProven`, `ChangeIsProven` |
| `Promotions` | 2 promotions, 1 order, 2 list prices, 3 instants | `NoSaleAboveList`, `SoldBeforeEnd`, `ActivePriceIsFixed` |
| `Trials` | 2 processes, 1 trial in an allocation, 2 generations, 1 renewal, 1 lost answer; exits, purchases, blocks | `AllocationIsExact`, `PlayIsPaidFor`, `BudgetHolds`, `NoRetiredGrant`, `TrialIsKept` |

The bounds are chosen per question. One attempt is enough to meet every branch
of one verification with every event around it; two attempts of one order are
needed for a double charge and for the unique index on open attempts; two
executions for an overlap; two orders for the scope and the quota. Splitting the
events keeps each run short. No run sets all of them at once, so a
disagreement that needs, say, a slow worker *and* two invoices is not excluded
by model checking; the theorems of section 4 hold for every choice, but for the two
that name the events they exclude.

Three entitlements are a grant, a move and a move back, or a move that meets a grant
on its target. Two generations show one reset with everything in flight; `Desktop`
has one, because its questions are about licenses of one customer. `MaxVersion`
bounds the decisions of a license: revoked and recovered once in `Desktop`.

Two requests of one binding are a code and the one that supersedes it, and with one
delivery at a time the second one waits in the queue. Two processes are needed for a
claim that another one must not repeat. Two pairings are an approved one and one that
takes its place, two browsers a race for a device that nobody owns. `MaxFaults` bounds
what may go wrong with the desktop, and hence says what liveness means: after the last
fault. `MaxPw` bounds the passwords that are ever set, `MaxGen` the generations. Three
instants let a promotion be scheduled, run and end; a second promotion is needed for the
overlap, a second list price for the edit.

`Budget` is two in the code; the instance of `Trials` has an allocation of one, so that two
processes are one more than it has. `MaxLost` bounds the answers
that are lost, which a process that exits is not counted for.

Deadlock is not checked: the system may stop when all invoices, entitlements,
requests or versions of an instance are used up.

The type invariants and `DeliveredOnce` are theorems and not repeated in a run.

### Fairness

`FairSpec` assumes that a claimed job runs on, that `setInterval` keeps calling
`work` and its `ORDER BY due_at` reaches every due job, also one that is due
only in between (strong fairness of a claim), that a lease ends, that an admitted
`initiate` finishes, and that time passes. Nothing is assumed of customers, the
bank or Admins. `CaptureIsDelivered` is checked without crashes and lost
answers: `PaymentsExpiredPaid` shows that it does not hold with them.

`MFairness` assumes that the awaits of a request and a delivery return (the provider's
call has a limit of 10 seconds) and that the loop of the shutdown goes on. Processes may
end at any time. `PFairness` assumes that the server answers a call that was not lost,
that the client goes on with its operation, that a pairing runs out after its five
minutes, and that a user who is not connected tries again. Nothing is assumed of
browsers or Admins.

### The disagreement a run shows

* `PaymentsExpiredPaid` – the process dies after `verify_answered` was recorded
  and before `settle`. The retry gets 101 without proof, which is neither a
  capture nor a silence, and `expire` cancels the invoice of a customer who paid.

### Seen while modelling

These have no run of their own here; the first six were counterexamples of runs whose
place other components have taken.

* `redeem` finds no revoked license, then waits in `Licenses.issue` for the entitlement that
  a move has locked. The move revokes its license and commits, the wait finds no ACTIVE row
  any more, and a second entitlement with a new license comes to stand beside the revoked
  one, which the comment above the check (`backend/src/activation/activation.ts:135`) says
  never happens. The customer does not get the product twice from one grant: a valid code
  was used.
* An attempt that ended can come back. `close` promises that every open attempt becomes
  terminal and is never verified again, but a cancellation while the provider creates the
  session leaves the second transaction of `initiate` free to set the attempt PENDING:
  `transition` refuses only a VERIFIED attempt.
* A paid order can be forgotten. An order shows its last exception only. With two attempts
  and two executions a clearable code hides a held one, `reconcile` clears it, and the
  paid order has no exception and no job. `PaidIsServed` is checked for one
  attempt, and proved for any number where nothing is reconciled (`PaidOrdersAreServed`).
* Two executions of one job overlap after the lease ran out (`slow_worker`, which no
  passing run sets); the second one's 101 marks the order our own call paid as unproven,
  and `fulfill` then does not deliver it.
* A device that has learned the revocation of its earlier license cannot pick up the new
  one after an Admin moved the product back: the desktop refuses it while the old decision
  is stored. The device cannot be served by the check that `DeviceLicenses` names.
* `verifyMobileLogin` compares the stamp with accounts it read without a lock
  (`backend/src/accounts/auth-flows.ts:158-164`), then waits for the row of the account
  (175) and does not compare again. A password reset that commits meanwhile ends every
  session but the one that is opened next, although
  `docs/PHONE-PASSWORD-RECOVERY.md:5` says that such changes invalidate stale proof. The
  other flows compare under the lock. `SessionIsProven` leaves sessions of this flow out;
  without the exception TLC finds the violation.
* `assertBasePriceFree` sees committed promotions only. A restoration that commits between
  the check of a product edit and its price row leaves an enabled promotion under a list
  price that moved, which `docs/YARIZAN-PROMOTIONAL-PRICING.md:38` says is refused. Orders
  are not wrong for it: `activePromotionSql` compares the price again, and
  `NoSaleAboveList` fails without that comparison.
* `Orders.create` counts FULFILLED orders as open, so a device whose purchase was moved
  away cannot buy the product again although `eligible` allows for it; an order that
  `create` inserts after waiting for a move to the same device stands beside the product
  it would buy, and `initiate` refuses it.
* The third transaction of `expire` does not look for a bank return reported since the
  first; a cancellation during a verification that then crashes has no job left that
  would record the captured money; `docs/YARIZAN-COMMERCE-CONTRACTS.md:31` still says
  that EXPIRE cancels only orders without attempts.
* A desktop whose pickup is refused with KEY_ALREADY_ENROLLED throws out of every resume
  until the pairing has run out. It does learn its enrolment then (`EnrolledLearnsIt`).
* The answer to the start of the last trial is lost. The server would repeat it, but the page
  asks for the status before it starts again, reads that none is left and disables the button
  (`LockPage.xaml.cs:79-96`); the nonce ends with the process. The trial is spent and was
  never played, although `docs/YARIZAN-PHASE-1-REPORT.md:150` says that a lost response
  retries the same request. While another trial is left it does.

## 4. Proofs

`PaymentsProofs` proves, for any finite or infinite sets of orders, attempts and
executions, any quota and any set of events:

* `TypeCorrect` – `Spec => []TypeOK`
* `DeliveryIsCaptured` – `Spec => []DeliveredIsCaptured`
* `DeliveryIsOnce` – `Spec => []DeliveredOnce`
* `PaidIsFinal` – `Spec => PaidStaysPaid`
* `CouponsFollowOrders` – `Spec => []CouponFollowsOrder`
* `QuotaHolds` – `Spec => []CouponWithinQuota`
* `DoubleChargesAreHeld` – `Spec => []DoubleChargeIsHeld`
* `PaidOrdersWait` – `Spec => []PaidIsServedOrHeld`
* `PaidOrdersAreServed` – `Spec => []PaidIsServed` where `Events` has no `reconcile`
* `CapturesAreAccounted` – `Spec => []CaptureIsAccounted` where `Events` has no `crash`,
  `lost_answer` or `reconcile`
* `ImplementsPurchase` – `Spec => KeepsPromise`

None of the properties but the first is inductive. `DeliveredIsCaptured` depends on
what an execution remembers between the bank's answer and the transaction that
uses it, so the inductive invariant `IInv` adds to `TypeOK`:

* `WorkerOK` – which job, attempt and result an execution can have at each stage;
* `Fresh` – an order or attempt that was not created has no accepted payment, no
  authority and no bank record;
* `Carried` – an execution that carries a captured result stands for money the
  bank took;
* `Proven` – an accepted attempt belongs to its order, is VERIFIED and captured,
  and a paid state has an accepted attempt or is held;
* `DeliveredOnce` itself.

Each action has its lemma: the Settle actions and `Fulfill` carry the argument,
the rest leave the relevant fields alone. The properties that relate an order to its
coupon, its job, its exception and all its attempts rest on the larger `PInv`, proved on
top of `IInv` from what one step does to an order, a job, an attempt and the coupons
in use:

* `CouponOK` says for each state what the coupon may be. A delivery keeps it only because
  a FULFILL job exists after the payment alone, which redeems the coupon or holds the order
  (`Ready`);
* `Served` – a paid order has its FULFILL job or is held; the job ends done only with the
  delivery, also in an execution that is about to say so, and goes to REVIEW only with a
  code on the order. A lease that runs out while another execution works needs `Working`:
  nobody works on a job that was never scheduled;
* `Charged` – a VERIFIED attempt is the accepted one or the order is held for good. It
  replaces counting attempts, which the theorem then does once, for a set that has at most
  one member;
* `Placed` – an attempt that is in use is of an order that exists, so that opening an
  invoice finds no VERIFIED attempt of it;
* `QuotaKept` – the coupons in use are finitely many and at most `Quota`, which a step
  keeps because it adds one order at most, and only while the quota allows it;
* `OnRecord` – captured money is recorded, held, or carried by a running execution;
* `Flagged` – an order that is held shows a code.

The excluded events are those with which the code does not do this. A crash or a lost answer
loses the execution that carries a capture until the next one asks the bank again (and
`PaymentsExpiredPaid` shows that this may fail); `reconcile` clears the one code an order
shows. `PaidOrdersWait` is what remains in every case: a paid order has its job, a code, or
is held.

`ImplementsPurchase` maps every step to a step of `Purchase` or a stutter: a capture of the
bank, the opening of an invoice (`eligible` keeps it alone), its end, its payment, its
delivery.

The assumptions used are those declared in `Payments`: the type of `OrderOf`, that NULL is
no row and no code, and the type of `Quota` and `Events`.

`LicensingProofs` proves, for any sets of devices, rows, codes and concurrent grants
and moves:

* `LicensingTypeCorrect` – `LSpec => []LTypeOK`
* `MovedStaysDead` – `LSpec => []MovedIsDead`
* `ResetEndsAll` – `LSpec => []OldGenerationIsDead`
* `BlockHolds` – `LSpec => []BlockedHasNoLicense`
* `ImplementsTenure` – `LSpec => KeepsTenure`

The invariants are nearly inductive, and what they need is that a check is still
worth something when the transaction writes: `Locked` (the device a grant has checked
still serves, because its row is locked), `Moving` (a move works on a row that exists,
and the target whose customer it locked is still claimed), and `Rooted` (a row that
was never inserted has no license and no successor). The proof follows what an action
does to entitlements and licenses, in five groups: nothing (`Aside`), licenses only
(`Licensed`), a new row (`Granted`), a move, a reset. Used are the four assumptions
of `Licensing` on its constants.

The refinement needs more, because a move checks in one transaction step what it writes two
steps later, without the device row that all others hold. `TenureInv` adds to the invariant:

* `Chained` – `first` is the recursion over `transferred_from`;
* `Alone` – two rows in force are on two devices and of two grants, which is what the unique
  index of the table promises;
* `Apart` – no customer is locked by two moves;
* `Held` – the entitlement a move has locked stays in force, and nothing comes into force on
  the target it has checked.

`Held` is kept because whoever inserts a row or resets a device waits for the customer
(`CustomerFree`), and by `Apart` for another move. A grant is then `Give`, a committed move
`Carry`, a reset `End`, and every other step a stutter.

`DesktopProofs` builds on it, because every step of `Desktop` is a step of `Licensing` or
leaves the server alone (`DesktopServes`). For any number of devices and processes:

* `DesktopTypeCorrect`, `StoreStaysWhole` – `DSpec => []StoreIsWhole`,
  `DesktopMovedStaysDead`, `LearnedAdvances`, `RevocationHolds`.

`DInv` adds that whatever a process or a store holds of a license exists at the server with
at least its first decision, so that a decision with a larger version is a newer one of the
same license, and what each stage of a process says about its reply.

The first part of `MessagesProofs` proves about `Otp`, for any number of requests, lanes, slots and tries, that
lanes stay exact, the queue is served and `OSpec` implements `Codes`. `LaneIsExact` relates
a counter to the size of a set, so each step shows which requests enter or leave the lane.
The invariant `JInv` adds that `pending` and `drain` list the requests of that stage once
each, and that a request waits only while every slot of `deliver` is in use; `RInv` says how
far a request has come before its row can say something (a code that is delivered had its
SMS taken, one that is checked was admitted). The second part shows that crashes, shutdowns
and notices leave all this alone (`MessagesUseOtp`), and

* `NoticesGoOutOnce` – `MSpec => []SentAtMostOnce`
* `AuditStaysTrue` – `MSpec => []AuditIsTrue`

for any number of events and processes. `NInv` says where an event is: waiting in the outbox
or in one place of one batch, not both, and fresh there unless it is the head that is being
sent; and what is known of that head at each stage.

`ProvisioningProofs` proves about `Identity`, for any number of pairings, profiles, browsers
and generations, `EnrolledIsOwned`, `OneCodeOneAccount`, `EnrolledOnce` and `ApprovedByOwner`,
carries them to `PSpec` (`ProvisioningUsesIdentity`: whatever calls are lost or late), and
adds `UsableIsEnrolled`. The invariant adds what rows remember: generations to come have no
account and past ones no owner, a pairing that does not exist says nothing, a key knows the
newest generation it was enrolled in, no credential is of a generation to come and a revoked
key is of a past one.

`AccountsProofs` proves `SessionIsProven` and `ChangeIsProven` for any number of accounts,
numbers, codes, sessions and concurrent sign-ins. What is needed beside them is that a code
requested without a session went to the number its stamp names (`StampedNumber`).

`PromotionsProofs` proves `NoSaleAboveList`, `SoldBeforeEnd` and `ActivePriceIsFixed` for any
number of promotions, orders, prices and instants. Since an order is compared with the row its
promotion has now, the invariant speaks of what a transaction is about to write: the same
promotion, ending after every order placed so far (`HeldFits`).

`TrialsProofs` proves about `Trials`, for any number of processes, requests, trials in an
allocation and generations:

* `CounterIsExact` – `TrialsSpec => []AllocationIsExact`
* `BudgetIsKept` – `TrialsSpec => []BudgetHolds`
* `PlayIsRecorded` – `TrialsSpec => []PlayIsPaidFor`
* `GrantsAreCurrent` – `TrialsSpec => NoRetiredGrant`
* `TrialGoesOn` – `TrialsSpec => TrialIsKept`

`AllocationIsExact` equates a counter with the size of a set of rows. A start adds the one row
its nonce did not have; a renewal begins an empty allocation because no row is of an allocation
still to come (`Past`). `BudgetHolds` counts the renewals that were *asked* for, while only
those that *ran* bring an allocation, once each however often they arrive; so `Spent` counts
what ran, and `Made` says that it was asked for. `Paid` follows a row from the transaction
through the answer to the process that plays, and back from a purchase that failed (`before`).
`Kept` says which calls a process can have while it plays: without it, an answer to a status
could end the trial.

All proofs use only the named assumptions on constants, which TLC evaluates in the runs.

Only model-checked: liveness (`UnpaidEnds`, `CaptureIsDelivered`, `AdmittedLeaves`,
`EnrolledLearnsIt`), which is out of the prover's reach with its fairness, and the cases the
theorems about payments exclude: `PaidIsServed` for one attempt with `reconcile`. Every other
property of a passing run is a theorem.

## 5. Not modelled, and why

The map covers the program's own state machines, which are a small part of its lines. Most of
the repository is generated (`apps/web/shared/api.generated.ts`), renders pages (Vue and XAML),
parses requests and calls one operation (`api/controllers.ts`), or is tooling around releases
and integration tests. None of it keeps state that several actors change.

* **Admin enrolment and sign-in** (`admin/enrollment.ts`, `adminPrimary`, `adminVerify`) – the
  same flows for another kind of user.
* **Rate limits and proof of work** – one SQL statement each. They only refuse, and the models
  let a request be refused wherever they stand.
* **Outbox dispatch** (`outbox/outbox.ts`) – called by nothing in the program.
* **SMS provider** – its answers (taken, refused, lost) are modelled where they are used.
* **Signing and canonical JSON** – pure functions over bytes. A signature is taken for valid.
* **Quotes, lists and labels** – reads, or the write of a display name.
* **Damaged files of the desktop, deletion of a profile's key** – end in one error state.
* **Blog, migrations, seeds, web storefront, packer, legacy PHP** – content, one-time scripts
  and rendering.
