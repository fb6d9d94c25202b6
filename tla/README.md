# Lavish Fashion: a verification project

Lavish Fashion is a shop: an Express server on MongoDB (`src/server`), React
clients for customers and admins, and a Python service for fit predictions. What
can go wrong in it goes wrong between requests: two customers want the last unit,
two reports of one payment arrive together, a refund's answer is lost, a job's
lock runs out under it. MongoDB gives the code single-document updates and unique
indexes; no transaction is used anywhere. The modules here follow the handlers
from one `await` to the next and ask what stays true whatever comes in between.

Modelled, in the order of an order's life: **prices and the checkout page**
(`CheckoutPricing`, `Storefront`), **checkout** (`Checkout`), **order status,
points and rewards** (`OrderStatus`), **the courier** (`ShiprocketToken`,
`ShiprocketSync`), **its webhooks and the messages they send**
(`ShipmentWebhooks`), **refunds** (`RefundStateMachine`, `RefundService`), **jobs
under a lock, with the pricing audit one of them makes** (`Lease`,
`DistributedLock`, `LockedJobs`, `ShiprocketAudit`), **the admin's pages for orders
and products** (`AdminOrders`, `AdminJob`, `ProductList`), **what the admin keeps of
the shop: reviews, stock, the product form** (`Moderation`, `Inventory`,
`ProductForm`), and beside them **the fit assistant's requests** (`MlGateway`,
`FitCache`, `FitService`).

Every safety property of a passing run is also a theorem, for every value of the
constants; *What is only model-checked* lists the rest.

    tlc -workers 2 -config Checkout.cfg MCCheckout      # any run of PROJECT.json
    tlapm Checkout_proofs.tla                           # any module *_proofs

## The system

| component | state it keeps | operations | modelled in |
|---|---|---|---|
| Checkout (`controllers/orderController.js`) | orders, payment attempts | place (cash, online), verify, cancel an attempt, payment webhooks | `Checkout` |
| Inventory (`services/productInventoryService.js`) | `product.stock` | reserve per item, release | `Checkout` |
| Loyalty points (`services/loyaltyService.js`) | `user.loyaltyPoints`, `reservedLoyaltyPoints`, transactions | reserve, release, finalize; award, referrals, delivery rewards | `Checkout` (the first three), `OrderStatus` |
| Idempotency keys (`services/idempotencyService.js`) | one record per (user, scope, key) | begin, complete | `Checkout` |
| Order status (`services/orderStatusService.js`) | `order.status`, cancellation fields | cancel, deliver, status updates | `OrderStatus` |
| Pricing and coupons (`services/checkoutPricingService.js`) | coupons | quote, price an order | `CheckoutPricing`, `Storefront` |
| Checkout page (`client/src/pages/PlaceOrder.jsx`) | quote, units, points typed | quotes, placing | `Storefront` |
| Refund service (`services/refundService.js`) | Refund documents, the order's refundable bucket | initiate, retry, mark processed, webhook update | `RefundService` |
| Refund projector (`services/refundProjector.js`) | `order.refunds[]`, refunded totals | project | `RefundStateMachine`, `RefundService` |
| Ledger (`services/ledgerService.js`) | append-only rows | record refund, adjustment | `RefundService` (refund rows) |
| Refund jobs (`jobs/`) | none of their own | retry every 10 minutes, reconciliation once a day | `RefundService` |
| Distributed lock (`services/distributedLockService.js`) | one document per key, with a TTL index | acquire, refresh, release | `DistributedLock` |
| Job state (`services/systemJobStateService.js`) | one document per job | started, completed, failed, skipped, cancelled | `LockedJobs` |
| Bulk live verification (`services/shiprocketBulkLiveVerificationService.js`) | progress, cancel request | run, heartbeat, cancel | `LockedJobs` |
| Shiprocket webhook drain (`services/shiprocketWebhookService.js`) | stored events | record, claim, process, retry | `ShipmentWebhooks`; its lock and job state in `LockedJobs` |
| WhatsApp messages (`services/whatsappService.js`) | flags and a lock on the order | lock, send, mark | `ShipmentWebhooks` |
| Shiprocket sync (`services/shiprocketService.js`, `config/shiprocket.js`) | ids and status on the order, one cached token | create, reconcile, cancel, authenticate | `ShiprocketSync`, `ShiprocketToken` |
| Admin orders page (`admin/src/pages/Orders.jsx`), realtime push (`services/realtimeService.js`) | listed orders, refund dialog, job status | polls, events, requests | `AdminOrders`, `AdminJob` |
| Pricing audit (`services/shiprocketService.js`) | snapshots of amounts on the order | audit, live verification, backfill, selection | `ShiprocketAudit` |
| Product list (`admin/src/pages/List.jsx`) | rows, removals that can be undone, a bulk change | remove, undo, bulk status | `ProductList` |
| Inventory page (`admin/src/pages/Inventory.jsx`) | rows and drafts | type, restock, save one or all | `Inventory` |
| Product form (`admin/src/components/ProductForm.jsx`), `controllers/productController.js` | image slots, sizes, measurements; the product | edit, submit, save | `ProductForm` |
| Reviews (`admin/src/pages/Reviews.jsx`, `controllers/reviewController.js`) | reviews, rows, summary cards | write, publish, reject, reply | `Moderation` |
| Fit assistant (`services/fit*.js`, `mlGatewayService.js`) | cache, circuit breaker | recommend, scan | `FitService`, `FitCache`, `MlGateway` |
| Refund idempotency, marketing, accounts, reading the catalogue, cart, the rest of the clients | | | see *Not modelled* |

How they meet. A checkout reserves points (on the user), then stock (on each
product), then creates the order (cash) or a payment attempt (online). The
gateway, Razorpay, tells of the payment twice over: the browser calls verify with
a signature, and the gateway sends `payment.captured` and `order.paid`. Whichever
comes first turns the attempt into a paid order and seeds the order's refundable
bucket. From there the refund service takes over: it decrements the bucket under
a guard, creates a Refund document, calls the gateway and writes the ledger;
webhooks and the reconciliation job move the refund on, the retry job repeats a
failed call, and the projector copies the result onto the order. The refund jobs
and the Shiprocket jobs run under one document lock per job, and show their state
in the job state document, which admins read and use to cancel. Placed orders are
synced to the courier; its webhooks move their status, and a delivery or
cancellation, whoever reports it, settles stock, points and rewards.

The modules meet in the states of an order. What one of them does in many steps
another takes as one: `Storefront` places an order in the one step `Reserve`
that is a handler in `Checkout`; `ShipmentWebhooks` counts the effects whose steps
are in `OrderStatus`; `ShiprocketSync` takes the cancellation that `OrderStatus`
decides, and shows in detail the courier's answer that is a choice there.

What is hard, and which property is about it:

* **Races for a guarded update.** Check and decrement must be one operation:
  stock (`OrdersAddUp`), points (`PointsCovered`), the refundable
  bucket (`BucketConserved`), the lock (`IsLease`), the claim of an event
  (`OneProcessor`) or of a referral (`ReferralOnce`), a delivery or cancellation
  (`RewardsFollowDelivery`, `OrdersSettled`).
* **Copies read before an await.** The attempt in settling a payment
  (`OrdersAddUp`, `OneOrderPerPayment`), the refund in a webhook
  (`StatesFollowMachine`), the retry counter (`AttemptsAreCounted`), the clock of a
  lock (`IsLease`), the order in a transition (`FinalIsKept`,
  `OrdersSettled`), the quote on a page
  (`ChargedAsShown`), the token of a request (`RetriesWithAnother`), the review
  in a change of its status (`RewardOnce`).
* **Requests and webhooks repeated, reordered, lost.** `OneCashOrderPerKey`,
  `OneGatewayRefundPerKey`, `PaymentsAreSettled`, `PendingIsResolved`,
  `EffectsOnce`, `OneMessage`, `SettledStays`, `EventsSettle`, `OneShownShipment`,
  `PagesCatchUp`, `OneRefundPerDialog`.
* **One step of several failing.** Each catch block undoes what was done:
  `OrdersAddUp`, `EndedIsShown`, `RequestsEnd`, `RequestsAreServed`. A page takes
  back what it showed too early: `RowsAreReal`, `CardsCountRows`, `TypedIsKept`.
* **The same fact in two places.** `RefundsAgree`, `OrdersSettled`,
  `OneShownShipment`, `DiscountsAreAllowed`, `InvoicedAsPaid`, `AuditIsRight`.
* **A part that fails and comes back.** `CircuitMatchesCount`, `RequestsAreServed`.

## Conventions

Every action is one database operation or one gateway call: the stretch of a
handler from one `await` to the next. A handler is a *worker* with a place (`pc`)
and its local variables (`loc`); what it read and will use later is in `loc`.
Faults are bounded by `MaxFaults`: a database or gateway error takes the handler
where its catch block takes it, a crash takes its variables. Left out everywhere:
audit rows, realtime pushes, e-mails, timestamps that nothing decides from,
logging; WhatsApp messages are in `ShipmentWebhooks` only. Deadlock is checked where
a model cannot come to rest (`ShipmentWebhooks`, `ShiprocketSync`, `FitService`); the
other runs set `CHECK_DEADLOCK FALSE`, because their requests, admins or orders
are finitely many.

A definition whose comment begins "Mutant of" is a plausible slip in the code.
It is used by nothing; exchanging it for the definition it names must break the
property `PROJECT.json` lists with it, which shows that the property looks at
that code.

## Checkout: `Checkout`, `MCCheckout`

`Checkout.tla` is placing an order and settling its payment, in
`controllers/orderController.js`, with the stock, points and idempotency keys it
works on. A checkout is named by its idempotency key; it has a cart (`Items`, one
unit each), redeems `Points`, and pays on delivery if it is in `Cod`. All
checkouts redeem from the same customer's `Balance`: one customer with several
browser tabs open is the case in which points can be promised twice, and stock
does not care whose checkout it is.

| variable | in the code |
|---|---|
| `stock` | `product.stock` |
| `points`, `reserved` | `user.loyaltyPoints`, `user.reservedLoyaltyPoints` |
| `key` | the idempotency record; "refused" is a completed one that stored a refusal |
| `attempt` | the payment attempt: `status`, `inventoryReserved` (stock), `loyaltyRedemptionStatus` (points), whether it has its `razorpayOrderId` (linked), `createdOrderId` (order) |
| `orders` | the orders, with what they hold of stock and points |
| `gw`, `events` | the gateway's order, and webhooks it has not seen acknowledged |
| `recorded` | the stored webhook events (unique `eventId`) |
| `pc`, `loc` | the request handlers |

| action | in the code |
|---|---|
| `StartPlace`, `ClaimKey`, `CompleteKey` | `beginIdempotentRequest` (lookup, then insert under the unique index), `completeIdempotentRequest` |
| `ReservePoints`, `ReserveItem`, `Shortage` | `reserveLoyaltyRedemption`; `reserveInventoryForItems` item by item, and its catch block |
| `CreateCodOrder`; `CreateAttempt`, `CreateGatewayOrder`, `LinkAttempt` | the rest of `placeOrderCOD`; of `placeOrderRazorpay` |
| `GiveStock`, `GivePoints`, then `Drop` ... | the two catch blocks; online they end in `markPaymentAttemptAsNotCompleted`, or release everything a second time when no attempt exists |
| `StartVerify`, `StartWebhook`, `Duplicate`, `FindAttempt`, then `Settle` ... `AttachOrder` | `verifyRazorpay`, `handleRazorpayWebhook`, and `createOrderFromPaymentAttempt` with `finalizeReservedLoyaltyRedemption` |
| `StartCancel`, `Drop` ... `DropStatus` | `cancelRazorpayPaymentAttempt`, `markPaymentAttemptAsNotCompleted`, `releaseResourcesForPaymentAttempt` |
| `Pay`, `PaymentFails` | the gateway: external |
| `ExpireAttempt` | the TTL index on payment attempts |
| `PlacingFails`, `Abandons` | errors that a placement's catch block handles; crashes and errors nothing undoes |

Three branches of the code cannot be taken and have no action: `markOrderAsPaid`
and `markOrderAsFailed` work on an unpaid order with a gateway id, and every order
with one was created paid; `payment.authorized` looks for the same. The pricing
of a checkout is a choice between refusing and going on (`ClaimKey`). Idempotency
keys are kept for 24 hours; the model ends before that, and so does what
`OneCashOrderPerKey` says.

### Runs

* **Checkout** One online checkout (c1) and two cash checkouts (c2, c3): c1 and
  c2 want the last unit of one product, c2 and c3 of another, and c2 holds the
  one when the other runs out; c1's and c3's points together exceed the balance.
  One worker handles verify, cancel and webhooks, both place orders; one fault.
  Between requests every unit is on the shelf, held by an attempt, or sold
  (`StockAccounted`), and the reserved and taken points are those of attempts and
  orders (`LoyaltyAccounted`). At every moment no point is promised twice
  (`PointsCovered`) and a key has at most one cash order, faults or not
  (`OneCashOrderPerKey`). Reports of a payment that do not overlap make one order
  (`OneOrderUndisturbed`); with the two accounts that is `OrdersAddUp`. Every captured payment is settled
  (`PaymentsAreSettled`).
* **CheckoutVerifyRace** With two settlers, verify and a webhook (or two requests
  to verify) both read the attempt before either stores its order: two paid
  orders for one payment.

Bounds. Every race in `Checkout` is between two handlers over one document, or
between a handler and the gateway, so two workers are enough; three checkouts are
needed for two different products to run out under one cart. `Settlers` has one
member where the question is what happens when reports of a payment do *not*
overlap, and two where it is what happens when they do. A payment is declined at
most once. The run was also made with two online checkouts and without faults
(2.8 million states), with the same result.

What is not said. `StockAccounted`, `LoyaltyAccounted`, `OneOrderUndisturbed` and
`PaymentsAreSettled` have `faults = 0` as a premise, and `LoyaltyAccounted` also
`NoneGivenTwice`: with the double release in the catch block, which needs no
fault, it would fail. The premises are there because the code does not keep more;
*Disagreements* lists what happens without them.

Fairness (`FairSpec`): a handler that started goes on (`WF`: Node resumes it), and
the gateway repeats `payment.captured` until it is acknowledged, so it is handled
if a settler is free again and again (`SF`). The customer need not do anything
after paying: verify has no fairness, and the mutant that swallows the webhook
breaks `PaymentsAreSettled`.

### Proofs

`Checkout_proofs.tla` proves `TypeCorrect` (`Spec => []TypeOK`) and
`PointsAreCovered` (`Spec => []PointsCovered`) for all carts, points, stocks,
handlers and faults (checkouts and handlers finitely many). `TypeOK` does not know that a worker that is not idle works
on some checkout, or that one reserving an item has an index within the cart, so
the invariant is `TypeInv == DataOK /\ WorkersOK /\ Working`. That points are
covered needs the guarded updates of reserve, release and finalize, and nothing
of the handlers: it holds also through the double release, which only makes
`reserved` smaller.

It also proves `OneCashOrder` (`Spec => []OneCashOrderPerKey`).
The invariant `CashInv` says what makes the key work: a worker past the claim has
its key taken (`KeysClaimed`), two workers are not both between claim and order
for the same key (`OnePlacement`), and a key whose cash order exists has nobody
before the order (`CashIsPlaced`). Nearly all steps are calm: they take nobody to
a place before the order, and leave keys and orders alone (`CalmStep`); the two
that are not, `ClaimKey` and `CreateCodOrder`, have lemmas of their own.

`NothingIsLost` (`OneSettler /\ Spec => []OrdersAddUp`) is the long one. That
everything is somewhere *between* requests says nothing of the states within one,
so the invariant counts what is on its way: `Carries` is what a handler has taken
from the shelf and nobody stores yet (less than nothing while both the attempt and
the order have it, or both the attempt and the shelf), `Promises` the same of
reserved points, `Takes` of points taken for an order that does not say so.
`Books` then says that in every state shelf, attempts, orders and handlers
together have the stock there was at first, and the same of points. Sums over
checkouts, orders and handlers change by one term at a time; `Sums.tla` has what
is needed of them. Each step moves as much as it takes away (`...AddsUp`), given
what the handler knows to be true (`Orderly`): a placement has its key to itself
and no attempt yet; who settles has seen what the attempt still is; an attempt
holds points exactly if it holds units; an order exists only for an attempt that
says so or is about to. `Orderly` is where `OneSettler` is used: two settlers on
one payment have seen the same attempt. Releasing points takes away what is left
when that is less, so `Covered` must show that it is never less: what the settler
promises away, twice the points while it redeems them, its attempt and its order
still owe. The whole holds while `faults = 0`, and is vacuous after;
`NothingGiven` takes out the double release, which needs no fault.

## Refunds: `RefundStateMachine`, `RefundService`, `MCRefundService`

`RefundService.tla` is the refund orchestrator (`services/refundService.js`) at
work on one paid order, together with what it drives: the strategies
(`services/refundStrategies/`), the projector (`services/refundProjector.js`),
the refund rows of the ledger, and the two jobs (`jobs/refundRetryJob.js`,
`jobs/refundReconciliationJob.js`). `RefundStateMachine.tla` holds the pure
parts as operators: the states and edges of a refund, the filter for webhook
updates, the totals the projector derives.

| variable | in the code |
|---|---|
| `channel` | the channel `chooseChannel` picks for the order |
| `refundable` | `order.refundableAmountInPaise`, the bucket that is decremented under a guard |
| `view` | `order.refunds[]`, as the projector last wrote it |
| `current` | who holds a copy of the order with the stored `__v` (Mongoose's array versioning) |
| `refunds` | the Refund collection: state, gatewayRefundId, retryCount, and whether a catch block has set nextRetryAt |
| `debits`, `credits` | ledger rows of type refund and adjustment |
| `gw`, `inbox` | the gateway's refunds and the webhooks it has sent |
| `pc`, `loc` | the handlers and job bodies in flight, each with its local variables |

A worker is one request handler or one job body. Every `await` of the code is a
place where others run, so every action is one database operation or one gateway
call. A refund is named by its idempotency key: the unique index makes the two
interchangeable. What a worker read before an `await` stays in `loc` until it is
used: the state a webhook decided from (`before`, `next`), the counter a retry
increments (`count`), the projection to write (`new`).

The order's document has a version (`__v`) that Mongoose checks when an array is
replaced; the model keeps only which projections would still pass that check.

Faults, at most `MaxFaults` in a run: a database error inside a try block
(`DatabaseError`), a gateway answer that is lost (`AnswerLost`), the end of the
process (`Crash`). Webhooks are delivered in any order, and may be left
undelivered for ever.

### Runs

* **Refunds** has four parts, told apart by `part`; `MCPart` says who takes part and
  at which refunds.
  * `race`: two admins initiate under three keys of 2 paise out of 5, while webhooks
    settle the refund of k1; nothing fails (`NothingFails`: `faults` starts beyond
    `MaxFaults`). `BucketConserved` is the lock the service is built on: the bucket
    and what is reserved always add up, in the middle of every request.
  * `retry`: one refund is retried, by the job and by hand, among webhooks, old and
    new, and one fault. `AttemptsAreCounted`: the gateway is not called more often
    than the saved counter says.
  * `reports`: three workers are at one refund at once. One initiates and then listens,
    one only listens, one initiates, listens, reconciles and settles by hand. The
    gateway sends `refund.created` as well as the outcome, each webhook may be
    delivered at any time or never, and one fault happens anywhere: so between a
    handler's read and its save come other reports of the same refund, later or
    earlier ones. `StatesFollowMachine`: none of them takes the refund along an edge
    the machine lacks. `RefundsAgree`: what the gateway paid is never given up, what is
    shown as processed is, and was paid, and when nobody is at the refund the ledger
    has one net debit for what is paid or on its way and none left of what failed.
    `PendingIsResolved`: with the job running again and again no refund stays
    pending, though every webhook is lost.
  * `alone`: one worker makes two refunds, of 2 and of 3, in every role but the retry,
    so that the order is refunded in full in two parts: the rest of `RefundsAgree`
    (shown as refunded in full only when what was paid makes it up).
* **RefundReportedTwice** TLC finds `FailureCreditedOnce` violated: two reports of one
  failure, a webhook and the job's, both read PENDING and both credit (*Disagreements*).

`StatesFollowMachine` and `RefundsAgree` leave out refunds in trouble (`Troubled`):
those whose initiation failed into the catch block, or that were retried. Their
handlers do save what they hold over what others stored, and re-credit what the
gateway took, which is in *Disagreements*. `RefundsAgree` speaks of behaviours in which
nothing failed so far (`faults = 0`; a refusal of the gateway is no fault);
`StatesFollowMachine` of all.

### Bounds and fairness

Three keys are one more than fit into the order's amount, so that requests are
refused and collide on the key. In `race` the amounts never empty the bucket while
refunds are on their way: `lazySeedRefundablePaise` would fill it again, which
`BucketConserved` does not survive (*Disagreements*); nor does it survive a crash
between reservation and document, or two reports of one failure, so it speaks of
`NothingFails` only, and in `race` a report waits until its refund's request is over.
Three workers at one refund are one more than a race of a read with a write needs: a
third can change what both have read. One fault reaches every handler of an error.
The retry job and the admin's retry run on one worker, `Markers` is one admin:
the code excludes neither two (*Disagreements*).

`PendingIsResolved` is checked under `Fairness(workers, keys)`: a handler that started
goes on (`WF` of `Continue`: Node schedules it), the gateway settles what it accepted,
and the reconciliation job, which runs once a day with batches of 100, selects each
refund again and again (`SF`: between two ticks a worker may be busy). It is asked of
`reports` and `alone`, in which nobody retries. The two hours a refund must be old
before the job looks at it stand for the end of the requests that initiate it.

### Proofs

`RefundService_proofs.tla` proves `TypeCorrect`: `Spec => []TypeOK`, for every set
of keys, workers and amounts. `TypeOK` is not inductive: the reconciliation job
indexes the gateway's list with the stored id, so the invariant is
`TypeInv == TypeOK /\ GatewayIds`, where `GatewayIds` says that every id a
document, a worker or a webhook holds is a position of that list.

`RetriesAreCounted`: if at most one worker
retries at a time (`OneRetrier`), `Spec => []AttemptsAreCounted`. The invariant
`AttemptsInv` adds what the code relies on without saying so: the call about to
be made has been counted (`CallCounted`), the count about to be saved is one more
than the stored one (`CountFresh`), and until its first gateway call a refund is
known to nobody else (`FirstCall`, `KnownRefunds`): webhooks and the reconciliation
job need a gateway id, and only an accepted call makes one. Most steps are `Calm`:
they leave the gateway and the counters alone, so one lemma (`CalmStep`) covers
them. `OneRefundPerKey` follows with the remark that without a retrier nothing is
ever counted.

`StatesFollow` (`MaxRetries > 0 /\ Spec => StatesFollowMachine`): any number of workers
of every role at one refund, every order of webhooks, all faults. The invariant
`ReportsInv` is about refunds no catch block has written and nobody retried
(`~Marred`). `Knows` says for every label what the worker there relies on: not that
the document is as it was read, but what cannot have changed since. A report
(`Heard`) is about a refund the gateway has, and an outcome, once decided, stays
(`Grows`); so a handler about to save PROCESSED or FAILED (`Deciding`) meets a
document in PENDING or in that same state, and one about to save PENDING, for a late
`refund.created`, one in FAILED or PENDING: all of them edges or no change. `Matched`
ties document and gateway together (one gateway refund at most; FAILED and PROCESSED
are what it decided), `Told` says that webhooks on their way tell the truth, `Owners`
that a refund has one worker that created it. `MaxRetries > 0` (the code's is 3) is
needed because only then must an exhausted refund have been retried, so that no
refund out of trouble becomes PERMANENTLY_FAILED.

`BucketIsKept` (`Retriers = {} /\ "created" \notin EventKinds /\ Spec /\
[](Apart /\ SeedsAreSafe) => []BucketConserved`), for any keys, amounts and
finitely many workers; its invariant `MachineInv` says what state a refund is in by where its
only worker is (`Fits`). Each hypothesis is one of the code's disagreements: a retry reserves
nothing, a late `refund.created` takes a failed refund back, two reports of one
failure both credit, and `lazySeedRefundablePaise` fills a bucket emptied by refunds
on their way (`SeedsAreSafe` says that no request meets that). Under them every step moves as much
into the bucket as it takes from what is held (`Conserves`); what is held is a sum
over refunds and one over requests, and changes by one term (`Sums.tla`).

`RecordsAgree` (`MaxRetries > 0 /\ OneMarker /\ Spec => []RefundsAgree`) adds `BooksInv`
to `ReportsInv`. A refund that left INITIATED has one debit, unless a worker is about
to write it (`BooksOf`, `AboutToDebit`, one at a time by `OneDebtor`); a credit is written
only for what the gateway failed, and a refund in FAILED has one or a worker is about to
write one (`AboutToCredit`); what is shown as processed, or is about to be (`ShownIsPaid`),
is processed. The last is why projections need not be serialised for this: PROCESSED is
never left, so a stale projection shows less, never more. The totals come last: what is shown
in full is a sum over fewer refunds than those paid (`SumOfFewer`, `ShownInFull`).
`OneMarker`: two admins who mark one transfer do write two debits (*Disagreements*).

`OneRetrier` is what the job lock is for. `jobs/_runLockedJob.js` does not enforce
it (see *Disagreements*), so in production it rests on one instance
running the job and on admins not pressing "retry now" while it runs.

## Jobs under a lock: `Lease`, `DistributedLock`, `LockedJobs`, `ShiprocketAudit`, `MCLockedJobs`

`DistributedLock.tla` is the lock document of one key
(`services/distributedLockService.js`): acquire under the filter "expired or
missing", refresh and release under the filter "I am the owner", and the TTL
index. `LockedJobs.tla` runs three kinds of job under it: the Shiprocket webhook
drain, the bulk live verification with its heartbeats and its cancellation, and
`jobs/_runLockedJob.js`, which carries the refund jobs. `Lease.tla` is the
promise: a lease passes from one run to the next only after it ended.
`ShiprocketAudit.tla` is what the bulk verification stores with an order: what the
order should cost at the courier, what was sent, what the courier answers
(`services/shiprocketService.js`), the page's own copy of that verification
(`admin/src/pages/Orders.jsx`), and the choice of orders to verify.

| variable | in the code |
|---|---|
| `now` | the clock, on which all instances agree |
| `lock` | the `distributed_lock` document: `ownerId`, `expiresAt`; missing counts as released |
| `kind` | whose key it is: drain, bulk, cron |
| `job` | the `system_job_state` document: status, owner, whether its result holds a cancel request |
| `pc`, `loc` | the runs; `stamp` is the `Date.now()` an expiry was computed from, `until` the expiry it wrote |
| `ask` | the cancel requests of admins, and what each has read |
| `order`, `tracked` | the order's amounts, and whether the courier has it |
| `stored`, `live`, `liveStatus` | `shiprocket.pricingSnapshot`, `livePricingSnapshot`, `livePricingVerificationStatus` |

The clock is read before the database acts, and time may pass in between
(`Call` and `Acquire`, `Beat` and `Refresh` are separate steps). A run may overrun
its lease; nothing stops it, and it refreshes, persists, ends and releases all
the same. What a drain does to its events, and a verification to its order, is one
step with two outcomes: only how the run goes on matters here.

| operator of the audit | in the code |
|---|---|
| `Expected`, `Extract`, `Verification`, `AuditIssues` | `buildShiprocketPricingSnapshot`, `extractShiprocketOrderPricingSnapshot`, `buildShiprocketLivePricingVerification`, `buildShiprocketPricingAudit` |
| `PageExpected`, `PageExtract`, `PageVerification`, `PageIssues` | the same in the page |
| `PreFilter`, `ShouldVerify`, `Selected` | `selectCandidateOrdersForBulkVerify` |

### Runs

* **LockedJobs** Two runs, a lease of 2 on a clock of 0..4, two orders with one
  throttled attempt, one cancel request, one fault, for each kind of job.
  `IsLease`: the lock
  document implements `Lease` (`holder` is the document's owner until it
  expires). `EndedIsShown`: when all runs have ended without a fault, the job is
  not shown as running. A clock of twice the lease lets a run overrun, be
  succeeded and come back. `Runs` is a symmetry set. It was also run with three
  runs, with the same result, and the proofs are for any number. `AuditIsRight` is
  about the other part of the run, eleven orders and 217 answers of the courier:
  with and without each field, a discount of 0, totals that repeat the subtotal. A
  verification is clear just when the courier's amounts are the ones that were sent
  (`VerdictIsRight`; no phantom mismatch for a discount echoed as 0), the page's copy
  comes to the server's verdict (`PageAgrees`), and the bulk verification's second
  query makes up for what its first cannot see (`AlertIsSelected`).

### Proofs

`Backoffice_proofs.tla` proves, for any runs, lease and clock, `TypeCorrect`,
`LeasesAreExclusive` (`Spec => []LeasesExclude`: no two runs have an unexpired lease) and `LockIsLease`
(`Spec => IsLease`, the refinement: the initial state maps to the initial state,
and each step to a step of `Lease` or a stutter). The invariant is
`IInv == TypeOK /\ OrdersLeft /\ LeaseKept`. `LeaseKept` is the whole argument: a
clock reading lies in the past, so an acquire succeeds only when the document
has really expired, and until the expiry a run wrote the document is still its
own. `OrdersLeft` (a run that verifies has an order left) is what keeps the type
of the progress counter.

`EndIsShown` (`Spec => []EndedIsShown`) is from `EndAhead`: without faults the job is
shown as running only while some run is still to tell how it ended, be it another
than the one shown, because runs outlive their leases and write over each other.

`AuditsAreRight` (`MCSpec => []AuditIsRight`) is for all orders and answers in which
no amount is negative and no discount exceeds its subtotal (`Audit!Amounts`; the
discount is capped in `checkoutPricingService.js`), in lists of any length: the
verdict (`VerdictOf`), the page's copy (`PagesAgree`) and the selection
(`AlertsSelected`) are lemmas about the operators alone. That the discounts of
the items add up is an induction over a set, which `Sums.tla` makes possible.

The theorems on the lock do not need `runLockedJob` to skip: a cron run that was refused the
lock never wrote an expiry, so it has no lease to share. That its work is not
under the lock is the finding.

## Order status: `OrderStatus`, `MCOrderStatus`

`OrderStatus.tla` is the life of an order after it was placed
(`services/orderStatusService.js`) with the points, rewards and referrals of
`services/loyaltyService.js`: cancellation by the customer, an admin's new status,
a status heard from the courier. One customer, whom another one referred, owns
every order, because balances are where orders meet.

| variable | in the code |
|---|---|
| `order` | `status`; `payment`, `paymentStatus`; `inventoryReserved` (stock); `loyaltyRedemptionStatus` (points); `loyaltyAwardedAt` (awarded); `reviewReminderQueuedAt` (reminded); `shiprocket.cancelStatus` (mirror) |
| `shelf` | units given back to `product.stock` |
| `points`, `reserved` | `loyaltyPoints` of both users, the customer's `reservedLoyaltyPoints` |
| `unlocked`, `referrals` | `referralRewardUnlocked`, `successfulReferralCount` |
| `ledger` | loyalty transactions, counted by type and order |
| `pc`, `loc` | the requests; `seen` is the copy each decided from |
| `entered`, `raced` | history: how often each order became delivered or cancelled; which orders two requests worked on at once |

| action | in the code |
|---|---|
| `StartTransition`, `StartCancel` (`Decide`, `MayBecome`) | `updateOrderStatus`, `cancelUserOrder`, `validateOrderStatusTransition` |
| `CancelOrder`, `Unreserve`, `Release`, `Restock`, `Unstock` | `performOrderCancellation` and what it gives back |
| `Mirror`, `CourierAnswers` | `cancelShiprocketForOrder` |
| `MoveOrder`, `DeliverOrder` | the updates of `applyOrderStatusTransition`: the first without a guard, the second with one |
| `Redeem`, `RedeemRow`, `RedeemMark` | `finalizeReservedLoyaltyRedemption` |
| `ReadUser`, `Award`, `AwardRow`, `ClaimReferral`, `CountReferral`, `Mark` | `awardOrderDeliveryRewards` |
| `Remind` | the review reminder of `processDeliveredOrderEffects` |
| `Abandons` | an error, which the controllers answer with 500, or a crash |

### Run

* **OrderStatus** Two orders (one for cash, not yet delivered, and known to the
  courier), two workers, three requests, one fault. What two requests can do to
  each other by way of the *customer* is in the properties without exception:
  a referral is
  rewarded once (`ReferralOnce`), a delivery at most once
  (`RewardsFollowDelivery`), transactions and balances agree
  (`BalancesMatchLedger`, a part of `OrdersSettled`). What two requests can do to
  one *order* is not kept by the code (see *Disagreements*): `FinalIsKept` and
  `OrdersSettled` exempt the orders in `raced`. `DeliveredIsRewarded` is under
  `FairSpec` (`WF` of `Continue` for each worker: Node resumes a handler).

Three requests are one more than it takes to cancel and deliver one order at
once; the third revives it or comes for the customer's other order. `Balance` 2
and `Reward` 1 let a redemption find too few points.

### Proofs

`OrderStatus_proofs.tla` proves, for any orders, workers, requests and faults:
`TypeCorrect`; `FinalStatusIsKept` from `TypeOK /\ SeenIsCurrent` (a worker alone
at its order holds a copy with the stored status); `ReferralRewardedOnce` from
`ReferralInv` (one worker past the claim, and how much it has written by then);
`RewardedOncePerDelivery` from `RewardInv`: rewards given and workers that still
owe one are together at most the deliveries, which needs the guarded update and
a count of a finite set.

`WhatRequestsLeave` (`Spec => []OrdersSettled`), for finitely many orders and workers
and reserved points that the balance covers. `LedgerInv` holds whatever races, as long
as nothing failed: balances are what the transactions say, but for what a worker has
written in one place and not yet in the other. The rest is about orders that no two
requests were at (`Calm`): `SettledInv` says what a worker at each label has done of a
cancellation (`BeingCancelled`) or of a delivery (`BeingRewarded`), what its copy is
worth before that (`Fresh`), and that an order nobody is at has everything its status
asks for (`Rested`); reserved points and units on the shelf are counted over all
orders (`CountInv`).

## The courier's webhooks and the messages they send: `ShipmentWebhooks`

`ShipmentWebhooks.tla` is the queue of `services/shiprocketWebhookService.js`: an
event is recorded, claimed by the task its request started or by a drain,
applied, finalized or tried again. It contains the stretch of
`applyOrderStatusTransition` such an event runs and the WhatsApp message it sends
(`services/whatsappService.js`). What a delivery does to points and stock is in
`OrderStatus` and is one counted step here (`Effects`).

| variable | in the code |
|---|---|
| `queue`, `event` | the stored events by age; `processingStatus`, `processingAttempts`, whether `nextRetryAt` has come (due), whether `lastProcessingStartedAt` is too old (stale) |
| `order` | `status`, whether the courier's ids are stored on it (known) |
| `note` | `whatsappNotifications`: sent flag, and the lock (sending flag and `lockExpiresAt`) |
| `pc`, `loc` | tasks and drains |
| `effects`, `entered`, `messages` | history: what was done how often |
| `overrun`, `raced`, `doubted` | history: events that went stale under a worker; orders two workers were at together; messages whose fate a failure or a lapsed lock hid |

| action | in the code |
|---|---|
| `Receive` | `recordShiprocketWebhookEvent` |
| `ClaimOwn`, `StartDrain`, `Claim` (`Eligible`) | `scheduleShiprocketWebhookProcessing`, `runShiprocketWebhookDrain`, `claimQueuedWebhookEvent`, `buildDrainEligibilityQuery` |
| `Read`, `Write`, `Effects`, `Finalize` | `processClaimedWebhookEvent`, `applyOrderStatusTransition`, `finalizeWebhookEvent` |
| `Acquire`, `Send`, `SendFails`, `Mark`, `Unmark` | `sendOrderNotification` and what it calls |
| `DatabaseError`, `Crash` | the catch blocks; the process dies |
| `BecomesStale`, `Lapses`, `RetryDue` | time |
| `Sync` | the ids arrive with the order's own sync: external |

### Run

* **ShipmentWebhooks** "Shipped" and "Delivered" of one order, arriving in either
  order, repeatedly, before or after its ids; two workers, two attempts (the
  code: five), two requests for a message, one fault. An event has one worker (`OneProcessor`) and stays settled
  (`SettledStays`), a final status is kept (`FinalIsKept`), effects and messages
  come once (`EffectsOnce`, `OneMessage`), and every event is settled or used up,
  whoever dies (`EventsSettle`). Deadlock is checked: there is always another
  drain to start.

Two workers are what any race needs. A second attempt is the first that may be
the last. Each exemption of a property is a set of the history: an event is in
`overrun`, an order in `raced`, a message in `doubted`, only when the thing that
makes the difference happened to it.

`FairSpec` has `WF` of `Continue(w) \/ StartDrain(w)` for each worker (handlers
resume, the platform's cron calls again and again) and of time passing
(`BecomesStale`, `RetryDue`). Nothing is assumed of the courier.

### Proofs

`ShipmentWebhooks_proofs.tla`: `TypeCorrect`; from
`IInv == DataOK /\ WorkersOK /\ Alone`, `EventProcessedByOne`, `SettledForGood`
and `FinalStatusIsKept`. `Alone` says that a worker whose claim has not gone
stale finds its event "processing" (`ClaimsHold`), that two workers at one order
are known (`Apart`), and that a lone worker's copy is the stored status
(`SeenHolds`); steps are sorted into a few kinds so that the hundred
combinations of step and conjunct become a dozen. `EffectsRunOnce` counts the
workers that owe effects, as in `OrderStatus`. `MessageSentOnce`
(`Spec => []OneMessage`) is from `MessageInv`: the lock of a message not in `doubted` is
held by the one worker that sends it, and a message that went out is marked, or its
worker is about to mark it (`NoteHolds`); and whatever is marked was sent
(`MarkedIsSent`).

## Orders at the courier: `ShiprocketToken`, `ShiprocketSync`

`ShiprocketSync.tla` is `syncOrderToShiprocket` (`services/shiprocketService.js`),
run when an order is placed or settled and again when an admin forces it, the
cancellation that is mirrored to the courier, and the ids that webhooks bring.
Each request goes through `ShiprocketToken.tla`, the client with its one cached
token (`config/shiprocket.js`, `requestWithAuth`).

| variable | in the code |
|---|---|
| `token`, `login` | `cachedToken`, `refreshPromise` |
| `call` | a request in `requestWithAuth`: waiting for a token, sent, refused, tried again |
| `order` | whether it is cancelled; `shiprocket.syncStatus`, `orderId`, `cancelStatus` |
| `issued`, `revoked`, `made`, `dead` | the courier: tokens, orders for this reference, those cancelled |
| `doubts` | history: how often a sync of the order was begun beside another or for an order with ids, or left the order without the ids of what the courier made |
| `crossed` | history: orders two requests were at together, synced after their cancellation, or whose cancellation an error or a crash stopped before the mirror |

| action | in the code |
|---|---|
| `Ask`, `LoginGranted`, `LoginAnswers`, `LoginFails` | `getValidToken`, `generateToken` |
| `Refused`, `Ages` | `invalidateToken` after a 401; `isCachedTokenUsable` |
| `StartSync`, `Prepare`, `Create`, `CreateFails` | `syncOrderToShiprocket` up to the create request; every error of it is taken as ambiguous |
| `Search`, `SearchFails` | `reconcileExistingShiprocketOrder` |
| `Store`, `StoreFails` | the write of the courier's ids, and a database error before or after it, which goes to the same catch block |
| `Fail`, `FailFails` | the catch block writes the ids as read at the start, or its own write fails |
| `Cancel`, `Mirror`, `MirrorFails`, `CourierCancels`, `CancelFails` | `performOrderCancellation`, `cancelShiprocketForOrder`, with the database errors before and after the courier's answer |
| `Webhook` | `buildShiprocketWebhookUpdateSet` |

### Run

* **ShiprocketSync** Two workers at one order, at most three courier orders for
  its reference and three doubts, syncs begun while the two together are at most
  three (`MaxTrouble`), one fault: an error of the courier or of the database, a
  lost answer, a token that ages or is revoked, a crash. The second try after a 401
  is with a newer token whatever others did to the cache (`RetriesWithAnother`).
  The order has one shipment, and one more at most for each doubt (`OneShipment`);
  what the admin is shown is true at the courier (`ShownIsTrue`; the two are
  `OneShownShipment`); every request ends (`RequestsEnd`, under `WF` of each worker's
  steps and of the login's answer: all requests have timeouts).

The code does make second shipments, and `doubts` says exactly when, so that
every other second shipment is an error: (1) a sync is begun while another is at the
order, or is forced by an admin for an order that has its ids; (2) a sync ends
without knowing what the courier did (the create request was refused or its answer
lost, and the search failed too); (3) the write of the ids fails, or the process dies
before it; (4) a failing sync writes back the empty ids it read over ids a webhook or
another sync has stored since. What is *not* a doubt is the recovery itself: a create request
that is refused, lost, or answered without ids and is followed by a search that
answers. That a cancelled order is cancelled at the courier is asked only of orders not in
`crossed` and without a doubt; the first two claims of `ShownIsTrue` have no exception.

One order is enough: orders meet only in the token. That the courier may or may
not refuse a reference it has, and may answer a create without the ids, is its
choice in `Create`.

### Proofs

`ShiprocketSync_proofs.tla` proves, for any orders, workers, tokens and faults,
`TypeCorrect`, `NewTokenIsUsed` (`Spec => []RetriesWithAnother`) and
`ShipmentIsOneAndShown` (`Spec => []OneShownShipment`) from one invariant. For the token,
`TokensGrow`: what a request holds, was refused or finds in the cache was issued, and a cached token
is newer than every refused one. For the number of shipments, `Counted`: as long as
`doubts` is below its bound, the orders made and the workers that may still make one
(`MayMake`) are no more than the doubts, plus one when somebody answers for what is there:
the order has its ids, or a sync is at it that may yet make one, is about to store one, or has
sent a request (`Held`). A worker that stops answering either could make an order and no
longer can, or leaves ids stored, or a doubt, or a search that found none. For what is shown, an order
not in `crossed` and without a doubt has one worker at it (`OneAtATime`), who knows what
became of it (`WorkersKnow`), and `MadeIsStored` carries that across the end of a
sync: an order that was made has its ids, or somebody is still at it.

## What an order costs: `CheckoutPricing`, `Storefront`

`CheckoutPricing.tla` has the rules as operators: coupons, points and delivery
of `services/checkoutPricingService.js` and `loyaltyService.js`, the rules the
checkout page repeats in the browser, and the total on the courier's invoice.
`Storefront.tla` is the page (`pages/PlaceOrder.jsx`) with its quotes, and the
orders placed from it, while an admin edits the price and the coupon.

| variable | in the code |
|---|---|
| `price`, `coupon` | `product.price`; the coupon's terms and `isActive` |
| `points` | what a user has available: `loyaltyPoints` less the reserved ones |
| `known` | the price each browser has loaded with the catalogue, or none yet |
| `page` | an open page: `checkoutItems` (units), `pricingPreview` (quote), `pricingAction` (busy) |
| `orders` | the orders, with the coupon use and points that count |
| `pc`, `loc` | requests under way, quotes and orders |
| `crowded`, `denied` | history: two checkouts used the coupon at once; an offer of points was refused though nothing had changed |

| action | in the code |
|---|---|
| `Open`, `Recount`, `Leave` | the page opens; a late `getUserCart` changes its units; it closes |
| `Load` | the catalogue comes, and the page asks for its price again |
| `Quote` | `applyCouponHandler`, `clearCouponHandler`, `applyPointsHandler`, `clearPointsHandler` |
| `Quoted`, `QuoteFails` | the answer to `requestPricingPreview`, shown whatever the page has by then, or none |
| `Place` | `onSubmitHandler`, with the coupon and the points of what is shown (`Shown`): the preview, or without one the page's own total (`LocalPrice`, its `defaultPricingSummary`) |
| `ReadPrice`, `Discount` | `calculateCheckoutPricing`, for both |
| `Reserve`, `CreateOrder`, `Abandon`, `Placed` | the order, for cash at once or when it is paid; the steps between are in `Checkout` |
| `Cancel`, `Edit` | a cancelled order frees its use and points; the admin's edits |

Amounts are in paise and the rounding of the code (`roundCurrency`) is to a paisa;
floating point is taken as exact at that size.

### Run

* **Storefront** One customer with two requests under way, a price that becomes
  10550 from 10000 paise, a flat coupon larger than one unit or a capped
  percentage for two units, 40 points: all limits bind somewhere. Coupon limits
  hold unless two checkouts use the coupon at once (`CouponWithinLimits`), and the
  page's own computation of redeemable points, in whole rupees, is never refused
  (`OfferIsAccepted`; the two are `DiscountsAreAllowed`); she is charged what the page
  showed (`ChargedAsShown`), its own total or a preview's, in whatever order the page
  opens, learns prices, asks, is answered, is not answered, and takes the order; the
  invoice comes to the amount paid (`InvoicedAsPaid`). Requests are symmetric.

`ChargedAsShown` does not hold two totals against the page, besides those something has
changed under (price, coupon, balance, orders that count as uses): the 0 it shows before its
catalogue is in, or for a product that is free, and a preview asked for other
units than the page has when it comes, which the page shows unchecked (line 344). The
server charges for the units sent, so in both cases something else than was shown
(*Disagreements*). They stop being exempt as soon as another quote comes.

Bounds: two orders (one more than the coupon allows), two visits, two quotes,
one edit. Users meet only in the coupon's count; with one user both limits of the
coupon bind at the same order. The theorems below are for any number of users.

### Proofs

`Storefront_proofs.tla` proves for every price, coupon, rule, user and number of
requests `TypesHold`, `InvoicesAddUp` and `ChargesAreShown`, from
`IInv == TypeInv /\ InvoiceInv /\ ShownInv`: a fresh quote is the price of the page's
units as things are now (`FreshQuote`); one on its way is that of the units it was asked
for (`FairQuote`), and fresh only if the page still has them; the page's own total is the
server's where the price it knows is the server's (`LocalIsPrice`); so whatever is shown and
counts as fresh is the price (`ShownHolds`), and an order is placed for it (`FairOrder`). `DiscountsAreLimited`
(`Spec => []DiscountsAreAllowed`) adds `OfferInv` and `LimitInv`: a fresh offer of
points, on the page, on its way there or with an order, is still allowed
(`FreshOffer`, `FairOffer`, `TakenUp`), and while nobody crowds, one checkout at
most is between the count of the coupon's uses and its own, and finds one left. It
counts the orders that use the coupon, which are finitely many. `OfferWithinLimit` is
about the two computations alone: what the browser offers in whole rupees, the
server's limit in paise allows, for all amounts and settings.

## The fit assistant's requests: `MlGateway`, `FitCache`, `FitService`

`FitService.tla` is the way of a size recommendation
(`services/fitRecommendationService.js`) or a body scan
(`services/fitBodyScanService.js`) through the cache, the ML service and the
rules. `MlGateway.tla` is the circuit breaker (`services/mlGatewayService.js`),
`FitCache.tla` the cache (`services/fitCacheService.js`): Redis when it can be
reached, a bounded map in memory otherwise.

| variable | in the code |
|---|---|
| `failures`, `circuit` | `consecutiveFailureCount`, `circuitOpenUntil` |
| `redis`, `memory` | the cached values; `memoryCache` in insertion order |
| `client`, `attempts`, `opened`, `away` | `redisClient`, `redisConnectPromise`, connections at the server, `redisUnavailableUntil` |
| `stage`, `place`, `key`, `value` | requests, and where their cache access is |
| `well` | whether the ML service gives valid answers: external |

| action | in the code |
|---|---|
| `Start`, `ReadRedis`, `ReadMemory` | `readJsonCacheValue`, after `resolveRedisClient` |
| `Ask`, `AnswersWell`, `AnswersBadly`, `Unreadable`, `AnswersNonsense` | `ensureMlGatewayAvailable`, `requestMlSizeRecommendation`, `requestMlBodyScanAnalysis` |
| `Write`, `WriteRedis`, `WriteMemory`, `Answer` | `writeJsonCacheValue`, and the answer |
| `Connection`, `Disconnected`, `Reachable` | the connection to Redis |
| `Window`, `RedisForgets`, `MemoryForgets` | time |
| `Restart` | the process dies and starts again; Redis keeps what it holds |

### Run

* **FitService** Two requests, a recommendation and a scan key, a threshold of 2
  (the code: 3), a map of one entry (the code: 500). The open window and the
  count of failures agree in whatever order answers come (`CircuitMatchesCount`);
  and, in `RequestsAreServed`, every request ends and once the
  service is well for good, its answers are used in the end: neither the window
  nor what the rules left in the cache stays (`RecoveredIsUsed`). Faults are
  unbounded here; deadlock is checked.

Fairness: `WF` of each request's steps (calls to the service have a
timeout; those to Redis have none, `client.get` and `client.set` at 175 and 199: that Redis
answers or its connection drops, which ends them, is assumed), of the
connection attempt, of the end of the window, and of the expiry of cached
recommendations (12 hours). `RecoveredIsUsed`, the second part,
also assumes that unreadable scans
stop: they count as failures of the service for everyone (*Disagreements*).

### Proofs

`Backoffice_proofs.tla` proves, for every threshold and any requests and keys,
`WindowFollowsCount` (`FitSpec => []CircuitMatchesCount`, from `GatewayInv`) and
`ConnectionIsOne` (`FitSpec => []OneConnection`): however many requests find no
connection, break or restart, one is made or open at a time. `ConnectionInv` says that
a connection open at the server is known to the process, which makes none then.


## The admin's pages for orders and products: `AdminOrders`, `AdminJob`, `ProductList`, `MCAdmin`

`admin/src/pages/Orders.jsx` lists the orders, and three kinds of messages fill the
list: answers to a poll every 45 s, realtime events (`services/realtimeService.js`),
and answers to requests that carry one order. Nothing compares the copy that comes
with the copy that is listed. `AdminOrders.tla` is that list with the server and
the network between them, and the refund dialog; `AdminJob.tla` is the page's
view of the bulk verification, whose run is in `LockedJobs`. `ProductList.tla` is
`admin/src/pages/List.jsx` with its handlers: a removal is hidden at once and sent by
a timer when the time for Undo is over; a bulk change of status is shown at once,
sent product by product, and taken back where it failed.

| variable | in the code |
|---|---|
| `saved` | the stored orders: how often each was written, what is left to refund |
| `events`, `lists`, `posts`, `jobs`, `starting` | messages on their way |
| `shown`, `applied`, `shownJob` | `orders`, `processedEventIdsRef`, `shiprocketBulkVerifyJob` |
| `dialog`, `processing` | `pendingRefundOrderId`, `isProcessingRefund` |
| `refunded`, `unanswered` | history: refunds accepted for the open dialog, answers lost |
| `there`, `listReads`, `listRows` (in `ProductList`: `saved`, `reads`, `rows`) | the products, answers on their way, the list with its `__pendingDelete` |
| `bulk`, `timers`, `pending`, `toasts`, `removals` | the bulk change; the 8 s timers, `pendingUndoRef`, the Undo buttons, the requests |
| `had`, `confirms` | history: the statuses a product had, the removals confirmed |

| action | in the code |
|---|---|
| `AllOrders`, `ListAnswer`, `ListLost` | `allOrders`, `fetchAllOrders` |
| `OtherWrite`, `OrderUpsert`, `EventGone` | `publishAdminOrderUpsert`, `onOrderUpsert`; repeated and lost events |
| `ApplyStatusUpdate`, `VerifyLive`, `TakePost`, `AnswerDetails` | a status change; a live verification, or the order's details from a server without that route |
| `SubmitRefund`, `TakeRefund`, `RefundAnswer`, `RefundUnanswered` | `submitRefund`, `refundOrder` |
| `ScheduleDelete`, `Undo`, `ToastCloses`, `TimerFires` | `scheduleDeleteWithUndo`, its toast and its timer |
| `RemoveProduct`, `RemovalLost`, `Removed`, `NotRemoved` | `removeProduct` and its answers |
| `BulkStatus`, `Patch`, `BulkForgets`, `BulkEnds` | `performBulkStatus`, and the server's validation of what it sends |
| `FetchList`, `LeavePage`, `OtherSaves` | `fetchList`; the page is left; another admin |

### Run

* **AdminPage** looks at the orders, the job or the products (`page` is chosen at the
  start: they share nothing that matters to them). One order, two writes and one
  fault for the list; two starts and two lost answers for the job; one product, two
  removals and one change by others for the products.
  `PagesCatchUp`: once the orders rest, the list shows them as they are, whatever
  came late (`PageCatchesUp`); a finished job is not shown as running for good
  (`EndIsSeen`); the row of a product hidden by a removal does not stay hidden
  (`HiddenIsResolved`). `RowsAreReal`: when no bulk change is under way, every status
  shown is one the product really had. `OneRefundPerDialog`: one refund for a dialog,
  but for lost answers.

Fairness: the polls go on while the page is open, and are answered; the job ends; the
timers of removals fire and their requests are answered. Nothing is assumed of events.
One order suffices for the list, and one product: they share no state in it but the
answer to a poll, which replaces all of them.

### Proofs

`Backoffice_proofs.tla`, for any orders, products and bounds: `DialogRefundsOnce`
(`OrdersSpec => []OneRefundPerDialog`, where `OrdersSpec` is the page without its
fairness; `DialogInv`: while a refund is under way its dialog is open and has one
request, and one accepted and not answered is the one more that was refunded), and
`StatusesAreReal` (`AdminSpec => []RowsAreReal`, from `ListInv`: a bulk change remembers
a real status for each of its products (`KnownIsReal`), and a row that shows another
is among those not answered yet or refused (`ShownIsReal`)).

## What the admin keeps of the shop: `Moderation`, `Inventory`, `ProductForm`, `MCBackoffice`

Three pages of the admin client, each with the handlers it calls. `Moderation.tla` is
`admin/src/pages/Reviews.jsx` and `controllers/reviewController.js`: a change of status
is shown before it is saved, and the first publication is rewarded with points.
`Inventory.tla` is `admin/src/pages/Inventory.jsx`: each row has a draft, saved alone or
with all others, while checkout takes units. `ProductForm.tla` is
`admin/src/components/ProductForm.jsx` and what `controllers/productController.js` and
`services/productFitProfileService.js` make of it: which images a product ends up
with, and whether it has the measurements the fit assistant needs.

| variable | in the code |
|---|---|
| `review`, `paid` | the reviews' `status` and `rewardPointsGranted`; rewards paid |
| `requests`, `reads` | changes and lists under way; `copy` is the document a change read |
| `rows`, `cards` | the list of the page; `metrics`, its summary cards |
| `crossed`, `excused` | history: the list was read, or the row changed again, during a change; rewards two requests were at together, or that a failure hid |
| `stock`, `stockShown`, `draft`, `saves`, `savingAll` | `product.stock`; `products`, `drafts` of the page; saves under way, of one row or of "Save all" |
| `overtyped`, `unsaved` | history: rows typed into during a save; what a failed save would have saved |
| `slots`, `sizes`, `measured`, `template`, `enabled` | `imageSlots`, `sizes`, `sizeMeasurements`, `measurementTemplate`, `fitEnabled` |
| `product` | the stored product |

| action | in the code |
|---|---|
| `CreateReview`; `Read`, `Award`, `Save` | `createReview`; `updateReviewStatus` with `awardLoyaltyPoints` |
| `SetReviewStatus`, `SaveAdminReply`, `PerformBulk`, `OtherModerates` | the page's requests, by button or key, and those of another moderator |
| `Answered`, `Adjust`, `BulkEnds`, `FetchReviews`, `ReviewsAnswer` | what their answers do to rows and cards |
| `UpdateDraft`, `StageRestock`, `Discard` | `updateDraft`, `onRestockConfirm`, `discardRow`, `discardAll` |
| `SaveOne`, `SaveAll`, `TakeSave`, `Saved`, `NotSaved` | `persistOne`, `saveOne`, `saveAll`, `updateProductInventory` |
| `ChangeImage`, `ClearImage`, `AddSize`, `RemoveSize`, `UpdateMeasurement`, `SetFit` | the form |
| `Submit` (`Valid`, `FormReady`), `Save`, `SaveFails` (`ImageList`, `ServerReady`) | `validationIssues`, `onSubmitHandler`; `addProduct`, `updateProduct`, `buildImageList`, `buildFitProfileSummary` |

### Run

* **Backoffice** looks at the reviews, the inventory or the form (`section`). Two
  reviews, two changes, one fault; two products of one unit, one save of each row and
  one lost answer; three image slots, two kept images, two sizes, a template with one
  measurement and one with two. `RewardOnce`: however often a review is published and
  by whom, its reward is paid once, unless two requests were at it together or one
  failed after it paid. `CardsCountRows`: between requests the cards count the rows
  shown. `TypedIsKept`: what was typed into a row whose save failed is still there
  (`FailedIsKept`); a product has the images of the slots in their order, none twice,
  but for kept ones behind a replaced one (`ImagesAsInSlots`); and one offered with the
  fit assistant has the measurements the server counts (`EnabledIsReady`).

Two changes of one review are what it takes to overlap; a second review is there for
the bulk change and the cards. Three slots are the fewest with a kept image before,
at and behind a replaced one. The exemptions are the disagreements below.

### Proofs

`Backoffice_proofs.tla`, for any reviews (finitely many), products, stocks, slots,
images, sizes and templates. `RewardPaidOnce` (`ReviewsSpec => []RewardOnce`) is from
`RewardIsGranted`: what was paid is stored with the review, or excused, or its payer is
about to store it, and is alone with it (`OneAlone`). `CardsAreRight`
(`ReviewsSpec => []CardsCountRows`) has an invariant with a quantifier: there are rows
as they were before the changes under way, and the cards count those (`Before`);
each answer moves one review in them. `TypedStays` (`BackofficeSpec => []TypedIsKept`)
has `SavesAreDrafts` for the inventory: a save under way is the draft, unless it was
typed over. For the form, the list of images is computed by a recursive function, so
what it contains is proved by induction on the slots (`PickFacts`, `ListOfSlots`), with
the induction that `Sums.tla` derives from the well-foundedness of numbers.
## Disagreements between the code and what the repository says of it

Two have a run that TLC refutes. **CheckoutVerifyRace** (`OneOrderPerPayment`):
verify and a webhook both read the attempt before either stores its order, and
make two paid orders of one payment. **RefundReportedTwice** (`FailureCreditedOnce`):
a webhook and the reconciliation job both read a refund as PENDING, and both credit its
failure to bucket and ledger (`services/refundService.js:533-554`), where the comment
of the function (521-522) says: "Idempotent per (refundId, gatewayStatus,
gatewayUpdatedAt)."

These contradict a line of the repository too, and are in the models:

| where | what happens | what is said |
|---|---|---|
| `services/refundService.js:103` | `lazySeedRefundablePaise` takes a bucket that refunds in flight have emptied for one of a legacy order, and fills it again | the same file, 10-12: only one caller wins the decrement |
| `jobs/refundReconciliationJob.js:31` | a refund whose process died before the gateway call has no gateway id: the job does not select it, its paise stay reserved | `REFUND_SYSTEM_IMPLEMENTATION_PLAN.md:370`: the job marks it failed and releases them |
| `jobs/_runLockedJob.js:68` | `acquireDistributedLock` always returns an object, so `if (!lock)` is never true and the work is done without the lock | the same file, 3: "skip if another instance holds it" |
| `controllers/orderController.js:791` | an online checkout refused for its stock gives its points back twice, the second time out of what another order has reserved | the end-to-end test of checkout expects reserved points to be the order's |
| `services/orderStatusService.js:371` | the update to a status of the pipeline has no guard: an order cancelled or delivered since the request read it goes back to "Shipped" | the same file, 287: "Cancelled orders cannot be moved back into the fulfillment pipeline." |
| `services/orderStatusService.js:149` | so revived, it may be cancelled once more by a request that still holds its first copy, and gives its unit back twice | the same file, 162-163: "avoid double-releasing inventory" |
| `services/shiprocketWebhookService.js:1120` | two background tasks at one order: the one that read it earlier writes "Out for delivery" over "Delivered" | `SHIPROCKET_INTEGRATION_PLAN.md:1101`: "Never downgrade a final state" |
| `services/whatsappService.js:515` | a request without an answer is sent again, although the message may have gone out | `WHATSAPP_SETUP.md:41-42`: "never produce duplicate WhatsApp messages" |
| `services/shiprocketService.js:1452` | when answer and search both fail the order is shown for retry, and the admin's forced retry creates before it searches | `SHIPROCKET_INTEGRATION_PLAN.md:701-703`: "first call `findOrdersByReference`" |
| `services/shiprocketService.js:1361` | the sync does not look at the order's status: an order cancelled before or during it is created at the courier and stays there | `services/orderStatusService.js:176-178`: "so the shipment is not dispatched" |
| `services/shiprocketService.js:359` | the fallback to the courier's grand total is never taken: the products' discount is always a number, so there always is a component; an answer with nothing but a grand total is read as a subtotal and shows a mismatch for a discounted order | the same file, 322-323: "use the grand-total fields only as a fallback when no components are present" |
| `admin/src/pages/List.jsx:9` (removal) | Refresh shows a removed row again; a second removal of it takes the first one's place in `pendingUndoRef`, so Undo stops the newer timer only and the product is deleted after "Restored"; leaving the page stops the timers, and a product reported as removed stays | the same line: "queues real DELETE only after undo window expires" |
| `admin/src/pages/List.jsx:7` (bulk) | a bulk change sends the id and the status; the server's schema requires stock and threshold too (`validation/schemas.js:313-318`) and refuses every one | the same line: "Bulk select + bulk archive / set draft / set active" |
| `admin/src/pages/Reviews.jsx:273` | a list that is read, or a second change by keyboard, while a change is under way leaves the cards counting something else | the comment beside it: the summary cards "stay accurate until the next refresh" |
| `client/src/pages/Cart.jsx:67`, `PlaceOrder.jsx:1221` | the cart shows delivery as free from 999 on, and the checkout page says so; server and page charge it always | the server's rule, `services/checkoutPricingService.js:120` |

Met while modelling, with no statement in the repository that they contradict:

* Checkout, `controllers/orderController.js`:
  * 767: the gateway fails after the attempt was created: the catch block
    releases stock and points, and then marks the attempt, which releases both
    again. The stock grows.
  * 602: a step after the creation of a cash order fails: its stock and points
    go back, its order stays, the customer is told that none was placed.
  * 362 and 389: a cancel request and a verify or webhook overlap: the order is
    created and its stock released.
  * 408: a payment captured after its attempt was cancelled, or after an earlier
    try failed, gets no order; the webhook fails, was stored before (1144), and
    its repetition is acknowledged as a duplicate.
  * 450: a crash between the paid order and `createdOrderId` on the attempt makes
    the next report create a second order.
  * `models/paymentAttemptModel.js:114`: the TTL index deletes an open attempt
    and with it the only record of the stock it holds.
* Refunds, `services/refundService.js`:
  * 363: the projection loses a version conflict and throws into the catch block
    of `initiateRefund`: the gateway has paid, the bucket is credited. In the webhook's
    handler (600) the same conflict leaves the order as it was projected before, until
    the next projection.
  * 392: the catch block credits the bucket and leaves the ledger's debit.
  * 413: the transition is tested on the handler's own copy; a state that a
    webhook stored meanwhile is overwritten.
  * 462: two admins mark one bank transfer between each other's read and save:
    two debits.
  * 554: a late `refund.created` takes a failed refund back to pending, for which
    nothing is reserved any more.
  * 652: two retry jobs (the lock does not keep them apart) count two gateway calls as
    one; 675: a retry reserves nothing, although the failure released the bucket.
  * `models/refundModel.js:126`: `gatewayRefundId` defaults to the empty string,
    which the sparse unique index takes for a value: a second refund without a
    gateway id cannot be created.
  * `jobs/refundRetryJob.js:25`: a refund whose retries are used up is not
    selected, so the job never marks it permanently failed.
* Jobs:
  * `services/shiprocketBulkLiveVerificationService.js:319`: the progress report
    rebuilds `lastRunResult` from a poll that saw no request, and so drops a
    cancel request written since; the comment speaks of flags "already captured".
  * the same file, 917: an error between acquiring the lock and the job's try
    block leaves the lock to its expiry.
  * `services/shiprocketWebhookService.js:962`: a drain that is refused the lock
    writes "skipped" over the state of the drain that is running.
* Order status, `services/orderStatusService.js:391`: an error or a crash between
  the update that delivers an order and its effects loses them. A repeated
  request, or the retry of the webhook, finds the order delivered and does nothing.
* `services/loyaltyService.js`: 275, a release is clamped at zero, so one that
  comes too late takes what another order has reserved; 549,
  `cleanupStaleReservations` is called from nowhere.
* The courier:
  * `services/shiprocketService.js:1409`: two syncs of one order at once make two
    courier orders; 1502: the write of the courier's ids fails, and the catch block
    stores the order for retry with none, which makes a second shipment; 1533: a failing
    sync writes back the ids it read at its start.
  * `controllers/webhookController.js:70`: a webhook that could not be recorded is
    acknowledged all the same.
  * `services/shiprocketWebhookService.js:796`: an event whose worker died in its
    last attempt stays "processing" and is not counted as exhausted.
  * `services/whatsappService.js`: 603, a failure frees the lock of whoever holds
    it; 672, a sent message whose mark fails is sent again.
* Prices: `services/checkoutPricingService.js:157`, a coupon's uses are counted
  before the order exists, so checkouts under way at once exceed its limit;
  `controllers/orderController.js:556`, an order is priced anew, and a change since
  the quote is charged without a word; `services/loyaltyService.js:84`, a limit set
  to 0 means none on the server and nothing in the browser;
  `client/src/pages/PlaceOrder.jsx:204`, the page shows, and takes orders at, a total of 0
  until its catalogue is in; 344, a preview that comes late is shown as the total of
  the units the page has by then; 839, the page drops its idempotency key on every
  error, so a second try after a lost answer is a second order.
* The admin's pages (`admin/src`):
  * `pages/Orders.jsx:1026`: a refund whose answer was lost is sent again under a new
    idempotency key, as a second refund; 676: the page's audit of an order that came
    without one expects a subtotal by the formula of an earlier version.
  * `services/shiprocketBulkLiveVerificationService.js:172`: the scope
    "not_verified" queries failed verifications and then rejects them; an order
    that was never verified is queried as a high risk and rejected as clear.
  * `services/shiprocketService.js:1087`: the logged final amount of a payload leaves
    out the discount.
  * `components/ProductForm.jsx:465` sends the kept images by slot, and
    `controllers/productController.js:33` drops the empty slots: replacing an image
    that is not the last loses a kept one behind it.
  * `pages/Inventory.jsx:134`: a save writes the number typed over the units that
    checkout reserved since; 154: its answer replaces what was typed meanwhile.
  * `controllers/reviewController.js:231`: points are awarded before the review is
    saved, so two publications at once, or a failure in between, pay twice. A reply
    sends the status shown, and a status the reply shown, however old.
* Fit: `services/mlGatewayService.js:571`, scans the service cannot read count as
  its failures, and three of them send everyone to the rules for 30 seconds;
  `services/fitRecommendationService.js:230`, what the rules made in the meantime is
  cached for 12 hours.
* Not in the models: `admin/src/pages/Marketing.jsx`, a broadcast edited in a form that
  was opened before it was sent is stored as a draft again, and sent twice;
  `client/src/components/fit/FitAssistantModal.jsx:555`, a camera that is granted after the
  assistant was closed stays on.
* `controllers/cartController.js:30` and `controllers/productController.js:324`: a
  cart, and a product's stock in the admin's form, are read, changed and written
  whole; the later of two writes wins, over reservations made since.

`PROJECT.json` lists as hazards the forty that properties are about; this section
holds those that no property covers because the code does not keep one.

## Assumptions

* MongoDB's single-document operations are atomic, and the unique and TTL indexes
  of the schemas exist. (`config/mongodb.js:37` builds them only outside
  production; there they must have been created by hand.)
* Mongoose refuses to save an array that another save changed (`__v`); external.
* Instances agree on the clock.
* Ids drawn at random differ.
* Razorpay does not lose an accepted refund or a captured payment. It does not
  recognise a repeated refund call either (`razorpayService.js:164` puts the key
  into the notes only). What it does besides is the models' choice: every order and
  repetition of webhooks, none at all, failure.
* The courier, the message platform and the ML service answer or time out. The
  courier may refuse a reference it has or take it again; webhooks come in every
  order, again, or never.
* Amounts are whole paise and percentages round to a paisa, where the code
  computes in floating-point rupees and rounds with `toFixed(2)`.
* The named bounds: `MaxFaults`, `MaxTime`, `MaxRetries` (the code's `maxRetries`, 3),
  `ThrottleLimit`, one declined payment per checkout, `MaxRequests`, `MaxAttempts`
  (5), `MaxTries`, `Batch`, `MaxMade`, `MaxOrders`, `MaxVisits`, `MaxQuotes`,
  `MaxEdits`, `Threshold` (3), `MaxEntries` (500), `MaxWrites`, `MaxMisses`, `MaxStarts`,
  `MaxLostPolls`, `MaxConfirms`, `MaxChanges`, `MaxLosses`, `MaxStock`, `MaxSaves`, `MaxLost`.

## What is only model-checked

Liveness is beyond the prover: `PaymentsAreSettled`, `PendingIsResolved`,
`DeliveredIsRewarded`, `EventsSettle`, `RequestsEnd`, `RequestsAreServed`,
`PagesCatchUp`. The violation of `OneOrderPerPayment` is TLC's.

All other properties of the runs are theorems, for every value of the constants that
the assumptions of the modules admit. These are finite sets of handlers, orders, keys and
the like where something is counted or summed, and bounds that are numbers; hypotheses
of a theorem beyond its specification are in its statement and explained with it. The
library's induction theorems cannot be used here, because they take a predicate as a
parameter; what is needed of induction, on numbers and finite sets, is derived in
`Sums.tla` with sets in place of predicates. The fairness of a specification plays no
part in a theorem. No module declares a RECURSIVE operator.

## Not modelled

`PROJECT.json` gives a reason for each component.

* What only reads or sends: dashboards, pushes, e-mails, marketing, reports.
* Single-document CRUD: reading the catalogue, cart, accounts, settings.
* The refund routes' idempotency middleware: `RefundService` is checked with two
  requests it let through.
* Of the checkout page: buy-now, the address form, its idempotency key (in
  `Checkout`), the difference between cash and online but for the time between;
  which of several messages a refused quote shows.
* Of coupons: dates, creation, deletion. Of a product: everything but its images, sizes,
  measurements, status and stock.
* Of the courier: tracking fields, addresses, parcels.
* Of the fit assistant: which size is recommended (weights in floating point), the
  health probe, the stored measurements, the Python service.
* Scripts and migrations.

About a fifth of the repository's lines is behind a definition. Most of the
rest is markup and forms of the two React clients (
`FitAssistantModal.jsx`, `Product.jsx`), payload building and
formatting, the scoring of sizes, scripts: code whose behaviour over time is one
request and its answer, which the models of the server take as input.

## Plan

Done: the modules above with their theorems. What is left, in this order:

1. Refund idempotency middleware in front of `RefundService`: what is replayed is
   what was answered, and a request that died does not block its key.
2. A composition `Orders` of `Checkout`, `OrderStatus` and `RefundService` over one
   order, so that `OrdersAddUp` extends to the end of its life; an abstract shelf (units
   move between shelf, reservations and sold) that it implements.
3. The camera and the late answers of `FitAssistantModal.jsx`; referral codes and tiers;
   the cart's requests; the marketing job's lock.
