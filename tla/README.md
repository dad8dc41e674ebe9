# Verification of Furmosa HQ

Furmosa HQ is the back office of a pet brand: a Next.js application on one PostgreSQL database (Prisma), with a LINE
customer app (LIFF) and LINE bot, a point of sale for partner shops, a Shopify intake, orders and shipments, inventory
and settlements. Requests run in parallel on stateless servers, so the database is the only thing they share: what is
hard here is what two requests do between the reads and the writes of each other.

This directory models the parts that move money, goods and messages. TLC checks each on small instances; TLAPS proves
the safety properties for every size.

## The system

| part | state | operations | interacts with | module |
| --- | --- | --- | --- | --- |
| refill orders and payments, `lib/refill` | `refill_orders`, `payment_orders`, `jar_codes` | create, refresh, cancel, checkout, gateway callback | ECPay, notification jobs | `RefillOrders`, `ChargeLedger` |
| hand-over of refills, `lib/refill/merchant.ts` | order row, `merchant_refill_stocks` | complete the delivery, mark the jar as missing | shop stock | `RefillOrders`, `ShopShelf` (mirror) |
| notification jobs, `lib/automation` | `automation_jobs` with a lease | enqueue, claim, push, record, retry, fall back | LINE, cron, the request that wrote the job | `AutomationJobs` |
| jar codes, points, rewards, `lib/jar-exchange` | `jar_codes`, `points_ledger`, sales | enter a code, void it, adjust, take a reward | coupons, refills | `MemberRewards` |
| coupons, `lib/coupons` | `customer_coupons` | exchange, verify, redeem, expire | points, settlements | `MemberRewards` |
| booking, `lib/booking` | `appointments`, schedule | request, confirm, move, cancel, remind | LINE | `Booking` |
| two-piece campaign, `lib/line/campaigns/jiba-unbox`, `lib/campaigns/jiba-two-piece` | application, conversation, order, shipments | converse, submit, review, declare, verify, repair, ship | LINE, HQ orders | `JibaUnbox` |
| shop stock and POS, `lib/pos`, `app/(main)/merchants`, ownership triggers | `merchant_stocks`, movements, batches | sell, receive, count, undo, mirror a refill | settlements, receipts | `ShopShelf` |
| settlements, `lib/settlements`, `lib/pos/store-settlement.ts`, `app/(main)/settlements` | `settlements`, source items, locks | preview, confirm, withdraw; create, move, delete | shop stock, coupons | `Settlements`, `ShopLedger` |
| HQ warehouse, `lib/inventory` | stock, purchase orders, receipts, stocktakes | receive, cancel, count, book out | shipments | `HqStock` |
| HQ orders and shipments, `app/(main)/{orders,shipments}`, bulk inventory triggers | `orders`, `shipments`, ledger entries | create, edit, mark, cancel, refund, receive | warehouse, shops | `Fulfillment` |
| vendor settlements, `lib/vendor-settlement*.ts` | `vendor_settlements`, their items | make a month's statement, move its status | HQ orders | `VendorSettlements` |
| contract of the point of sale, `lib/pos/domain-contract.ts` | none: pure functions nobody calls yet | complete a refund, decide a dispute | settlements | `RefundContract` |
| subscriptions, `lib/subscription-*.ts` | schedule rows and their boxes | write the schedule, make boxes (cron), move a row, move a box | HQ shipments | `Subscriptions` |
| restock requests, `lib/restock-request` | requests | submit, edit, reject, convert | HQ orders | `RestockRequests` |
| Shopify intake and order review, `lib/shopify`, `lib/orders` | webhook rows, orders, shipments, audit log | take in, recover, reconcile, review, carrier events | HQ shipments | `WebOrders` |

What makes it hard:

* **Reads outside transactions.** Most handlers read the row they act on, then open a transaction, and write by id.
  Some update on a condition (`updateMany ... where status`), take the row `FOR UPDATE`, take an advisory lock or run
  SERIALIZABLE; READ COMMITTED is the default. Each module says which of its handlers does what.
* **Triggers.** Stock of HQ and of the shops is booked by PL/pgSQL triggers of every commit that touches a document.
  They, and not the handlers, are what keeps the books right when a handler writes what it read too long ago.
* **Callbacks and webhooks.** ECPay repeats a callback until it reads `1|OK`, Shopify delivers late, twice and out of
  order, LINE repeats messages, and customers press a button twice.
* **Crashes.** A serverless request may end between two commits. What must survive is in the transaction; what is done
  outside it must be repeated by somebody (the cron, a repair, a unique key that makes a retry harmless).
* **Leases and clocks.** A job that is pushed longer than its lease is claimed again; reminders are due in windows.

What makes each part correct is stated under *Runs*.

## Modules

### `RefillOrders`, `ChargeLedger`

A request in flight is a record of `req`: the stage it is in, the row ids it was called with, and the values it has read
and will act on (`seen` is the order's status, `amount` the price). A stage is one database read whose result is used
later, or one commit. A transaction that takes `SELECT ... FOR UPDATE` before it decides is one action (`Cancel`,
`CompleteDelivery`), with one exception: the qualification refresh holds the lock while it looks for jars, which the
lock does not protect, so it goes through `RefreshRead`, `ReserveRead`, `ReserveClaim`, and `RowLocked` makes the other
writers of the row wait. Conditional updates are tested in the step that writes; the unique indexes (`idempotency_key`,
the paid-only index of `payment_orders`) abort the transaction that violates them.

| action | code |
| --- | --- |
| `CreateRead`, `RefreshRead`, `ReserveRead`, `ReserveClaim` | `createRefillOrder`, `refreshUnpaidOrderQualification`, `reserveAvailableJar` |
| `Cancel` | `cancelUnpaidRefillOrder` |
| `RedeemJarCode` | the part of `redeemJarCode` the orders see |
| `PayRead`, `PayWrite` | `initiateRefillPayment` |
| `RefuseRead`, `RefuseWrite` | `handleEcpayCallback` with another code than 1 |
| `CallbackRead`, `CallbackCheck`, `CallbackSettle`, `CallbackDuplicate` | `handleEcpayCallback` with code 1 |
| `CompleteDelivery` | `completeRefillDelivery` |
| `MissingRead`, `MissingWrite`, `MissingPayRead` | `markMissingContainer` with the choice `topup` |
| `GatewayCharges`, `GatewayDeclines` | ECPay (external) |
| `Crash` | the end of a serverless request between two stages |

`Ops` names the handlers a configuration calls. `DeclineThenCharge` is the one assumption about ECPay that decides
something: whether a trade that was refused can still be charged. Jars belong to one customer; amounts are those of
`constants.ts`. Two statuses are left out: `old_container_verified` and `expired` are written only by flows that
answer 410 (`legacy-merchant-flow.ts`) or by nobody. `markMissingContainer` with `keep` writes a note only.

`ChargeLedger` is the abstract promise: every charge ends, for good, as the payment of its bill or as a refund that is
due. `RefillOrders` implements it under its fairness: `EveryChargeIsSettled` is the abstract specification, substituted.

### `AutomationJobs`

A worker is the request that wrote a job, a cron run (`scripts/process-automation-jobs.ts`) or the cron route. `Claim` is
the conditional update, `ReadJob` the read that follows it, `Push` the call to LINE with all it may end in (delivered,
refused, delivered but the answer lost), `RecordSuccess` and `RecordFailure` the updates by id. Time is two facts about
a row: its next attempt is due, its lease has run out. Nothing in `push.ts` keeps a push within its lease, so a lease
may run out at any time; the ghost `late` counts how often it did in somebody's hands, and the properties say what still
holds then.

### `MemberRewards`

Codes, the points ledger, rewards and coupons. A handler looks before its transaction and again inside; what counts is
the commit: a conditional update of the code or coupon, and the advisory lock under which the ledger's last balance is
read (`BalanceNow`). So each handler is a read step, which may refuse, and a commit. `RedeemCommit` ↔ `redeemJarCode`,
`SaleWrite` ↔ the sale record that is written after the reply, `Void` ↔ the voiding by HQ, `CouponCommit`,
`VerifyWrite`, `ConfirmWrite`, `Expire` ↔ `lib/coupons/service.ts`, `Adjust` ↔ the manual adjustment with its
`requestId`. A ledger row is taken to be newer than those before it, although `createdAt` comes from several servers.

### `Booking`

The appointments of one shop. Only the transactions that take a place (`BookBegin`/`BookCommit`:
`submitCustomerBooking`, `createMerchantAppointment`) are serializable: a request that read what another commit wrote is
*doomed*. Confirming, moving and cancelling read a row and write it by id. A request that tells the customer goes on to
`TellLoad` and a push; the reminder scan (`ScanBegin`, `ScanNext`) pushes from rows it read before and stamps a row
afterwards (`MarkField`). A push ends in one of the three answers of `pushLineText`: `PushSent`, `PushFails` (an error of
LINE, which is never marked) and `PushSkipped` (a deployment without LINE, or with its external effects off,
`push.ts:38-52`), which the scan and the notices take for a success: they write their marks though nobody was told. Time
is ticks; a slot is the tick it starts at, the tick before is its two-hour window and the day before its one-day window.
Ghosts: `told` and `withheld` (the reminders that went to LINE and those that were skipped), `peak` (the largest capacity
the shop ever set), `raced` (slots of a confirmation or a move whose reads were overtaken), `untold` (moved appointments
whose notice is still owed), `crossed` (appointments a mark was written on for a time they no longer had).

### `JibaUnbox`

One customer's campaign. Only approvals, declarations and repairs are transactions (`ApproveCommit`, `DeclareCommit`,
`RepairCommit`). Any other handler looks once at the rows and then does a list of writes, each committed on its own:
`task[r].todo` is what request `r` has still to do, and `Dropped` loses the rest of it. `Answers` gives, for each step of
the conversation, the lists its handler may produce (`flow.ts`, the cases of the switch); `Step(r, what)` takes the next
write. Ghosts: `submitted`, `agreedOnce`, `verified`, `recalled` (the staff cancelled a parcel). Texts, formats of
fields, the store search, the part of the conversation before an application exists and the audit log are left out.
Nothing in the code writes `upsellAmount`, so the shipping fee is always due.

### `ShopShelf`, `Settlements`, `ShopLedger`

`ShopShelf` is the quantity of each size of a product, its movements and its batches. Counter sales and receipts are
conditional or relative updates and one action each. The back office (`createMerchantSale`, `adjustMerchantStock`,
`undoMerchantStockMovement`, ...) runs SERIALIZABLE: `Begin...` takes the snapshot, `Commit...` writes the absolute
quantity computed from it, and is possible only while the row is as it was. `CommitMirror` is the delivery of a
refill, which updates each row on the quantity it has seen. The ownership triggers are operators: `Booked` (a receipt
opens a batch, after an opening balance), `From` (the oldest batch first), `Bill` (what of it a settlement bills),
`Restored` (undo). Ghosts: `clamped` (an undo stopped at zero), `torn` (an undo of a movement that had no batches).

`Settlements` works on the same movements. A confirmation goes through every read it makes before its transaction
(`ConfirmFindPrior`, `ConfirmLoadSales`, `ConfirmLoadItems`, `ConfirmCount`), the attempts with their numbers
(`Attempt`, `AttemptAgain`) and `AttemptCommit`, where the unique indexes and the counts of the conditional locks decide.
`Withdraw` is a conditional update; the legacy handlers (`LegacyRead`/`LegacyWrite`, `StatusRead`/`StatusWrite`,
`DeleteRead`/`DeleteWrite`) read and write apart. Amounts never change once a source exists, so the digests of a preview
are its set of sources. `ShopLedger` composes the two over `txns`.

### `HqStock`

A purchase order in deliveries (`ReceivePurchaseOrder`), receipts without an order, cancellation, goods booked out, and
two counts: `applyStocktake` (`StocktakeBegin`, `StocktakeCommit`, `Conflict`, `StocktakeRetry`: serializable with
retries, an absolute quantity) and `countInventoryQuantities` (`OpenCount`, `SubmitCount`: writes only over the version
its page was opened with). `CumulativeShare` and `AllocateCommonCost` are the integer arithmetic of
`partial-receipt.ts`, in cents. `journal` is the sum of the movements, `bought` what receipts added. The average cost
per gram, attachments and units are left out.

### `Fulfillment`, `RestockRequests`

`HqTriggers` is the gate every write of an order or a shipment passes, whatever handler makes it: `Refused` (what the
trigger raises) and `Marked` (who is eligible for the books). `WebOrders` and `Subscriptions` use it too. Here every
write goes through `Commits`, which runs the gate and then `OrderSynced` and `ShipmentSynced` (out once, back once).
Handlers of HQ are a read that checks (`MarkRead`, `StatusRead`, `EditRead`, `ConsolidateRead`) and a write by id;
`Receive` (`confirmMerchantRestockReceipt`) and the conversion of a request (`Convert`) are conditional updates.
`CountShelf` is a shop that counts goods which are on their way already. `draft` and `packed`, and a delivered order,
are merged with the status beside them, since no rule tells them apart. One shipment per order and one line per
document.

### `VendorSettlements`

One month of the vendors whose goods HQ sells on consignment. A statement is one transaction in two reads at READ
COMMITTED: the orders (`DraftOrders`), then their lines (`DraftLines`, with the check that all of them are safe to
settle), and the write (`DraftWrite`), which fails if a line is gone or in another statement. `Sell`, `EditSale` and
`SetStatus` are the order pages between them; an edit rewrites the lines, which the foreign key of an item refuses
(`LinesFree`). `Allocated` is the discount by largest remainder, `Credit` the share of the house. Ghost: `misread`
(orders whose discount was edited between the two reads). Currencies other than TWD block a statement and are left out.

### `RefundContract`

A sold line, its refund requests, a redeemed grooming voucher with its disputes, and the settlement that has both.
`Complete` is `completeApprovedRefund` with what it calls; `Reversal` is the commission given back, `Entered` the period
an entry goes to. The contract asks its caller to hand in the rows as they are and to write the answer in one
transaction (`POS-01-DOMAIN-CONTRACT.md`, 3.5), so a call is one step. The totals the functions sum over the answered
refunds are the variable `returned`, since answers never change; `books` is what the shop owes in this period and the
next; `approved` (a ghost) is what the settlement said when it was approved. A repeated key gets its answer again or is
refused, so keys are left out.

### `Subscriptions`

The schedule of one subscription. The cron reads the rows that come near and have no box (`SyncRead`), and makes the
boxes in a second statement that passes over those which have one (`SyncWrite`); `SyncDies` is a run that ends between.
A clerk moves a row (`RowRead`/`RowWrite`) or a box (`BoxRead`/`BoxWrite`) by id, and the transaction of each page writes
both tables (`Leaves`) unless the trigger refuses the box. The two pages lock the tables in inverse order, so the
database may abort one of them: `PlannerEnds`. Ghost: `crossed` (rows that moved while their box was being made).

### `WebOrders`

One order of the web shop. `source` is the list of versions Shopify has, `event[v]` the webhook row of version `v`.
Intake, review and the old order pages take one advisory lock, so each of their transactions is one action (`Deliver`,
`Recover`, `Reconcile`, `Check`, `Approve`, `LegacyApprove`); the shipment page and the fulfilment and cancellation
webhooks read first and write by id (`MarkRead`/`MarkWrite`, `CarrierRead`/`CarrierWrite`, `CancelRead`/`CancelWrite`).
`Older`, `SameAt` and `Conflicting` decide by `updatedAt`; `Commits` is the database gate with what it refuses.
A row that failed counts its `attempts`, and so does each row of `retry`, which a failed reconciliation leaves;
`TakeUp(v)` is the cron that tries such a row once more, with success (`Recover`) or without (`IntakeFails`), and passes
over one that was tried `MaxRecoveryAttempts` times (`recovery.ts:5`, `:27`). Only Shopify can bring that one back, by
sending it again (`Deliver`).
`shipment.built` is the version that was approved, `shipment.out` the one that was booked out.

## Runs

| run | instance | properties | distinct states |
| --- | --- | --- | --- |
| `refills` | 3 scenes, below: 3 requests; every handler; trades declined and charged | `TypeOK`; `OneWinner`: one paid payment per order and purpose; `DeliveredIsCharged`: no refill leaves before it is charged, or from an empty shelf; `ReservationMatches`: one order per jar, one jar per order; `KeyIsUnique`: a repeated create makes no second order; `PriceIsBacked`: a lower price keeps its jar until the order is cancelled | 1 150 000 |
| `refill_charges` | 1 order, 3 payments, 3 jars of stock, 2 requests, 1 crash; fair | `HandedOnce`: the goods leave once; `EveryChargeIsSettled`: refinement of `ChargeLedger` | 90 000 |
| `automation` | 1 job, 3 workers, 1 crash, leases that run out at any time; fair | `OneHolder`: mutual exclusion within the lease; `PushesBounded`: messages per attempt, crash and late lease; `EveryJobEnds` for good | 194 000 |
| `shop_shelf` | 2 sizes, 2 transactions, 3 movements, every writer | `ShelfExplained`: no update is lost; `LotsMatchShelf`: batches add up; `ConsignedBilled`: only and all consigned goods sold are billed | 275 000 |
| `shop_ledger` | 3 scenes: 1 size, 1 coupon, 2 settlements, 2 requests, 2 attempts; 2 vendors, 2 orders, 2 editions; 3 refunds of a line and 2 disputes | `BilledOnce`; `LocksMatchLines`: a lock and the lines of its settlement agree; `PosEndIsFinal`: what was paid or withdrawn is not touched again; `CreditedIsCollected`: vendors get what customers paid, to the dollar; `RefundsUndoTheSale`: refunds in parts leave the books of what was kept | 865 000 |
| `hq_stock` | 2 scenes: 2 products in up to 3 deliveries; 2 clerks who count | `BalanceIsJournal`; `DeliveredOnce`: nothing beyond the order, closed exactly when complete; `CostsAddUp` to the cent; `CountSeesAll`: no count hides a movement | 191 000 |
| `supply` | 4 scenes: 2 clerks on an order of any kind; a request and 2 orders; a box with 2 clerks and 2 crons; 2 boxes with one of each; fair | `BooksFollowDocuments`: stock follows documents; `ConvertedOnce`; `ArrivesOnce`; `BoxFollowsSchedule`: row and box agree; `EveryDueRowIsQueued` | 284 000 |
| `web_orders` | 3 scenes, below: 3 versions, a reconciliation, failures and the review; 2 clerks and the carrier; fair | `ShippedAsReviewed`, by one live shipment; `ShippedIsNewest`; `EnrolledOnlyByReview`; `FailedIsRecovered`: a failed row is taken in, or tried up to the limit | 742 000 |
| `line_services` | 6 scenes, below | `LedgerAddsUp`, `ReturnCountsOnce`, `CouponPaidOnce`; `SlotsHold`, `RemindersFollowTheTime`; `ReviewedIsComplete`, `SentWasPaid`, `ApprovedIsQueued` | 2 070 000 |
| `booking_moved` | 1 appointment, 2 desks | violation of `WindowsRecomputed` | |
| `supply_revived` | 1 order, 1 clerk | violation of `ReturnedIsNotRevived` | |
| `web_enrolled` | 1 version, 1 failure | violation of `ReconcileEnrollsNone` | |

The **scenes** of `refills` are one constraint on its states. *Race*: one order, one jar, two payments, every handler.
*Queue*: three orders of two bookings and of a key of the client after two jars, before anybody pays. *Checkout*: two
orders after one jar, one of them with a checkout, two requests at a time. Those of `web_orders`: *intake*, three versions
whose webhooks come in any order, one failure, the reconciliation and the review; *recovery*, the same with two failures,
so that the limit is met, and nobody reviewing; *house*, a paid order and its second version on the shipment page, the
old pages and with the carrier.

The scenes of `line_services` share nothing but the run; a scene keeps the variables of the other modules still.
*members*: two members, two codes, two coupons, two adjustments (+2, −1), two rewards, two requests. *places*: three
appointments, two slots, capacities 1 and 2, two desks, the clock at rest. *news*: the messages about one appointment
while the clock makes one tick. *talk*: an application from its first message until it is submitted, two
messages at a time. *desk*: a submitted one that is approved, rejected, returned to the licence, paid and shipped.
*repair*: an approved one whose parcel the staff cancelled. The last two scenes start in the middle: *desk* in the state
*talk* ends in, *repair* in the state after an approval, a shipment and its cancellation. In *desk* a returned
application is unpaid, as it is when its transfer was not declared before.

**Bounds.** The sets of rows and requests are those of each cfg; rows are never reused, so a run stops when the ids
are spent, and all cfgs but `AutomationJobs.cfg` (where a job that ended leaves the cron nothing to do, and leases go on)
say `CHECK_DEADLOCK FALSE`. Two requests are enough for each pair of handlers to race; three where a third must come
between a pair (a winner, a loser of the check and a loser of the unique index; a worker that dies, one that takes over,
one that races the takeover). Three orders over two jars make a request lose its candidate and find another, or none.
Three deliveries of quantities 3 and 2 round twice before the last one absorbs the rest; the common cost 4 − 3 does not
divide. Three movements on two sizes are a receipt, a sale and an undo in any order, with a count between. Two
settlements with two attempts each give the confirmation a prior row, a taken number and a second try. Three versions at
two times are an older one, a newer one and one of the same time. The cron gives a row up after two attempts where the
code says ten, and two failures may come, so that one row may meet the limit or two may fail once each. Elsewhere one
crash, or one failure, can come at any step.

The line of the *refunds* scene costs 5 at 30 %, so that what is left is rounded up and down by turns. In the
*vendors* scene of `shop_ledger` the second order is written once and the second statement stays a draft; the
discounts 1 and 2 over lines 1 + 2 and 1 + 1 + 1 divide evenly, unevenly and with a tie. In *boxes* of `supply` the
rows are due on days 1 and 3, so that with one day ahead the first is near at the start and the second only at the
end.

Symmetry is used where ids are interchangeable, and never in a run with a liveness property. In `line_services` the
requests of the three modules share two values, as do the codes and two of the appointments, so one group serves them.

**Handlers switched off.** `refill_charges` leaves out `markMissingContainer`, and trades that are charged after they
were refused, since the code breaks `HandedOnce` and `EveryChargeIsSettled` with them (below). It leaves out jars too, so
as to afford a third payment and a crash.

**Fairness.** `refill_charges`: `Continue(r)` is weakly fair (a server finishes the request it has taken unless it
dies) and `CallbackRead` strongly fair for a charge that was not answered `1|OK` (ECPay repeats it,
`callback.ts:24-26`, and a slot for a request becomes free again and again). `automation`: `Claim` is strongly fair
because the cron runs every minute and takes every job it can (`docs/AUTOMATION-RECOVERY-V1.md:22-27`); `Work` and the
two facts of the clock weakly. `web_orders`: `TakeUp` is weakly fair because the cron takes up the failed rows that are
below the limit (`recovery.ts:24-27`); it need not succeed. `supply`: the cron that makes the boxes runs every day
(`SyncRead` weakly fair), and not every run dies between its two statements (`SyncWrite` strongly fair); nothing is
assumed of the days. Nothing is assumed of customers, shops or clerks.

## Disagreements of the code with itself

Three are violation runs, since a text of the repository says otherwise:

* `booking_moved`: a scan that read an appointment before it was moved writes its mark after the notice of the new time
  has reset the marks (`reminders.ts:78`), so the new time gets no reminder; `notify.ts:161` says that the reminder
  windows are computed anew after a reschedule.
* `supply_revived`: a shipped order is refunded, which books its goods back, and set to paid again.
  `20260915130000_hq_bulk_inventory/migration.sql:124` returns early, so it counts as shipped with nothing booked out;
  `20261106030000_product_bundle_components/migration.sql:48` says that this may not be.
* `web_enrolled`: a reconciliation whose transaction fails leaves a row that does not say where it came from, and
  `recovery.ts:48` takes it up as a webhook; `intake.ts:102` says that a reconciliation does not enrol old orders.

Others were met while modelling. The models contain them, and the properties are stated so that they hold in spite of
them; there is no run for each.

* Refills: a checkout that read before a cancellation revives the order (`payment.ts:152`); a failure callback
  overwrites a paid order by a status it read earlier (`callback.ts:99`); a trade that was refused and then charged is
  answered and forgotten (`callback.ts:312`); a refresh reprices an order under a checkout (`payment.ts:137`); an order
  of the lower price that was cancelled, and so gave its jar back, may be revived without one (`payment.ts:152`,
  `callback.ts:99`);
  `markMissingContainer` moves an order that was completed meanwhile, and it can be handed over again
  (`merchant.ts:867`).
* Jobs: a push that outlasts its lease is done by two workers (`line-jobs.ts:103`).
* Web orders: an update after the approval clears `omsCheckedAt`, so the gate refuses to ship until the order is
  cancelled; the separate step from `READY` to shipped is always refused; fulfilment webhooks at the same time can
  lower a status; a legacy order with a live shipment that is enrolled is stuck; a row that failed ten times stays
  `FAILED` unless Shopify sends it again (`recovery.ts:27`).
* HQ orders: cancelling a shipped restock order books the stock back while the shop can still receive it;
  `consolidate` cancels by id a shipment that shipped meanwhile; a stale edit or rejection overwrites a converted
  request (`restock-request/service.ts:325`, `:377`); a stale mark puts a received shipment back on its way.
* Settlements: a legacy settlement that is paid between the check and the delete is deleted
  (`settlements/actions.ts:184`); the last number of a month is found by string order, which fails past 999
  (`write-settlement.ts:298`).
* Vendors: a statement made before the month ends never gets the later sales, since there is one per month; a refund
  after it is never taken back (`refundTwd` is written as 0); an edit between its two reads credits an old discount; a
  settled web order cannot be approved again, because the review deletes its lines and the foreign key refuses.
* Contract of the point of sale: a paid order that is cancelled releases its goods when it becomes `refund_pending`
  (`domain-contract.ts:768`) and again when its refund is completed as not handed over (`:2212`); a repeated stock
  operation is answered with the stock as it was the first time (`:713`), which its caller must not store; a dispute that
  is repeated after its settlement was approved is refused as another request, because the status is in its fingerprint
  (`:1372`), while a refund is answered.
* Subscriptions: a month skipped while its box is made still has a box in the queue; two creations at once take the
  same numbers, and one leaves a subscription with part of its rows; rows exist for the first months only and nothing
  makes later ones; a box that was cancelled and shipped later was never eligible, so the trigger lets it go back.
* Points and coupons: an expiry read before a redemption overwrites it (`coupons/service.ts:221`); the sale record of a
  jar is lost with its request and never rebuilt (`redeem-code.ts:91`); the ledger's last row is found by the clocks of
  several servers.
* Booking: `BOOKING-MVP-PLAN.md:82` and `reminders.ts:21` say that a scan every 15 minutes covers the reminder two hours
  before, but `processAppointmentReminders` is called by the daily cron only (`maintain-shipments/route.ts:50`); the
  reminders of a moved appointment are reset only if its notice is pushed; a push that was skipped is marked like one
  that was delivered (`reminders.ts:73`, `:95`, `notify.ts:97`, `:134`, `:152`), and is not made up for once LINE is
  configured; confirming and moving revive a cancelled
  appointment; a move is not serializable (`service.ts:367`); changing `slotMinutes` hides old appointments from the
  occupancy.
* Campaign: the enrolment writes order, application and conversation apart, and an end in between leaves an application
  nobody can resume; a delayed refusal of the licence while the application is submitted, or a submission done twice,
  undoes a review; a stale declaration overwrites a verified payment with a declared one; two live shipments after a
  cancellation by the staff (check, then create); a rejected application keeps its shipment.

## Proofs

The runs check small instances; the theorems hold for every value of the constants: any number of orders, movements,
clerks, requests in flight, crashes. Each safety property a passing run checks is the subject of one. The cfgs replace
no definition, so TLC and the proofs are about the same formulas.

A proof finds the invariant of a module, shows that it holds at first and that every action keeps it (one lemma per
action, and a frame lemma for the rows an action does not touch), and concludes. What had to be added to a property to
make it inductive is the argument why the code is right.

| module | about |
| --- | --- |
| `RefillOrdersProofs` | refill orders, payments, hand-over; refinement of `ChargeLedger` |
| `AutomationJobsProofs` | notification jobs |
| `LineServicesProofs` | `MemberRewards`, `JibaUnbox`, `Booking` |
| `ShopShelfProofs` | the shelf of a shop and its batches |
| `ShopLedgerProofs` | `Settlements` in `ShopLedger`, `RefundContract`, `VendorSettlements` |
| `HeadOfficeProofs` | `HqStock`, `WebOrders` |
| `SupplyProofs` | `Fulfillment` with `RestockRequests`, `Subscriptions` |
| `SumTheorems` | sums over finite sets, sharing by largest remainders |

### Refills

* `TypeCorrect`. `TypeOK` is not inductive: a callback writes the payment and order it was started for, so those must
  exist. `Consistent` adds what each request knows of its rows (`RequestOK`: its payment still belongs to the order and
  has the purpose it remembers, a request that settles is for a charged trade, a candidate jar is registered) and what
  each payment row knows of its order (`PaymentOK`).
* `OneWinnerAlways`. Over `Consistent`: only `CallbackSettle` makes a payment paid, under the paid-only index.
* `DeliveryIsCharged`. `ChargedFirst`: an order which is past its payment, was paid, or has a paid payment, has a
  charged payment for the refill itself. It also follows the stale statuses that requests carry.
* `ReservationAlwaysMatches`. A page load that looks for a jar writes the jar it claimed over whatever the row says.
  This is right only because `Reserved` adds that while a request holds the row between `ReserveRead` and
  `ReserveClaim`, the order holds no jar, and nobody else holds the row. All steps on orders are sorted into seven
  shapes (`OrderStep`).
* `KeyStaysUnique`. `KeysKept`: an order that does not exist has no key, so a create takes a key nobody has.
* `PriceStaysBacked`, with every handler. An action property over the shapes of `OrderStep`: a step that leaves an order
  at the lower price without its jar finds it cancelled, or found it so before (`StaysBacked`). The first is the revival
  under *Disagreements*; everything else writes price and jar together, or neither.
* `RowsImplementLedger`, if a declined trade is not charged (`~DeclineThenCharge`): every step of the rows is a step of
  `ChargeLedger` or a stutter, so no verdict is ever taken back. `Undisputed`: a trade that was refused is not charged,
  a refusal in flight is for one of these, a verdict is of a charged trade. This is the safety half of
  `EveryChargeIsSettled`; without the hypothesis a refused and then charged trade is forgotten (`callback.ts:312`).
* `GoodsLeaveOnce`, under that hypothesis and without `markMissingContainer` (`"missing" \notin Ops`). `Served`:
  nothing was handed over for an order that can be delivered, and what was handed over has a paid payment. That payment
  stays paid, since no refusal in flight is of a charged trade, so no second one wins and makes the order deliverable
  again.

The hypotheses of the last two are what `RefillCharges.cfg` sets.

### Jobs

* `ClaimExcludes`. `Leased`: while no lease of the job has run out in somebody's hands, its holders are one and his
  lease is live.
* `PushesStayBounded`. A bound on what was pushed is not inductive; an account of what is still to come is. `Account`
  adds to the pushes done those a claim still grants (`RowCredit`), and one or two for each holder (`Owed`, `Fresh`);
  every step keeps it below attempts + crashes + 2 × late leases (`WithinAccount`), because a holder who dies or whose
  lease runs out passes to that side what he could still have pushed.

### Members, campaign, appointments

* `LedgerAlwaysAddsUp`, `ReturnsCountOnce`, `CouponsPaidOnce`. Of what a request saw before its transaction only this
  is needed: its coupon exists, and it alone replies for its code. Conditional updates and the lock on the ledger carry
  the rest. `Explained` says which row of the ledger a used code or an issued coupon has, so that no source pays twice.
* `ReviewedAlwaysComplete`, `SentAlwaysPaid`, `ApprovedAlwaysQueued`. Handlers write a list of rows one after another,
  by what they saw at the start. `Facts(a)` are facts about an application that never cease to hold (`Grows`); each
  write presumes some (`Presumed`), and a list in flight is `Sound` when every write finds those it presumes among the
  facts and what the writes before it give.
* `SlotsAlwaysHold`. `ReadHolds`: a request that read a free place of a slot still finds one, unless a commit in
  between has doomed it or overtaken its read.
* `RemindersAlwaysFollow`. `TellsTrue`, `Told`: a message in flight is about the time the row has, or its appointment
  is among those whose notice is owed; a mark is set only after the message was sent or skipped (`Settled`), for the time
  the row then has, or the appointment is in `crossed`.

### Shops

* `ShelfAlwaysExplained`. `ShelfInv` adds only shapes: that a transaction in flight has read an old row is settled in
  its commit, which is possible only while the row is as it was or adds to what is there.
* `BatchesAlwaysMatch`, `ConsignedAlwaysBilled`. `LotsInv` is about each movement and batch: what a live movement took
  of the batches is its quantity, a sale bills the consigned part of it, and what has left the consigned batches is
  what the live movements took of them. So an undo gives back what its movement took. First-in first-out takes what was
  asked for in all (`FirstIn`). What is billed and what is written off are two sums over movements of sums over
  batches; exchanging the order of summation (`SumSwapped`) turns them into what left the batches.
* `BilledOnceAlways`, `LocksAlwaysMatchLines`. A confirmation reads everything before its transaction. `LedgerInv` says
  what stays true of what it read: sources do not disappear, a row stays of its kind, a row to be deleted is none of
  the store's, and an undo has a movement in hand that was not locked. The conditional locks decide the rest in the
  commit.
* `PosEndStaysFinal`, an action property over the same invariant: no request, however old its read, writes a settlement
  that the store made and that is over.

### Refunds and vendors

* `RefundsAlwaysUndoTheSale`. `CommissionGrows`: a rounded commission grows with its amount, so a reversal is never
  negative nor more than was kept. `CommissionAgrees`: the commission given back so far is what the returned part had
  earned, so the sum over the parts telescopes.
* `AlwaysCreditedAsCollected`. `VendorInv`: the line of an item in a statement is still the order's, and the item
  `Fits` it unless its order was edited between the two reads; an item of a draft is right, or known to be misread, or
  its line is gone and the write will fail. That the credits and what is left add up to the dollar is
  `LargestRemainders`: shares by largest remainder are the whole, and nobody's is more than his amount.

### HQ and the web shop

* `BalanceAlwaysIsJournal`, `CountsSeeAll`. `StockInv`: while the version is the one a count has seen, the balance is
  the one it has seen; versions only grow.
* `DeliveriesBookedOnce`, `CostsAlwaysAddUp`. `DeliveryInv`: what was received is the sum of the receipts, and what
  they have landed is the cumulative share of it; the last delivery takes what rounding left. `SharesAreTheCost`: the
  common cost is shared to the cent for every cost, sign and amounts.
* `AlwaysShippedAsReviewed`, `AlwaysShippedNewest`, `EnrolledLeavesByReview`. `WebSound`: a shipment is built for an
  approved order and leaves as it was built, of the version of the order unless that was updated since; and no event
  that was taken in is newer than the version of the order, or as new without the mark of a conflict.
* `BooksAlwaysFollow`, `ShelfFilledOnce`. `BooksOK` is about one order, its shipment and its ledger. `CommitKeepsBooks`
  proves it for any write that passes the gate of the triggers, provided it leaves the lines of a booked document
  alone, so a handler only has to show that.
* `RequestsConvertOnce`. The conversion is conditional on the status; a request that was not submitted has no order
  (`NothingBefore`).
* `BoxAlwaysFollows`. `BoxesInv`: row and box agree for each month, except where the row changed while its box was
  made.

### How sums are proved

A total over a set is a fold (`Sums`). `SumTheorems` shows that the function the fold defines exists and may take out
any element first, and from that what books need: one entry changes and the total changes by as much (`SumUpdated`),
sums of sums, of zeros, over a part, of renamed entries (`SumReindexed`), a table by rows and by columns
(`SumSwapped`). Each induction is written as a smallest subset for which the claim fails, since inclusion is
well-founded on the subsets of a finite set (`SmallestSubset`).

### Assumptions

`ConstantsAssumption` and `NullIsNoBill` (refills), and one named assumption in each other module (`JobConstants`,
`MemberConstants`, `BookingConstants`, `ShelfConstants`, `LedgerConstants`, `SettlementConstants`, `ContractConstants`,
`VendorConstants`, `HqStockConstants` with `NoRow`, `FulfillmentConstants`, `SubscriptionConstants`,
`WebOrdersConstants`). They say that quantities, prices and clocks are natural numbers and rates percentages, that
sizes and lines are numbered from 1, that sets which are counted are finite, and that null is not the id of a row. TLC
evaluates all of them in the runs.

### What is only model-checked

Liveness under fairness is out of the prover's reach, and so is `ENABLED`: `EveryJobEnds`, `FailedIsRecovered`,
`EveryDueRowIsQueued` and the liveness half of `EveryChargeIsSettled`. So are the three disagreements, which are
counterexamples. The theorems are about each part by itself: the scenes of a run, which keep the variables of other
parts still, add nothing to them.

## Not modelled

* Identity of staff and merchants: sessions and secrets of one browser, no state of the business.
* Gateway routes: they parse a form and call `handleEcpayCallback`, whose answers are part of its actions.
* Other LINE conversations: wording and one row per session. Pushing is an external call.
* Catalogue: products and prices are reference data the models take as given.
* Imports and repairs: scripts one operator runs once.
* Pages and reports: they read, or send the forms whose handlers are modelled. Most lines of the repository are these.

In the modelled parts: prices where they follow quantities, capture of Shopify promotions and refunds' audit rows, the
issuing of codes, opening hours, the stock part of the contract, the next shipment date of a
subscription, printing.

## Plan

Modelled, checked and proved are the parts named under *The system*. What is left:

1. Orders and jobs composed: each paid order is told, or falls back to a message of the staff.
2. Shop and refills composed: the delivery of `RefillOrders` and the mirror of `ShopShelf` as one transaction, and
   `BilledOnce` for what the mirror writes.
3. An abstract specification of the books of a document (out once, back at most once), which `Fulfillment` and
   `Subscriptions` both implement, in place of the two invariants.
4. The import of Shopify refunds, and the next shipment date of a subscription.
