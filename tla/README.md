# A verification development for Loja AIAI

Loja AIAI is a marketplace: a Next.js server (`src/src/`) on a PostgreSQL
database (`src/supabase/*.sql`, triggers and functions included), run as
serverless functions or in containers, with four scheduled jobs
(`src/vercel.json`). There is no long-lived process, and the only memory of a
server that matters is the first layer of its rate limits (`Throttle`). **All
of its other state is rows, and all of its concurrency comes from
requests and cron runs that read a row, await, and write** -- some of them
inside one database transaction, most of them not. That is the cut made by every
module here: a database statement, with the triggers it fires, is one step; two
statements with an `await` between them are two.

The modules say what the code does, not what it should do. Where a comment of
the repository promises more than the code keeps, the module has the step that
breaks the promise, the property names that step as its exception, and section 5
says it in words. A property never holds because its run keeps the hard case
away without saying so: what happened is written down in variables of its
own (*history* in the declarations), and an exception is one of those.

Paths below are relative to the repository: `lib/` stands for `src/lib/`, and
SQL files are in `supabase/`.

## 1. The system

| Component | State it keeps | Operations | Modelled in |
|---|---|---|---|
| Order placement and reservation (`lib/actions/orders.ts`, `stock-reservation.sql`, `variants.sql`) | `orders` rows, `idempotency_key` (unique), `is_preorder` | `placeOrder`: find by key, re-price, insert, reserve under row locks, unwind | `OrderStock` |
| Order status (`lib/orderFlow.ts`, `orders.ts`, `seller-orders.ts`) | `orders.status` | `setOrderStatus` and its seller twin: read, check, write; a trigger refuses to move completed rows | `OrderStock`, `Payments` |
| Stock ledger (`stock-ledger.sql`, `size-stock.sql`, `lib/stockLedger.ts`) | `stock_movements`; `products.qty`, kept by a trigger | `sync_order_stock_state`, counting a shelf | `OrderStock` (abstract: `Shelf`), `SizeStock` |
| Reservation expiry (`cron/release-reservations`) | -- | cancels `new` orders that have held stock for 48 hours | `OrderStock` |
| Card payments (`lib/payments/*`, the webhook and return routes) | `payments` (one live attempt per order, by index), `payment_events` (unique event id), `orders.pay_status` | start, webhook, return, refund, void, typed pay status | `Payments` (abstract: `PaymentFlow`) |
| Reconciliation (`cron/reconcile-payments`) | -- | asks the gateway about unresolved rows | `Payments` |
| Message queues (`lib/notify/*`, `actions/notifications.ts`, `cron/send-queued`, `message-queue.sql`) | `notifications`, `customer_alerts` with `attempts`, `claimed_at` | queue, send at once, claim and send, retry, settle by hand, clear | `Outbox` |
| Returns, requests, refunds (`returns.ts`, `return-requests.ts`, `returns.sql`, `refund-settlement.sql`) | `order_returns`, `order_return_items`, `return_requests`, `refunded_at` | record, request, withdraw, approve, decline, settle by hand or through the gateway | `Returns`; the payment's side in `Payments` |
| Purchasing and receiving (`lib/purchasing.ts`, `lib/receiving.ts`, `procurement.sql`, `variant-purchasing.sql`) | `purchase_orders` and their lines, receipt movements, products and variants made on arrival | status buttons, saving the form, deleting, receiving | `Receiving` |
| Sized stock and variants (`size-stock.sql`, `variants.sql`) | per-size balances, a pool of unsized units | reserve by size, count, receive by size | `SizeStock` |
| Supplier returns (`actions/supplier-returns.ts`, `lib/returns.ts`, `supplier-returns.sql`) | `supplier_returns` with lines, `credit_received`, `credited_at`; a chase list that staff look at | send back, credit, close | `SupplierClaims`; what leaves the shelf: `SizeStock` |
| Reporting (`sales-rollup.sql`, `analytics-freshness.sql`, `cron/refresh-analytics`, `lib/data/salesRollup.ts`, `admin/page.tsx`) | two materialized views, `analytics_refresh`, `orders.updated_at` | rebuild every hour; ask whether the views are current, and read them or the orders | `Rollup` |
| Basket and checkout form (`lib/useBasket.ts`, `CheckoutForm.tsx`, `actions/basket.ts`) | lines in the browser's storage, an attempt key in the page | add, change, refresh the ceilings, check out and try again | `Basket` |
| Rate limits and login throttle (`lib/rateLimit.ts`, `rate-limits.sql`, `lib/counterGuard.ts`) | a map per server instance, one row per key | count a call in both | `Throttle` |
| Accounts, sessions, two-factor codes | cookies, hashes, the last accepted code | log in, verify | not modelled |
| Marketplace, payouts | sellers, commission, `seller_payouts` | moderate, invite, pay out | not modelled |
| Catalogue, search, documents, uploads, schema health | single rows | edit, render, read | not modelled |

How they interact. `placeOrder` writes an order and then asks the ledger to
reserve for it; every later UPDATE of `orders.status`, whoever makes it (staff, a
seller, the expiry sweep), runs the trigger `decrement_stock_on_confirm` and so
moves the ledger in the same transaction. A payment moves `orders.pay_status` but
never `orders.status`. Cancelling an order looks at `pay_status` and may ask the
gateway to void. Each change of status queues a message. A refund goes through
the same `applyProviderEvent` as a webhook. The crons are the system's only
second chance: they come back for holds, payments, messages and figures that the
request responsible for them left behind.

What is hard here, and what correctness means, component by component:

* **Placement.** Two checkouts priced against the last unit; a double-click or a
  retry of one checkout; a server that dies between insert and reservation; a
  reservation that commits and is not heard. Correct: no unit is promised twice,
  one checkout buys once, a refused order leaves no movement.
* **Status and ledger.** A decision is written by id after what it was based on
  has changed; a status is repeated; the sweep's cursor is stale. Correct: the
  movements of an order are what its status asks for, it never has more out than
  its basket, holds have a lifetime.
* **Payments.** Webhooks are repeated, reordered, delayed, lost; browser return
  and cron say the same thing meanwhile; a handler dies between journal and
  write; a capture of another amount. Correct: the shop never records money that
  did not move, captured money shows on the order in the end, and a payment only
  advances.
* **Messages.** Two cron runs overlap; a run is ended at its time limit with
  rows in its hand; a request sends without a claim. Correct: one message, one
  sender, a bounded number of tries, and nobody is forgotten.
* **Receiving.** Two clicks receive at once; one press dies half-way and the next
  must finish; a line whose product does not exist yet makes one, and a later
  line, or a later receipt, must find it; a save replaces lines that the ledger
  points at. Correct: what was bought once lands once, nothing is passed over,
  what landed has a date, and lines under receipts stay.
* **Returns.** A return is four writes without a transaction; a request is
  answered after its return was recorded; the refund's answer is lost, or its
  webhook comes first; a status is written afterwards. Correct: no more comes
  back than was bought, money goes out once per return, `pay_status` follows the
  stamped refunds, the shelf keeps what was returned.
* **Sizes.** Two checks per line, by total and by size, over a pool that backs
  every size; counts and parcels that check nothing. Correct: neither a size nor
  the total is sold further than it goes.
* **Limits.** Two layers with windows of different phase, instances that forget,
  a database that is away. Correct: a limit holds in every stretch of time,
  refuses nobody without cause and locks nobody out for good.
* **Figures.** Two views rebuilt by two statements from a book that changes
  between them, dated by the start of a transaction, and read in three calls.
  Correct: views that are called current saw every order, and no page shows an
  order older than when it asked.
* **Claims.** A claim and its lines are two calls; it is answered from a list
  that may be hours old. Correct: what is owed stays on the list, nothing is
  credited twice, no claim is without its lines.
* **Basket.** An answer is lost after the order was made; the basket changes in
  the meantime. Correct: one order per basket, and what is emptied is what was
  bought.

`PROJECT.json` lists every component and, under `hazards`, each of these at its
line.

## 2. The modules

| Module | What it is |
|---|---|
| `Shelf` | what the ledger promises: hold, sell, give back, count; of one shelf per product (`OrderStock`) and of all sizes of one product (`SizeStock`) |
| `OrderStock` | placement, statuses, ledger, sweep and counts, split at every await |
| `OrderStockProofs` | its theorems |
| `PaymentFlow` | what the payment state machine promises |
| `Payments` | one order's payments, every handler of events, the gateway, the desk |
| `PaymentsProofs` | its theorems |
| `Outbox` | the two message queues and everybody who touches a row |
| `OutboxProofs` | its theorems |
| `Receiving`, `ReceivingProofs` | one purchase order from its form to the shelf, and its theorems |
| `Returns`, `ReturnsProofs` | what comes back of one order, and the money for it; its theorems |
| `SizeStock`, `SizeStockProofs` | the shelf of one product by size, and its theorems |
| `Throttle` | one rate-limited key in two layers |
| `Rollup`, `RollupProofs` | the views behind the dashboard, their refresh and their reader; its theorems |
| `SupplierClaims` | claims on suppliers from the chase list |
| `Basket` | the basket of a browser and its checkout, tried until it is answered |
| `SmallPartsProofs` | the theorems about `Throttle`, `SupplierClaims` and `Basket` |
| `MC...` | instances for TLC, one per component module |

Every component module ends with its properties and with the conjuncts of the
inductive invariants that the proofs use. Definitions called `Mutant...` are
plausible bugs; each property is shown to fail when one of them replaces the
definition it stands beside.

### OrderStock

| In the module | In the code |
|---|---|
| `pc`, `answer` | where a call of `placeOrder` is, and the reference it returned |
| `status`, `pre` | `orders.status`, `orders.is_preorder`; a row is named by the attempt that inserted it |
| `held`, `sold`, `orphan` | sums over `stock_movements`: reservations of the order; its sales and returns; rows whose `order_id` went null when the order was deleted |
| `qty` | `products.qty`, which the ledger's trigger changes in the statement that inserts a movement |
| `aged`, `sweeping` | orders older than the window; the sweep's cursor |
| `moves`, `counts` | decisions read and not yet written: `setOrderStatus`, `moveStockTo` |
| `FindByKey` .. `Unwind` | `placeOrder`, an action per await |
| `Reserve` | `reserve_order_stock`: locks, the check, and the movements in one transaction; it does not look at the status |
| `UpdateStatus`, `SyncOrderStockState` | an UPDATE of the status with its trigger; `sync_order_stock_state` writes the difference to the target state, which makes it idempotent |
| `BeginMove`, `FinishMove` | `setOrderStatus(AsSeller)`: the read with `checkOrderTransition`, the write by id behind `block_edit_completed_order` |
| `OpenSweep`, `SweepRow` | `release_stale_reservations` |

`Interference` says which overlaps the environment may produce: `"early"` (staff
act on a row whose placement has not reserved), `"stale"` (a decision is written
after what it read changed), `"crash"` (a server dies between two awaits),
`"lost"` (the reply of a committed reservation is lost). All four happen, and
`stock_faults` has all four. Two histories say what they leave behind: `hurried`
are the rows whose status staff last wrote while the placement was still going
on, `unheard` the attempts whose reservation committed without being heard.

| | stale | crash | early | lost |
|---|---|---|---|---|
| never more out than the basket; one row per key; one key buys once | yes | yes | yes | yes |
| movements match the status | yes | yes | but `hurried` | yes |
| holds expire | yes | yes | but `hurried` | yes |
| a deleted order leaves no movements | yes | yes | but `hurried` | but `unheard` |
| no balance below zero; steps of `Shelf` | **no** | **no** | **no** | yes; **no** |

`reserve_order_stock` does not look at the status, so it puts an order on hold
that staff have already confirmed or cancelled; the sweep looks for `new` rows
and leaves that hold alone until somebody writes the status again. A hold whose
order was deleted after a lost reply has nobody left to come for it. The last
line is why `stock_calm` exists: a late confirmation takes a cancelled order
back and sells without looking at the shelf, an order whose placement died holds
nothing and confirming it sells a unit that may be somebody else's, and a lost
reply makes a hold that `Shelf` has no order for.

### Payments

| In the module | In the code |
|---|---|
| `pc` | `startPaymentForOrder`: look at the order, look for a live attempt, insert, open a session, save |
| `row`, `made`, `redirect` | `payments.status`, creation order, `redirect_url` |
| `gateway`, `posts` | external: what the gateway knows; webhooks, which may arrive whenever, again, or never |
| `journal` | `payment_events`, unique per payment and event id |
| `job[h]` | which step of `applyProviderEvent`, `refundOrderPayment`, `voidOrderAuthorization` or `setOrderStatus` handler `h` is at, and what it read |
| `payStatus`, `order` | `orders.pay_status`; `orders.status` as far as paying depends on it |
| `ReadPayment` .. `Mirror` | `applyProviderEvent`: read, seen before?, judge and journal, write the row by id, mirror to the order |
| `Webhook`, `Return`, `Reconcile` | the two routes and the cron |
| `Cancel`, `LookPaid`, `FindLive`, `AskVoid`, `Refund`, `AskRefund`, `AskGateway` | giving money back; the transaction id is the payment's, so that a repeated request is answered alike |

| `Unresolved`, `Batch` | the cron's query: rows without an outcome, the oldest first, `MaxPerRun` of them |
| `cut` | history: payments whose capture died with a request that had made every repetition of it a duplicate, or had put it on the row alone |

What the gateway took is the sum asked for (`"captured"`), another sum that the
event states (`"short"`), or another sum that it does not state (`"silent"`):
`applyProviderEvent` compares only what is stated
(`lib/payments/service.ts:165`). `RefundReply` and `VoidReply` are what
`mapStatus` may make of the gateway's answer: without an order status in it, a
void or refund that succeeded reads as `captured`
(`lib/payments/providers/mpgs.ts:72`), and both runs allow that. `Taken` lists
what a recorded capture may therefore be, and is all the qualification that
`NeverAhead` and `PaidMeansTaken` have. `"overlap"` lets requests be served at
the same time. Of the rows outside the cron's batch nothing is promised:
`Crowded` rows may starve behind older ones that never resolve.

### Outbox

| In the module | In the code |
|---|---|
| `row`, `attempts`, `claim`, `older` | status, `attempts`, `claimed_at` (null, recent, expired) and creation order of a row of `notifications` or `customer_alerts` |
| `leg`, `left` | which queue a run of `send-queued` is on, and its remaining budget |
| `todo`, `doing`, `reply` | `dispatchNotification`: what a worker has yet to send, what it sent and has not recorded |
| `sends`, `dials` | history: how often the gateway took the message, also after its row was cleared and made again; how often runs called for the row |
| `slips` | history: how often something happened that may have a message sent once more |
| `NotifyOrderEvent`, `Announce` | `notifyOrderEvent` (queue, then send at once without a claim), `queueProductAlerts` (queue only) |
| `StartDrain`, `NextQueue`, `ClaimQueuedMessages` | the cron; `claim_queued_messages` is one step, as FOR UPDATE SKIP LOCKED makes it |
| `Record` | the write by id that ends `dispatchNotification`; for an announcement it is refused |
| `Settle`, `RetryNotification`, `ClearOrderNotifications` | what an administrator may do |
| `Expire`, `Kill` | fifteen minutes pass; the runtime ends a run or freezes a request |

`Record` changes nothing for an announcement because that is what the statement
does: it names `provider_ref`, which `customer_alerts` has not, and (on success)
sets `error` to null, which that table refuses; the error of the update is not
read. Nothing is kept apart: the claim does not see who is sending inline, an
administrator may press an old page's buttons, and any worker may be killed at
any time. `SentOnce` counts: once, and once more at most for every slip -- the
sender died before writing that it had sent; the gateway took the message and
was not heard; it was taken up while somebody was at it, or pressed again when
it no longer waited; it was sent, cleared and queued again by a repeated status.

### Receiving

| In the module | In the code |
|---|---|
| `order` | what the buyer wrote down; a line is known by who inserted it and where |
| `status`, `dated`, `lines` | `purchase_orders.status`, `actual_arrival` is set, `purchase_order_items` |
| `moves`, `products`, `variants` | receipt movements; products numbered by reference; `product_variants` |
| `BeginStatus`, `WriteStatus`, `BeginReceive`, `Delete` | the buttons |
| `BeginSave` .. `InsertLines` | `savePurchaseOrderIn`, an action per await: refuse a form over receipts, compare, write the header, delete the lines, insert them |
| `Load`, `Take` .. `Finish` | `applyReceipt`: the lines it read, and for each the product, the link to it, the variant and the movement |
| `SameCombination` | the unique indexes behind "already received" |

Nothing is kept apart: any two requests overlap, and any may die between two
awaits. What the code cannot keep then is in three histories: `raced` (two
receipts of the order have been under way at once), `crossed` (positions that
landed, or were written over, between a save's look for receipts and its new
lines) and `blanked` (a save emptied the arrival date a button had just found
there). `LandedOnce` excepts the crossed positions and, of those whose variant
is still to make, the ones that raced or that share the name of a new product
with another. Dates are left out but for the two that matter: whether there is
an arrival, and whether the order date is later than today (`ahead`), onto which
`savePurchaseOrderIn` stamps no arrival.

### Returns

| In the module | In the code |
|---|---|
| `ret`, `req` | rows of `order_returns` and `return_requests`, named by the act that inserted them |
| `back`, `shelved` | sums over `order_return_items`: all, and those fit to sell |
| `out`, `pool` | what the order's `sale` and `return` movements take, in its own size and without a size: `apply_return_restock` names no size |
| `gateway` | external: the refund made under the one transaction id that a payment has |
| `BeginRecord` .. `Restocked` | `recordReturn` with the trigger on its lines |
| `BeginApprove`, `ReadItems`, `Answer`, `Decline` | `approveReturnRequest`, `declineReturnRequest` |
| `BeginRequest` .. `RefuseLines`, `Withdraw` | the buyer's side |
| `BeginMark`, `Stamp`, `BeginSettle`, `AskGateway`, `Mirror` | money by hand; through the gateway, with its reply written by `applyProviderEvent` |
| `SyncRefundStatus` | the trigger on `refunded_at` |
| `Move` | a status written afterwards, with what it does to the ledger |

An order may be of sized and unsized goods (`sized`). For the latter the returned
units and the order's own bear the same label and reason, so that the next write
of the status takes them off the shelf again; `asOf` is what had come back when
the status was last written, and `ReturnedIsOnShelf` says exactly that.

The two reads of earlier returns inside `recordReturn` are one; the return
window, reasons and the hand-set `pay_status` are left out. Whoever refunds at
the gateway's portal looks there first.

### SizeStock

`bal` is the view `product_size_stock`, with `NoSize` for the empty string;
`qty` is the total. Each database function is one step, `moveStockTo` is two
(`BeginCount`, `FinishCount`). `loose` and `lost` are history: units that left
under no size and are still out, and of these what was counted away or sent
back. They say by how much the unchecked writers may have undercut a promise,
and are what makes the two invariants exact rather than conditional. `KeepsShelf`
maps the module to `Shelf` with one product: its shelf is `qty` with `lost` added
again, so that an order is given all of its units at once, finds them all there, and
gives them all back once, in whatever sizes it asked. Variants
are a second label checked in the same way and are not modelled apart.

### Throttle

`buckets[i]` is the map of instance `i`, `row` the row of `rate_limits`; both
hold a count and the ticks left. A window that is over is written as none:
both layers treat an expired window and a missing one alike, which is also why
the occasional deletion of old rows has no action. The histories `passed`, `tried`
and `nodded` are sets of hits, each with its age and a number that tells apart
the hits of one tick; a hit that is older than a window is forgotten. `Gate` is
`rateLimitLocal`,
`Hit` is `hit_rate_limit`, whose answer nothing else depends on, and `FailOpen`
the database that is away. `Forget` is a cold start or `buckets.clear()`. Keys
do not interact: `guardLoginAttempt` asks for two, one after the other. `Lapses`
says whether instances forget and the database may be away.

### Rollup

| In the module | In the code |
|---|---|
| `book`, `back`, `owed` | `orders` (not placed, how often written, gone); `order_return_items`; returns whose items are still to be inserted |
| `clock`, `stamp` | time as the number of transactions begun, since `now()` is the start of a transaction; `orders.updated_at` |
| `open`, `Begin`, `Commit` | a change whose transaction has begun and not committed |
| `sales`, `counts`, `refreshed` | `sales_daily`, `sales_daily_orders`, `analytics_refresh.refreshed_at`: a view is which version of each order it was made from |
| `StartRefresh` .. `CommitRefresh`, `FailRefresh` | `refresh_sales_daily`: one transaction, a snapshot per statement |
| `Current` | `rollupIsCurrent` over `analytics_freshness`: nothing newer, as many orders |
| `OpenPage`, `ReadRows`, `ReadCounts` | the admin home: ask, then read each view |

`Late` are the orders of which a change may begin before a refresh and commit
after its snapshot. It bears the older date, and nothing shows that the views
missed it: what is promised of the views is promised of the other orders, next to
any number of late ones. `CurrentCountsBook` looks at both views: an order that
left the book is in neither, but in the place of a late one, or in `sales_daily`
alone when it left between the two statements. What the code's sums do with a row
is left out: they agree if they are made from the same rows.

### SupplierClaims

`claims` are rows of `supplier_returns`, `list` the chase list as each member of
staff loaded it, `pc` and `own` a request. `InsertClaim` .. `DeleteClaim` is
`recordSupplierReturn`, which deletes the claim when its lines are refused;
`ReadClaim`, `WriteCredit` is `recordSupplierCredit`, `ReadNote`, `WriteClose` is
`closeSupplierReturn`; `SyncStatus` is the trigger
`sync_supplier_return_status`. Amounts are small numbers, `Rates` what a unit of the
claim's currency is worth in USD, `Typed` what staff type over the amount they
are offered, and `typed` (history) the claims over whose offer something else was
typed than nothing. The run has parts, other currencies and amounts above what
was asked for. `OwedIsChased` excepts the claims that were paid in part, which
the list leaves out; `CreditedInFull` speaks of what the list *offers*, which is
in USD whatever the claim's own currency (section 5).

### Basket

| In the module | In the code |
|---|---|
| `qty`, `stock` | the lines in the browser's storage, and the ceiling written on each |
| `Add`, `SetQty`, `RemoveLine`, `ApplyFacts` | `add` with `mergedQty`, the stepper, `remove`, and the fresh facts of `basketLineFacts` |
| `key`, `AttemptKey` | `attemptKey`, a ref of the checkout page: minted once, kept until an order is confirmed |
| `wire`, `Serve` | requests on their way; `placeOrder` up to its insert: a key that is known is answered at once |
| `work`, `Reserve`, `Unwind`, `Die` | orders that hold nothing yet: their units are held, or refused and the order deleted, or the server dies and leaves it |
| `orders` | the rows of `orders`, by the key that made them |
| `Submit`, `Hear`, `Placed`, `Failed`, `Drop` | `submit` up to its await; the answer, after which the basket is emptied, the refusal, the silence |

The server has the steps that a browser can tell apart; `OrderStock` has the rest. The
basket may change at any time, also while an order is awaited, by the shopper,
by another tab or by fresh facts. Two histories: `touched` are the tabs whose
basket changed under an attempt that may have made an order, `early` the keys
that a retry was told of before their units were held. `Interference` says what
the connection and the browser do:

| | lost | reload, or a second tab |
|---|---|---|
| a basket is ordered once | yes | **no** |
| the order that empties the basket stands and is that of the basket | but `touched` and `early` | the same |

`"lost"`: a request, its answer or the server is lost; `"reload"`: the page is
loaded again when the order may have been made, and with it the key goes. Two
tabs are two keys, and order twice as a reload does. Lines are changed by item;
the code's `setQty` and `remove` go by index.

## 3. The runs

| Run | Question | Instance |
|---|---|---|
| `stock_calm` | Do retried and competing checkouts, two staff, the sweep and a count keep the shelf honest? `NoOversell`, and `KeepsPromise`: the ledger implements `Shelf`. | three attempts, two of them with one key, one unit on the shelf, two staff, one count |
| `stock_faults` | What is left when servers die, replies are lost, decisions are written late and staff do not wait? `EffectMatchesStatus`, `KeyBuysOnce`, `NoOrphanedUnits`, `HoldsExpire`. | the same with pre-orders and all four interferences; one member of staff, no count |
| `pay_overlap` | Can any interleaving of handlers make the shop record money that did not move? `PaidMeansTaken`, `NeverAhead`. | one payment, a request and the cron overlapping, one death, every word of the gateway with captures of another or of an unstated sum, refunds and voids with every answer |
| `pay_serial` | One request at a time, dying anywhere: do repeated, late and reordered events move a payment only along `PaymentFlow`, and does money that was taken show on the order? `KeepsFlow`, `CaptureReachesOrder`. | two attempts, one death, a cron that asks about one row per run |
| `queue_faults` | Overlapping runs, a request, an administrator, a refusing or unheard gateway, killed senders: `ClaimedOnce`, `DialsBounded`, `SentOnce`, `NothingStranded`. | one order message, one announcement, two runs, one request, two attempts, any number of deaths |
| `receive_once` | Does what was bought land once, completely, dated, and under lines that stay? `LandedOnce`, `ReceiptIsComplete`, `LandedHasDate`, `LinesStayClosed`. | two requests in any overlap, any of them dying; four orders of two lines (one new product twice; a known variant beside a new product; two products with variants to make; one new product in two sizes), dated ahead or not |
| `returns` | Do goods and money of one order come back once, whatever dies, is refused or lost? `NeverMoreBack`, `PaidOutOnce`, `PayStatusFollows`, `ReturnedIsOnShelf`. | four acts, two units of one product, bought in a size or not, refunds of half and all, a card payment, one death |
| `sizes` | Can receipts, counts, parcels and orders of other sizes make a size, or all of them, be sold further than they go? `NoSizeOversold`, `NothingOversold`, and `KeepsShelf`: together the sizes are one `Shelf`. | two sizes, four orders, three shapes of delivery, three writes to the shelf |
| `throttle` | Does a limit hold, refuse only with cause and end? `SharedBinds`, `LocalBinds`, `RefusedForCause`, `LockEnds`. | three callers, two instances, a limit of two in a window of two ticks |
| `rollup` | May the dashboard trust its views, and do they catch up? `CurrentSawOrders`, `CurrentCountsBook`, `NeverOlderThanAsked`, `CatchesUp`. | two orders, one of which changes late; three changes, two versions, one failed refresh |
| `claims` | Is what suppliers owe chased, and credited once? `OwedIsChased`, `NoHalfClaim`, `CreditedInFull`. | two claims, for nothing or for two, in USD or another currency; nothing or one unit typed over an offer; two staff, lines refused, requests dying |
| `basket` | Does a checkout tried again make one order, and empty the basket it sold? `BasketTypeOK`, `OneOrderPerBasket`, `BoughtIsBasket`. | one tab, one item of which up to three may be had, two baskets in turn, answers lost, changes at any time |

The type invariants are theorems (section 4). That of `Basket`
is checked by its run as well, since what a line may hold is part of what that
module is about. `NeverTakenTwice` and `OneOrderPerKey` are theorems only: the
one is a conjunct of the proofs, the other is the unique index of the code
carried through every step, and what a customer sees of it is `KeyBuysOnce`.

**Bounds.** Three attempts are two submissions of one checkout and a competitor,
which is what a race for the last unit needs; one product and one unit make every
conflict happen (a second product adds only that a basket is taken whole, which
the proofs cover). Two staff are two decisions in flight. One payment is enough
for handlers to race over a row, and two for an attempt to follow another. Two
runs race for a claim; `MaxAttempts` 2 reaches the limit and `Batch` 1 makes a run
leave something; `MaxPerRun` 1 is a cron whose batch is full with two rows.
Counters that would grow are bounded by name: `MaxCounts`, `MaxCrashes`,
`MaxDeaths`, and `Counted`, the number of slips up to which `slips` and `sends`
are counted: at one, the run tells a first send, a second one without a slip
and the one a slip allows, whatever happens after that, and deaths need no bound.
`stock_faults` has one member of staff and no count because the four
interferences multiply the states; that two decisions cross is what
`stock_calm` and, with any number of both, the theorems look at. Two requests
are what a race needs, two receipts or a receipt and a save, and a request that
ended may begin again; two lines are
what one name in two sizes needs. Four acts are a request, its approval, a second
return and a settlement; two units leave room for a half, so that two returns
can exceed the whole. Four orders ask for each size, both sizes and no size, and
`MaxMoves` 3 allows a delivery, a count that overlaps an order, and a parcel.
Two ticks and a limit of two give windows that start in each other's middle; a
count past `Limit + 1` is not told from the next. Two orders are one that is
late and one that is not, and three changes a placement of each and what
happens between two statements. Two claims make a list that is out of date for one
of them; two staff answer the same one; a unit typed over an offer of two is a
part, over one of nothing too much. One item of which three may be had makes an addition
that is legal twice and too much together; two keys are two baskets in turn. The
theorems have none of these bounds. Deadlock is
checked where somebody can always do something (`claims`, `throttle`) and
not where the system may come to rest -- all orders closed, all messages sent.

**Fairness.** Only where the code or its scheduler provides it, and weak but for
one action.
`OrderStock`: time passes, the hourly sweep runs and finishes its rows, and a
request that read a status gets to its write. Staff need not decide anything and
no checkout need continue. `Payments`: a request being served goes on unless it
is killed, and the hourly cron asks about a row that is again and again in
its batch of the oldest unresolved ones. That one is strong fairness: one handler
works through the batch, so that it is busy with another row again and again,
and skips none of the rows that it read. Rows outside the batch are promised
nothing: `CaptureReachesOrder` excepts those that stay crowded out, and
the captures that were `cut`. Webhooks are not
fair: liveness comes from the cron alone, which is what the code says it is for.
It is checked for requests served one at a time, where no other handler can
write over what the cron found.
`Outbox`: a run starts every five minutes, goes on with what it holds unless it
is killed, and a claim grows old. The gateway is never obliged to accept.
`Throttle`: time passes; no caller need call. `Rollup`: the hourly refresh starts and
goes on; it may fail a bounded number of times, and changes are bounded, which
is what a shop that rests for an hour is. `Receiving`, `Returns`, `SizeStock`,
`SupplierClaims` and `Basket` have no fairness: whoever works there is a person,
nothing comes back
for what they leave, and nothing eventual is promised.

## 4. The proofs

All of the theorems below hold for every value of the constants -- any number of
products, attempts, staff, payments, handlers, messages and runs -- from the
named assumptions of the modules (baskets are natural numbers and not empty, the
cron is a handler, queues are finite and disjoint, orders are finitely many, and
so on; TLC evaluates each on every run). `OrderStock` does not assume that
submissions with the same key carry the same basket: `Basket` shows that they
need not. "Any" means that the theorem has no hypothesis: every overlap, death,
loss and input that the module knows is in it, and what it excepts is a history
that its property names.

| Theorem | Says | Environment |
|---|---|---|
| `OrderStockProofs!TypeCorrect`, `TakenOnce` | types; an order never has more out than its basket | any |
| `OneRowPerKey`, `KeyBoughtOnce` | an attempt key makes one order; `KeyBuysOnce`: of the attempts with it one at most was answered for or took units | any |
| `EffectInStep` | movements match the status | any |
| `NothingOrphaned` | no deleted order leaves a movement, but an unheard or hurried one | any |
| `NeverOversold` | no balance below zero | `"lost"` at most |
| `OrderStockKeepsPromise` | `OrderStock` implements `Shelf` | none |
| `PaymentsProofs!TypeCorrect` | types, and there is a row for whatever is said of a payment | any |
| `NothingAhead` | `NeverAhead` | any |
| `MoneyIsReal` | `PaidMeansTaken` | any; nobody types `paid` or `refunded` in |
| `PaymentsKeepFlow` | `Payments` implements `PaymentFlow` | no `"overlap"` |
| `OutboxProofs!TypeCorrect`, `NeverClaimedTwice`, `AttemptsCount` | types; one run per message; every call was counted first | any |
| `NeverSentTwice` | an order's message is sent once, plus once at most per slip | any |
| `ReceivingProofs!TypeCorrect`, `CompleteReceipts` | types; a receipt passes over no line that is not on the shelf | any |
| `DatedArrivals`, `LinesClosed` | what landed is dated, unless ordered ahead or blanked; lines under receipts stay, unless crossed | any |
| `LandsOnce` | what was ordered once lands once, but for crossed positions and variants to make that raced or share a new name | any |
| `ReturnsProofs!TypeCorrect`, `StatusFollows` | types; `pay_status` follows the stamped refunds | any |
| `ShelvedStays` | what came back fit to sell stays on the shelf; what was bought without a size, until the status is next written | any |
| `NeverTooMuchBack`, `PaidOnce` | no more back than was bought; money out once, plus once per death | no `"overlap"` |
| `SizeStockProofs!TypeCorrect`, `TotalHolds`, `SizeHolds` | types; `NothingOversold`; `NoSizeOversold` | any |
| `SizesKeepShelf` | all sizes of a product implement `Shelf` (`KeepsShelf`) | any |
| `SmallPartsProofs!ThrottleTyped` | no count or window leaves its range | any |
| `RowBinds`, `InstancesBind` | less than twice the limit in any stretch of a window: `SharedBinds`, `LocalBinds` | any |
| `RefusalsEarned` | `RefusedForCause` | any |
| `RollupProofs!TypeCorrect` | no version, view or date leaves its range | any |
| `SawOrders`, `NeverOlder` | `CurrentSawOrders`; `NeverOlderThanAsked` | any; said of the orders that are not in `Late` |
| `CountsBook` | `CurrentCountsBook`: the views hold no more gone orders than they miss late ones, and `sales_daily` besides only those that left between the statements | any |
| `SmallPartsProofs!ClaimsTyped`, `ClaimsAreWhole` | types; `NoHalfClaim` | any |
| `WhatIsOwedIsChased` | `OwedIsChased`: what is owed is on the chase list, unless paid in part | any |
| `CreditedOnce` | `CreditedInFull`: a claim holds nothing or all of its offer, unless something else was typed | any |
| `BasketTyped` | types | any |
| `BasketOrderedOnce` | `OneOrderPerBasket` | one tab, no `"reload"` |
| `WhatIsClearedWasBought` | `BoughtIsBasket`, with `touched` and `early` | any, any number of tabs |

The arguments:

* *OrderStock.* `EffectMatchesStatus` and `NoOversell` are not inductive. These
  layers are. `AnyInv`: an order's movements are always those of *one* of the
  three stock states; no row, no movements; it gives `NeverTakenTwice`.
  `AnsweredRowsStand`: a row whose placement was answered for is never taken away
  again, since only its own placement unwinds it; with `OneOrderPerKey` it gives
  `KeyBuysOnce`. `SettledInv`: a row in flight that nobody hurried is still `new`,
  and every row that nobody hurried has moved what its status asks for.
  `UnwindInv`: a placement that is being unwound has moved nothing unless it is
  unheard or hurried, so that its deletion leaves nothing else behind. All
  of these hold under every interference. Two do not. `FreshDecisions`: what a
  decision saw is still so when it is written, so that every move is one that
  `checkOrderTransition` allows. `CalmInv` adds that nobody died; only then does
  a reserved unit stay reserved until it
  is sold, and the balance stay above zero. A reply that is lost does not disturb
  that: the unit stays off the shelf though its order is gone. Each step of `KeepsPromise` is
  then a step of `Shelf` or none, by which of the states the order leaves.
* *Payments.* Words about money stay true: `Backed` says that a capture or a
  refund that an event reports is the gateway's state or was before a
  refund, or is one of the two words the code mistakes for a capture (`Taken`), for
  every webhook in flight and every event in a handler's hands;
  `MoneyInv` carries that to the row and the order, with the check of the amount
  in between; what it says of the order (`PaidInv`) is conditional on what owners
    may type in, and nothing else rests on it. It does not matter in which order
  handlers write, which is why the
  theorem has no assumption on overlap. For `PaymentFlow` it does: `FlowInv`
  says that the status an event was judged by is still the row's, which holds
  because only one event is in hand.
* *Outbox.* `Claims`: what a run holds has a fresh claim, and an attempt counted
  that no call has used. With that, two runs cannot hold a message whoever else
  touches the row. `Hands` says who may be at a message, and `Accounted` balances
  it: the sends so far and those who hold it and have not called are together
  one more than the slips at most. Each step that adds to the left either finds
  nobody at a message that nobody sent, or is a slip.
* *Receiving.* `Typed` adds to the types that a request at a line has one. `Dating`:
  whoever writes `arrived` also writes a date, or the order was dated ahead, or a
  save emptied the date. `Closing`: a save past its look for receipts finds none
  at a position that is not crossed. For `LandedOnce` the positions fall in
  two kinds. Those that answer no axis, or an axis the shop has, make no variant:
  `OnePerPosition` keeps one line per position, and `KnownVariants` makes the
  variant that a line lands under a function of the line, so that the unique index
  is what refuses the second landing, whatever races. Those that make a variant
  are told apart by their name alone (`Sole`): `Fitting` says that unless receipts
  raced one is at work, on lines that it has not seen, and `Homed` that what it
  makes for such a line is the only product and variant that the line has, until
  it is linked.
* *Returns.* `Aimed`: who is at work on a request or a return has one. `Parted`
  splits what an order takes into its own movements and the returned ones, which
  the ledger's difference leaves apart when the labels differ (`sized`) and
  swallows at the next status when they do not, up to what had come back by then
  (`asOf`). `Replied`: who has
  the gateway's answer in hand did make it move money; with it `PayStatusFollows`
  is inductive, whichever of its three writers comes next. Without
  overlap (`Alone`), `Room` and `Netted` say that what a worker has counted is
  still all that came back, and `Begun` and `Counted` by which death, or which
  stamp still to be written, a return is owed although its money was moved.
* *SizeStock.* The total is inductive by itself. A size is not: a reservation
  leaves the size above zero, but the promise is about the size less `loose`, so
  `loose` must not be negative. `Accounted` says what it is: the units lost and,
  for every order that stands, those of its lines without a size -- counted as
  the cardinality of a set, since sums over orders would need induction. The
  refinement needs the total alone: each step of an order is the step of `Shelf` of
  that name, and every other step leaves a number on the shelf (`CountKeeps`).
* *Rollup.* `ViewsInv`, of the orders that are not late: no date is from the future
  and no refresh under way is older than the last one (`Ordered`); whatever was
  last changed before a refresh, finished or under way, was seen by it
  (`Rebuilt`); and what a page has still to read is as new as the book was when it
  asked (`Reading`). Only late orders have transactions in flight, and
  `LateStep` shows that those leave all of it alone. `CountsBook` compares two finite
  sets: equal counts mean that what is in one and not in the other is as
  much as the reverse, and the reverse is late. `Later` adds that `counts` is
  made after `sales_daily` and that an order that left never comes back: what one
  view holds and the other does not has left in between.
* *Throttle.* A stretch of a window's length meets at most two windows, and
  `Opened` says where the younger one began. `Bound`: a window was opened by a hit
  that it let through, has let through no more than it counts, and of the hits
  before it less than the limit are young enough to matter, because the one
  that opened the window before is too old. Two such numbers add up to less than
  twice the limit. `Earned` is the reverse for the refused: a window counts
  nothing that was not a hit of it. Both compare cardinalities of sets of hits,
  which is why the histories are sets: a sum over a stretch would need induction.
* *SupplierClaims.* `NoHalfClaim` is inductive. `DatedCredit` gives
  `OwedIsChased`: a claim is stamped with what it got, in the row and on every
  page, so that what is open and stamped was paid in part. `FullOrNothing` gives
  `CreditedInFull`: a claim over whose offer nobody typed has been credited
  with nothing or with all that the list
  offers for it, and so will every request that is about to credit one. Since a
  claim's amount and rate never change, an old page offers what a new one does;
  since its id is new, no page can be about an earlier claim.
* *Basket.* `KeysInv`: keys are minted in order, and the server has one order for
    each. `RoundsInv`: a basket that was cleared used a key up, what was sent
  with the key of this page is about this
    basket, everything else about one that was cleared, and a basket has one
  key. It falls with a reload and with a
  second tab. `ItemsInv`: unless the basket was touched, what was sent with the key
  of this page, and the order that was made of it, hold what the basket holds; and
  an order that a tab was told of stands, unless the key is early. It needs
  only that keys are not shared between tabs.

Only model-checked: the five liveness properties, `HoldsExpire`,
`CaptureReachesOrder`, `NothingStranded`, `LockEnds` and `CatchesUp`, since the prover
does not do fairness or ENABLED. Every other property that a run checks is a
theorem. No recursion is used anywhere.

## 5. Where code and comments disagree

Each was met while modelling. Where a module or a history is named, the model takes
that step, in its run unless it says otherwise, and the property names it as its
exception; the rest was read. None has a run
of its own: the runs say what the code does keep.

* *Lost events (`Payments`).* The event is journaled before the row is written
  (`lib/payments/service.ts:193`). A death in between makes the redelivery a
  duplicate, against "A 500 here DOES ask the provider to retry, which is what we
  want" (`webhook/route.ts:54`); once the row is final the cron does not look
  either (`cut`).
* *Starved rows (`Payments`).* The cron asks about the fifty oldest rows without an
  outcome (`cron/reconcile-payments/route.ts:38`, `:65`), and a row the gateway
  never resolves stays among them: enough of these, and a newer payment whose
  webhook was lost is never asked about (`Crowded`).
* *Receiving twice (`Receiving`).* One shirt in two sizes, received twice, one press after the
  other: the first receipt links its product to one of the lines only
  (`lib/receiving.ts:242`), so that the second press makes a second product and
  lands the other line again (`Shares`), against `lib/receiving.ts:30`. Two
  receipts at once each make the product (`raced`); two overlapping saves both
  insert their lines, and a save deletes a line that lands between its look for
  receipts and the delete (`crossed`); its header may empty the arrival date
  that a button has just written (`blanked`).
* *Second refund.* All refunds of a payment share a transaction id
  (`mpgs.ts:291`): in `Returns` the gateway answers the second return's refund with the first
  one's result, and it is stamped though no money moved.
* *Figures (`Rollup`).* A change that began before a refresh and committed after
  its snapshot is dated before it: the views that missed it are called current,
  against "Whether the rollup has seen every change the order book has"
  (`lib/data/salesRollup.ts:267`). An order that is unwound between the two statements
  of a refresh is in one view only, against "must be rebuilt together"
  (`sales-rollup.sql:298`). The items of a return are inserted without touching
  the order (`lib/actions/returns.ts:126`), so that a view can be current without
  them, against `admin/page.tsx:99`.
* *Claims (`SupplierClaims`, all in its run).* A credit that falls short stamps
`credited_at`, and
  the chase list leaves it out (`lib/returns.ts:372`), against "one where the money
  landed short stays open" (`supplier-returns.sql:171`). A smaller amount written
  from an older list after the full one leaves the claim `credited`. The amount
  offered is in USD and is saved in the claim's currency
  (`ReturnsDashboard.tsx:418`, `actions/supplier-returns.ts:163`). A death between
  the claim and its lines leaves "a claim for nothing" (`:133`). Any
  amount up to a fixed maximum is taken, more than was asked for included.
* *Basket (`Basket`).* The key outlives a change of the basket after a lost answer
  (`CheckoutForm.tsx:222`), so that the server answers with the first order and the
  changed basket is emptied, against "the key is scoped to one basket" (`:26`).
  `clear()` empties whatever the storage holds when the answer comes (`:249`); both
  are `touched`. A retry is told of an order before its units are held
  (`lib/actions/orders.ts:237`), which may then be taken back (`early`). The
  key lives in the page and the basket in the browser: a reload, or a second tab,
  orders again (`:74`); the module has both and the run neither.
* *Categories*, read and not modelled: the products of a category are counted in one call
  and it is deleted in another (`lib/actions/categories.ts:84`, against `:59`); a merge
  into a child makes a third level, which the screen does not list; a new one is
  ranked by the number of its siblings, so that after a deletion two bear the same
  rank and the button that swaps them changes nothing (`:18`, `:111`).
* *Orders and stock.* A confirmation read before a cancellation and written after
  it takes a cancelled order back into the flow, against "Cancelled is fully
  terminal" (`lib/orderFlow.ts:18`): only completed rows are guarded. An order that
  staff confirm before it has reserved keeps a hold under a status that should
  have sold it (`hurried`). Two
  overlapping counts of a shelf both add their difference, against
  `lib/stockLedger.ts:58`. `audience-restock.sql:91` takes any
  positive movement for a delivery.
* *Payments.* Two handlers judge against the same status and both write: a
  captured payment can go back to authorized. Cancelling asks for a void only
  when `pay_status` says paid or deposit, which an authorization never sets. Two
  captured attempts for one order are reachable once the first is authorized. A
  void or refund whose answer carries no order status is recorded as a capture
  (`lib/payments/providers/mpgs.ts:72`), and a capture that states no amount is not
  compared with what was asked (`lib/payments/service.ts:165`): the two
  exceptions in `Taken`.
* *Messages (`Outbox`).* The result of an announcement is never stored, so that it is sent
  three times in all. `notifyOrderEvent` sends without a claim and may overlap the
  cron, against `lib/notify/service.ts:44`; a message cleared from a finished order is sent
  again if the status is re-applied, against `notifications.sql:41`: both are
  `slips`. A run ended at its time limit uses up an attempt of every row it
  had claimed, tried or not.
* *Receiving.* References are compared as text: after `PRD-9999` the next one read
  is always `PRD-9999`, and `nextPoNumber` ends likewise. A save that dies between
  deleting and inserting leaves an order of nothing until it is saved again; an
  order half received and saved as received through the form is not received
  again by that save.
* *Returns.* Two overlapping records of two out of three become four, against
  `lib/actions/returns.ts:51`; refunds are capped per return and not per order. An
  approval written late overwrites a withdrawal, and two of them record two
  returns. A return of goods without a size is taken from the shelf again by the
  next status write, since its movement and the order's share a reason and a
  label (`size-stock.sql:143`). A return on a cancelled order gives its units
  back twice. A return whose lines were refused is deleted, and the status it
  moved stays. A partial refund is called `refunded` by the gateway's webhook.
* *Sizes.* Goods received in sizes after `markOutOfStock` counted a product down
  may stay unsellable: the count is in the pool, below zero, and every size is
  lowered by it, against what `lib/actions/stock.ts:54` says of a receipt.
* *Limits.* `rateLimit.ts:71` takes a local refusal for a global one; since the
  two windows are of different phase, an instance may refuse while the row would
  let through.

## 6. What is left out

* Prices, discounts, zones, addresses, texts, languages, costs, exports, pages:
  no state or guard of the modelled parts depends on them.
* Sizes: the lines of `OrderStock` are unsized, which is one of the shapes the
  ledger knows; `SizeStock` has the others, without crashes and statuses. Variants
  and size sheets are left out.
* What `sales_daily` computes from a row (cost, category, hour), and the arithmetic of
  `lib/sales.ts` over rows that others write. Where an order has two lines of one
  product, both subtract its returned units from each line.
* Each ledger function is one step. Both `reserve_order_stock` and the status
  trigger lock the product rows; the sum over the movements is read by a
  statement of its own, and a model of read-committed snapshots would be needed
  to say what two of them about the *same* order see.
* The error returns of a database that is down. Where such a failure leaves
  state behind it is a crash, which is modelled.
* `Outbox`: a row is not cleared while somebody sends it (the record would find
  nothing), an order is cleared once, and an announcement has one customer at a
  time: rows of one insert do not interact.
* Databases on which a migration has not been run: every file of `supabase/` is
  taken as run.
* `Basket`: facts are fetched on every screen and may be fetched at any time here; two
  tabs are possible in the module and left out of the run.
* Read-only parts, loves and ratings and the outside services: see `PROJECT.json`.

## 7. Done and left

Done: `OrderStock` and `SizeStock` with `Shelf`, `Payments` with `PaymentFlow`, `Outbox`,
`Receiving`, `Returns`, `Throttle`, `Rollup`, `SupplierClaims` and
`Basket`; every invariant, action property and refinement that their runs check is
proved.

Left, in the order of their worth:

1. Compositions: `OrderStock` with `Payments` (cancelling, expiry and money), and
   `OrderStock` with `Outbox` (each status that was reached is told once). Today
   they meet in the rows they share, and each takes the other's writes as free.
2. Variants as a second label of `SizeStock`.
3. `Basket` with `OrderStock` in the place of its server, and the second-factor
   replay window.

Not worth a model: payouts and commission (one row per transfer, balances derived
when read), invitations, moderation and the catalogue (single rows behind a role
check), search, documents, translation and pages, which have no state. They
are most of the repository's lines.
