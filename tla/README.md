# A TLA+ model of the MS-STORE backend

The MS-STORE backend sells digital goods. A customer pays from a wallet; an
automatic product is bought at once from an external provider, a manual one is
delivered by an operator. The program is a Node.js server over MongoDB, and
what is hard about it is not any single handler but the handlers together: each
is a chain of database operations and provider calls with `await` between them,
and several of them work on the same order, wallet, deposit, product or account
at once. PM2 starts one process per core (`instances: 'max'` in cluster mode,
ecosystem.config.js:17-18), and each of them starts every job (server.js:41): what
a module keeps in memory (locks, caches, timers, the `_running` flag of a cron)
exists once per process and guards nothing against the others.

This directory models that: TLA+ modules translated from the source, TLC
configurations that check them on small instances, and TLAPS proofs.

## 1. Inventory

State is in MongoDB unless said otherwise. "Hard" names what a unit test does
not reach. PROJECT.json lists the same components with their sources, what is
left out of each, and the hazards at their lines.

| Component | State | Operations | Hard | Correct means | Modules |
|---|---|---|---|---|---|
| Fulfilment engine (`orders/orderFulfillment.service`, `fulfillmentJob`, `statusMapper`) | order status, `refunded`, `retryCount`, `providerOrderId`; in memory `_running` | execute, refund, poll | stale copies, pollers of several processes on one order, crash between two writes, timeouts of sales, lost commits, a query that takes only the first orders | refunded at most once; what failed is refunded; outcomes final where cycles do not overlap; everything polled settles | OrderFulfillment |
| Order status operations (`orders/order.service`) | order, wallet | fail, refund, complete | racing the engine | the same | OrderFulfillment |
| Back-office orders (`admin/admin.orders.service`) | order, wallet | refund, sync, complete, resolve coin recharge | reads and writes apart | operators and engine together never give money twice | OrderFulfillment |
| Order creation (`orders/order.service`) | orders, wallet | `createOrder` | two requests with one key; debit and create apart without transactions; retried conflicts | one key, one order, one charge; true answers | Purchase, Checkout |
| Order fields (`orderFields.validator`, `order.service`, `clientCompat`) | product's fields, `customerInput`, mapping | resolve, validate, convert, rename | names in any spelling, two rules of precedence, mapping edited after the order | what was filled in reaches the provider | OrderForm |
| Wallet (`wallet/wallet.service`) | `walletBalance`, ledger rows | debit, forced debit, refund, credit | credit limit under concurrency; row apart from balance | ledger explains the balance; limit holds | Purchase, Funds |
| Back-office wallet (`admin/admin.wallet.service`) | the same, `creditUsed` | add, deduct, set, debt adjustments | read, compute, `$set` | nothing but a stale write parts ledger and balance | Funds |
| Deposits, target orders | status, amount | submit, approve, reject, edit | approve against reject and edit; conversion fails after the swap | decided once; credited once | Funds |
| Currencies (`currency/`, `admin.routes`, converter) | rates; in memory a cache per process | create, rate, status, delete, switch | a lookup that a change overtakes; changes of other processes | money is converted by the rate of a currency that is there and active, as far as the process knows | Funds |
| Adapters (`providers/adapters`) | none | place, check, look up | broken requests, replies without status or id | no refund of a sale, no completion without one | Suppliers, AdapterAnswers |
| Legacy polling (`orderPolling.*`), exchange rate sync (`exchangeRateSync.*`) | | | never scheduled: their jobs are required by tests only | | not modelled |
| Price cache, product sync, products, providers | products, provider products; in memory caches and locks | price check, sync, publish, update, delete | fetch shared by orders, sync against edits, cluster | no sale below a known cost; lock is a sync | Catalog |
| Accounts, authentication, groups | users, groups; tokens | register, sign in, verify, second factor, approve, reject, update, delete | save of an old copy; look-up before write | one account per address; decisions stand | Accounts |
| WhatsApp notifier | in memory: client, flags, timer | initialise, reconnect, reset | events of replaced clients | a lost client is replaced | Notifier |
| Everything else | single documents | CRUD, formatting, I/O | little | not modelled | |

How they interact. An HTTP request calls `createOrder` (a customer's with an
`Idempotency-Key`, a reseller's with an `order_uuid`), which checks the fields and
the live price, debits the wallet, creates the order and starts `executeOrder`
without waiting for it. Every five minutes `fulfillmentJob` runs one
`pollProcessingOrders` in each process. Both end in `refundFailedOrder` or `processOrderRefund`,
which credit the wallet. Operators work on the same documents. Nothing is resumed
when the process restarts: only what the poller's query selects is ever looked at
again.

The routes decide which handlers exist. `adminRoutes` is mounted before
`currencyRoutes` (app.js:212-215), so that `POST /admin/currencies` and
`PATCH /admin/currencies/:code` are those of admin.routes.js, while
`PATCH /:code/status` and `DELETE /:code` are those of `currency/`.

## 2. Modules

| Module | What it is |
|---|---|
| `OrderFulfillment` | life of orders after the charge: executor, poller, back office, provider, crashes |
| `OrderAccount` | abstract: what handling an order promises about money |
| `OrderFulfillmentProofs` | proofs about `OrderFulfillment`, among them that it implements `OrderAccount` |
| `AutomationProofs` | proofs about executor and poller as long as they are left to themselves |
| `Purchase` | `createOrder` on the wallet of one customer, with and without transactions |
| `Checkout` | abstract: what buying promises; `Purchase` implements it |
| `PurchaseProofs` | proofs about `Purchase`, among them that it implements `Checkout` |
| `Desk` | what the back office handlers share: one customer, ledger, requests, one currency |
| `DepositDesk`, `WalletDesk`, `CurrencyDesk` | the handlers for deposits and targets, wallets, currencies |
| `Funds`, `FundsProofs` | composes the three desks; proofs about them |
| `Suppliers`, `AdapterAnswers` | the seven adapters between a supplier and the engine; their results against what OrderFulfillment expects of a provider |
| `SuppliersProofs` | proofs about both |
| `Catalog`, `CatalogProofs` | products, provider products, price cache, sync, their administration; proofs |
| `Accounts`, `AccountsProofs` | accounts, groups, authentication, their administration; proofs |
| `Notifier` | the WhatsApp client's life |
| `OrderForm` | the fields of an order from request to provider |
| `MCOrderFulfillment`, `MCFunds`, `MCShop` | TLC instances; MCShop runs Catalog, Accounts, Notifier, OrderForm and AdapterAnswers |
| `ShopProofs` | proofs about Notifier, OrderForm and MCShop |

### OrderFulfillment

| Variable | In the program |
|---|---|
| `kind[o]` | `executionType` and `providerCode`, snapshots that never change |
| `order[o]` | the document: `status`; `refunded` (with `refundedAt`, always set together); `retry` = `retryCount`; `hasId` = `providerOrderId != null`; `lookup` = `providerStatus == 'PLACEMENT_UNCERTAIN'` |
| `held[o]` | debits minus credits of the ledger rows that refer to the order |
| `sale[o]` | what really happened at the provider, known to nobody else |
| `task[o][w]` | a running asynchronous function: where it stands, the copy of the order it read (`saw`) and the answer it got (`reply`) |
| `ahead[o]` | the orders with an older `lastCheckedAt` |
| `shared` | history: orders whose polling cycles have overlapped |
| `requests`, `crashes`, `faults` | how much of each bound is used |

One step is one database operation or one provider call; a MongoDB transaction
is one step. Each worker `w` is `exec` (the only `executeOrder` of the order:
nothing but `createOrder` calls it, so its lock is the test of the status, and
`ExecClaim` joins the read and the claim), a member of `Pollers` (the order's share
of the cycle that this server process is in), or an administrator's request.

`Pollers` are the server processes. `PollStart(p)` is the query of a cycle: the
process must have finished its last one (`_running`), and takes the first
`BatchLimit` of the orders that match, by `lastCheckedAt`. Another process may take
the same orders at any time, each keeping the copy its own query read. What writes
`lastCheckedAt` is a `Touch` (the order goes behind all others); what does not,
`PollSkip` for one, leaves the order its place. `Crash(p)` ends the cycle of one
process and any of the executors and requests, which may have been running there.

| Code | Actions |
|---|---|
| `executeOrder` | `ExecClaim`, `ExecUnresolved`, `ExecPlace`, `ExecRecord`, `ExecReturn`, `ExecCrashGuard` |
| `refundFailedOrder` | `RefundClaim`, `RefundCredit`, `RefundCreditFails`, `RefundReset` |
| `processOrderRefund` | `ProcessOrderRefund` |
| `pollProcessingOrders`, `processOrderStatusResult` | `PollStart`, `PollXenaMissing`, `PollLookup`, `PollCheck`, `PollSkip`, `PollApply` |
| `markOrderAsFailed`, `refundOrder` | `FailOrder`, `RefundOrder` |
| `syncOrderProviderStatus` | `SyncRead`, `SyncCheck`, `SyncSave`, then `ProcessOrderRefund` |
| `completeOrder` (back office) | `CompleteRead`, `CompleteDebit`, `CompleteSave` |
| `markOrderAsCompleted` | `MarkCompletedRead`, `MarkCompletedSave` |
| `resolveCoinRechargeManualReview` | `ResolveDelivered`, `ResolveRefund`, the refund, `Rollback` |

The writes name the order by its id and set only some fields, so they apply to
the document as it is then, computed from the copy that was read before.
A Mongoose `save()` writes the fields that differ from that copy.

Five kinds of fulfilment stand for all providers, since the code distinguishes
no more: `manual`; `plain` (status by provider order id); `reference` (the
adapter has `checkOrderByReference`); `xena` and `coin`, which the code treats by
name. Providers are external: `PlaceReplies` and `CheckReplies` say what they may
answer given what they did, including a timeout after the sale was made.
Answers are assumed true, those of the reference lookup too.

Abstractions: amounts are integers and `Charge` is one amount (`chargedAmount`
and `walletDeducted` are equal when an order is created); orders of amount zero
and the recovery of a Xena id from an old raw response are left out. The jobs of
one cycle interleave freely, where the program handles them one after the other:
more behaviours, not fewer. A batch answer is taken per order. `refundOrder` is called with remains 0
by every controller. Audit rows and notifications are left out.
`retryOrder` always throws. MongoDB is assumed to have transactions here.

Failing operations (`Fault`) are modelled where the code reacts to them: the
crash guard, the refund's claim, credit and reset, the partial refund, the forced
debit and the save after it. Elsewhere a failure ends the handler before it has
changed anything, which is also what never starting it does, or what `PollSkip`,
`SyncCheck` and `Crash` do.

### OrderAccount

An order's account has `held` and a number of *claims*, rights to one refund. The
charge at creation gives one; `Pay` uses one and pays at most one charge;
`Recharge` (a forced completion) charges again and may give one more; claims may
be lost. `Claims` in `OrderFulfillment` is the refinement mapping: one for a
document that does not count as refunded, and one for each task that has taken
the flag and not yet paid, or has charged again and not yet cleared the flag.

### Purchase and Checkout

| Variable | In the program |
|---|---|
| `mode` | the MongoDB deployment: transactions, `shouldUseOrderTransactions()` false, or refused by the server |
| `ask[r]`, `code[r]`, `charge[r]` | key and goods of the request; the provider code read first; `chargedAmount` |
| `supplier` | `product.provider` now |
| `balance`, `ledger`, `taken[r]` | `walletBalance`; the sum of the rows; what the balance lost to each request |
| `made`, `started`, `answer` | the orders; those whose executor was started; what clients were told |
| `task[r]` | the handler: where it stands, its snapshot, whether it is the retry |

| Code | Actions |
|---|---|
| `createOrder`, `_attemptCreateOrder` | `Submit`, `Attempt`, `Refuse`, `Price`, `Respond` |
| in a session | `DebitInSession`, `Commit`, `CommitFails`, `CommitUnacknowledged`; `Conflict` is the catch block |
| without | `Debit`, `DebitRow`, `Create`, `Undo`, `UndoRow`, `Lookup` |

In a transaction nothing is visible before the commit; the debit locks the
customer's document, and a transaction that writes it after it has changed since
its snapshot fails with a write conflict. `Checkout` is the abstract
specification: a purchase is one step that takes the price and makes the order,
no key buys twice, and only a server without transactions may lose money, in an
accident.

### The desks and Funds

| Variable | In the program |
|---|---|
| `user`, `ledger` | `walletBalance`, `creditUsed`, `currency` of one customer; the `WalletTransaction` rows |
| `ticket` | deposit requests and target orders |
| `local`, `cached[p]` | the one currency besides USD; the copy of it in the converter of each process |
| `job[s]` | a handler, in the process `ProcessOf[s]`: operation, next step, what it has read |
| `mishaps` | history: what happened that may cost the customer or the books |

| Code | Actions |
|---|---|
| `createDepositRequest`, `createTargetOrder` | `SubmitDeposit`, `SubmitTarget` |
| `approveDeposit` | `StartApproval`, `SwapToApproved`, `ReadOwner`, `LookUpRate`, `FillCache`, `CreditDeposit`, `WriteRow` |
| `rejectDeposit`, `updatePendingDeposit` | `StartRejection` or `StartEdit`, `SaveDeposit` |
| `approveTargetOrder`, `rejectTargetOrder` | `StartReview`, `SwapReviewed` |
| `addFunds`, `deductFunds`, `setBalance` | `StartAdjustment`, `WriteAdjustment`, `WriteRow` |
| `debitWalletAtomic`, `refundWalletAtomic`, `forcedDebitWallet` | `Charge`, `Refund`, `StartForcedDebit`, `WriteForcedDebit` |
| `PATCH /admin/currencies/:code` | `StartRateChange`, `SaveCurrency`, `Invalidate`, then `ReadDebtors` or not, and `SaveStatus` when the route was asked for another status |
| `setCurrencyStatus`, `deleteCurrency` | `StartStatusChange`, `SaveCurrency` or `StartDeletion`, `RemoveCurrency`; `Invalidate` |
| `POST /admin/currencies` | `StartCreation`, `InsertCurrency` (which drops nothing) |
| the converter's cache | `LookUpRate`, `FillCache`, `CacheExpires` |
| debt adjustments | `ReadDebtors`, `WriteAdjustment` |
| `updateUserCurrency` | `StartSwitch`, `ReadRates`, `WriteSwitch` |

Amounts are in units of a cent, small enough that rounding to cents and to
nothing both occur. A `save()` writes the fields that were modified: setting one to
the value it had when it was read writes nothing (`Saved`). `Refund` takes
`creditUsed` down by what the order recorded as drawn, at most to zero, as
`refundWalletAtomic` does; `Charge` leaves it alone, as `debitWalletAtomic` does.

### Suppliers

`adapter`, `sale` (what the supplier made of the request), `call` (the request under
way and what was answered), `result` (what the adapter returned) and `order`. A
request is placed (`Place`), decided by the supplier (`SupplierDecides`, `SaleEnds`),
answered (`Reply`: ok or not, with or without id, with one of the words the
adapter tells apart or without one) or broken off (`Break`: nine ways, before or
after the supplier heard of it), looked up by reference (`Recover`,
`RecoverInVain`), recorded by the engine (`Record`), then looked up or checked by
the poller (`LookUp`, `Check`). One operator per adapter translates its
`placeOrder` and its `checkOrder(s)`.

### Catalog

| Variable | In the program |
|---|---|
| `supply`, `provider`, `raw`, `product` | the supplier's list; the provider document; the ProviderProduct; the products |
| `lock`, `cached`, `open` | `_syncLocks` and `_cache` of each process; whether it takes requests |
| `work[s]`, `home[s]` | a handler and its process |
| `torn` | history: an update was saved over a newer price |

| Code | Actions |
|---|---|
| price check of an order | `StartOrder`, `CheckPrice`, `SupplierAnswers`, `FetchArrives`, `FetchFails`, `RaisePrice`, `Sell` |
| `syncProviderProducts` | `StartSync`, `ValidateProvider`, `FetchCatalogue`, `Upsert`, `Deactivate`, `FindSynced`, `PushPrice` |
| publication, creation | `StartPublication`, `CheckUnpublished`, `StartProduct`, `InsertProduct` |
| `updateProduct`, `toggleProductStatus`, `deleteProduct` | `StartUpdate`, `SaveProduct` |
| `toggleProvider`, `deleteProvider` | `StartToggle`, `SaveProvider`, `StartDeletion`, `DetachProducts`, `RemoveProvider` |

A fetch that fails rejects a promise that the orders waiting for it handle and
that `_fetchAndCache` also leaves unhandled: `FetchFails` closes the process, as
`server.js` does on `unhandledRejection`. The supplier has one product; products
of other suppliers share no state with it. Fields of a product besides price,
mode, markup, link and activity are left out.

### Accounts

`user[u]` holds the fields that handlers decide about (address, Google identity,
verification, role, status, group, second factor, deletion and so on), `group`
the pricing groups, `tokens` and `challenged` who holds a session or a pending
login, `serving` the handlers. A handler that reads a document and saves it later
keeps the fields that it changed (`Dirty`, as Mongoose does) and writes those
(`Save`); updates by operators that are one `findOneAndUpdate` are one action. The
actions carry the names of the service functions. Refused requests change nothing
and are left out.

### Notifier

`notifier` is the module's state (`client`, `initPromise`, the timer,
`shouldReconnect`, `isReady`, `isInitializing`), `life` what became of each browser
client, `task` the reconnects, resets and shutdowns under way. One action is what
JavaScript runs between two awaits; the events of any client that is not
destroyed may come at any moment.

### OrderForm

`form` is the product's form and provider mapping now, `asked` the form when the
order was created, `request` what was filled in, `entries` what `createOrder` gets of
it (a reseller's names are resolved once before), `stored` is
`customerInput.values` (keyed by the places of the fields or entries they come from, since
later keys override earlier ones), `sent` the parameters of `placeOrder`. `CreateOrder` resolves,
validates and converts; `EditForm` is an administrator in between;
`ExecuteOrder` applies the mapping. A value counts only as one of seven kinds, which
validators and conversions tell apart; bounds of numbers, URLs and choices are
one test that a word passes. The number 0 is a kind of its own, since `String(rawValue || '')`
(order.service.js:360) makes an empty text of it. The internal parameters that customer fields are
spread over, and the merge of `link` and `target`, are left out. Keys of a form are
assumed distinct, as product.model.js:311 demands.

## 3. Runs

| Run | Question | Bounds |
|---|---|---|
| `back_office` | Can any interleaving of two operators, executor and two pollers refund too much? | one order of three kinds, 2 administrators, 2 requests, 2 processes, 1 crash, 1 fault, retry limit 1 |
| `pipeline` | What do executor and pollers leave behind on their own? | one order of each kind, 2 processes, retry limit 3, 2 crashes, 2 faults, lost commits |
| `poll_turns` | Does every order get its turn when the query takes only some? | two orders, `BatchLimit` 1, one process, retry limit 2 |
| `purchase` | Does buying implement Checkout, keep the limit, and answer truly? | two requests, one key or none, two goods, two suppliers, all deployments, another credit, 1 crash, 1 fault |
| `funds` | Do any two handlers of the back office get along on one customer's money? | two handlers, each in a process of its own, one deposit, one target, two rates, balance 1 or -1, limit 2, `MaxJobs` 2, crashes |
| `shop` | Prices, syncs, accounts, notifier, forms, adapters (see below) | two handlers in two processes, two products, two prices, two markups, one change of the list; two accounts, two addresses, two groups, two requests; two operators, three clients; two fields, two entries, three mappings; one order at each adapter, retry limit 3 |
| `two_pollers` | violated: `CompletedIsNotRefunded` | two processes, one order, no operator, no failure |
| `retry_limit` | violated: `LimitIsNotFailure` | no operator, no failure |
| `stuck_order` | violated: `ProcessingSettles` | no operator, no failure |
| `forced_completion` | violated: `CompletedIsPaid` | two operators |
| `coin_review` | violated: `CoinReviewIsResolved` | one operator |
| `rejected_deposit` | violated: `OnlyPendingIsRejected` | two handlers, one deposit |

Why these bounds are enough.

- `back_office`, `pipeline`: within OrderFulfillment, orders touch each other only
  through the query's limit and the cycle, which are the question of `poll_turns`,
  so these runs have one order, of every kind in turn. In `back_office` the kinds are
  `manual`, `plain` and `coin`: the controls of operators tell apart manual orders,
  coin recharges and the others only, and the two kinds left out differ from `plain`
  in how the poller finds their ids, which `pipeline` covers. Two requests let one
  run in the middle of the other, and two processes let one cycle act on a copy that
  the other has made old; a third process would only be a second one that is late.
  `Charge = 4` and `Quantity = 2` make a partial refund half the charge, different
  from none and all. A retry limit of 1 is the boundary itself and keeps the largest
  run within minutes; in `pipeline` it is 3, so that orders reach it after several
  answers. Two crashes and two faults let a fault follow a crash and the second
  fault hit the crash guard's own refund.
- `poll_turns`: the query's 200 becomes 1. With more orders than the
  limit the orders compete for the places; two orders and one place are the least
  case, and what starves or does not starve there is decided by who keeps his place,
  not by how many there are.
- `purchase`: every conflict in the code is between two requests, or one request
  and another writer of the wallet (`Credit`). The balance 2 with limit 1 covers
  one purchase of 2, not two.
- `funds`: a lost update takes two handlers, and `MaxJobs` bounds how many begin in a
  behaviour. Amounts 1 and 2, rates 2 and 5 and a balance of one cent make
  conversions round up, down and to nothing, and let the limit and the wallet's sign
  matter. The handlers run in different processes, so that each converts with its
  own cache.
- `shop`: a shared fetch takes two orders of one process, a stale cache two
  processes; an overtaken check takes two handlers. Three clients let a client be
  replaced twice. Two entries let one field be filled in twice and another left
  out. An adapter keeps no state, so that one order meets all it does; three checks
  let a doubtful lookup be followed by each answer below and at the limit. Catalog,
  Accounts, Notifier, OrderForm and Suppliers share no state, so one of them moves
  in each behaviour (`part`) and the others rest: interleaving them would add states
  and nothing to properties that are each about one of them.

Symmetry: administrators and processes in `back_office`; in `shop` the members of Staff,
Products, Emails and Groups (Handlers and Users have the same members as Staff and
Products, whose parts never move together). Both runs check no liveness.
`CHECK_DEADLOCK FALSE`: jobs and requests are bounded, and orders end.

What the passing runs show, by property:

- money of an order: `RefundsBacked`, `NeverOverRefunded`, `UnrefundedIsPaid`,
  `ImplementsAccount`; what the automation leaves: `AutomationSettles`,
  `KillSwitchIdle`, `CompletedWasSold`, `DeliveredCoinIsPaid`, `OutcomeIsFinal`,
  `PollableSettles` (also with several orders, in `poll_turns`), `FailedIsRefunded`;
- buying: `ImplementsCheckout`, `CreditLimitHolds`, `LedgerTellsBalance`,
  `AnswersAreTrue`, `StartedIsPaid`, `OrdersStart`;
- back office: `CreditedOnce`, `ApprovedIsPaid`, `LedgerTellsBalance` (unless a
  stale balance was written, a wallet converted, or the process died before a row:
  each of them happens), `DecisionsStand`;
- adapters (in `shop`): `NoRefundOfASale`, `CompletedIsDelivered`, `WaitingIsPolled`, each with
  the exceptions that the code has; `ForeseenAnswers` ties the adapters to the
  answers that OrderFulfillment assumes;
- shop: `LockIsASync`, `CacheNeverGoesBack`, `SoldAboveCost`, `OneAccountPerAddress`,
  `DecisionsHold`, `LostIsReplaced`, `AnswersArrive`.

How `AutomationSettles` and `OutcomeIsFinal` depend on the processes. However many
poll, an order with which nothing failed has a flag that tells where the money is,
and is refunded if it is FAILED: the flag is a compare-and-swap. That its *status*
tells the same, and that an outcome stays, holds only for orders on which no two
cycles have overlapped (`shared`); `two_pollers` shows what happens to the others.
`OutcomeIsFinal` therefore says what the lock of the executor, the query and the
tests on the copies achieve within one cycle and between cycles that follow each
other, be they of one process or of several.

What the violated runs show:

- `two_pollers`: two processes poll one order in the same minute; one reaches the
  retry limit, fails the order and refunds it, the other is told that it was
  delivered and writes COMPLETED by id. fulfillmentJob.js:16-17 takes `_running` for a
  guarantee that runs are serialised.
- `retry_limit`: an order its provider keeps calling pending is failed and
  refunded at the limit, while the provider may still deliver. The comment on
  `MAX_RETRY_COUNT` promises manual review.
- `stuck_order`: after a timeout at a provider without reference lookup the
  order is PROCESSING without an id; the query of the cron never selects it.
  BrandOneCard has a lookup and ends up there too.
- `forced_completion`: complete reads, fail refunds, complete saves: COMPLETED
  and unpaid.
- `coin_review`: `PATCH /orders/:id/fail` closes a coin recharge that the other
  controls refuse to touch.
- `rejected_deposit`: a rejection saved over an approval that was committed and
  credited after its read.

The kill switch of the poller (orders at the retry limit go to manual review
without a call to the provider) has no action of its own: `KillSwitchIdle`, checked
through crashes and faults, says that no order the query selects is ever at the
limit, because whoever counts a check up to the limit decides the order in the
same write. So the comment beside it, that it "prevents infinite loops when a
provider goes offline", describes something that cannot happen: an offline
provider counts no checks.

### Known limits of what holds

Found while modelling. The properties name these cases as exceptions, or the
models contain them and no property forbids them.

- Orders: `AutomationSettles` exempts Xena orders, which poller and executor may
  decide twice; `OutcomeIsFinal` also exempts the crash guard (it fails an order
  already recorded as completed if the last read fails); `FailedIsRefunded`
  exempts crashes and faults, after which a failed order is never refunded by the
  program; with `LostAcks = TRUE` and operators, the reset of the flag after a
  commit that did succeed allows a second refund, so the money properties carry
  `LostAcks = FALSE`.
- The query: an order whose provider is inactive, cannot be reached or leaves it out
  of its answer keeps its `lastCheckedAt`, and so its place among the first 200
  (orderFulfillment.service.js:1106, 1199-1203, 1256-1263, 1302-1321). As many of them
  as the limit keep all others PROCESSING, though their providers would answer.
  `PollableSettles` assumes that every provider answers at last.
- Currencies: `PATCH /admin/currencies/:code` drops the cached document after the
  rate, saves the status then and drops nothing, and `POST /admin/currencies` drops
  nothing at all, so that a conversion in between leaves the old document in the
  cache; and a change drops the copy of one process only. Either way the others are
  used for up to a minute, where currency.service.js:15-16 says that all writes
  invalidate.
- Wallets: `addFunds`, `deductFunds` and `setBalance` set a balance computed from an
  earlier read, so that an order charged in between is undone, where
  docs/wallet-system.md:12 says that check and update are inseparable
  (`LedgerTellsBalance` sets these `stale` writes aside). An order that takes the
  wallet into debt leaves `creditUsed` as it is, where user.model.js:221-222 says that
  it increases, while refunds and top-ups take it down.
- Buying: an unacknowledged commit leaves a paid order that nobody starts
  (`OrdersStart` excludes accidents). After a change of the product's provider a
  repeated request no longer matches its own order. A repeated request is answered
  with its order and 200, where docs/order-system.md:147 and :229 promise 409.
- Adapters: Alkasr, Toros and RoyalCrown take every broken request for a refusal,
  which refunds the customer although the supplier may have the order
  (orderFulfillment.service.js:430-433 means to keep such orders). To Alkasr an OK
  without a status is complete; a word it does not know cancels. BrandOneCard's
  placements that cannot be looked up are stored as Pending without an id, which
  the query does not select, though brandOneCard.adapter.js:131 expects a retry.
  To resellers a PARTIAL order is `wait` for ever (clientCompat.mappers.js).
- Jobs: `orderPolling.job` and `exchangeRateSync.job` are never started by the
  application (only tests require them), so that market rates stay as they were
  entered and the legacy poller's batches never run.
- Catalog: an unhandled rejection of a shared fetch closes the server
  (providerPriceCache.js:81 with server.js), while order.service.js:692 says that a
  transient outage should not block orders. The price check overwrites manual
  prices (product.model.js:11 gives the administrator exclusive control). An
  upsert that fails counts as missing from the list and is deactivated. Two
  publications at once make two products of one ProviderProduct
  (product.service.js:261; product.model.js:263 calls it unique, without an index).
- Accounts: approval and rejection that overlap leave `approvedBy` on a rejected
  account; approve and update reactivate a deleted one; `restoreUser` sets ACTIVE
  where its comment says PENDING; a Google sign-in creates ACTIVE accounts where
  auth.service.js:362 says they need approval; a deleted group that is switched on
  takes newcomers again.
- Notifier: a reconnect during an initialisation can leave a client that nobody
  holds, whose events still set `isReady`; a failed initialisation schedules no
  reconnection; overlapping reconnects leave two browsers.
- Forms: distinct keys are demanded by a comment and checked nowhere; an inactive
  field's label captures a name, so that a form filled in by an active field's key
  is refused; for shared names the shop takes the first field and the reseller
  interface the last; of two keys with one parameter the last wins silently;
  `Number` makes 0 of blanks, `parseFloat` cuts letters off; a choice of
  `dynamicFields` is not checked.

### Fairness

`FairSpec` of OrderFulfillment assumes: weak fairness of the steps of executor,
pollers and refunds (an event loop runs what is ready) and of each process's
`PollStart` (its cron fires every five minutes): `Scheduling`. It adds
`ProviderAnswers` of every order, strong fairness of `PollAsk` by any process: a
provider that is asked again and again answers at last. That is about the
environment, not the code: a provider that stays offline for ever leaves its
orders PROCESSING, because a failing batch counts no retry, and holds up others.
Operators, crashes and the provider's own progress have no fairness.

`FairSpec` of Purchase assumes weak fairness of each request's steps.

## 4. Proofs

`OrderFulfillmentProofs`, for every set of orders and administrators, every
charge, quantity, limit and bound:

| Theorem | Statement |
|---|---|
| `TypesHold` | `Spec => []TypeOK` |
| `FulfillmentImplementsAccount` | if `LostAcks = FALSE`, `Spec => Account!Spec` |
| `RefundsAreBacked` | if `LostAcks = FALSE`, `Spec => []RefundsBacked` |
| `NothingIsOverRefunded` | ... `[]NeverOverRefunded` |
| `UnrefundedOrdersArePaid` | ... `[]UnrefundedIsPaid` |

The argument. `held >= 0` is not inductive: a step that pays is safe only because
the payer holds a claim nobody else has. `RefundsBacked` says so in one formula:
the money held covers one charge per claim. It is proved through the abstract
account. Every action of `OrderFulfillment` is one of `Pay`, `Recharge`,
`Forfeit` or a stutter under the mapping `Claims` (one lemma per group of
actions; the lemmas about the cardinality of `Claimants` reduce it to the one
task that moved), and `Backed` is inductive for `OrderAccount`. The other two
follow, since claims are never negative and an open document is one claim.
Assumptions: the named `ASSUME`s of the constants, and `LostAcks = FALSE`
where stated.

`AutomationProofs` (executor and pollers, for the same constants, any number of
server processes and any batch limit):

| Theorem | Statement |
|---|---|
| `LimitDecides` | `Spec => []KillSwitchIdle` |
| `CompletedOrdersWereSold` | `Spec => []CompletedWasSold` |
| `DeliveredCoinsStayPaid` | `Spec => []DeliveredCoinIsPaid` |
| `StatusTellsTheMoney` | `Spec => []AutomationSettles` |
| `OutcomesStand` | `Spec => OutcomeIsFinal` |

The invariant `AInv` has three parts for an order (`Rules`). `Ruled` relates the
executor and one poller to the document, in layers: what holds whatever happens,
what holds until an operator comes in, until a fault, until a crash. The layers are
needed because a property that excuses a fault must still be carried through the
steps before it. The layers that survive a fault hold for the executor with *each*
poller, since no test on a copy is needed for them: until the executor has recorded
the outcome nobody else takes the order up, and what an executor or a poller has
heard of the end of a sale is true of the sale (`Automated`). The others (`Undecided`,
`Settling`, which follows the refund through the hands of the one who has won it)
rely on the copies being current, and hold for one poller that has had the order
alone since its query (`Alone`). `Money` is what the compare-and-swap of the flag
gives whoever polls: one credit at most is on its way, and the flag tells where the
money is. When a query takes an order that another process still holds, the order
becomes `shared` and only the first and the last part remain.

`PurchaseProofs` (every set of requests, keys, goods, amounts, with or without
transactions):

| Theorem | Statement |
|---|---|
| `PurchaseTypesHold` | `Spec => []TypeOK` |
| `CreditLimitIsKept` | `Spec => []CreditLimitHolds` |
| `ClientsAreToldTheTruth` | `Spec => []AnswersAreTrue` |
| `OnlyPaidOrdersStart` | `Spec => []StartedIsPaid` |
| `PurchaseImplementsCheckout` | `Spec => ImplementsCheckout` |
| `LedgerExplainsBalance` | `Spec => []LedgerTellsBalance` |

`PInv` says of every request what the balance has lost to it at each place
(`Money`), that a snapshot of a transaction which is not outdated shows what is
stored, and that whoever is about to commit is alone (`Snapshots`): without the
latter, nothing keeps a commit from spending what another one has spent since.
`Books` adds the sum: balance and ledger differ by the debits and refunds that
have no row yet. The sum is written as the cardinality of a set of pieces, so
that a step changes it by one slab and no induction over the requests is needed.

`FundsProofs` (every staff, set of processes, of deposits and targets, amounts, rates):

| Theorem | Statement |
|---|---|
| `FundsTypesHold` | `Spec => []TypeOK` |
| `DepositsAreCreditedOnce` | `Spec => []CreditedOnce` |
| `ApprovedDepositsArePaid` | `Spec => []ApprovedIsPaid` |
| `ReviewsStand` | `Spec => DecisionsStand` |
| `LedgerExplainsBalance` | `Spec => []LedgerTellsBalance` |

`FInv` follows the approval of a deposit (`Paid`): from the swap that sets
APPROVED to the row of the ledger it is in the hands of one handler, and it is
credited then or never. `Jobs` says where each kind of handler can be and what it
has read, which the handlers rely on without checking again.

`Books` adds to `FInv` that the ledger explains the balance, which is inductive
with it. What it takes are two sums: over the rows of the ledger, and over the
handlers whose row is under way. Both are folds, and the library's induction
theorems cannot be used; instead each sum is characterised by a running total
(`AddsUp`), whose existence and uniqueness follow from the least counterexample
in a well-founded order (`WFMin`). From them come the only facts the steps need:
a total grows by the row appended, or by what one handler now owes (`TotalGrows`,
`TotalMoves`). `StaffAssumption` says that the handlers are finitely many, as a
sum over them demands.

`SuppliersProofs` (every set of adapters, every retry limit):

| Theorem | Statement |
|---|---|
| `SuppliersTypesHold` | `SuppliersSpec => []SuppliersTypeOK` |
| `SalesAreNotRefunded` | `SuppliersSpec => []NoRefundOfASale` |
| `CompletionsWereDelivered` | `SuppliersSpec => []CompletedIsDelivered` |
| `WaitingOrdersArePolled` | `SuppliersSpec => []WaitingIsPolled` |
| `AnswersAreForeseen` | `SuppliersSpec => []ForeseenAnswers` |

`SInv` judges the result of an adapter already when it is returned, before the
engine has made a status of it (`Answered`), and with it whether the adapter left
an id to poll by. `HInv` adds that each result is one of the replies of
OrderFulfillment for that state of the sale: the proofs about the automation
stand on answers that the adapters do give.

`CatalogProofs` (any number of handlers, processes, products, price lists):

| Theorem | Statement |
|---|---|
| `CatalogTypesHold` | `CatalogSpec => []CatalogTypeOK` |
| `LocksAreSyncs` | `CatalogSpec => []LockIsASync` |
| `CachesGoForward` | `CatalogSpec => CacheNeverGoesBack` |
| `SalesCoverCost` | `CatalogSpec => SoldAboveCost` |

`CInv`: at most one sync and one fetch of a process are at work, a sync only under
the lock (`Exclusive`); what a handler has fetched is not older than what the
cache of its process has; and every stored price, every price a handler is about
to save, is fair unless it was named by hand (`Priced`). The price rule is not
inductive without the documents that are still in the hands of handlers.

`AccountsProofs` (any number of handlers, accounts, addresses, groups):

| Theorem | Statement |
|---|---|
| `AccountTypesHold` | `AccountsSpec => []AccountsTypeOK` |
| `AddressesAreUnique` | `AccountsSpec => []OneAccountPerAddress` |
| `DecisionsAreKept` | `AccountsSpec => DecisionsHold` |

`AcInv` says of every handler which account it has and that what it is about to
write are fields of their types that it is entitled to (`Suits`, `Entitled`): an
outcome of a read that other handlers have overtaken. Accounts are never
removed, so that the reference stays good.

`ShopProofs` (any number of operations at once, any number of clients; every set of
forms and mappings, any number of entries):

| Theorem | Statement |
|---|---|
| `NotifierTypesHold` | `NotifierSpec => []NotifierTypeOK` |
| `LostClientsAreReplaced` | `NotifierSpec => []LostIsReplaced` |
| `FormTypesHold` | `FormSpec => []FormTypeOK` |
| `AnswersReachTheProvider` | `FormSpec => []AnswersArrive` |
| `ShopTypesHold` | `Spec => []ShopTypeOK` (of MCShop) |

`LostIsReplaced` is not inductive: an operation of another kind may end while the
client is lost. `NInv` says what does replace it: a client that is in place and
lost without a timer, or in place while reconnection is off, is being logged out
by a reset, which destroys it next.

`OInv` says at each stage what is known of the order in terms of the form it was
asked on: the entries are those filled in, some under resolved names (`Resolved`);
an order refused is filled in wrongly, one created is not (`Misfilled`), and each
answer is stored once under its key (`Stored`). Its core is `ResolvedTwice`: in a form
whose fields share no name, what `clientCompat` resolves by the last active field
and `createOrder` resolves again by the first field comes to the same key. In an
ambiguous form it need not, and nothing is claimed of those. `ShopTypesHold` puts
the five invariants together.

TLC has checked each inductive invariant as an invariant of a behaviour with the
constants of the run or close to them: `PInv` on 408 864 states, `AInv` on 404 535
(`pipeline`) and 5 587 263 (`back_office`), `FInv` and `Books` on 1 702 732 (`funds`),
`AcInv` on 14 247 904 (three requests), `NInv` on 2 477 311 (three operations, four
clients), and `ShopInv`, which puts together `CInv`, `AcInv`, `NInv`, `OInv` and `SInv`,
on the 879 060 of `shop`.

The theorems assume the named `ASSUME`s of the constants. They say that
quantities are natural numbers and not zero where the code refuses zero, that
sets of requests and the staff are finite, that a product has some mapping, and that the marks of absence (`None`, `Absent`,
`NoKey`) are not among the values they stand beside. TLC evaluates them in every
run.

Model-checked only:

- liveness (`PollableSettles`, `FailedIsRefunded`, `OrdersStart`), which the prover
  does not cover;
- the runs that show what does not hold.

## 5. Not modelled

- `orderPolling.service` and its job, `exchangeRateSync.service` and its job: nothing
  schedules them.
- Notifications, audit rows and mail: written after the fact, without effect on
  another component; failures are only logged.
- HTTP routing, validation of single requests, authorisation by role: no state.
- Decimal arithmetic with 50 digits, formats of dates, texts and messages.
- Order numbers (one atomic `$inc`), the verification of a target account at the
  provider (it only refuses), suspension of accounts.
- The administration of target apps, categories, settings, avatars, permissions:
  writes of single documents that nothing else reads in between.
- The session of the Xena supplier, request formats and credentials of adapters.
- Public identifiers of the reseller interface (a compare-and-swap each) and its
  authentication by token.

## 6. Plan

What is left to prove: for OrderFulfillment the money of orders that operators and
faults have touched, beyond what `RefundsBacked` says of it.

## 7. Running

    tlc -config BackOffice.cfg MCOrderFulfillment.tla
    tlc -config Shop.cfg MCShop.tla
    tlapm OrderFulfillmentProofs.tla
