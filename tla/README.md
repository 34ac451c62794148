# Formal model of the private-domain mall

This directory is a TLA+ verification development for the private-domain mall
(API, workers, database repositories, payment provider and clients of this
repository). It models the code that moves stock, money, goods and identities:
orders and payments, aftersales and refunds, the agent's wallet, the catalogue and the
checkout, sessions and attribution, commands with previews, files, outbox and
workers, and the journals of the clients. TLC checks small instances, TLAPS proves
the central invariants for every value of the constants.

Contents: 1 inventory, 2 plan, 3 modules and code, 4 abstractions, 5 runs and
bounds, 6 fairness, 7 where documents and code differ, 8 proofs, 9 not modelled.

## 1. Inventory

Paths are relative to the repository; `db/` is `packages/database/src/`, `api/`
is `apps/api/src/`, `worker/` is `apps/worker/src/`, `mini/` is `apps/miniapp/src/utils/`,
`web/` is `apps/admin-web/src/`. Every repository method `...InTransaction` runs in a
serializable transaction with row locks and row versions; provider calls, Redis
scripts, object storage and everything between two transactions are outside.

| Component | State | Operations | What makes it correct |
|---|---|---|---|
| Orders `db/store-order` | `sales_order`, `inventory_reservation`, `inventory_balance` | create with reservation, cancel, claim a close, finalize it, expire | stock is conserved; outcomes are final; open orders end |
| Payment intents `db/store-payment`, `api/store-payments` | `payment_intent`, `payment_attempt`, `sales_order.payment_status` | prepare or reuse, revalidate, create or query at the provider, record the outcome | one active intent per order; an abandoned intent is not payable |
| Provider (mock) `packages/payment/src` | Redis hashes per intent and refund | create, query, close, settle, refund, each one Lua script with a deadline | called outside transactions, answers may be lost |
| Callback inbox and worker `db/callback-inbox`, `worker/payment-callback` | `callback_inbox` (status, retries) | receive, take, apply, count a retry, mark processed, requeue | each event is applied once, although it is delivered at least once |
| Late refunds (same files) | `refund`, attempt numbers, `payment_resolution` | claim, refund at the provider, finalize, retry | exactly one refund, only for a closed order, its state told truly |
| Order timeout worker `worker/order-timeout` | cursor and reports of the process | claim batch, ask the provider, finalize, expire batch, scan for damage | every unpaid order ends; none starves behind others |
| Reconciliation `api/admin-payments`, `db/payment-reconciliation` | preview, session advisory lock | query again, requeue callback, repair a half-finished close, push a refund | repair never contradicts the workers |
| Outbox `worker/outbox-dispatcher`, `db/outbox` | `outbox_event`, session locks | poll, lock, re-read, handle, mark, back off | nothing is forgotten; every event ends; outcomes stand |
| Aftersales `db/store-aftersale`, `db/admin-aftersale` | `aftersale`, reserved quantities and amounts | apply, cancel, ship back, approve, reject, inspect | what is reserved can be refunded |
| Ordinary refunds `db/admin-refund`, `worker/refund-processing` | `refund`, attempts, refunded quantities | create, claim, execute, call back, finalize, retry, compensate | refunded money never exceeds paid money; books match the provider |
| Fulfilment `db/fulfillment` | shipment, order status | ship, correct logistics, complete | nothing refunded is shipped |
| Inventory administration `db/inventory` | `inventory_balance`, ledger | preview and confirm an adjustment | never below what is locked; done as shown |
| Wallet and withdrawals `db/agent-finance`, `db/admin-withdrawal`, `db/commission` | wallet, ledger, commission positions, withdrawals, proofs | freeze, complete, reverse, request, reject, pay | balances add up; reviews act on what was shown |
| Rules and settings `db/commission`, `db/business-rule`, `db/return-address` | numbered versions with `effective_at` | publish; settle, complete, withdraw, approve with the version in force | history in order; everybody takes what is in force |
| Commands with previews `db/idempotency`, `db/high-risk-preview` | `idempotency_record`, preview tokens, HMAC keys | preview, claim, confirm, replay, rotate | executed once, as shown, answered alike |
| Catalogue `db/master-data`, `db/product-catalog`, `db/store-catalog` | brands, categories, products, SKUs | edit, activate, switch off, archive, replace, list | what is offered can be ordered |
| Cart and checkout `db/store-cart`, `db/store-checkout`, `db/store-order` | cart, quote credential, addresses, prices | change cart, quote, order | an order is what was quoted, once, and covered by stock |
| Files `db/file-asset`, `worker/file-cleanup`, `api/files` | file rows, cleanup events, object store, Redis leases | intend, upload, complete, attach, clean up | READY means stored; no attached file is removed; nothing is left behind |
| Customer accounts `db/store-auth`, `db/store-privacy`, `db/store-address` | accounts, sessions, belongings, address book | sign in, rotate, sign out, edit, preview and confirm deletion | one account per identity; a deleted account keeps nothing |
| Attribution `db/store-attribution`, `db/admin-agent`, `db/agent-commerce` | invite codes, candidates, bindings, material | rotate, disable, visit, bind, transfer, order, settle | one binding at a time; orders keep their agent |
| Agent sessions and login `db/agent-auth`, `api/agent-auth` | account version, sessions; Redis counters and leases | log in, rotate, reset, change password, disable; count failures | sessions are of the current password; limits hold |
| Administrator sessions `db/admin-auth` | account version, factors, challenges, sessions, grants, recoveries | log in with a second factor, recover, reauthenticate, reveal, recover offline | a proof is used once; authority is that of now |
| Storefront client `mini/` | stored session, journals, guest cart | authenticated call with shared refresh, repeat a command, merge the cart | nothing is forgotten or done for another customer |
| Administrator's refund page `web/` | page session, dialog, journal | preview, confirm, repeat, sign in again | a confirmation is not forgotten before its end was seen |

**Interaction.** API requests and workers share the database only. A customer's
pay request reads and writes the intent, calls the provider, and records the
outcome in a later transaction. The provider's answer to the customer produces
a signed callback that becomes an inbox row. The callback worker applies the row
to intent, order, stock and refund. The timeout worker, a cancelling customer
and an administrator close orders by the same protocol: claim, ask the provider,
finalize. Settlement, completion and refunds write the commission position and the
wallet. Aftersale decisions create refunds whose execution is an outbox event. Commands
of administrators carry a preview token and an idempotency key; clients keep that
key in a journal until they know how the command ended.

**What is hard.** Every actor acts on the strength of rows it read before a
provider call, a lock or another screen. The provider may execute a call whose caller
has given up. Events are delivered more than once, late, or after what they are about
has ended, and the row is marked processed by an update separate from the one that
applied it. Retries run out. Leases lapse under their owners. A serializable transaction
that waited for an advisory lock still reads the snapshot of before. `PROJECT.json`
lists each hazard at its line with the properties that would catch it going wrong.

## 2. Plan

Done:

1. `MallState`, `StoreOrders`, `StorePayments`, `PaymentProvider`,
   `PaymentCallbacks`, `LateRefunds`, `PaymentReconciliation`: one module per
   component over shared rows; `OrderPayment` composes them; `SalePromise` is what a
   sale promises, `OrderPaymentRefinement` maps the composition onto it.
2. `SaleSafetyProofs`: all safety properties of that composition and the refinement are
   proved.
3. Outbox, aftersales with refunds and fulfilment, refund execution with its promise,
   commands with previews, the wallet.
4. Catalogue, checkout, files, customer accounts, attribution, agent and administrator
   sessions, offline recovery, login limits.
5. Versions of rules; the loop of the timeout worker; the clients: session and journals
   of the storefront, merge of the guest cart, the administrator's refund page.
6. Proofs for agent sessions, refund execution and login limits.
7. Proofs about whole suites: `ServicingProofs` and `TradeProofs` (`trade`), `LeasesProofs`
   (`leases`), `HeadquartersProofs` (`headquarters`) and `AccountsProofs` (`accounts`) prove
   every property these runs check.

What would come next: proofs of refund execution with processes that die and of the report
of damaged orders; the journal of withdrawal proofs; banners.

## 3. Modules and code

| Module | Models | Source |
|---|---|---|
| `MallState` | rows, row versions, initial state, shared reads | schema and the reads at the head of each transaction |
| `StoreOrders` | `CreateOrder`, `CancelOrder`, `ClaimNextOrderClose`, `ExpireNextOrder`, `FinalizeOrderClose` | `db/store-order.repository.ts`, `worker/order-timeout.service.ts` |
| `StorePayments` | `PreparePaymentIntent`, `RevalidateProviderCreate`, `RecordProviderOutcome` | `db/store-payment.repository.ts`, `api/store-payments` |
| `PaymentProvider` | query, create, close, refund, their time-outs, `SubmitResult`, `DeliverResult` | `packages/payment/src/mock-payment-provider.ts` |
| `PaymentCallbacks` | `TakeCallback`, `ApplyPaymentCallback`, `MarkProcessed` | `db/callback-inbox.repository.ts`, `db/store-payment.repository.ts`, `worker/payment-callback.service.ts` |
| `LateRefunds` | `ClaimLateRefund`, `FinalizeLateRefund`, `RetryLateRefund` | `db/store-payment.repository.ts`, `worker/payment-callback.service.ts` |
| `PaymentReconciliation` | `StartReconciliation`, requeue, `RepairTerminalClose` | `api/admin-payments`, `db/payment-reconciliation.repository.ts` |
| `OrderPayment` | all of them interleaved, crashes, safety properties | |
| `SalePromise`, `OrderPaymentRefinement` | the promise and the mapping onto it | |
| `OrderPaymentLiveness`, `OrderPaymentClaims` | fairness, liveness, statements of the documents | |
| `OrderServicing` | aftersales, refunds, compensations, shipment and completion of one order, with stock and commission | `db/store-aftersale`, `db/admin-aftersale`, `db/admin-refund`, `db/fulfillment` repositories |
| `RefundExecution`, `RefundPromise` | one refund: attempts, execution event, provider, callback; what it promises | `worker/refund-processing.service.ts`, `db/admin-refund.repository.ts` |
| `OutboxDispatch` | poll, session lock, re-read, handler, outcome, backoff | `db/outbox.repository.ts`, `worker/outbox-dispatcher.service.ts`, `db/advisory-lock.ts` |
| `HighRiskCommands` | preview, claim, confirm, replay under retried serializable transactions | `db/idempotency.repository.ts`, `db/high-risk-preview.repository.ts`, `db/transaction.ts` |
| `AgentWallet` | wallet, ledger, positions, withdrawals, reviews | `db/agent-finance`, `db/admin-withdrawal`, `db/commission` repositories, migration `0006` |
| `ConfigVersions` | publication of a version, and everybody who takes one | `db/commission`, `db/business-rule`, `db/return-address` repositories |
| `Catalogue` | lifecycle of brands, categories, products, SKUs | `db/master-data`, `db/product-catalog`, `db/store-catalog` repositories |
| `StoreCheckout` | cart, quote, order, stock adjustment | `db/store-cart`, `db/store-checkout`, `db/store-order`, `db/inventory` repositories |
| `FileAssets` | uploads, completion under leases, attachment, cleanup | `db/file-asset.repository.ts`, `worker/file-cleanup.service.ts`, `api/files/files.service.ts` |
| `StoreAccount` | sign-in, sessions, belongings, addresses, deletion | `db/store-auth`, `db/store-privacy`, `db/store-address` repositories |
| `Attribution` | codes, candidates, bindings, material, the agent of an order | `db/store-attribution`, `db/admin-agent`, `db/admin-customer`, `db/agent-commerce` repositories |
| `AgentSessions` | account version, sessions and families of an agent | `db/agent-auth.repository.ts`, `db/admin-agent.repository.ts` |
| `LoginLimiter` | one login attempt and its tries against Redis and the database | `api/agent-auth/agent-auth.service.ts`, `api/agent-auth/agent-login-rate-limiter.ts` |
| `AdminSessions`, `OfflineRecovery` | two-factor sign-in, grants; recovery by two other administrators | `db/admin-auth.repository.ts`, `api/admin-auth` |
| `StorefrontClient` | session, shared refresh, order and aftersale journals | `mini/customer-session.ts`, `mini/store-identity.ts`, `mini/order-submit-journal.ts`, `mini/aftersale-confirm-journal.ts` |
| `GuestCartMerge` | guest cart, merge journal, idempotency record | `mini/guest-cart.ts`, `mini/guest-cart-merge-journal.ts` |
| `AdminRefundConsole` | page session, dialog and journal of a refund command | `web/services/auth-session.ts`, `web/services/admin-api.ts`, `web/components/orders/OrderRefundCommandDialog.vue`, its journal |
| `TimeoutWorker` | the loop: batches, pages, delays, silence, restarts | `worker/order-timeout.service.ts`, claims in `db/store-order.repository.ts` |
| `MCOrderPayment`, `MCTrade`, `MCAccounts`, `MCHeadquarters`, `MCLeases`, `MCWorkers` | instances for TLC | |
| `SaleSafetyProofs`, `RefundExecutionProofs`, `LoginLimiterProofs` | theorems about a component or a composition | |
| `ServicingProofs`, `TradeProofs`, `LeasesProofs`, `HeadquartersProofs`, `AccountsProofs` | theorems about the suites `MCTrade`, `MCLeases`, `MCHeadquarters`, `MCAccounts` | |

**Correspondence of the payment modules.** `order[o]` is the `sales_order` row with its
reservation, `physical` and `locked` the balance of the one SKU, `intent[i]` the intent row
with its attempt, `inbox[i]` the inbox row of the event the provider made for `i`,
`refund[o]` the LATE_PAYMENT refund. `proc[p]` is where a request or worker is: `pc` names
its next transaction or provider call, so one action is one transaction or one call.
Where the code takes the row version with it and compares it in the next transaction,
`proc[p].view` is `"current"`, and every write of that row by somebody
else turns it `"stale"` (`"superseded"` when a retry has replaced the refund
attempt). This is what a version comparison can tell, without counting versions.

The close of an order, seen in the code and in the model:

    claimOrderCloseInTransaction      ClaimOrderClose     intent becomes CLOSE_PENDING
    provider.query / provider.close   QueryProvider, CloseAtProvider, CallTimesOut
    finalizeOrderCloseInTransaction   FinalizeOrderClose  KeepPending or FinishClose

**The other modules** follow the same rule: a row is a record, a table a function, one action
one transaction, one Redis script, one call to provider or store, or, in a client, the
code between two awaits. `PROJECT.json` "map" gives the lines of every definition.

**Suites.** `MCTrade`, `MCAccounts`, `MCHeadquarters`, `MCLeases` and `MCWorkers` put
several components into one specification. The components share no variable, so a
property of one depends on the order of its own steps only, and a behaviour moves the one
part chosen in its initial state: TLC explores the sum of the state spaces and not their
product. The constant `Parts` names the parts; a run of one part alone is the same cfg
with `Parts` reduced to it. A suite's property is the conjunction of the component's
named properties, which stand, one by one with their comments, in the component's module.

In all of them but `MCWorkers` a component has one instance whose constants are constants of
the suite. Parts that explore it under different bounds share the instance, and the bound is
a conjunct of the part's step (`CompensationStep`, `CartsStep`, `Reaches` in `MCHeadquarters`,
`Serves` and `Uses` in `MCAccounts`): such a step is a step of the component, so what is
proved of the component for all values of its constants holds of every part. `AdminSessions`
names the kinds of moves of its `Next` (`SignIn`, `Recover`, `Leave`, `Change`, `Reset`,
`Reauthenticate`, `Payout`), as `Attribution` does (`Visit`, `Withdraw`, `Serve`), and each
part takes some of them.

Operators whose comment starts with "Mutant:" are faulty versions of the definition
that follows them. No specification uses them. They are there to show that a property
notices the fault: for each checked property `PROJECT.json` names one, and
with it in place of the real definition TLC finds the property violated.

## 4. Abstractions

Common to all: amounts, names and payloads are there only as far as a property tells
them apart; the refusal of an outdated `expectedVersion` changes no row and is left out
unless the race is what the module is about; reads, reports and audit rows are left out.

**Orders, payments, late refunds**

* **Data.** One SKU, every order takes `Qty` pieces. Provider request digests cannot
  differ, because one intent always sends the same request.
* **Time.** `expired[o]` says that the clock passed `pay_expires_at`; the provider's
  event carries `late`, whether it happened at or after that moment.
  `next_reconcile_at`, claim order and retry backoff are left nondeterministic
  (`TimeoutWorker` is about them).
* **Provider.** It emits one event per intent (its scripts do), keeps its records
  (the seven-day TTL never passes), and a late call may run at any later time or never.
* **Requests.** The idempotent replay of a cancel or pay request is left out
  (`HighRiskCommands` shows the protocol). An UNKNOWN result recorded twice with the same
  timestamp is taken as recorded.
* **Settlement.** Commission, wallet and attribution writes are one choice: all facts
  are there (`Settle`) or one is missing (`WaitForManual`). The choice is allowed
  only when `SettlementMayFail`. What they write is in `AgentWallet`, `ConfigVersions`
  and `Attribution`.
* **Locks.** The session advisory lock of a reconciliation and that of an inbox row
  are taken as held until the process dies; lost session locks are modelled in
  `OutboxDispatch` and `RefundExecution`.

**Aftersales, refunds, wallet**

* `OrderServicing`: one order, one transaction per command under the order's locks. The
  CHECK constraints of `order_item` belong to every transaction that writes it. Money is
  whole cents. A line whose commission rounds to nothing has no position to settle
  (`NONE`). Customers apply for either type of aftersale at any time, as the code accepts.
* `RefundExecution`: version 3n-2, 3n-1, 3n of the refund are attempt n created, claimed,
  failed. Lost calls, deaths and lost sessions are budgeted by `MaxFaults`; a worker whose
  session is gone finishes what it does without the lock and cannot publish the event.
  `history` keeps for the properties whether a worker was cut off between inbox and outbox
  (`cut`), and whether an attempt was retried while a worker asked about it (`overtaken`).
* `AgentWallet`: one agent; operations are steps, and the previews of headquarters interleave.
* `ConfigVersions`: moments are natural numbers; `start` is the transaction's timestamp and
  `snap` how many versions its snapshot shows.

**Catalogue, checkout, files**

* `Catalogue`: a version is whether the one shown is still the stored one.
* `StoreCheckout`: a quote is a copy of the facts it was made from, as the signed credential
  is; it is not stored, and nothing marks it as used.
* `FileAssets`: renewing a lease and the effect it allows are one step, because the TTL is
  longer than the store's timeout. Time is whether a file is old enough for cleanup (`aged`)
  and whether it has been READY for seven days (`ripe`).
* `OutboxDispatch`: the clock is whether `next_retry_at` has come; crashes, broken
  connections and handler failures are budgeted by `Faults`.

**People**

* `StoreAccount`, `AgentSessions`, `AdminSessions`: a request is authenticated, or a password
  verified, in one step and acts in a later transaction with what it saw. TOTP codes are
  time steps. Nickname, avatar and city are left out.
* `OfflineRecovery`: the operator's own proof is `AdminSessions`' business.
* `LoginLimiter`: markers and idempotency records (24 hours) never lapse, windows do.
  `Slow` says whether a try may outlive its lease.
* `HighRiskCommands`: the resource is a version and the facts an impact is computed from;
  a snapshot is taken at the first statement, which is the lock itself.

**Clients**

* `StorefrontClient`, `GuestCartMerge`, `AdminRefundConsole`: the code between two awaits
  is one action; a request nobody waits for may still reach the server. The server is what
  the client relies on, modelled by what its transaction does. An item of the cart is its
  quantity. The 24 hours of the administrator's journal are left out; the lapse of the
  idempotency record under the guest's journal is an action (`MaxLapses`), and `risked` keeps
  for the properties whether one lapsed under a journal or two synchronisations overlapped.
* `TimeoutWorker`: a unit of time is one call the provider does not answer.

**External.** The mock provider is part of the repository and is modelled from
its scripts. Nothing else outside the repository is assumed.

## 5. Runs and bounds

Twelve runs. `CHECK_DEADLOCK` is off in all of them but `trade`: in the others a settled or
closed order, an answered request or an empty queue with nobody asking for anything is the
normal end, or the bounded rows are used up; a state in which somebody waits for what never
comes is the business of the liveness properties. In `trade` the parts that may end say so
(`Rest`), and the catalogue, which never may, is checked for deadlock.

| Run | Instance | Distinct states | Shows |
|---|---|---|---|
| `shared_stock` | two orders of 2 pieces, 3 in stock, payer, canceller, callback worker | 0.65 M | `StockConserved` |
| `sale_race` | one order with timeout worker, canceller, two callback workers: two successive intents and no faults, or one intent, one callback at a time, crashes and lost calls | 2.0 M | `OneActiveIntent`, `PaidExactlyOnce`, `NeverGoodsAndRefund`, `GoodsOnlyForMoney`, `GivenUpIsNotPayable`, `OutcomeIsFinal`, `SeenMoneyKeepsOrder` |
| `promise` | one order, timeout worker, administrator, missing facts, lost calls and crashes | 0.50 M | `PromiseKept`: the system implements `SalePromise`; `LateMoneyTracked` |
| `progress` | as `promise` without administrator, under fairness | 16 k | `OpenOrdersEnd`, `PromptMoneyIsRecorded`, `LateMoneyIsAnswered` |
| `trade` | `MCTrade`: rules, first version, wallet, servicing, compensation, checkout, carts, goods | 1.2 M | `HistoryInOrder`, `TakesTheVersionInForce`, `MoneyAddsUp`, `ReturnsAddUp`, `ShippedOrRefunded`, `OrdersAreCovered`, `OfferIsSound`, `ActedAsShown` |
| `accounts` | `MCAccounts`: agents, codes, drawn material, transfers, sign-ins, leaving, addresses, calling, commanding, guest, quantities | 1.6 M | `SessionsAreSound`, `BindingsAgree`, `AccountsAreSound`, `ClientKeepsTrack`, `CartArrives`, `LateIsHarmless` |
| `headquarters` | `MCHeadquarters`: commands, login, reset, payout, recovery, recoveries, console, oneSession | 1.1 M | `CommandsAgree`, `ExecutesWhatWasShown`, `SignInsAreSound`, `ActsWithAuthority`, `ConsoleKeepsTrack` |
| `leases` | `MCLeases`: slow and prompt logins, outbox, uploads, promotions | 1.6 M | `AttemptsAgree`, `LeasesHold`, `SlowIsHarmless` |
| `workers` | `MCWorkers`: refunds retried by workers that die and lose sessions, outbox, uploads, three queues, under fairness | 0.17 M | `BooksAgree`, `KeepsPromise`, `GivenBackIsBooked`, `WorkEnds`, `QueueMovesOn` |
| `expired_money`, `refund_poisoned`, `order_journal` | see section 7 | | a statement of the documents does not hold |

**Why the bounds are enough.**

* *Payments.* Customers' orders compete only for stock, so `shared_stock` has two orders
  and the others one. An order's second intent begins only after its first one ended, so
  two slots show everything that crosses from one intent to the next. `MaxRetries = 2`
  has a failure that is retried and one that is final; more would repeat the first. One
  actor of each kind can meet itself again after a crash; where two of a kind race
  (callback workers, the two ways to close, administrator against worker) the run has both.
* *Rules.* Two administrators and one reader over three versions: a reader between two
  publications that overlap. The first version of all is a part of its own, because its
  ETag tells nothing.
* *Wallet.* Two commissions, two withdrawals and one proof: a refund can take back what a
  withdrawal has frozen or been paid, and one proof can be presented twice.
* *Servicing.* A line of two units and one of one, a commission that rounds down on the
  unit and up on the line, two aftersales over both lines; and one line with an
  aftersale and a compensation of any amount up to more than half of the line.
* *Checkout, carts, goods.* Two customers for two units of one SKU with two quotes and
  adjustments; one customer with two SKUs, of which he orders some and one is edited
  meanwhile; one product with two SKUs and a brand that can be replaced.
* *Accounts.* The parts meet with as many rows as one race needs: a row it is about, one
  that replaces it, and a second actor. `MaxVersion` and `MaxSessions` of the agents leave
  room for reset, replacement and a login that straddles both.
* *Administrators.* Logins over three versions and three time steps with four sessions;
  recovery codes of two factors and their three prints; one payout grant; one recovery among
  four administrators, of whom one may be disabled, then two recoveries with only three of
  them taking part; two administrators on one page with one command, then one session with
  two commands and two previews. Each is the least with something to confuse.
* *Commands.* Two requests over two keys and two previews: same key same body, same key
  other body, other key same preview, and one rotation of the HMAC key between them.
* *Leases.* Three tries of two attempts, two of which share a login name or a source;
  two workers on one event or file and one holder that dies or is slow.
* *Queues.* Silent orders at the head, fewer and more than the batch and the delay allow;
  damaged orders on a page behind healthy ones.

**Reading the properties.** `GivenUpIsNotPayable` is about intents whose provider
identifier the shop has recorded; without that condition it is false (`released_stock`,
section 7). `PromptMoneyIsRecorded` is about intents nobody had asked to close when the
callback arrived; without that condition it is false (`cancelled_money`).
`LateMoneyTracked` says that a refund called SUCCEEDED was executed; the converse is not
promised: an unanswered late refund is recorded FAILED and given to a person (documented in
the B10 report), although the provider may have executed it. `SalePromise` therefore calls
money returned when the provider has sent it. `ReturnsAddUp` of the compensation part
leaves out that every success can be recorded, which is false (`stuck_refund`), and
`WorkEnds` leaves out orphans (`orphan_starves`). `BooksAgree`, `KeepsPromise` and
`GivenBackIsBooked` hold until an attempt is overtaken, which takes a worker cut off between
inbox and outbox (`OvertakenAfterCut`); after that they are false (`refund_poisoned`).
`NothingForgotten` of the administrator's page names the two causes for which the code forgets a
command that was executed: a repetition of it was refused because its preview had lapsed
(`admin_console_lapse`) or was another session's (`admin_console_relogin`). `CartArrives` lets
nothing get lost, and lets goods be doubled only after overlapping synchronisations
(`guest_merge_twice`) or a lapsed record (`guest_merge_lapsed`). `ReturnsAddUp` excepts from
`ApprovedIsRefundable` the aftersale without return that claims shipped units (`approved_stuck`).

**Refinements.** In `OrderPaymentRefinement`, `Goods(o)` follows the reservation, `Money(o)`
the attempts and what the provider has sent back, and the free pieces are `physical - locked`.
Each transaction or call is one step of `SalePromise` or changes nothing it sees.
`WaitForManual` is a `TakeMoney` that leaves the goods reserved. `RefundExecution` maps
onto `RefundPromise`, in which a refund has attempts, each is answered once, money goes
back at most once, and only an attempt recorded as failed is followed by another.

## 6. Fairness

Customers and administrators owe nothing. Clocks go on. Processes poll in loops, so what
they can do again and again they do at last. Every specification that states fairness:

* `OrderPaymentLiveness.FairSpec` (`progress`): `WF` of `ExpiryPasses`; strong fairness of
  each step of a worker, because a crash, a lost answer or another process may disable a
  step for a while, and of the provider calls, so that a worker's call is not lost every
  time. The last conjunct of `TimeoutWorkerFairness` says that a worker which
  holds a definitive answer again and again finalizes it in the end rather than
  losing its row version every time. `progress` has no canceller: a customer who keeps
  cancelling and keeps recording UNKNOWN can bump the row version for ever before the
  worker finalizes; the code has nothing against it, and nothing to gain from it either.
* `RefundExecution.FairSpec`: `WF` of each worker's step and of the inbox handler; calls and
  sessions are lost, and processes die, at most `MaxFaults` times.
* `OutboxDispatch.FairSpec`: `WF` of the clock and of each dispatcher's step; strong fairness
  of success of the handler of a durable event that is not poisoned, since such an event
  is retried for ever and fails on outages that end.
* `FileAssets.FairSpec`: `WF` of time, of due events, of the end of a holder's lease, and of
  each request's and worker's step; faults are bounded.
* `TimeoutWorker.Spec`: `WF` of the worker and `SF` of a sleep that takes time. Whether
  the head of the queue starves the rest is arithmetic: a silent order costs the provider's
  timeout and is put off by a minute, so with as many silent orders as fill that minute
  (five seconds each, batches of twenty) later intents are never asked about. Orders without an
  intent are closed by a query of their own and always move on (`starved`).
* `MCWorkers.Fairness` (`workers`) states the same for each part over that part's variables.

Four more modules state a liveness property and its `FairSpec` that no standing run
checks: `HighRiskCommands.EveryRequestAnswered` (two keys, one preview, three requests),
`LoginLimiter.LeaseEnds` (two attempts, two tries, `Slow = FALSE`), `StorefrontClient.EveryCallEnds`
(one customer, two calls, two tokens) and `OrderServicing.ExecutionIsRecorded` (no
compensations; with one, `stuck_refund` of section 7 stands against it). TLC finds
them true on those instances. `Slow = FALSE` assumes that a request lives less than the
five minutes of its lease.

## 7. Where documents and code differ

Three runs each check one statement of the repository's documents, and TLC finds it
violated. The quotations are in `PROJECT.json`; `docs` is `product-materials/docs`.

* **`expired_money`.** A customer pays after `pay_expires_at`, before the worker
  has closed the order. `applyPaymentCallbackInTransaction`
  (`store-payment.repository.ts:1198`) refuses a success whose time is not before the
  expiry while the order is open; the retries run out and the row is FAILED. The
  worker's close sees SUCCEEDED at the provider, keeps the order open and never
  selects it again (`store-order.repository.ts:2602`). The money is neither recorded nor
  refunded and the stock stays locked. The change record (line 276) promises
  an automatic refund after the expiry.
* **`refund_poisoned`.** `handleExecution` (`refund-processing.service.ts:202`) checks the
  event against the refund only in its first transaction. After a crash between inbox and
  outbox the event is handled a second time; if the attempt is recorded as failed and
  retried before the query, the worker has the failed attempt executed after all, or signs
  the new attempt's success with the old attempt's number, and no callback can ever record the
  money. The B12 report (line 347) says that old execution events are guarded against.
* **`order_journal`.** `isCertainOrderSubmitFailure` (`order-submit-journal.ts:239`) takes 401
  and the client's own 409 for certain failures. A repetition that meets an expired session
  clears the journal of an order whose first submission was placed and its answer
  lost; the customer who signs in again submits under a new key. The design of the
  prototype (line 412) wants the journal kept while the outcome is unknown, and the aftersale
  journal does keep it.

There are more such properties, stated in the modules or by the formula below, which no
standing run checks. Each is reproduced by a cfg with the constants below and the property as its
only INVARIANT or PROPERTY; TLC finds a counterexample in each.

| Name | Property | Instance |
|---|---|---|
| `cancelled_money` | `OrderPaymentClaims!CancelledMoneyIsRecorded` | `FairSpec`, as `ExpiredMoney.cfg`, with a canceller |
| `seen_money` | `OrderPaymentClaims!SeenMoneyReachesInbox` | `FairSpec`, as `ExpiredMoney.cfg`, `CallsMayBeLost = TRUE` |
| `recovered_money` | `OrderPaymentClaims!RecoveredMoneyIsRecorded` | the same |
| `released_stock` | `OrderPaymentClaims!ReleasedIsNotPayable` | `Spec`, one order, slot, payer and canceller |
| `last_units` | `OrderServicing!PreviewCanBeConfirmed` | one line of 2 units at 3, `Rate = 50`, one aftersale, one compensation of 1 |
| `stuck_refund` | `OrderServicing!SuccessCanBeRecorded` | the same |
| `approved_stuck` | `OrderServicing`: `\A a \in Aftersales : ReadyToRefund(a) /\ refund[a].status = "NONE" => AftersaleRefundable(a)` | the same line, one aftersale, no compensation |
| `ship_refunded` | `OrderServicing`: `[][\A i \in Items : item'[i].shipped > item[i].shipped => item'[i].shipped <= Quantity[i] - item[i].refQty]_vars` | the same |
| `orphan_starves` | `FileAssets!OrphanIsReclaimed` | `FairSpec`, two files, one of them a QR code, two requests, one worker, `BatchSize = 1`, no faults |
| `guest_merge_twice` | `GuestCartMerge`: `journal = {} => \A s \in Skus \ edited : guest[s] + added[s] = wanted[s]` | one customer, two SKUs, `MaxQuantity = 1`, `MaxKeys = MaxCalls = MaxLogins = 2`, no restarts and lapses |
| `guest_merge_lapsed` | `GuestCartMerge`: `\A k \in Keys, x \in Customers : merged[k][x] <= 1` | one customer, one SKU, `MaxCalls = MaxLapses = MaxRestarts = 1` |
| `config_gap` | `ConfigVersions!RuleOfPaymentTime` | `Bootstrapped`, two publishers, one reader that settles, two versions |
| `admin_console_relogin` | `AdminRefundConsole`: `\A k \in DOMAIN commands : commands[k].done /\ k \notin shown.done => journal[commands[k].by] = k` | one administrator, `MaxSessions = 2`, `MaxCalls = 2`, the rest 1 |
| `admin_console_lapse` | the same | the same with `MaxSessions = 1` |

* **`cancelled_money`.** A cancellation has claimed the order; a pay request that runs
  meanwhile queries the provider, sees CLOSED and ends the intent without closing the
  order (`store-payment.repository.ts:974`). The mock provider may still let the
  closed intent succeed; that success finds an ended intent of an open order, conflicts, and its
  row becomes FAILED. When the order is closed later nobody delivers it again.
  The change record (line 464) says that one of the two always wins.
* **`seen_money`.** A pay request queries the provider and sees SUCCEEDED before the
  callback was put into the inbox (`submitMockResult` may die between the two). It records
  the sight on the intent only (`store-payments.service.ts:513`), and the timeout
  worker leaves out intents whose success was seen. The MVP plan (line 346) has
  scheduled reconciliation find such payments.
* **`recovered_money`.** The callback arrives while the intent has no provider
  identifier yet (the answer to create was lost), fails until its row is FAILED, and then
  the close sees the success. It inserts the event with `skipDuplicates`
  (`callback-inbox.repository.ts:211`), which leaves the FAILED row FAILED. The
  B10 report (line 148) says that a success observed again is not lost.
* **`released_stock`.** The create call of an intent is under way or has been given up.
  A cancellation asks the provider, hears NOT_FOUND, which counts as definitive
  (`store-order.repository.ts:2782`), and releases the stock; then the create runs and
  leaves a payable intent of a closed order. The change record (line 464) forbids
  the release before the intent is known not to be payable. A payment on it is
  refunded as late only if the intent gets located; the safety properties above hold regardless.
* **`last_units`, `stuck_refund`.** A compensation takes money off a line and leaves the
  quantity. What remains is then less than `unit_price * quantity`, and
  `chk_order_item_refund_counters` (migration `0001_initial`, line 2530) refuses to reserve
  the last units at that amount, though the requirements (line 851) settle the remainder with
  them. In the other order, an aftersale that reserved everything keeps the success of a
  running compensation from being recorded (`admin-refund.repository.ts:2117`) for as long
  as it is open.
* **`approved_stuck`, `ship_refunded`.** The preview of an aftersale does not tie its type to
  the shipment (`store-aftersale.repository.ts:1066`). A REFUND_ONLY aftersale of shipped goods
  can be approved and never refunded (`admin-refund.repository.ts:920`); a RETURN_REFUND
  of unshipped goods is refunded and its units are shipped. The requirements (lines 634
  and 899) exclude both.
* **`orphan_starves`.** `listReadyOrphanCleanupCandidates` (`file-asset.repository.ts:509`) takes
  the oldest files, attached or not, and skips the attached ones without going on: once a
  batch of attached files is older than seven days no younger orphan is ever listed. The B15
  report (line 17) reclaims unbound files after seven days.
* **`guest_merge_twice`.** `synchronizeGuestCartAfterAuthentication`
  (`guest-cart-merge-journal.ts:392`) reads the guest cart, awaits the profile and then prepares
  a journal from what it read. When login page and cart page both synchronize, the slower one
  merges again, under a new key, what the first has merged.
* **`guest_merge_lapsed`.** The journal has no time to live, the idempotency record lapses
  after 24 hours (`idempotency.repository.ts:1473`): a journal resumed later merges again.
* **`config_gap`.** The settlement takes the newest committed version with `effective_at <=
  paymentAt`, but a publication stamps `effective_at` with the beginning of its transaction
  (`commission.repository.ts:1555`): a payment after that moment keeps the older version
  when it settles before the commit. The B13 report (line 173) selects by the moment of payment.
* **`admin_console_relogin`.** After another login the page repeats a command under the same
  key, but the preview belongs to the old session. If the first confirmation is still
  running, the repetition is refused with CONFIRMATION_MISMATCH
  (`high-risk-preview.repository.ts:390`), which the page takes for the outcome: it clears
  the journal, and the first confirmation then executes.
* **`admin_console_lapse`.** The same in one session: while the first confirmation is running
  its preview expires, and the repetition is refused with PREVIEW_EXPIRED
  (`high-risk-preview.repository.ts:392`), which counts as certain
  (`admin-refund-command-journal.ts:508`).

An administrator's reconciliation asks the provider again and requeues the event, which
resolves `seen_money` and `recovered_money`; in `expired_money` the requeued event is
refused again, and in `cancelled_money` it can only close the order.

## 8. Proofs

Everything below holds for any values of the constants that the named assumption
of the module allows. No module with a theorem reaches a RECURSIVE operator.

| Module | Theorems | Establish |
|---|---|---|
| `SaleSafetyProofs` | `TypeCorrect`, `StockIsConserved`, `OneActive` | rows keep their types and stock never goes below zero; `StockConserved`; `OneActiveIntent` |
| | `PaidOnce`, `GoodsForMoney`, `NoGoodsAndRefund`, `LateMoney`, `GivenUp` | `PaidExactlyOnce`, `GoodsOnlyForMoney`, `NeverGoodsAndRefund`, `LateMoneyTracked`, `GivenUpIsNotPayable` |
| | `OutcomesAreFinal`, `SeenMoneyKept` | the action properties `OutcomeIsFinal`, `SeenMoneyKeepsOrder` |
| | `PromiseIsKept` | `PromiseKept`: `OrderPayment` implements `SalePromise` |
| `ServicingProofs` | `ReturnsAlwaysAddUp`, `AlwaysShippedOrRefunded` | `ReturnsAddUp`, `ShippedOrRefunded` |
| `TradeProofs` | `SeenBeforePublished`, `InOrder`, `Orderly`, `InForceTaken` | `HistoryInOrder` and its parts, `TakesTheVersionInForce` |
| | `MoneyAlwaysAddsUp`, `OrdersAlwaysCovered`, `OfferAlwaysSound` | `MoneyAddsUp`, `OrdersAreCovered`, `OfferIsSound` |
| | `AlwaysActsAsShown` | `ActedAsShown`, from `ReviewsAlwaysStand`, `CheckoutAlwaysKeeps` and `LifecycleAlwaysKept` |
| `RefundExecutionProofs` | `BooksMatch`, `CallbacksNameExecutions`, `PublishedAnswered`, `BooksDoAgree`, `KeepsItsPromise` | the parts of `BooksAgree`, and `KeepsPromise`: it implements `RefundPromise` |
| `HeadquartersProofs` | `ExecutedOnce`, `AnswersTheCommand`, `Agree`, `WhatWasShown` | `CommandsAgree` and its parts, `ExecutesWhatWasShown` |
| | `SignInsAlwaysSound`, `AlwaysActsWithAuthority`, `ConsoleAlwaysKeepsTrack` | `SignInsAreSound`, `ActsWithAuthority`, `ConsoleKeepsTrack` |
| | `CommandsOfHeadquarters` | the suite is a `HighRiskCommands`, so the first row holds of it |
| `AccountsProofs` | `CurrentPassword`, `TemporaryReplaced`, `SignedOutWhenDisabled`, `FamilyHasOneSession`, `ReplayEnds`, `Sound` | `SessionsAreSound` and its parts |
| | `AgentsOfAccounts` | the suite is an `AgentSessions`, so the row above holds of it |
| | `BindingsAlwaysAgree`, `AccountsAlwaysSound`, `ClientAlwaysKeepsTrack`, `CartAlwaysArrives` | `BindingsAgree`, `AccountsAreSound`, `ClientKeepsTrack`, `CartArrives` |
| | `LateIsAlwaysHarmless` | `LateIsHarmless`, the action properties of the four components |
| `LoginLimiterProofs` | `Once`, `Counted401`, `OneAnswer`, `AttemptsDoAgree`, `LimitHolds`, `OpenedInTime`, `LeaseIsOwners` | `AttemptsAgree` and its parts, the limit, the lease |
| `LeasesProofs` | `LeasesAlwaysHold`, `AlwaysHarmless`, `AttemptsAlwaysAgree` | `LeasesHold`, `SlowIsHarmless`, `AttemptsAgree` |

In all of them `Init` establishes an inductive invariant and every action preserves it, one
lemma or step per action and below it one step per conjunct the action can disturb. The
invariant of a module about one component is called `IInv`, in a suite it has the name of the
instance (`WalletInv`, `CheckoutInv`, ...).

**The argument for a suite.** A step of a suite moves one component and leaves the variables of
the others alone, so it is `[Next]_vars` of every component, and the invariant of the suite is
the conjunction of theirs. What a part is bounded by is never used, with one exception that
the property itself makes: what is said of an order without compensations
(`ServicingNoCompensation`, part `servicing`), kept by the steps of the part because they say
so. The prover does not identify what two instances of a library module define, so each section
begins with the operators it needs as its instance names them.

**`SaleSafetyProofs`** assumes `ConstantsAssumption`: `Orders` is finite,
`Qty` and `MaxRetries` are positive, the kinds of process are disjoint. `TypeOK` is not
inductive: `CloseLockedOrder` subtracts `Qty` from `locked` without looking, as the code does.
That `locked` stays natural follows from conservation: the order being closed is one of
those whose pieces `locked` counts. Conversely conservation needs the types. `Settle` checks
`locked >= Qty` itself, but that `physical` is what was not sold needs the counts again. Two
more facts are needed to type what a callback copies from one row to another: that an inbox
row exists only for an event of the provider, and that a process which is to write such a
row has seen one. So `IInv == Rows /\ StockInv /\ AllFit /\ EventsAreReal`:

* `Rows` is `TypeOK` without the stock, whose types follow from the counts in `StockInv`;
* `StockInv` is `StockConserved` together with "an order that was never created holds nothing";
* `AllFit` says that a process works on a task its step belongs to, that a callback task
  has its inbox row, and that a success about to be received is the provider's;
* `EventsAreReal` says that an inbox row belongs to an intent whose event the provider
  has made.

How the cardinality of the holders changes when one order enters or leaves a set is
proved once, from the library's facts on finite sets. `OneActive` uses that a step either
leaves the set of active intents of an order as it is, takes some out, or, in
`PreparePaymentIntent` alone, adds one to an empty set (`ActiveStep`).

On top of that invariant there are three layers: what order, attempts and
reservation say of one sale (`SalesAgree`), what a refund under way and its process know
of each other (`Refunding`), and what a process saw of an intent that nobody has overtaken
(`Witnessed`). `PaidExactlyOnce`, `NeverGoodsAndRefund` and the others are consequences of one
or two of them. The two action properties are lemmas over the actions under those
invariants (`OutcomesKept`, `ClosesUnseen`). The refinement shows for each action which step of
`SalePromise` it is, or that it changes nothing the promise sees.

**`ServicingProofs`**: `ServicingInv == ServicingBooks /\ ServicingUnreturnedRight /\
(ServicingNoCompensation => ServicingRules)`. `ServicingBooks` is right by itself: every line's CHECK constraint, an
aftersale and its refund of the same units and money, the reversal a refund takes from the
commission, the wallet as the sum of what the lines earned, and reserved as what open
aftersales and running refunds hold. `ServicingUnreturnedRight` says that units refunded without
a return were not shipped while the refund is under way and count as refunded before shipment;
with the constraint it gives `ShippedOrRefunded`. That every success can be recorded
(`SuccessCanBeRecorded`) does not follow from it, and is false with compensations
(`stuck_refund`). Without them money goes back with units, at their price
(`ServicingAtPrice`), and the order's status tells what was shipped and given back; from
these `ServicingRules` the constraint is satisfied by any success. Sums over lines and
aftersales change by the one that changed (lemmas at the head of the module, which need that
the sum over a finite set exists, by well-founded induction on subsets).

**`TradeProofs`**, four components:

* `WalletInv`: the shape of rows and ledger, one withdrawal in flight and nothing frozen
  without one, one active bank account, proofs used once, and `Reconciled`, `PaidWasEarned`,
  `DebtIsRefunds`, which are sums over ledger, positions and withdrawals. That a review
  acts on what was shown rests on versions that only grow.
* `CheckoutInv == CheckoutStoreRight /\ CheckoutQuotesRight /\ CheckoutOrdersRight /\
  CheckoutStockRight /\ CheckoutShownRight`: an order has the terms of its quote; some of
  the stock it was quoted from has moved since, which is why a quote buys only once although
  nothing marks it as used; the last entry of the stock's ledger is the balance, what is locked is
  the sum of what open orders hold, and a preview of an adjustment is right while the stock
  has its version.
* `GoodsInv`: what is active rests on what is active, and a preview held by an administrator
  that is current shows what is stored (`GoodsHeldRight`), because every change that could
  falsify it makes it stale.
* The rules: `IInv == Shapes /\ TypeOK /\ BegunAfterSeen /\ EffectiveInOrder /\
  PublishedOverSeen /\ SettledAfterPaid`; that a later version does not take effect earlier rests
  on the publisher having seen, before his transaction began, the version he publishes over.

**`RefundExecutionProofs`**: `IInv` says what holds whatever fails (`Always`): the version tells
attempt and status, an event that is published or decided has an answer in the inbox, whoever
holds an event does so alone; that only a `cut` lets an attempt be overtaken; and, until then,
`Orderly`: earlier attempts were recorded as failed and not executed (`Past`), the current one is
what provider, inbox and worker say (`Present`), a worker that asks does so for the latest attempt
(`Handled`, `Provided`). `refund_poisoned` shows that it does not hold after that.

**`HeadquartersProofs`**, four components:

* The commands: `IInv == Shapes /\ Tokened /\ Shown /\ Consumed /\ Recorded /\
  AnswerIsTheCommands`. A snapshot may be older than the lock, so the argument is not mutual
  exclusion: whoever commits on a row of his snapshot commits only if nobody wrote it since.
* `AccountInv` (`AdminSessions`): `AccountFactorsRight` (one factor at most is enrolled or being enrolled),
  `AccountSessionsRight` (a live session is of the present version and of an active factor, one to
  a family, which an earlier session has founded), `AccountChallengesRight` (none is open while its
  purpose is locked), `AccountProofsRight` (time steps not yet passed and codes not yet used have
  never counted, the others at most once, and only the active factor has codes) and the types of
  the grants. That a family which was ended gets no session follows from the second.
* `RecoveryInv` (`OfflineRecovery`): who approves is neither the target nor who requested,
  and who rejects ends it; one recovery of a target is open; and an account's version, frozen or
  not, is at most its own changes and the executed recoveries together, which types it.
* `ConsoleInv` (`AdminRefundConsole`): `ConsoleKept` (journal, dialog, calls and server name the
  same command, its preview and its account), and that a refusal, seen or on its way, has a cause
  (`ConsoleCause`): another command has used the preview, which is why the page may forget this
  one (`ConsoleSpent`), or the preview lapsed or is another session's, and then the page may
  forget what was executed (`admin_console_lapse`, `admin_console_relogin`).

**`AccountsProofs`**, five components:

* Agents' sessions: `IInv == TypeOK /\ Born /\` the five properties; `Born` says that a row is
  blank until it is opened and that the family of a row is the number of one that was opened.
* `AgencyInv` (`Attribution`): a customer has at most one binding and one active
  candidate and an agent one code that is not rotated, a candidate is of one material, and what
  was cut is invalidated, from which nothing leads back (`AgencyCandidatesRight`). Two lemmas carry
  the rest: what a step may do to candidates (`AgencyCandidatesMove`) and how bindings change when one
  customer's is ended and another begun (`AgencyBindingsChange`).
* `AccountInv` (`StoreAccount`): a token that was presented is revoked, and of a family one is not;
  therefore whoever presents it again ends the family (`AccountSessionsRight`). A request under way
  knows of each address a version that is not newer than the row, and if it is the same, the row
  itself (`AccountRequestsRight`), which is what makes a comparison of versions enough. That an
  address book keeps its shape is proved once for any change of a default (`AccountBookInv`).
* `ClientInv` (`StorefrontClient`, with the journal of aftersales): what is under way in the
  generation of the app's session is of the family of the stored token (`ClientCallRight`,
  `ClientRefreshRight`); no two refreshes present or bring the same token (`ClientApart`); a key that was sent is in the journal,
  seen, let go or refused for good (`ClientKeysRight`); and an app that was never killed presents
  a rotated token only while the refresh that rotated it is under way (`ClientOwnRight`). With the
  journal of orders the third is false (`order_journal`).
* `GuestInv` (`GuestCartMerge`, any number of synchronisations at once): requests of one key are
  one request of one customer, and a key is merged once for its record and once for each lapse
  (`GuestBooksRight`); what a confirmation may take out of the guest's cart is in the server's
  (`GuestNothingLost`); and as long as nothing was `risked`, a login has one call (`GuestAlone`) and
  the units are in the guest cart, in the journal's request or in the server's cart (`GuestExact`).

**`LoginLimiterProofs`**: `IInv == Shapes /\ Marked /\ Verdicts /\ AnswersAgree /\ (~Slow => Held /\
Room /\ NeverOverLimit)`. The marker that makes a failure count once survives the lease, so the
first part needs no assumption; the limit itself holds only while no try outlives its lease,
because looking at a counter and counting in it are two scripts.

**`LeasesProofs`**: the logins of part `prompt` are a second instance of the limiter, and
`PromptLogins` is an instance of the module of its theorems. `OutboxInv` says what a dispatcher at
each step has read and that it still holds (`OutboxWorks`, `OutboxReadsDue`), which needs that an
advisory lock is held exactly by the session that is at work, broken connections included; and
that an outcome stands (`OutboxOutcomes`). `AssetsInv` says of a file what its status means in the
object store (`AssetsFileSound`), of a request what it may rely on while its lease stands
(`AssetsRequestSound`), that a QR code has one request (`AssetsOneRequest`), and of a cleaner that
what it selected was old enough and is, while its lease stands, as it checked it
(`AssetsSweepSound`).

**Only model-checked:** liveness, which needs fairness and ENABLED and is beyond this prover
(`OpenOrdersEnd`, `PromptMoneyIsRecorded`, `LateMoneyIsAnswered`, `GivenBackIsBooked`, `WorkEnds`,
`QueueMovesOn`); and that damaged orders are reported once, which the last of these carries along.
Every other property of a passing run is a theorem.

## 9. Not modelled

The map covers about a ninth of the repository's lines. Most of the rest has no state to model:
the generated API contract, decoders and views of the two front ends and the prototypes,
seed and replay scripts, SQL migrations (one of which repeats the others), tests, and
in the modelled files the parts that parse, format and select. Beyond that:

* **Banners**: single rows under optimistic versions; the storefront checks what a banner
  points to again when it shows it.
* **The journal of withdrawal proofs, the agent's pages, polling of the payment page**: the
  same patterns as in `AdminRefundConsole` and `StorefrontClient`.
* **Agent operations, analytics, audit, customer lists, the integrity scan of orders**: reads
  and append-only records. What the scan reports is in `TimeoutWorker`.
* **Rate limits of the storefront and the Redis throttle of administrators' logins**:
  `LoginLimiter` shows the agents', which does more.
* **Edits of an agent's name, phone and remarks, of nickname, avatar and city**: nothing else
  depends on them.
* **Encryption of factors, payout accounts and tracking data, logging, health checks, seeds**:
  no protocol.

`PROJECT.json` gives the status and the reason for every part.
