# A TLA+ model of the MTA market platform

The repository is a marketplace for MTA:SA resources: a site (`src/site`: an Express
server over PostgreSQL, a worker process, a web client) and a C++ server module
(`src/module`) that a game server loads. This directory models the parts whose
correctness depends on order: requests that overlap at every `await`, notifications a
provider delivers twice, late or out of order, processes that stop between two
transactions, workers that die with a claimed event, an offline module that repeats its
requests, and, in the module, worker threads beside the game server's main thread.

Paths below are relative to `src/`; `lib/`, `routes/` and `worker/` are those of
`site/server/src/`, `drm/` and `sdk/` those of `module/src/`.

## 1. Inventory

| Component | State it keeps | Operations | What makes it correct | Module |
|---|---|---|---|---|
| Payment state machine (`lib/paymentStateMachine.ts`) | `Payment.status` | `assertTransition` and the compare-and-set after it | every mutation follows the table; at most one captured payment per purchase | `CommerceStore` |
| Payment webhook (`routes/payments.ts:332`) | `PaymentProviderEvent`, everything it settles | one request per delivery, eleven awaits | an acknowledged success is granted and settled; redelivery repairs | `PaymentWebhook` |
| Checkout and completion (`lib/commerce.ts`) | `Purchase`, `License`, `ServicePurchase` | checkout, completion transaction and its repair | one live purchase per buyer and resource; no license without money | `PaymentRequests`, `Checkout` |
| Buyer's payment requests (`routes/payments.ts:137, 862`) | `Payment` | create, cancel | a payment that exists at the provider is never lost | `PaymentRequests` |
| Settlement and ledger (`lib/ledger.ts`) | ledger postings, `SellerBalance` | settlement, balanced postings | exactly once; the cached balance is what was earned | `CommerceStore`, `SellerLedger` |
| Refunds (`lib/refunds.ts`) | `Refund` | request, provider call, effects, notification | ceiling (INV-013); effects once, only when confirmed; a revoked license stays so | `RefundLifecycle` |
| Outbox and worker (`lib/events.ts`, `worker/index.ts`) | `OutboxEvent` | emit, claim, dispatch, complete, fail with backoff, reclaim, requeue, prune | at least once; nothing stuck; a settled event stays settled | `Outbox`, `EventDelivery` |
| Idempotency keys (`lib/idempotency.ts`) | `IdempotencyRecord` | look up, claim, run, store, expire | one answer per key and body, whoever asks | `Idempotency` |
| Discounts (`lib/discount.ts`) | campaign, usages | validate, consume, switch | limits are counted exactly under races | `Checkout` |
| Key lock (`lib/keyLock.ts`) | promise chain per key | run under lock | one critical section per key and process | `Checkout`, `Payouts`, `Subscriptions` |
| Service orders (`routes/services.ts`) | `ServicePurchase`, revisions | pay, deliver, revise, accept, close, cancel, freeze | money follows accepted, paid work | `ServiceOrders` |
| Disputes (`routes/disputes.ts`) | `Dispute` | open, move, decide | only a ruling releases a frozen order; at most one license in force beside those in dispute | `Disputes`, `PurchaseDisputes` |
| Payouts (`lib/payouts.ts`) | `PayoutRequest`, ledger | request, decide, complete | each completed payout is taken from the balance once | `Payouts` |
| Deal rooms (`lib/deals.ts`) | `DealRoom`, audit rows, evidence | compare-and-set transitions | the audit trail is the path a room took | `Deals` |
| Subscriptions (`lib/subscriptions.ts`) | windows | checkout, activate, sweep, cancel, resume, administrate | paid periods add up; nothing is free | `Subscriptions` |
| Plan entitlements (`lib/entitlements.ts`) | `Entitlement` | grant, extend, revoke | access follows the window | `PlanAccess` |
| Advertising orders (`lib/adsBilling.ts`) | campaign orders | pay, activate | a paid campaign is settled and activated | `PlatformOrders` |
| Publication (`routes/versions.ts`, `routes/resources.ts`, `routes/admin.ts`) | `Resource.status`, versions, purchases of them | upload, rollback, buy, moderate, verify, yank | nothing unsigned lingers; a suspension holds | `Publication` |
| Announcements (`lib/notify.ts`, `lib/priceAlerts.ts`) | notifications | tell buyers, dispatch, sweep | whoever the queries' limits leave room for hears, nobody twice | `Announcements` |
| DRM service (`lib/drm/service.ts`) | installations, leases, keys | register, verify, activate, issue keys, revoke, rotate | no lease after a revocation; leases verify | `DrmServer` |
| Module DRM client (`drm/`) | key, installation id, lease | register, verify, activate, retry | repeats are harmless | `LicenseClient` |
| Accounts (`routes/auth.ts`, `routes/adminPlatform.ts`) | users, sessions, identities | sign in, rotate, log out, end sessions, change password, link, suspend | a rotated, ended or suspended session is of no use | `Accounts` |
| Module runtime (`sdk/runtime/`) | task queue, workers and their condition variable, timers | post, cancel, sleep, run, deliver, fire, stop | nothing of an ended VM reaches Lua; cancelled work is silent; nobody sleeps through his work | `TaskPool`, `ModuleScheduler` |
| Reconciliation, community, catalogue records, administration, web, tooling | records and files | CRUD, reports | not a matter of order | not modelled |

How they interact. A buyer's browser calls checkout (behind the idempotency wrapper and a
key lock), then `/payments/create`, which calls the provider and inserts the payment. The
provider calls the webhook, possibly several requests at once; the webhook reads the
payment and the purchase, re-fetches the payment from the provider, captures, completes
(granting the license and consuming the discount), settles (posting to the ledger) and
writes the event `PROCESSED`. Its branches take platform orders (subscription periods,
campaigns) and service orders. Refund requests and notifications work on the same
purchase, license, payment and ledger rows, and so on the balance from which payouts are
made; a refund also ends the license on which installations hold leases. Domain actions
write outbox events in their own transaction; a worker process claims and dispatches
them, and a sweep and the moderator's request share the announcement of a version with it.
Between processes only the database arbitrates: compare-and-set updates, partial unique
indexes, row locks. In the module, the main thread posts tasks to worker threads, takes
their completions over in its pulse, fires timers, and stops resources and the pool; one
mutex guards the queues, and VM generations decide what may still reach Lua.

What is hard. Overlapping requests between any two awaits; state read before a provider
round-trip, a lock or a transaction and used after it; a cancellation before the success
of the same invoice; a request lost after the provider acted; two paths that learn the
same fact; a worker that boots while another one holds claims; a row renewed after the
sweep read it; a decision that meets the order's next state, or a newer purchase; two tabs with one refresh
token; a repeated activation whose first request still runs; a key rotation before the
restart; work that ends after the VM it was for; shutdown with work in progress.
`PROJECT.json` lists each under "hazards", at its line, with the properties that would
catch it.

## 2. Modules

| Module | Models |
|---|---|
| `MoneyMath` | fee and refund arithmetic in kopecks, `Math.round` (`commerce.ts:31-47`, `refunds.ts:293-311`) |
| `CommerceStore` | the shared tables, their unique indexes, and the transactions on them |
| `PaymentWebhook`, `PaymentRequests`, `RefundLifecycle`, `PurchaseDisputes` | the webhook handler; checkout, create, cancel and the external provider; refunds; the disputes that freeze a purchase |
| `Entitlement` | abstract: what buyer and seller are promised, without requests, rows or retries |
| `Commerce` | composes the six above; fairness, properties, and the mapping (`Promise`) under which it implements `Entitlement` |
| `Idempotency` | the wrapper around a handler it does not know |
| `Checkout` | extends `Idempotency` with the checkout handlers, the key lock, the campaign and the completion transaction |
| `EventDelivery` | abstract: what the outbox promises a domain action |
| `Outbox` | rows, workers, faults; implements `EventDelivery` (`Delivery`) |
| `SellerLedger` | the balance and ledger of one seller, and the calls in flight |
| `ServiceOrders`, `Disputes`, `Payouts`, `Deals` | the handlers on top of it; `Disputes` extends `ServiceOrders` |
| `SellerMoney` | composes them |
| `PlatformOrders`, `PlanAccess`, `Subscriptions` | an order of the platform's own from checkout to ledger; a plan's entitlement rows; windows, sweep and administration, composing the two |
| `Publication`, `Announcements` | one resource, its versions and who buys them; who hears of them, composed with it |
| `DrmServer`, `LicenseClient` | DRM protocol v2: the server; the module and its HTTP client against it |
| `Accounts` | sessions, tokens, passwords, identities, suspension |
| `TaskPool`, `ModuleScheduler` | tasks, workers, resource stop, shutdown; the pool with the timers of the same pump |
| `MC*` | instances for TLC |
| `*Proofs`, `SumTheorems` | theorems (section 4), and the lemmas about sums over finite sets |

### How code becomes actions

* A request or worker is a process. Where it stands names its next `await`; local
  variables that live across awaits are kept with it: `pc[h]`, `seen[h]` in the
  webhook, `phase`/`step` of a checkout, a worker's `claims` and `current`, and in the
  other components one record `call[c]` per handler in flight.
* One statement, or one transaction that a row lock or unique index serialises, is one
  step. A transaction that reads without a lock what it writes later is two
  (`Checkout`'s completion reads `usedCount` and writes it by compare-and-set;
  `Payouts` looks for the ledger id and then applies; `Publication` holds the row).
  A conflict rolls the whole transaction back.
* A read whose only use is re-checked by the compare-and-set that follows is joined with
  it: nothing survives a lost race (said at the head of the modules that do it).
* A call may be lost at any await (`Lose`, `Crash`): its process or connection dies. A
  statement that may throw where the code catches it, and goes on, is a disjunct of its action;
  one whose error ends the request is a call that is lost.
* Key locks are modelled where the code relies on them: `withKeyLock` admits one call per
  key *and process*; workloads say on which process a call runs. In `Commerce` they are left
  out on purpose: its properties rest on the database.
* The components with many operations take a *workload*: initial rows, the operations
  that occur, how many, how many losses. TLC checks all workloads of a run;
  the proofs hold for every workload.

### State, component by component

*Commerce.* The scope is one buyer and one resource, which is the scope of the partial
unique indexes. A row that does not exist has status `"NONE"`. `purchase`, `license`,
`payment`, `event` and `refund` are the `status` columns; `settled` is the set of purchases
with a `SELLER_REVENUE` row and its posting, `refundTx` the set of refunds with one; `book`
holds the ledger accounts and `balance` the cached seller balance. `complaints` is what is left of the bound on
disputes: their rows are in `Disputes`, here a dispute is its two compare-and-sets on the purchase.
`provider`, `sent`, `atProvider` are the provider's side, external and driven by how the adapters use it.
Abstractions: one price `FinalPrice`, strictly positive (free orders are in `Checkout`); a
provider payment has that amount or not (`Mismatched`); verification and the re-read of
the payment row after it are one step, as no handler decides on that read differently from
the compare-and-set that follows.

*Checkout.* `input` is a request's key, user and body; only the body is hashed and compared
(`idempotency.ts:88-92`). `record` is the idempotency row with its own id and reply, `answer` what
clients were told, `rows` the purchase rows in order, `campaign` and `usages` the discount,
`attempt` the `usedCount` an open completion has read. `paid` is the provider's.

*Outbox.* `status`, `attempts`, `due` are the columns (`due`: `availableAt` has come);
`deliveries` counts how often a handler ran to its end; each worker has `step`, `reading`,
`claims`, `current`, and `stopping`. Handlers are the consumers' business: they end or
throw.

*Seller money.* `available` and `ledger` (posted ids), `status` of orders and purchases,
`captured` (external), `revisions`, the `disputes` of a target in order, `payouts`; beside
them the deal rooms, which share the calls and touch no money.

*Subscriptions.* `order`, `payment`, `paid`, `acked`, `ledger` of platform orders; `subs`,
`ents` rows of one user and plan; `now` is the database's clock; `windows` a history of how
often an order opened or extended one.

*Publication.* `status`, `versions` (release status, signed, failed), `recent` (less than
24 h old), `order` (by `publishedAt`), `bought` (a purchase refers to them, so the foreign key
refuses their delete), `outbox`, `told`; `emitted` is a history. `faults` counts lost calls and
failed statements together. A workload names the queries that are `crowded`: those whose limit is
smaller than the number of rows they select. What such a query takes is any subset, chosen anew for
each version; the sweep chooses its alerts once for all versions, so this allows more than the
code does.

*Licenses.* `license`, `yanked`, `installation[key]`, `leases`, `serverKeys`, `env` (the
private key in the environment), `released` (a history of keys given out), `module` (the
client and its retries). An installation is named by its public key. Each lease and key
carries, as a history, what stood against it when it was asked for.

*Accounts.* `session` by refresh token, `cookie` and `access` of browsers, `password` (how
often it changed), `identities`, `status`; `raced` and `ended` are histories the properties
use to say which exceptions are allowed.

*Module scheduler.* `status`, `cancelRequested` are `TaskState`; `tasks`, `completions`, `live`
the containers guarded by `queue_mutex`; `asleep` the workers blocked in `queue_signal.wait`;
`ready` and `due` the local snapshots a pump iterates over; `running[w]` what each worker holds;
`main` where the main thread stands. Code under `queue_mutex` is one step. Functions Lua calls may
post and cancel from inside a callback (`ApiCall`). Time is abstract: a pump finds any subset of
the scheduled timers due. `stop` is three steps: under the lock, `notify_all`, and what follows
the join. `notify_one` (`scheduler.cpp:412`), after the unlock of `post_task`, is part of the
post: a worker that is about to sleep in between either finds the new task and stays awake or
finds it taken, and a notification that comes late wakes somebody for nothing, which
`WakeSpuriously` has anyway.

## 3. Runs

| Run | Instance | Shows |
|---|---|---|
| `two_orders` | 2 purchases with 2 payments each, one of a wrong amount, one captured late; 2 overlapping requests, 1 dispute, no loss (1.5 million states) | `LicenseIsPaid`, `CapturedIsReal`, `PromiseIsKept` (refinement) |
| `refunds` | 2 refunds of 5 or the rest of 15, requests and notifications racing each other and the payment's webhook, 1 loss or 1 dispute (2.4 million states) | `RefundCeiling`, `EffectsRunOnce`, `SellerIsCreditedOnce` |
| `settle` | 2 purchases, a payment of the first, captured before or after its expiry, success and cancel notifications, 2 overlapping requests, 1 dispute, 1 refund, 1 loss, fair (252,432 states) | `CapturedIsSettled`, `RefundIsFinal` |
| `outbox` | 2 events, 2 workers, 2 attempts, claims of 2, 1 stop or crash, 1 failed statement, fair | `ClaimIsExclusive`, `NothingIsStranded`, `DeliveryIsKept` (refinement), `EventsSettle` |
| `checkout` | 3 requests, 2 processes, one key, 2 buyers, 2 items, limits 1 and 2, 8 workloads, 1 event (crash, switch, withdrawal, dispute), 1 expiry, fair (436,284 states) | `RetriesAgree`, `UsageIsExact`, `FreeIsCompleted`, `PaidIsCompleted` |
| `seller_money` | 2 calls, 7 workloads (priced and free order, purchase, payouts on one and two processes, both, deal room), 1 loss, 2 revisions, 2 disputes per target, 2 payouts, fair | `CreditIsEarned`, `BalanceIsEarned`, `OneOpenPerProcess`, `OnlyRulingsThaw`, `AcceptedIsSettled`, `TrailIsThePath` |
| `subscriptions` | 2 calls, 8 workloads over 2 plan orders and a campaign, period 2, grace 1, 1 loss, clock up to 3, fair | `NothingIsFree`, `WindowsAddUp`, `PaidIsGranted` |
| `v_two_periods` | one order, the webhook and the buyer | `OneWindowPerOrder` is violated (see below) |
| `publication` | 2 calls, 2 versions, a buyer who also watches and a watcher, 6 workloads, 1 loss or failed statement, fair (350,953 states) | `UnsignedIsTransient`, `SuspensionHolds`, `EveryoneIsTold` |
| `licenses` | the module and another machine, 2 requests, 2 nonces, 3 server keys, 2 attempts per request, 7 workloads, up to 2 losses | `RevocationBites`, `NonceIsSpentOnce`, `LeasesVerify` |
| `accounts` | one user, 2 browsers, 2 requests, 6 tokens, 2 providers, 7 workloads, 1 loss | `OneSuccessor`, `PasswordEndsSessions`, `EndedStaysEnded`, `SuspendedGetsNothing` |
| `scheduler` | 2 tasks (one of no resource), 2 timers (limited / until cancelled), of these 3 posted, 2 workers, queue of 2, 1 resource stop, fair (402,097 states) | `CancelledIsSilent`, `RepeatsAreKept`, `TasksAreDelivered`, `ShutdownEnds`, `EndedGenerationIsSilent` |

Each property has a comment at its definition that names the behaviour, and the exceptions
it allows name the places where the code does not keep more. For some the exception is the very race
that makes the matter hard, because the code loses it: `AcceptedIsSettled` (a crash after the
acceptance), `SuspensionHolds` (a request that read the status before), `OneSuccessor`,
`EndedStaysEnded`, `PasswordEndsSessions`, `SuspendedGetsNothing` (requests in flight together),
`LeasesVerify` (a rotation before the restart). They say that nothing else goes wrong; what does is
listed below.

Bounds, and why they are enough. The database arbitrates between two parties at a time, so
two requests on two rows produce every conflict a unique index or a compare-and-set
decides; a third request (`checkout`, `two_orders`) lets two meet what a third one left. One
loss reaches every single await while everything else goes on; the second loss of `licenses`
lets both attempts of one request be lost. `two_orders` spends its states on the
other payments and has no loss; `settle` has one. In both, `BoundedNext` of `MCCommerce` keeps apart
what would multiply: requests overlap until a purchase is frozen, a refund requested or a third
payment created, and are served one at a time from then on; the payment of the wrong amount has one
other beside it; a refund meets neither a second checkout nor a cancellation (the three meet in no
run). In `refunds`, `DisputeOrLoss` lets a behaviour
have a dispute or a lost request, not both. The proofs have no such bounds. Two claims and two attempts are the least at which an
attempt can be the last and a claim can wait behind another. With price 15 and refunds of 5
or the rest, shares and fees are rounded and two refunds fill the ceiling exactly or exceed
it. Period 2 and grace 1 let a window be renewed in it, in its grace and after it. Two
revisions, disputes and payouts are one more than the limit or index that stops the second.
`MaxStops` = 1 gives two VM generations, the least that can be confused; `MaxFires` = 2
bounds only the timer without a repeat count, and `MaxPosts` = 3 lets any three of the tasks and
timers be there together. Workloads keep operations apart that share no
state; those that do share some meet in a workload of their own. `CHECK_DEADLOCK FALSE` is
set because these systems stop for a good reason: nobody wants anything more, the bound on
what users do is reached, or the module has been shut down.

Fairness is that of code that runs, never of users:
* `Commerce`: a request that has begun goes on (weak; at most `MaxLosses` end it), and the
  provider delivers a notification again until it is answered 2xx;
* `Outbox`: the event loop of a running worker goes on, the container is restarted when it
  exits, and a backoff passes (weak);
* `Checkout`: a started request goes on, and the provider delivers a capture until its
  completion is acknowledged;
* `SellerMoney`, `Subscriptions`, `Announcements`: a handler that has begun is carried on
  (`SF`: a key lock or a row lock disables it again and again while others hold it, and both
  serve those who wait in turn); the provider delivers until acknowledged; the worker polls
  and sweeps for ever;
* `ModuleScheduler`: worker threads that are awake are scheduled and their work ends, the server
  pulses and callbacks return, and the shutdown notifies and, once its workers are joined, goes on. A
  worker that sleeps is woken by a notification or never: spurious wake-ups may happen, and nothing
  relies on them.
`DrmServer`, `LicenseClient` and `Accounts` promise nothing that must happen; no fairness.

### Disagreements with the repository's own words

`v_two_periods` is a run: two activations of one paid order read it `PENDING` before the key
lock and each extends the window, against "replaying a completed checkout re-presents the live
subscription" (`subscriptions.ts:621-622`).

The others can be read off the actions, which do what the code does; properties are stated
with the exceptions they force. Docs are under `documents/`.

Money of resources
* A second success delivery after `SETTLED` throws and is answered 500 for ever, against "repeated
  deliveries are safe".
* "A now-confirmed captured payment reopens it for completion instead of throwing an
  illegal-transition 500 forever with money captured but no entitlement" (`payments.ts:736-740`): not
  when the buyer has a newer purchase, which the live index then protects from being joined by the
  old one. The redeliveries fail for as long as the newer one is live, and the captured money is
  never settled. `CapturedIsSettled` says this as `Stuck`, with its two neighbours: a purchase in
  dispute, which is not completed, and a refund that came before the settlement.
* A dispute takes a completed purchase out of the live index (`disputes.ts:156-160`,
  `contract.prisma:368`) and leaves its license active; checkout and completion look only for
  `PENDING` and `COMPLETED` (`commerce.ts:129-157, 543-546`), so the buyer may pay again and hold a
  second active license. The index's comment promises one live purchase and says nothing of disputed
  ones; `Entitlement` and `OneLicenseInForce` allow it beside a license in dispute only. The decision
  in the seller's favour is then refused by the index while the newer purchase is live.
* A refund request lost between its compare-and-set and its effects never applies them ("exactly
  once"); pending refunds count when a partial one decides whether to revoke ("only on a confirmed
  full refund"); a full refund between capture and completion revokes nothing and the completion grants.
* `Confirm` (`payments.ts:756`) writes `SUCCEEDED` over whatever the row holds, and lines 520 and
  556 write past the table, against "every Payment row mutation goes through assertTransition"
  (`paymentStateMachine.ts:2`). `FailRefund` (`refunds.ts:170`) marks a refund `FAILED` also when
  only the answer to an accepted one was lost.
* A refund of a `DISPUTED` purchase revokes its license and leaves it `DISPUTED`, as the
  compare-and-set starts from `COMPLETED` only (`refunds.ts:279-281`; `disputes.ts:344-346` and
  `COMMERCE.md:314-315` say the refund moves it). A later ruling for the seller makes it `COMPLETED`
  with a revoked license.
* The idempotency record keeps the user "for the authorization re-check" (`contract.prisma:1301`),
  and nothing re-checks it: who sends the key and the body of another user is told the reply that user
  was given. "FAILED record: the handler re-executes" (`idempotency.ts:77`): the unique index
  refuses the new record and the answer is 409.
* A campaign's usage limit is not checked where service orders complete
  (`COMMERCE.md`: parallel completions do not exceed the limit).

Service orders, disputes, payouts, deal rooms
* `MAX_REVISIONS` is counted before the order is moved, so concurrent requests exceed it
  (`services.ts:343`, `COMMERCE.md:283`). A crash after acceptance never settles
  (`services.ts:415`). A payment captured for a cancelled or disputed service order is refused for
  ever (`commerce.ts:646`).
* The dispute row is written and the order frozen afterwards; a freeze is lost if the order moved
  between (`disputes.ts:153-169`). An order frozen through `services/:id/dispute` after its dispute
  was decided has no way out.
* A completion that re-uses a hand-entered `ledgerTxnId` is audited `COMPLETED` while the payout
  stays `PROCESSING` (`payouts.ts:341-353`); two processes may each open a payout.
* `mark_funded` links an order before its compare-and-set; a room disputed in between stays linked
  though it was never funded (`deals.ts:348-353`). A caller who lost the race for a dispute adds a
  second evidence row.

Subscriptions and campaigns
* A webhook that captures a campaign's order does not activate it (`adsBilling.ts:94`,
  `payments.ts:690`).
* The sweep ends a row, by its status alone, that was renewed after it was read
  (`subscriptions.ts:842`); its revocation races the renewal's grant; an unconditional update can pull
  an expiry back (540-541). A settlement lost after the window is not retried though 376-378 says so. Two
  processes lose a window update or leave two live rows. A crash after the order's completion,
  beside another live subscription, loses the paid period.

Publication
* A seller's edit or an upload that read the status before overwrites a moderator's `SUSPENDED`
  (`resources.ts:893`, `versions.ts:197`; `moderation.ts:26-29` says never).
* The gate looks at versions before the transaction; the cleanup of an upload deletes a version
  released since, and, when moving the resource back into review fails (`versions.ts:197-208`),
  one that is signed and perhaps released; an upload that read `PENDING_REVIEW` leaves a
  `CANDIDATE` in a published resource; verification overwrites a yank; the worker drops watchers
  while the resource is in review; a crash after the commit loses the buyers' notifications; a
  crash amid an upload, or an error while its dependencies are written (`versions.ts:149-159`,
  before the `try` that cleans up), leaves an unsigned row that blocks publication.
* "An unvalidated/unsigned version must not linger" (`versions.ts:221-224`, `363-366`): checkout takes
  the newest version of a published resource, released or not, and the foreign key of the purchase
  (`Restrict`) refuses the delete, whose failure is swallowed.
* A sweep takes 200 versions and 300 alerts, a release 500 alerts, in no order, and filters them
  afterwards (`priceAlerts.ts:36-40, 256, 271-274, 292-296`), and buyers and followers are read up to 500
  each (`follows.ts:13, 22, 31`): whoever lies beyond is never told. `EveryoneIsTold` has these as its
  exceptions; TLC refutes it without either.

DRM
* The client decodes the canonical JSON of a lease as base64 before it checks the signature
  (`license_client.cpp:297`): every lease is rejected, though `license_client.hpp` says it is stored
  and `tests/module/drm/main.cpp:172` verifies raw bytes.
* A verification revives a revoked installation (`service.ts:184`; ADR-001). A lost answer to a
  registration, or a restart, leaves a key whose installation id is unrecoverable.
* Between a rotation and the restart, leases name the new key and are signed with the old one;
  overlapping rotations leave two active keys; a rotation that stops between its two writes leaves none.

Accounts
* A suspension deletes one session only (`adminPlatform.ts:591`; `auth.ts:333` says `delete()` removes
  one row): the others work again after the account is restored.
* Two refreshes of one token give two live successors (`auth.ts:397`); the retry of a refresh whose
  answer was lost ends the family. A password change misses sessions made by logins that
  overlap it (`auth.ts:583-587` says every other session). Two unlinks remove the last way to sign
  in (`auth.ts:701`).

Module
* A timer cancelled while the pump holds it in its snapshot fires, against "will not fire again"
  (`timer.hpp`). `FinishWork` sets `Done` one pump before the completion runs (`task.hpp:54`).
  `StopPool` (`scheduler.cpp:260`) clears the timers without finishing their states;
  `StopTasksOf` (510) leaves the `live_tasks` entry of a task cancelled while it waited.

## 4. Proofs

Proved with TLAPS, for every value of the constants, from the named assumptions on them only:
any number of purchases, payments, notifications, requests, refunds, events, workers, keys,
leases and losses, every workload.

* `CommerceProofs`: fee and net, and the parts of a refund, are non-negative and add up, for every
  amount (`FeesAddUp`, `RefundPartsAddUp`, on the arithmetic fact `RoundDivBounds`); `TypeCorrect`:
  `TypeOK` is inductive on its own. No run repeats it. Then, in turn:
  * `LicenseIsPaid`, `SettledIsEntitled`, `OneLicenseInForce`, `ProcessedIsSettled`. None is
    inductive: a request about to settle relies on what it established several awaits ago, which
    others may have disturbed. `EntitlementInv` adds what each request knows at its place
    (`RequestInv`: beyond `capture` the payment is verified; at `settle` the license exists;
    beyond it the purchase is settled) and that a purchase has a license exactly when it is
    completed, in dispute or refunded. With the live index (`LiveIsUnique`) that gives
    `OneLicenseInForce`: of two active licenses one belongs to a purchase that is not live, hence
    in dispute. One lemma per kind of step shows it is kept; frame lemmas cover the steps that
    touch nothing of it.
  * `PromiseIsKept`: under the mapping of `Promise` every step of `Commerce` is one
    step of `Entitlement` or none: a verified capture is `Pay`, the completion transaction `Grant` or
    nothing, the settlement `Settle` or nothing, refund effects `Refund`, a dispute and its decision
    `Freeze` and `Thaw`.
  * `AppliedIsConfirmed`, `EffectsRunOnce`, `RefundIsFinal`. The strengthening
    `RefundInv` says, per refund, what the request's place, the notification's place, the row and the
    provider's state allow of each other: whoever is at the effects won the compare-and-set, nobody else
    can win it again, and the payment state read ahead of it was a captured one.
  * `CapturedIsReal`, from the other two: what a webhook request captures is
    verified and passes the unique index; refund effects write over the captured state they read; every
    other write leaves the captured states.
  * `RefundCeiling` and `SellerIsCreditedOnce`, which are sums. `CeilingInv` says that a refund without a
    row reserves nothing and that finitely many have one: the insert checks the ceiling in the
    transaction that makes the row, so it adds one amount to a sum it has just read, and a failed refund
    only takes its amount away. `CreditInv` says that finitely many purchases are settled and
    finitely many refunds posted, each once, and that the share of a posted refund is fixed.
* `SumTheorems`: what the sum of a function over a finite set (`SumFunctionOnSet` of the community
  modules) does when an element comes or goes, or a value elsewhere changes. The library's induction
  takes an operator and cannot be used here; these lemmas argue by a smallest counterexample instead:
  among the parts of a finite set for which the fact fails, one contains no other (`SmallestPart`),
  and taking an element out of that one gives a contradiction.
* `WorkerProofs`, the outbox: `ClaimIsExclusive`, `NothingIsStranded` and the refinement
  `DeliveryIsKept`. `OutboxInv` strengthens them with what a claim is: its attempt is at most the
  row's, two holders never have the same one, a handler has run for an attempt at most once and
  only by its holder, and what a worker holds while it acknowledges has been handled. Reclaim,
  shutdown, crash and failed statements are steps like the others; attempts never go back, and
  that is what makes a claim exclusive. `NothingIsStranded` follows step by step from it: a step
  that leaves a row `PROCESSING` leaves it with somebody who minds it (`MindedStaysMinded`), and a
  claim is let go of only by a statement that failed.
* `CheckoutProofs`: `RetriesAgree`, `UsageIsExact`. Every handler step is one step of the wrapper
  or none (`StepsAreWrapped`), so the first is proved about the wrapper alone. `WrapperInv` says
  that while no record of a key expires the request that runs holds its record (`RunnerHolds`),
  and whoever was answered holds it or was told what it stores (`AnsweredIsRecorded`): a late
  `Store` finds its own row or none. Users play no part in it, as in the code. `CampaignInv` adds
  to the books what an open completion transaction relies on (`AttemptHoldsRow`: its purchase is
  pending and nobody else may end it). Assumed: a handler's reply is none of the wrapper's own
  answers (`OwnReplies`), and a request carries one of the keys or none.
* `PublicationProofs`: `UnsignedIsTransient`, `SuspensionHolds`. `PublicationInv` says that a
  version is made by one request at a time, which goes on to sign it only while its validation has not
  failed, and that whatever is unsigned is at `validate`, `sign` or `cleanup` of one, unless it was bought
  by then, a call was lost or a statement failed. Assumed: the versions there are at first are signed.
* `WorkerProofs`, the subscriptions: `NothingIsFree`, `WindowsAddUp`. `SaleInv` is what a handler's
  local state says of its order: whoever opens, grants or posts was preceded by the provider's money and the
  completion, and neither is ever taken back. `DatesInv` has the key lock: on one process whoever is about to
  write a window is alone there, and its end is a period after the row as it is now, although the row was
  read an await earlier. The attempt to prove it showed where that fails: an administrator's comp
  takes no key lock, and cancel and comp together restore the status the compare-and-set looks
  for, so the comped period is overwritten (`adminPlatform.ts`, `subscriptions.ts:489-491`). TLC has
  the counterexample with one order, one row and those two operations; the property excludes
  workloads with a comp. Assumed: no order is both a plan's and a campaign's, and a workload starts
  with a number of rows.
* `ModuleProofs`, the licenses: `RevocationBites`, `NonceIsSpentOnce`, `LeasesVerify`. A request's checks lie
  several awaits behind the row it writes. `RevocationInv` says that what stood against a request
  when it was made is still ahead of it (`LateIsDoomed`): the check that will refuse it has
  not been passed, and nothing takes the reason away (except a verification under way, the exception
  the property names). `KeysInv` ties the key a request found to the environment while nothing was
  lost: one rotation at a time, and the key found is the active and installed one unless a rotation is open.
* `ModuleProofs`, the scheduler: `CancelledIsSilent`, `RepeatsAreKept`, `EndedGenerationIsSilent`.
  `TasksInv` says where a task may be by its status: queued once, with one worker, among the
  results, and only what is done has run its completion; so a cancellation that succeeds finds a
  task whose completion has not run and that no later step can complete. Workers that sleep or are
  woken change none of it. The queue a stopped resource leaves behind keeps the order and the
  distinctness of what it had (`QueueShrinks`); it is written as a function of the places that
  stay, because nothing can be proved here about `SelectSeq`. `TimersInv` adds the firings of a
  timer to the repetitions it has left, and says that whatever is scheduled, due or firing belongs
  to a living generation, since no resource stops inside a pump. Assumed: no task is named like an
  idle or an exited worker (`TasksType`).
* `SellerMoneyProofs`: `CreditIsEarned`, `BalanceIsEarned`, `OnlyRulingsThaw`, `OneOpenPerProcess`,
  `TrailIsThePath`. The
  components share only the calls, so each has an invariant of its own and a step of one is a frame
  step of the others (`Among`: it moves a call among the places of its component). `RulingsInv` says
  what a handler knows of the order it left: who is about to settle has an accepted order
  (`HandlerKnows`), an order in work is one that was paid for or is free (`OrderKnows`, `Earnable`),
  who applies a decision is preceded by its row (`Ruled`). `PayoutInv` has the key lock: of two
  neighbours at most one is inside, and what it has looked for is still so. `DealInv` ranks the
  statuses: the moves made, those in the trail and those whose audit row is still on its way, differ,
  ascend, connect and lead no further than the room (`TrailOf`). `BalanceInv` keeps the balance equal
  to what was posted: a settlement and a refund post an id that is not there yet, because a
  settled purchase never waits for its payment again, and a completion pays the amount of a row that
  only one compare-and-set can take to `COMPLETED`, under whatever id. Assumed of the constants: every call
  runs on a process (`LedgerAssumption`), and an id entered by hand is not the id of a settlement or
  a refund (`ManualAssumption`).
* `AccountsProofs`: `OneSuccessor`, `EndedStaysEnded`, `PasswordEndsSessions`, `SuspendedGetsNothing`.
  The histories carry the argument: two requests in flight know of each other (`Meet`), so a rotation
  that was let through either was raced for, or its token is still the only good one of
  a family nobody ended (`RotationKnown`); a row of an old password is either one whose request met the
  change or `Doomed`, on the list of the change that is still to delete it (`RowCurrent`); past the
  check of the status the user is active or a suspension was met (`StatusKnown`). Assumed: tokens are
  1..n and the browsers that are signed in at first hold the first of them.

Only model-checked: liveness (`CapturedIsSettled`, `EventsSettle`, `FreeIsCompleted`,
`PaidIsCompleted`, `AcceptedIsSettled`, `PaidIsGranted`, `EveryoneIsTold`, `TasksAreDelivered`,
`ShutdownEnds`), which is out of the prover's reach. Every invariant, action
property and refinement that a run checks is also a theorem.

## 5. Not modelled, and the plan

Inside modelled components: the development route `/simulate`, refunds of payments without a
purchase, bundles; the outbox's interval jobs and their advisory lock; listings and messages of
services and deal rooms, the parties' own evidence; entitlements granted by hand; review,
placement and counting of campaigns; media, search and categories; the bytes of artifacts and the
cryptography of DRM; the heartbeat and the client's key requests (which need a lease the client
never stores); registration, the creation of users by OAuth, roles and profiles; in the module, Lua
callback references, `configure()`, a `start()` after `stop()`, and a resource stop from inside a
callback (the server makes those calls between pulses).

Whole components: the web client (presentation), migrations and CRUD routes, the community
features (reviews, forum, news, servers: records kept independently of each other, one statement per
request), reconciliation (reads and reports; what it looks for is stated as invariants of the
ledger), payment adapters (wire formats; the provider is the external part of the models), the SDK's
argument conversion, build and deployment. Together they are most of the repository's lines, which is
why the share of lines the models stand for is small although the protocols are covered.

What is left, most useful first: registration and roles (two demotions of administrators meet,
`adminPlatform.ts:728`); the interval jobs of the worker under `lib/schedulerLock.ts`; server
monitoring.
