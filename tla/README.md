# Verification of the inventory-SaaS backend in TLA+

The repository is a Django REST backend for small shops: tenants (stores) keep a
catalog, record stock movements, sell, and cancel. It runs on PostgreSQL
(READ COMMITTED, no `ATOMIC_REQUESTS`), Redis for the dashboard cache, and Celery
for e-mail. Nearly everything that can go wrong here goes wrong *between*
requests: a service is correct when run alone, and its correctness under
concurrency rests on `transaction.atomic`, `select_for_update`, `F()` updates,
`on_commit` callbacks and a few cache operations. This directory models those
services as transactions with explicit row locks, checks them with TLC on small
shops, and proves the main invariants with TLAPS for shops of every size.

Paths below are relative to the repository's root.

## 1. Inventory

### 1.1 Components

| Component | State | Operations | Interacts with | What makes it correct | Modelled in |
|---|---|---|---|---|---|
| Sales (`sales/services.py`) | `Sale` (status, number, total), `SaleItem` | create, delete draft, add/update/delete item, `update_sale_total`, complete, cancel | calls inventory once per item; writes the notification event; schedules the cache invalidation | a sale is counted once; consecutive numbers per store; total follows the items; completed sales are frozen | `SalesTransactions`, `SalesInventory` |
| Inventory (`inventory/services.py`) | `current_stock`, `InventoryMovement` | `create_inventory_movement`, `create_batch_purchase` | called by views and by sales | stock = sum of the movements, never negative; a batch is all or nothing | same; new sizes of a batch in `Catalog` |
| Catalog (`catalog/services.py`, `catalog/api/views.py`) | `Category`, `Product`, `ProductVariant` | product and variant create, update, delete; bulk price update | prices are snapshotted by sales; rows are locked by inventory and sales | sized *or* sizeless variants, unique sizes, the price that was asked for last | `Catalog`; not categories and product texts |
| Notification outbox (`notifications/services.py`) | `NotificationEvent` (pending, sent, failed, attempts) | create with the checkout, enqueue after commit | Celery broker | an event exists exactly for a committed checkout; the worker can see what it is told to deliver | `SalesTransactions`, `NotificationDelivery` |
| Notification delivery (`notifications/tasks.py`, `retry_notifications.py`) | the same rows, the queue | deliver, retry with countdown, command | SMTP | a sent event is never delivered again; no event is stuck for ever | `NotificationDelivery` |
| Dashboard cache (`dashboard/cache.py`) | version and data keys in Redis | get, set with TTL, invalidate | `on_commit` of sales and inventory | an old dashboard is not served under the version of a newer one | `DashboardCache` |
| Dashboard and report queries (`dashboard/services/`, `dashboard/api/`) | none | one query per section | all tables | the sections agree with each other | `StoreReports`, read step by step in `DemoTenant` |
| Wanted products (`wanted/`) | `WantedProduct.wanted_count`, `WantedRequest` | demand, PATCH, delete, status | customers | the counter is not lower than what demand has been recorded | `WantedDemand` |
| Stores, memberships, invitations (`stores/services.py`, `stores/api/`) | `StoreMembership`, `StoreMembershipPermission`, `StoreInvitation` | create store, add member, invite, revoke, accept, register, change role, remove, grant and withdraw capabilities | users; sales refer to the seller's membership | one membership per user; an invitation is used once; a store keeps a manager | `Membership`, `StoreRoster` |
| Users, password reset (`users/services.py`, `users/api/`) | user, reset challenges, refresh tokens | request, confirm, change password, log in, log out, PATCH profile | SMS provider | wrong codes are counted; a code works once; old tokens die with the password | `PasswordReset` |
| Demo tenant (`stores/demo.py`, `seed_demo`) | one store's rows | one-click login with refresh of the timeline, rebuild | every table | dates move together and not past today; only the demo store changes | `DemoTenant` |
| Customers (`customers/services.py`) | `Customer` | get or create by phone, CRUD | sales, wanted | one row per store and phone: one unique key | no: only a label of a sale |
| Serializers, views, permissions | none | parse, filter, authorise | services | what reaches the services is well formed | as far as they constrain the services' inputs |
| Settings, URLs, health checks, middleware, migrations, tests | – | – | – | – | no: no protocol state |

### 1.2 How the parts interact

```
 HTTP request ── serializer (reads rows, unlocked) ── service
                                                       │ transaction.atomic
   SELECT ... FOR UPDATE: Sale, Variant+Product, Store │ 
   create_inventory_movement once per item             │
   NotificationEvent row                               │
   on_commit: enqueue task, invalidate dashboards      │
                                                     COMMIT
                                                       ├── Celery ── deliver_notification_event ── SMTP
                                                       └── Redis: next dashboard version of the store
```

### 1.3 What is hard

* **Row locks in several orders.** A checkout locks its sale, then its variants in
  id order *and, because the query joins products without `of=`, each product
  after its variant*, then the store; a batch purchase locks the product first; a
  cancellation locks variants in no order; an `UPDATE` locks what it meets.
* **Reads before the lock.** Serializers load variants and sales before the
  service locks anything; the services read the status again, not always the rest.
* **Numbering** by "greatest number + 1" is safe only under the store lock.
* **Commit versus callback.** Events, tasks and cache invalidations happen inside,
  at and after the commit; a process may die between them.
* **At-least-once e-mail** with retries from two sources (Celery and a command).
* **Rights that are read early.** The view checks the actor's membership, the
  service locks the store and the target, and nobody reads the actor again.
* **Counting without locks**: rate limits and uniqueness checks in serializers.
* **Deletions** whose cascade looks for referring rows before it locks anything,
  against insertions of such rows; deferred foreign keys decide at the commit.
* **Versioned cache** with non-atomic get/set/incr, while dashboards are computed
  from data that may be older than the version they are stored under.

`PROJECT.json` lists the hazards one by one, each with the line where it bites
and the properties that would see it.

## 2. Plan

### 2.1 Written, in this order

1. `ShopData`: rows and queries of the sales and inventory tables, without state.
2. `SalesInventory`: the abstract specification. Each service is one atomic step.
3. `SalesTransactions`: the same services as transactions with row locks; checked to
   implement 2. This is the heart of the system and everything else depends on it.
4. `SalesTransactionsProofs`: the laws of the sums and lists that 1 is built from, the
   safety properties of 3, and that it implements 2, for every shop.
5. `NotificationDelivery`: what becomes of the outbox rows that 3 writes.
6. `DashboardCache`: what becomes of the invalidations that 3 schedules.
   `AfterCommitProofs` has the proofs about 5 and 6.
7. `WantedDemand` and `WantedDemandProofs`: the second counter of the system that is
   updated under locks.
8. `RowLocks`: requests, row locks, deadlocks and crashes, once for all that follow;
   `RowLocksProofs`: what all that follow may rely on.
9. `StoreRoster`, the abstract specification of who works where, `Membership`, and
   `MembershipProofs`, which proves that it implements it.
10. `PasswordReset` and `PasswordResetProofs`: codes, passwords and tokens.
11. `Catalog` and `CatalogProofs`: variants and prices, with what batches and lines do
    to them.
12. `StoreReports` (queries, without state) and `DemoTenant`, which composes them with
    sales, cancellations, the demo's logins and its rebuild; `DemoTenantProofs`.

`MC*` modules hold the instances for TLC, one `.cfg` per question.

## 3. Modules and the code

### 3.1 Sales and inventory

`ShopData` names the primary keys of the tables (`Sale`, `Item`, `Variant`, ...) and
the foreign keys that no code changes (`ProductOf`, `StoreOf`, `SaleStore`). Its
operators are the queries: `Required` is the demand aggregated per variant,
`LatestNumber` the last sale number, `Balance` what a movement history adds up to.

`SalesInventory` has the committed tables as variables and one action per
service. Its steps read only committed rows and are all-or-nothing by form; that
is the promise.

`SalesTransactions` keeps the same tables and adds the requests:

| Variable | In the code |
|---|---|
| `pc[r]` | the statement the request has reached |
| `lock[row]` | the holder of the row's `FOR UPDATE` lock (or of an `UPDATE`) |
| `plan[r]` | rows that the current locking statement has still to lock, in its order |
| `todo[r]` | calls of `create_inventory_movement` still to make |
| `cur[r]`, `rows[r]` | stock levels and movements written but not committed |
| `memo[r]` | local variables: the variant's price from the serializer, the next number, the item row, the total |
| `hooks[r]`, `effects` | `on_commit` callbacks, and those that reached broker or cache |

A request is one HTTP request with fixed contents `Task[r]`; it runs once, at any
time. Its life is `Start*` (view and serializer), `Acquire` (one row lock after the
other), the validation under the lock (`Delete`, `EditItem`, `BeginCheckout`,
`BeginCancel`, `ValidateStock`, `AssignNumber`), `RecordMovement` per line, `Seal`
(the last writes and the registration of the callbacks), one `Commit*`, and
`RunHook`. `Refuse`, `DeadlockAbort` and `CrashInTransaction` roll back;
`CrashBeforeHook` loses the callbacks.

What locks what:

* `StartOnSale`, `StartAdd`: the sale. Item rows are locked by
  the code as well, but only under the lock of their sale, so these locks never
  wait and are left out.
* `BeginCheckout`: variants in id order and, because
  `select_for_update().select_related("product")` has no `of=`, each variant's
  product after it; then the store; then one variant per line again.
* `BeginCancel` and movements: one variant per line, lines in no defined order.
* `StartBatch`: the product, then its variants in no defined order.
* `StartPrice`: one `UPDATE`, which locks as it goes.

### 3.2 Notification delivery

`status`, `attempts`, `created` are the event rows; `owed` the callbacks of
checkouts; `queued` a bag of (event, retries) that the broker, or a countdown,
holds; `task` and `at` the workers. A worker's transaction is open from
`LockEvent` until `RecordAttempt`, with the SMTP call inside, as in
`deliver_notification_event`. `SelectEvents` and `QueueListed` are
`retry_notifications`: `listed` has the events it has fetched, by their places in
`created`, and they are handed over oldest first. `mails`, `lapses`, `handed` and `faults` are not in the code;
only the properties and the bounds read them. Celery acknowledges a task before
it runs (`acks_late` is not set), so the task of a worker that dies is gone.

### 3.3 Dashboard cache

`db` is a counter of committed changes, `version` and `data` the keys in Redis.
`LookUpVersion`, `SetVersion` and `Increment` are the three cache operations of
`invalidate_dashboard_cache`; `ReadVersion`, `AddVersion` and `ReadAddedVersion`
those of `get_or_set`, which is not atomic; `Hit`, `Miss`, `Query`, `Store` and
`ServeUnstored` the view. A summary is represented by the revision its first
query sees, since each later query sees at least that. `settled` and `floor` are
for the properties.

### 3.4 Wanted products

`name`, `count`, `asked` are the tables; `lock` the row locks. `create_wanted` is
`get_or_create` (`LockExisting`, `FindNothing`, `Insert`, `InsertConflicts`,
`LostAgain`) followed by the `F()` increment and the audit row (`CommitDemand`).
Here the unique key is part of the model, because `get_or_create` relies on its
violation. `Save` writes the row that `LoadForSave` read; `SweepRequests`,
`DeleteRow` and `CommitDelete` are Django's cascade with PostgreSQL's deferred
foreign keys. A new row starts with `wanted_count` 0 (the service's default), not
with the model's default 1.

### 3.5 Row locks

The sales modules came first and have their lock table as a function of rows. The
modules below extend `RowLocks` instead: `task[r]` is what a request asks for (one
of the mixes in `Traffic`, chosen at the start), `pc[r]` the point its handler has
reached, `held[r]` the locks of its transaction and `plan[r]` those its current
statement has still to take, in its order. `Goto` is a statement with its locks, `At`
its return, `Finish` the end of the transaction. Here foreign keys are part of the
model: a transaction that has inserted a row takes the row it refers to before it
commits, and fails if that row is gone. An entry of a unique index is a row too
(`Place`, `Number`): an insertion waits for the transaction that has made the
same entry.

### 3.6 Stores, memberships and invitations

`StoreRoster` says in six actions what the services promise together: who may join,
that an offer replaces the one before it, that it is taken up once, and that
nobody leaves or changes role if that takes a store its last manager.

`Membership` has the tables (`member`, `codes` for capabilities, `invitation`, `phone`,
`sellers` for the memberships that sales refer to) and `actor[r]`, the acting
membership as the view has read it.

| Code | Actions |
|---|---|
| `CanManageMembers`, `get_current_membership` | `Permit`, `Load`: two reads, neither of them locked |
| `create_store_with_membership` | `Found`, `Insert`, `CommitMember` |
| `create_store_membership` | `Load`, `Insert`, `CommitMember` |
| `accept_store_invitation`, `register_with_store_invitation` | `Claim` (the invitation and, joined, its store), `Validate`, `Identify`, `Insert`, `CommitMember` |
| `create_store_invitation` | `Supersede`, `CommitOffer` |
| `revoke_store_invitation` | `CommitRevoke` |
| `update_store_membership_role`, `delete_store_membership` | `Decide`, `CommitChange` |
| `assign_membership_permission`, `revoke_membership_permission` | `CommitCode`; a capability that has gone since its row was found is withdrawn without an error |
| `RegisterView`, `MeView`, `create_sale` | `Arrive`, `CommitProfile`, `CommitSale`: the rows they share with memberships |

`Expire` is time: a pending invitation expires at any moment. `Hiring` are the kinds of
requests that insert a membership. `FreshKeys` says that keys and tokens are given
once; `FirstRows`, of the tables at the start, that a user has one membership and
that whoever works in a store or is invited to it finds a manager there.

### 3.7 Passwords

`challenge` is the table of reset codes, `age` what time has done to each of them,
`issued` and `blacklist` the refresh tokens. `Count`, `Close`, `SendCode`, `CommitRequest`
are `request_password_reset`, with the SMS inside the transaction as in the code.
`Search`, `Look`, `Judge`, `CountGuess`, `CloseOthers` are `confirm_password_reset`: a row that
was consumed while `FOR UPDATE ... LIMIT 1` waited for it is passed over and the
next one locked (`Look`); `Chosen` is the row that was picked. `CountGuess` commits before the error is raised, which is
why the code raises it outside the `atomic` block. `ListTokens` and `CommitPassword` end
both a confirmation and `change_password`. `SaveProfile` writes all columns of the user
that the request was authenticated with. `guesses`, `uses`, `crowded` and `excused` are
not in the code; only the properties read them. `FreshKeys` says of the instance that
keys are given once, as by the sequences of the database and by random token ids.
A number or address that is over its limit in the tables at the start, or a number
with two open codes there, counts as crowded by earlier requests.

### 3.8 Catalog

`variant` has product, size, price and stock; `line` the lines of one draft. `Filled` is
what `ProductVariantDetailView.perform_update` does with the fields that a PATCH
leaves out; `CheckMode` and `CheckPatch` are `validate_variant_mode` under the lock of the
product; `LockVariants`, `CheckBatch`, `FillBatch` are `create_batch_purchase`;
`BeginReprice` is one `UPDATE`, which takes the variants in any order and not the
product; `BeginDrop` is Django's collector, which reads before it locks, and
`CommitDrop` its commit. `asked`, `stale` and `repriced` are history. `Keys` are the
primary keys that a request gives to the variants it inserts; `FreshKeys` says that
each is given once, `FirstVariantsFit` that the tables at the start have one mode and
one variant of a size for each product.

### 3.9 Demo store and reports

`StoreReports` has one operator per query of `dashboard/services`. In `DemoTenant` sales
have dates (`made` is `created_at`, `done` is `completed_at`) and their movements the
sale number that their note quotes. `LogIn`, `Refresh`, `CommitShift`, `IssueToken` are
`DemoLoginView` with `refresh_demo_timeline`; `Command` to `CommitSeed` are `seed_demo` with
`reset_demo_data`, and `SetSaleDate` is `_set_sale_date` with its missing condition on
the store. `Create`, `AddItem`, `Complete`, `Cancel` and their commits are the sales
services with only the locks and rows the demo meets; a sale begins with the basket
`Empty`, and `AddItem` and `CommitItem` are `add_sale_item`, a request of its own, to
which a basket with one line more is given if `Lines` has one. `Ask` and `ReadSection` are the report and the
dashboard: each query sees what is committed when it runs. `NewDay` is midnight.
`FreshKeys` says that each rebuilt store and each new sale gets a key of its own,
`FirstSales` that the other store's sales at the start have the dates their statuses
ask for, `EnoughBought` that the opening stock covers what the first sales took.

## 4. Runs

All runs let requests start in any order and any number of them overlap; all
but `Cache` include deaths of processes (there, failures of Redis).

| Run | Instance | Shows |
|---|---|---|
| `Sales` | three scenarios from prepared tables: 3 checkouts and 2 cancellations of one sale; add, patch, remove, delete, checkout of one draft; batch purchase, adjustment by -2, checkout, two price updates, one of them refused | `TypeOK` (no negative stock), `SaleCountsOnce`, `NumbersSequential`, `TotalsMatch`, `StockIsLedger`, `FinalizedFrozen`, `AtomicServices` |
| `Lifecycle` | empty tables, 5 requests from a purchase of two sizes to cancellation; fairness | `OutboxIsCommitted`, `ImplementsServices`, `EveryRequestEnds` |
| `TwoSizes` | 2 checkouts | violated: `NoWaitCycle` (section 7) |
| `Delivery` | 1 event, 2 workers, `max_retries` 3 as in the code, 3 tasks handed, 2 faults, `--include-failed`; fairness | `NoNeedlessDuplicate`, `EventsSound`, `SentIsFinal`, `EveryEventIsAttempted` |
| `Cache` | 2 changes, 2 clients, Redis empty or with a version; fairness | `CurrentIsFresh`, `ReadsAreFresh`, `StalenessEnds` |
| `Demand` | 3 demands, deletion, rename, save | `TypeOK`, `CountIsDemandUnlessSaved`, `DemandIsRecorded` |
| `StaleCounter` | 2 demands, 1 PATCH | violated: `CountIsDemand` (section 7) |
| `Members` | 10 mixes of 3 requests; 2 stores, one with two managers; fairness | `StoreKeepsManager`, `TablesSound`, `ImplementsRoster`, `ExpiredIsRefused`, `EveryRequestEnds` |
| `Reset` | 9 mixes of 3 requests; one account, one unknown number, 1 or 2 open codes; fairness | `GuessesBounded`, `CodesSound`, `LimitsHoldUnlessCrowded`, `OldTokensAreBlacklisted`, `ChangeNeedsCurrent`, `EveryRequestEnds` |
| `Catalog` | 8 mixes of 4 requests; a product with two sizes, one without variants | `OneVariantMode`, `BatchSeesAllSizes`, `PriceIsLastAskedUnlessStale`, `LinePriceIsCurrentUnlessRepriced`, `TablesSound` |
| `Demo` | 12 mixes of 3 requests; demo store and another one, two days | `NoCompletedSaleAhead`, `TimelineMovesTogether`, `TablesSound`, `ReportAddsUp` |
| `DemoReset` | the same | violated: `OtherStoresUntouched` (section 7) |

The type invariant of each state machine is checked by itself or as a part of
`EventsSound`, `CodesSound` or `TablesSound` (types, and references to rows that are
there); that of `DashboardCache`, `CacheTypeOK`, is proved.

Bounds, and why they suffice:

* *Requests.* The conflicts are between two requests on one row; the third and
  fourth are there for what a third can do between two steps of a pair (take a
  number, take the last piece, close a circle of waiting). Numbering needs three
  checkouts for "two took 1 and 2, and the second one rolled back".
* *Mixes.* Requests that touch no common row do not influence each other, so
  the runs of section 3.5's modules list mixes that do, instead of all
  combinations. Each mix names a conflict in its comment; together they fire every
  action, and every property has a mutation of the code that some mix reveals.
* *Stock.* Two pieces of variant 1 against a demand for three makes a refusal and
  a success both possible; two lines of one variant make aggregation matter.
* *`MaxHanded`, `MaxFaults`.* Three tasks of one event overlap: the checkout's, the
  command's, and a retry. `MaxHanded` exceeds `MaxFaults`, so that a lost task can be
  replaced. Tasks of different events touch different rows; what they share is
  the `--limit` of the command, which one event cannot exhaust (section 8).
* *`Writer`.* `Cache` has two changes; a third would multiply its half million states
  by forty. The freshness theorems of section 6 hold for any number of them.
* *`PhoneLimit`, `IpLimit`, `MaxAttempts`.* 3, 3 and 2 instead of 5, 20 and 5: with one or
  two codes at the start, two requests reach the limits, and three guesses
  exceed the attempts.
* *`LastDay`.* One midnight. A second one repeats the first for a timeline that has
  been moved, and for one that has not the distance is only larger.
* *`ReportSpan`, `TopSize`, `MaxRange`.* A report covers two days by default, so that its
  period has sales inside, outside and on its ends; with two products the list
  of the first ten is never cut, as `ReportAddsUp` takes into account.

`CHECK_DEADLOCK` is on everywhere: where all requests have ended, `Rest` says so.

## 5. Fairness

* *Requests* (`Fairness` of sales, run `Lifecycle`): weak fairness of each request's
  `Advance`. It says that a live process executes its next statement and that
  PostgreSQL grants a lock that stays free. `DeadlockAbort` is part of `Advance`: the
  deadlock detector runs in every wait. Crashes and arrivals are not fair. Weak
  fairness suffices because each request runs once, so a lock cannot be taken from
  a waiting request for ever.
* *Requests on `RowLocks`* (`Members`, `Reset`, `DemoReset`): weak fairness of each
  request that has arrived, where either its next statement or the deadlock
  detector is enabled. Arrivals, crashes, expiry and midnight are not fair. The
  request to the SMS provider has a timeout (users/sms.py:39). The counterexample
  of `DemoReset` does not depend on the fairness it is found under.
* *Workers and operators* (`Delivery`): live workers take the next step, the
  checkout's callback runs or fails, and operators go on calling the command
  while it lists events, as docs/OPERATIONS.md:24-28 tells them to. Without the
  last assumption a lost task leaves its event pending; nothing else recovers it.
* *Redis* (`Cache`): each data key expires, as every `cache.set` of data has a
  timeout. Fairness is per version, since a single condition for all keys would
  let one key be refreshed while another one waits for ever. The version key is
  written without a timeout and does not expire.

## 6. Proofs

The theorems hold for every number of requests, workers, readers and rows of any
table. Every assumption they rest on is one that TLC evaluates in a run.

| Module | Theorems |
|---|---|
| `SalesTransactionsProofs` | lemmas about sums, movement histories and lists of lines; `TypeCorrect`, `LedgerAgrees`, `NumbersConsecutive`, `OutboxCommitted`, `TotalsAgree`, `FinalizedStaysFrozen`, `ServicesAreAtomic`, `ServicesAreImplemented`, `SalesCountOnce` |
| `AfterCommitProofs` | of the cache: `CacheTypes`, `CacheFresh`, `DashboardFresh`; of the delivery: `EventsAreSound`, `MailedOnce`, `SentStaysSent` |
| `WantedDemandProofs` | `NamesAreUnique`, `CountIsDemandTheorem`, `DemandsAreRecorded` |
| `RowLocksProofs` | lemmas for modules that extend `RowLocks` |
| `MembershipProofs` | `ManagersRemain`, `TablesAreSound`, `RosterIsImplemented`, `ExpiredStaysRefused` |
| `PasswordResetProofs` | `GuessesAreCounted`, `CodesAreUsedOnce`, `TokensAreRevoked`, `ChangesKnowThePassword`, `LimitsAreKept` |
| `CatalogProofs` | `OneVariantModeAlways`, `BatchSeesAllSizesAlways`, `TablesSoundAlways`, `PriceIsLastAskedUnlessStaleAlways`, `LinePriceIsCurrentUnlessRepricedAlways` |
| `DemoTenantProofs` | lemmas about sums and lists of the most sold; `TablesSoundAlways`, `NoCompletedSaleAheadAlways`, `TimelineMovesTogetherAlways`, `ReportAddsUpAlways`, `StockBalances` |

**Sums** (first part of `SalesTransactionsProofs`). `Required`, `Total`, `Balance` and `Quoted` are all
`SumFunction` of the community modules, a fold whose value is defined through a
choice of an order. The induction theorems of the library cannot be used here, but
induction can: the set of counterexamples has a smallest member (`LeastNumber`, from the
library's `WFMin`; `SmallestSet`, `ShortestSeq`), and that member refutes itself. So `FoldAnyOrder` shows that the fold
does not depend on the order, and from it `SumTake`, `SumSplit`, `SumReindex`, `SumCompare`.
`BalanceConcat`, `QuotedConcat` say what appending movements does, `RowsForLines` what
`RowsFor` returns for a list of lines, and `SaleLinesSum` that the movements of a sale's
items take from each variant what `Required` aggregates, in whatever order the
database returns the items.

**Sales.** Assumptions: `KeysAssumption` (variants and items are finite sets, foreign
keys exist), `NoItemAssumption`, `TaskAssumption` (requests are what the serializers
let through), `FreshKeys` (the database gives no key twice). TLC evaluates them in
every sales run. The theorems are about `Spec`, hence about shops that start
empty; the prepared tables of the run `Sales` stand for what earlier requests left.
There are two layers. The first inductive invariant is

    IInv == TypeOK /\ ControlInv /\ NumberInv /\ LedgerInv

and gives `TypeCorrect`, `LedgerAgrees`, `NumbersConsecutive`:

* `ControlInv` relates control and locks: where a handler is, it holds the rows it
  has read, nobody else holds them, and it writes only what it holds.
  Without it a commit could overwrite a stock level that has changed since.
* `NumberInv`: the numbers of a store are an initial segment of the positive
  numbers, and a request about to commit a number holds the store's lock and has
  the number after the last one.
* `LedgerInv`: stock equals the balance of the movements, and whoever holds the lock
  of a variant sees (`cur`) the balance of the committed movements and its own
  (`rows`).

`StockIsLedger` alone is not inductive: it says nothing of the uncommitted rows
that become committed.

The second layer adds to `IInv` one part per question, each inductive relative to
what stands before it:

* `HooksInv` (`OutboxCommitted`): only a checkout registers an enqueueing callback,
  for its own sale, and when the callback can run the sale is in the outbox.
* `EditInv` (`TotalsAgree`, `FinalizedStaysFrozen`): between its validation and its
  commit the row and the total that an edit has computed fit the items that are in
  the table, since nobody else commits items of the sale it has locked
  (`CommitsKeepSale`). The key of an item to be added is not in use. This is the
  part that fails when a service reads its sale without `FOR UPDATE`.
* `RecordInv` (`ServicesAreAtomic`, `ServicesAreImplemented`): the lines a transaction has
  dealt with and those still to come are together one list that its service may
  record *in the current state of the tables*, and `rows` are the movements of the
  former. So at its commit `CommitRecords` finds the one list that `SalesInventory`
  records in one step, and each `Commit*` is one service call of the abstract
  specification (`CheckoutIsOneCall`, `CancelIsOneCall`, `BatchIsOneCall`, ...);
  everything else leaves the tables alone. That a checkout's demand is covered need
  not be carried along from `ValidateStock`: it follows from `TypeOK` after the step,
  because what the movements take away is what was required.
* `CountsInv` (`SalesCountOnce`): the notes of movements are numbers of their store
  (`NotesInv`), so a new number is quoted by nothing when a checkout commits it; items
  are of variants of the sale's store (`ItemsInStore`), so movements of equal numbers
  of other stores are about other variants; and every sale counts once.

**Cache** (`CacheTypes`, `CacheFresh`, `DashboardFresh`). No assumption on the
constants. Freshness holds as long as no invalidation has set the version because
it found none (`NoReset`); section 7 shows why the condition is needed. The
inductive invariant is `CacheTypeOK /\ (NoReset => FreshInv)`. Under the condition the
version, once added, only grows, and a change is settled exactly in the step that
raises it. So all summaries under one version agree on what has been settled
(`KeyedInv`, `ComputedInv`), and a late one is stored under a version nobody looks up.

**Delivery** (`EventsAreSound`, `MailedOnce`, `SentStaysSent`). Assumptions:
`DeliveryAssumption` and `NoTaskAssumption`. The inductive invariant is

    IInv == TypeOK /\ LockInv /\ MailInv /\ BudgetInv

* `LockInv`: of the workers that have a task of an event at most one is past the row
  lock, and the event it has locked is not sent. So what the SMTP server accepts
  between the lock and `RecordAttempt` is the acceptance that the row records.
* `MailInv`: an event has been accepted once more than acceptances have lapsed if
  it is sent or a worker is about to record it, otherwise as often as they lapsed.
* `BudgetInv`: the bound on attempts. A task handed over brings `1 + MaxRetries`
  tokens, an attempt spends one, a retry carries the rest. The bound by itself is not
  inductive, since a task in the broker may still become attempts; attempts made
  and tokens outstanding together are. Tokens are counted as a set of pairs, since a
  cardinality is easier to reason about than a sum over workers.

**Wanted products** (`NamesAreUnique`, `CountIsDemandTheorem`, `DemandsAreRecorded`).
Assumptions: those of the module on names, keys and requests. The inductive
invariant is the three properties with

* `LockedInv`: the row that a demand has locked keeps its name until the demand
  commits, so it increments the product that the customer asked for;
* `InsertedInv`: an uncommitted row is alone with its name, which is what the unique
  key gives `get_or_create`;
* `UniqueInv`, `KindInv`, `Types`: names, points and types;
* `CreatedInv`: what exists, or can be inserted again by a save, was inserted by a
  demand that has committed. Without it, a save could bring a row back under a key
  that a demand is about to use;
* `AskedInv`: requests on record are committed demands, each for one product.

**Row locks.** What a transaction may rely on, whatever it is used for: the rows
that it has locked or comes to lock in its current statement (`Reserved`) stay
reserved until it ends, and no row is held by two (`LocksInv`). `GotoEffect`,
`AcquireEffect`, `FinishEffect` say what a statement, a granted lock and the end of a
transaction do to that.

**Members** (`ManagersRemain`, `TablesAreSound`, `RosterIsImplemented`,
`ExpiredStaysRefused`). Assumptions: `MembershipAssumption`, `FreshKeys`, `FirstRows`. The
inductive invariant has, besides types and points,

* `HoldsInv`: the rows a handler decides on are reserved by it from the decision to
  the commit: the store for whoever counts managers or supersedes offers, the
  membership for whoever changes it, the offer for whoever takes it up, the user's
  place in the unique index for whoever inserts. `SavingInv`, `JoinInv`, `PlaceInv` say
  what therefore still is as it was decided on;
* `ManagerInv`: not only stores with members have managers, but also the stores of
  invitations and of the members that requests act for. `StoreKeepsManager` alone is
  not inductive: a member of an empty store could be hired;
* `SweepInv`: an invitation that is about to be made has reserved all pending ones of
  its store and number, so no second one can remain;
* `KeyInv`, `HiringInv`: keys about to be inserted are new;
* `UserInv`, `NothingDangles`: one membership per user, no reference to a missing one.

`RosterIsImplemented` is the refinement `ImplementsRoster`. Commits are the steps of
`StoreRoster`: `CommitMember` is `Hire` or `TakeUp`, `CommitOffer` is `MakeOffer`,
`CommitRevoke` is `Withdraw`, `CommitChange` is `Reassign` or `Dismiss`; all else stutters.
`ExpiredStaysRefused` is about a request's past, and a safety property in spite of its
form: once a request has arrived at an expired invitation, its being refused or
still on its way is an invariant.

**Passwords** (`GuessesAreCounted`, `CodesAreUsedOnce`, `TokensAreRevoked`,
`ChangesKnowThePassword`, `LimitsAreKept`). Assumptions: `PasswordAssumption`, `FreshKeys`.
The inductive invariant is `Locks /\ Types /\ HoldsInv /\ KeyInv`:

* `HoldsInv`: from `Judge` on, a confirmation holds the challenge it has chosen, and
  that is open; whoever replaces a password holds the user from the check of the
  current password, or from the code, to the commit, and in the end has listed the
  tokens that the user has then. A step of another request leaves all that alone,
  because it changes only rows that it has locked (`Frame`, `OthersHold`).
* `KeyInv`: the keys of challenges and tokens about to be inserted are new.

On top of it there is one part per question:

* `CodeInv`: wrong codes compared with a challenge are counted in its row, and a
  challenge that has set a password is consumed, so nobody can hold it open again.
  The bound alone is not inductive: it does not say that the row has the count.
* `LoginInv`: a login that is about to make its token has verified the password of
  now, or is excused. `CommitPassword` excuses those it overtakes, and blacklists the
  tokens that are there; none can be added under its lock on the user.
* `LimitInv`: requests for a common number or address crowd it (`AloneInv`), so what
  a request that nobody crowds has counted cannot grow before it commits
  (`RecentGrows`, `NobodyElseInserts`), and the open challenges it has reserved are all
  there are. The limits alone are not inductive: nothing is locked between the count
  and the commit.

**Catalog.** Assumptions: `CatalogAssumption`, `FreshKeys`, `FirstVariantsFit`. The
inductive invariant is `Locks /\ Types /\ HoldsInv /\ KeyInv`:

* `HoldsInv`: a handler that adds variants to a product, or gives one another size,
  has reserved the product's row from `validate_variant_mode` to its commit, and what
  it has checked still is so: the new size is of the mode of the variants there are
  (`CreateOf`, `PatchOf`), and the variants a batch has found are all there are
  (`BatchOf`). Price updates and deletions do not lock the product, and need not:
  they change no size and add no variant. `Frame` says what a step may do to rows that
  others have locked, and `OthersHold` concludes that `HoldsInv` survives it.
* `KeyInv`: keys about to be inserted are new, also to the requests that have read
  their variant without locking it; such a variant may be deleted meanwhile, but
  another one never takes its key.

On top of it there is again one part per question: `ModeInv` (two variants of a
product have two sizes, and neither is without size) for `OneVariantMode`; `AskedInv`
for the price that was asked for last, where `CommitPatch` notes as stale what it has
given back; `NothingDangles`, where the foreign keys, taken before the commit, decide
between a deletion and the row that it has not seen; and `PriceReadInv` for lines, whose
price was read without a lock: it is that of the variant as long as no reprice has
overtaken the request. `BatchSeesAllSizes` follows from `HoldsInv` alone.

**Demo.** Assumptions: `DemoAssumption`, `FreshKeys`, `FirstSales`, `EnoughBought`.
Beside types they say that the sales of the other store are those of an earlier time
(`FirstSales`) and that no line is discounted by more than it costs
(src/sales/services.py:81-88). None of the properties is inductive; for the first three
the invariant is

    IInv == Locks /\ Types /\ Stores /\ NothingDangles /\ MadeInv /\ BookedInv
              /\ \A r \in Request : ControlOf(r)

* `MadeInv` includes drafts: a draft dated tomorrow could be completed today.
* `BookedInv`: the movements there are belong to finished sales, one each, and one more
  to a cancelled one; so a sale that is completed or cancelled finds no movement that
  the timeline could have moved apart from it.
* `Stores`: apart from the other store there is one, and the demo user manages it.
* `VisitOf`: a login that moves the timeline has the locks of the store and of all its
  finished sales, and the days it moves them by, computed before it had the locks of
  the sales, still take no completed sale past today. A sale completed meanwhile needs
  the lock of the store for its number; one that is cancelled only leaves the set.
* `RebuildOf`: a rebuild has the row of the user, and then the store and its sales; so
  no other rebuild, login or checkout is between two of its steps.
* `SaleOf`: a checkout has the locks of its sale and of the variants it takes, and what
  it takes is in stock; a cancellation and an added item have the lock of the sale.
* `NewStoreOf`, `NewSaleOf`: keys about to be inserted are new.

That stock stays a natural number (in `TablesSound`) needs a sum: what a basket takes
of a variant is a number, and 0 of a variant that is in none of its lines (`UnitsType`,
from a smallest counterexample as above).

**Reports** (`ReportAddsUp`). `ReportAssumption` of `StoreReports` adds that there are
finitely many channels. The invariant is `IInv /\ RInv`, where

    RInv == DoneInv /\ BalanceInv
              /\ \A r \in Request : IsReport(r) => ReaderOf(r)

* `DoneInv`: no sale has been completed later than today, so a report up to today has
  all of them.
* `BalanceInv`: in each store, for each variant, stock and what the completed sales took
  make up what was bought. `StockBalances` states it: a cancellation gives back exactly
  what completing took, and a rebuilt store begins with what its seeded sales have left.
* `ReaderOf`: as long as a report is not torn, each section has found what is in the
  tables now, so that in the end all sections have found the same; and that balances,
  unless the period has since ended or the store is gone. A step of another request
  leaves the tables of the store as they are, or tears the report, or makes a store for
  which no report can have been asked.

That a snapshot adds up is then a matter of the queries (`SnapshotAddsUp`), from lemmas
on sums over finite sets: the sums for the marks of a partition, by day, channel or
product, make up the whole (`SumByMark`); the sum over all lines is that over the sales
of the sums over their lines (`SumOfLines`); and what is ranked by fewer marks than the
list is long is all listed (`AllAreListed`), so the listed products account for the
revenue. Each sum is proved with a smallest counterexample, since the induction theorems
of the library cannot be used.

What remains with TLC: liveness, which is out of the provers' reach
(`EveryRequestEnds`, `EveryEventIsAttempted`, `StalenessEnds`), and the three runs that
show a disagreement, whose properties do not hold.

## 7. Where the code differs from what is said of it

* **`TwoSizes`**. AI_PROJECT_HANDOFF.md:579 says that checkout locks variants in
  deterministic id order. The query joins products and has no `of=("self",)`
  (src/sales/services.py:252), so product rows are locked between the variants.
  A checkout of two sizes and one of the second size can deadlock; PostgreSQL aborts
  one, and the code does not retry. No data is harmed: `Sales` shows what holds in
  spite of deadlocks.
* **`StaleCounter`**. PUT and PATCH of a wanted product write all columns from an
  unlocked read and undo a concurrent increment. In the same way a save after a
  deletion inserts the row again; `Demand` includes that and shows that names
  stay unique all the same.

* **`DemoReset`**. docs/OPERATIONS.md:19-20 says that rebuilding the demo store
  targets only the demo tenant. `_set_sale_date` (src/stores/demo.py:103) finds
  movements by the sale number in their note, in all stores, and every store
  numbers its sales from 1: each rebuild, and so each deployment, gives
  the movements of other stores with those numbers the dates of demo sales.
  `refresh_demo_timeline` has the condition that is missing here.

Seen while modelling, and not run on their own:

* *Cold cache.* An invalidation that found no version sets it to 2
  (src/dashboard/cache.py:64) even if others have raised it meanwhile, and an
  outdated summary under the old version is served again until it expires. It
  takes an empty Redis and three changes. Without such a setting it cannot
  happen (`Cache`, and proved), and in any case it ends (`StalenessEnds`).
* *Prices.* `add_sale_item` takes the price of a line from the variant that the
  serializer loaded before the transaction, so a price update that commits in
  between is missed; a PATCH of a variant without a price brings back the price
  it has loaded. `Catalog` includes both, and its properties say that nothing
  else explains a price that is not the one asked for last.
* *Passwords.* A PATCH of a profile saves all columns of an unlocked user and can
  bring back a password that was changed meanwhile; a login that has verified
  the old password gets its token after the others have been blacklisted.
  `OldTokensAreBlacklisted` and `ChangeNeedsCurrent` hold with exactly these exceptions.
* *Rate limits.* Challenges are counted without a lock, and a request holds its
  transaction open while it sends its SMS; requests side by side exceed the
  limits and leave two open codes for a number. `LimitsHoldUnlessCrowded` says so.
* *Roles.* A member who is given a smaller role keeps the capabilities of the
  larger one, as `assign_default_permissions` only adds (`CommitChange`).
* *Catalog views.* A PATCH of a product without `name` raises a `KeyError` and one
  without `category` clears the categories (src/catalog/api/views.py:186-189).
* *Demo dates.* Seeded sales and refreshed ones keep `completed_at` of the moment they
  were seeded, only `created_at` moves; the reports, which go by completion
  (AI_PROJECT_HANDOFF.md:586), show them all on one day. Cancelling the newest
  completed sale makes the next login move the rest by a day that has not passed;
  `NoCompletedSaleAhead` holds, but the cancelled sale is dated tomorrow. A login that
  waits while the store is rebuilt ends in an unhandled `Store.DoesNotExist`.
* *Customers.* `Sum(..., distinct=True)` (src/customers/api/views.py:102-106) adds up
  distinct quantities, not the total item quantity of AI_PROJECT_HANDOFF.md:473.

## 8. Abstractions

* **Transactions.** Writes are private until the commit, and the commit is one step.
  Each statement sees what is committed then (READ COMMITTED); statements that
  read under a lock are merged with taking the last of their locks.
* **Constraints.** In the sales modules no unique or check constraint is modelled,
  so the locks alone must ensure numbering and non-negative stock. Foreign-key
  locks (`FOR KEY SHARE`) on parent rows are left out. Django's keys are deferred, so
  a transaction takes them as its last act: an added item waits there for the
  holder of its variant, a checkout that never waits for the sale the item's request
  has locked. They delay a request but cannot close a circle.
* **Keys.** A request that inserts names its key in advance, and no two name the
  same (`FreshKeys`); that is what a sequence does.
* **Data.** Customers, names, sizes, costs, timestamps and texts are left out,
  except the sale number that a movement's note quotes, which is what ties a
  movement to its sale. A store has an e-mail address or not, for good
  (`EmailStore`). Batch purchases receive existing sizes; creating a missing
  variant within one is in `Catalog`.
* **Callbacks.** Enqueueing and invalidating either reach their destination or are
  logged; Django runs them in order and a failing one does not stop the rest.
* **Delivery.** One event: with a small `--limit` the command takes the oldest events,
  so with `--include-failed` old events that keep failing can keep newer pending ones
  waiting; the runs do not cover that. Countdowns (10, 20, 40 s) are left to interleaving. Any exception
  other than `EmailDeliveryError` is `SendBreaks`: recorded, not retried.
* **Cache.** One store and one date range: both are parts of the keys and do not
  interact. The version key is not evicted while data keys survive;
  an empty Redis is a possible start instead. A command that Redis carries out
  although its answer times out is `SetVersion` or `Increment`, for the code only logs
  that (src/dashboard/cache.py:67-71); `InvalidationFails` is one not carried out.
* **Members.** The nine capabilities are three, one for each group of roles that
  has them. A sale is reduced to its reference to the seller's membership. A
  capability withdrawn and given again keeps its identity, whereas its row in the
  table has a new key.
* **Passwords.** There is no clock: a challenge grows older in two steps, past the
  lifetime of its code and past the hour of the limits, older ones first. A code
  is the challenge it was sent for, so that two codes never coincide. Hashes,
  refresh-token rotation and throttling of requests are left out.
* **Catalog.** One price stands for purchase and sale price; a batch buys one piece
  of each size. The two loads of a variant in a PATCH (view and serializer) are
  one. The draft sale is there for its lock and its lines.
* **Demo.** The rebuild is one step from the deletion of the old store to the commit:
  what it makes is private until then, and the locks it needs are its own.
  Customers, invitations, adjustments and wanted products of the seed are left
  out. A basket stands for the rows of `SaleItem`; that a draft gets no item beyond the
  baskets in `Lines` is a bound of the run, not of the theorems, whose `Lines` may be
  all sequences of lines with no discount above the price. Manual movements of demo stock
  during a rebuild are left out; their foreign key refuses one of the two.
  Dates have the precision of a day.
* **Reports.** Products are numbers, which stand for their names (the code groups by
  name). The dashboard's list of ten leaves ties to the database; here the
  smaller name comes first. The cache is `DashboardCache`'s, the wanted list
  `WantedDemand`'s.
* **Wanted products.** One store. Brand, linked product and customer are left out.

## 9. Not modelled

Customers (one unique key and plain CRUD), categories and the texts of
products, settings, URLs, health checks, middleware, serializers beyond what they
guarantee to the services, permissions other than those of the stores' views
(a pure function of the membership), lists with their filters and pages,
SMS and SMTP adapters (environment), migrations.
