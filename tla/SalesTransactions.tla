------------------------- MODULE SalesTransactions -------------------------
(***************************************************************************)
(* The sales and inventory services as the code runs them: every request   *)
(* is one PostgreSQL transaction under READ COMMITTED that locks rows one  *)
(* at a time with SELECT ... FOR UPDATE, reads and validates under those   *)
(* locks, and writes.  Writes are private to the transaction until its     *)
(* commit.  A request may be refused by a validation, be chosen as the     *)
(* victim of a deadlock, or die with its process; all three roll back.     *)
(* After the commit the request runs the callbacks registered with         *)
(* transaction.on_commit.                                                  *)
(*                                                                         *)
(* A request is one HTTP request with fixed contents, Task[r]; a double    *)
(* submission is two requests with the same task.                          *)
(***************************************************************************)
EXTENDS ShopData

CONSTANTS
  Request,   \* the requests that may arrive, in any order, at any time
  Task,      \* what each request asks for
  Nobody,    \* the holder of a free row lock
  NoValue    \* a field that a PATCH leaves out

Operation ==
       [kind: {"create", "delete", "complete", "cancel"}, sale: Sale]
  \cup [kind: {"add"}, sale: Sale, item: Item, variant: Variant,
        quantity: Nat, discount: Int]
  \cup [kind: {"update"}, sale: Sale, item: Item,
        quantity: Nat \cup {NoValue}, discount: Int \cup {NoValue}]
  \cup [kind: {"remove"}, sale: Sale, item: Item]
  \cup [kind: {"movement"}, line: Line]
  \cup [kind: {"batch"}, product: Product, lines: Seq(Line)]
  \cup [kind: {"price"}, product: Product, amount: Nat]

\* The serializer of manual movements admits no sales; the one of batch
\* purchases wants at least one line, each size once and positive quantities,
\* and the service writes purchases.
WellFormed(op) ==
  /\ op.kind = "movement" =>
       /\ op.line.note = 0
       /\ op.line.type \in {"purchase", "adjustment"}
       /\ op.line.type = "purchase" => op.line.quantity > 0
  /\ op.kind = "batch" =>
       /\ op.lines # << >>
       /\ \A k \in DOMAIN op.lines :
            /\ op.lines[k].note = 0
            /\ op.lines[k].type = "purchase"
            /\ op.lines[k].quantity > 0
            /\ ProductOf[op.lines[k].variant] = op.product
            /\ \A j \in DOMAIN op.lines \ {k} :
                 op.lines[j].variant # op.lines[k].variant

ASSUME TaskAssumption ==
  /\ Nobody \notin Request
  /\ NoValue \notin Int
  /\ Task \in [Request -> Operation]
  /\ \A r \in Request : WellFormed(Task[r])

\* The database never gives a primary key twice: an inserted row's key
\* belongs to the request that inserts it.
ASSUME FreshKeys ==
  \A q, r \in Request : q # r =>
    /\ Task[q].kind = "create" /\ Task[r].kind = "create"
         => Task[q].sale # Task[r].sale
    /\ Task[q].kind = "add" /\ Task[r].kind = "add"
         => Task[q].item # Task[r].item

VARIABLES
  (* the committed tables, as in SalesInventory *)
  status, number, total, item, stock, movements, price, outbox,
  (* the transactions *)
  pc,      \* Request -> the point its handler has reached
  lock,    \* row -> the request that holds its lock, or Nobody
  plan,    \* Request -> the rows its current statement has still to lock
  todo,    \* Request -> the movements it has still to record
  cur,     \* Request -> the stock of each variant as it has locked or set it
  rows,    \* Request -> the movement rows it has inserted, not yet committed
  memo,    \* Request -> values its handler keeps in local variables
  hooks,   \* Request -> its on_commit callbacks still to run
  effects  \* the callbacks that have reached the broker or the cache

tables == <<status, number, total, item, stock, movements, price, outbox>>
control == <<lock, plan, todo, cur, rows, memo>>
vars == <<tables, pc, control, hooks, effects>>

Abs == INSTANCE SalesInventory

-----------------------------------------------------------------------------
(* Rows and their locks *)

Row ==      ({"sale"} \X Sale) \cup ({"variant"} \X Variant)
       \cup ({"product"} \X Product) \cup ({"store"} \X Store)

SaleRow(s) == <<"sale", s>>
VariantRow(v) == <<"variant", v>>
ProductRow(p) == <<"product", p>>
StoreRow(st) == <<"store", st>>

\* A row lock is exclusive, and its holder may lock the row again.
Lockable(r, row) == lock[row] \in {Nobody, r}

\* The locks as they are when the transaction of r has ended.
Free(r) == [row \in Row |-> IF lock[row] = r THEN Nobody ELSE lock[row]]

\* The row a request needs next; a movement line locks its own variant.
Wants(r) ==
  CASE plan[r] # << >> -> {Head(plan[r])}
    [] plan[r] = << >> /\ todo[r] # << >> -> {VariantRow(Head(todo[r]).variant)}
    [] OTHER -> {}

WaitsFor(r) == {lock[row] : row \in Wants(r)} \ {r, Nobody}

Waiting == {r \in Request : WaitsFor(r) # {}}

\* A set of requests each of which waits for, and is waited for by, another.
WaitCycle(S) ==
  /\ S # {}
  /\ \A q \in S : /\ WaitsFor(q) \cap S # {}
                  /\ \E p \in S : q \in WaitsFor(p)

\* order_by('id'): the orders that list a set of variants by primary key.
IdOrders(S) ==
  {o \in SetToSeqs(S) : \A j, k \in DOMAIN o : j < k => o[j] < o[k]}

\* SELECT ... FOR UPDATE over variants joined with their products, without
\* "of", locks both rows of each result row, variant first.
JoinedRows(order) ==
  [k \in 1 .. 2 * Len(order) |->
     IF k % 2 = 1 THEN VariantRow(order[(k + 1) \div 2])
                  ELSE ProductRow(ProductOf[order[k \div 2]])]

VariantRows(order) == [k \in DOMAIN order |-> VariantRow(order[k])]

-----------------------------------------------------------------------------
(* Starting state *)

Memo(unit, n, row, sum) ==
  [unit |-> unit, number |-> n, row |-> row, total |-> sum]
NoMemo == Memo(0, 0, NoItem, 0)

NoTransaction ==
  /\ lock = [row \in Row |-> Nobody]
  /\ plan = [r \in Request |-> << >>]
  /\ todo = [r \in Request |-> << >>]
  /\ cur = [r \in Request |-> [v \in Variant |-> 0]]
  /\ rows = [r \in Request |-> [v \in Variant |-> << >>]]
  /\ memo = [r \in Request |-> NoMemo]
  /\ hooks = [r \in Request |-> << >>]
  /\ effects = {}

Idle == NoTransaction /\ pc = [r \in Request |-> "idle"]

Init == Abs!Init /\ Idle

-----------------------------------------------------------------------------
(* A request enters its service *)

Enter(r, where, rowsToLock, lines) ==
  /\ pc[r] = "idle"
  /\ pc' = [pc EXCEPT ![r] = where]
  /\ plan' = [plan EXCEPT ![r] = rowsToLock]
  /\ todo' = [todo EXCEPT ![r] = lines]
  /\ UNCHANGED <<tables, lock, cur, rows, hooks, effects>>

StartCreate(r) ==
  /\ Task[r].kind = "create"
  /\ Enter(r, "commit", << >>, << >>)
  /\ UNCHANGED memo

\* Faulty form: the services read the sale without FOR UPDATE.
StartOnSaleUnlocked(r) ==
  /\ Task[r].kind \in {"delete", "update", "remove", "complete", "cancel"}
  /\ Enter(r, "sale", << >>, << >>)
  /\ UNCHANGED memo

\* Every service on an existing sale begins by locking it.
StartOnSale(r) ==
  /\ Task[r].kind \in {"delete", "update", "remove", "complete", "cancel"}
  /\ Enter(r, "sale", <<SaleRow(Task[r].sale)>>, << >>)
  /\ UNCHANGED memo

\* The serializer loads the variant, and its price, before the sale is locked.
StartAdd(r) ==
  /\ Task[r].kind = "add"
  /\ Enter(r, "sale", <<SaleRow(Task[r].sale)>>, << >>)
  /\ memo' = [memo EXCEPT ![r] = Memo(price[Task[r].variant], 0, NoItem, 0)]

StartMovement(r) ==
  /\ Task[r].kind = "movement"
  /\ Enter(r, "move", << >>, <<Task[r].line>>)
  /\ UNCHANGED memo

\* The variants of the product are locked in no particular order.
StartBatch(r) ==
  /\ Task[r].kind = "batch"
  /\ \E order \in SetToSeqs(VariantsOf(Task[r].product)) :
       Enter(r, "move", <<ProductRow(Task[r].product)>> \o VariantRows(order),
             Task[r].lines)
  /\ UNCHANGED memo

\* One UPDATE statement, which locks the rows as it reaches them.
StartPrice(r) ==
  /\ Task[r].kind = "price"
  /\ VariantsOf(Task[r].product) # {}
  /\ \E order \in SetToSeqs(VariantsOf(Task[r].product)) :
       Enter(r, "commit", VariantRows(order), << >>)
  /\ UNCHANGED memo

\* A price update of a product without variants is refused at once.
RefusePrice(r) ==
  /\ Task[r].kind = "price"
  /\ VariantsOf(Task[r].product) = {}
  /\ Enter(r, "failed", << >>, << >>)
  /\ UNCHANGED memo

-----------------------------------------------------------------------------
(* Locking *)

\* Faulty form: a locking read does not see the transaction's own writes.
StockReadStale(r, v) == stock[v]

\* The stock a locking read returns: the committed one, or the transaction's
\* own if it already has the lock and may have changed the row.
StockRead(r, v) == IF lock[VariantRow(v)] = r THEN cur[r][v] ELSE stock[v]

\* The next row of the statement is locked and, with it, read.
Acquire(r) ==
  /\ plan[r] # << >>
  /\ LET row == Head(plan[r])
     IN  /\ Lockable(r, row)
         /\ lock' = [lock EXCEPT ![row] = r]
         /\ cur' = IF row[1] = "variant"
                   THEN [cur EXCEPT ![r][row[2]] = StockRead(r, row[2])]
                   ELSE cur
  /\ plan' = [plan EXCEPT ![r] = Tail(@)]
  /\ UNCHANGED <<tables, pc, todo, rows, memo, hooks, effects>>

\* The handler runs on from "where" once its statement has all its locks.
Reached(r, where) == pc[r] = where /\ plan[r] = << >>

-----------------------------------------------------------------------------
(* Under the lock of the sale: the status is read again, then the request  *)
(* is validated against the rows as they are now                           *)

\* Faulty form: a sale may be cancelled again.
ExpectedStatusReCancel(r) ==
  IF Task[r].kind # "cancel" THEN "draft"
  ELSE IF status[Task[r].sale] = "cancelled" THEN "cancelled" ELSE "completed"

\* Only a completed sale is cancelled; every other service wants a draft.
ExpectedStatus(r) == IF Task[r].kind = "cancel" THEN "completed" ELSE "draft"

Given(new, old) == IF new = NoValue THEN old ELSE new

\* The row that add_sale_item and update_sale_item would write.
NewRow(r) ==
  LET t == Task[r]
  IN  IF t.kind = "add"
      THEN Priced(t.sale, t.variant, t.quantity, memo[r].unit, t.discount)
      ELSE Priced(t.sale, item[t.item].variant,
                  Given(t.quantity, item[t.item].quantity), item[t.item].unit,
                  Given(t.discount, item[t.item].discount))

ValidRow(row) == row.quantity > 0 /\ row.discount >= 0 /\ row.final >= 0

\* Faulty form: the status is not read again under the lock.
AcceptableAnyStatus(r) ==
  LET t == Task[r]
  IN  /\ t.kind \in {"update", "remove"} => t.item \in ItemsOf(item, t.sale)
      /\ t.kind \in {"add", "update"} => ValidRow(NewRow(r))
      /\ t.kind = "complete" => ItemsOf(item, t.sale) # {}

\* The validations of the services after the sale has been locked.
Acceptable(r) ==
  LET t == Task[r]
  IN  /\ status[t.sale] = ExpectedStatus(r)
      /\ t.kind = "add" => /\ StoreOfVariant(t.variant) = SaleStore[t.sale]
                           /\ ValidRow(NewRow(r))
      /\ t.kind = "update" => /\ t.item \in ItemsOf(item, t.sale)
                              /\ ValidRow(NewRow(r))
      /\ t.kind = "remove" => t.item \in ItemsOf(item, t.sale)
      /\ t.kind = "complete" => ItemsOf(item, t.sale) # {}

Proceed(r, where, rowsToLock, lines) ==
  /\ pc' = [pc EXCEPT ![r] = where]
  /\ plan' = [plan EXCEPT ![r] = rowsToLock]
  /\ todo' = [todo EXCEPT ![r] = lines]
  /\ UNCHANGED <<tables, lock, cur, rows, hooks, effects>>

Delete(r) ==
  /\ Reached(r, "sale") /\ Task[r].kind = "delete" /\ Acceptable(r)
  /\ Proceed(r, "commit", << >>, << >>)
  /\ UNCHANGED memo

\* The item is written and the total recomputed from all items of the sale.
EditItem(r) ==
  /\ Reached(r, "sale") /\ Acceptable(r)
  /\ Task[r].kind \in {"add", "update", "remove"}
  /\ LET row == IF Task[r].kind = "remove" THEN NoItem ELSE NewRow(r)
         tbl == [item EXCEPT ![Task[r].item] = row]
     IN  memo' = [memo EXCEPT ![r] = Memo(0, 0, row, Total(tbl, Task[r].sale))]
  /\ Proceed(r, "commit", << >>, << >>)

BeginCheckout(r) ==
  /\ Reached(r, "sale") /\ Task[r].kind = "complete" /\ Acceptable(r)
  /\ \E order \in IdOrders(VariantsSold(item, Task[r].sale)) :
       Proceed(r, "validate", JoinedRows(order), << >>)
  /\ UNCHANGED memo

\* The items of a sale are read without an order.
BeginCancel(r) ==
  /\ Reached(r, "sale") /\ Task[r].kind = "cancel" /\ Acceptable(r)
  /\ \E order \in SetToSeqs(ItemsOf(item, Task[r].sale)) :
       Proceed(r, "move", << >>,
               CancellationLines(item, order, number[Task[r].sale]))
  /\ UNCHANGED memo

-----------------------------------------------------------------------------
(* complete_sale, under the locks of its variants and then of the store *)

StockSuffices(r) ==
  \A v \in VariantsSold(item, Task[r].sale) :
     cur[r][v] >= Required(item, Task[r].sale, v)

\* Faulty form: the next number is read without locking the store.
ValidateStockNoStoreLock(r) ==
  /\ Reached(r, "validate") /\ StockSuffices(r)
  /\ Proceed(r, "number", << >>, << >>)
  /\ UNCHANGED memo

\* The aggregated demand is checked, then the store locked for the number.
ValidateStock(r) ==
  /\ Reached(r, "validate") /\ StockSuffices(r)
  /\ Proceed(r, "number", <<StoreRow(SaleStore[Task[r].sale])>>, << >>)
  /\ UNCHANGED memo

AssignNumber(r) ==
  /\ Reached(r, "number")
  /\ LET n == LatestNumber(number, SaleStore[Task[r].sale]) + 1
     IN  /\ memo' = [memo EXCEPT ![r] = Memo(0, n, NoItem, 0)]
         /\ \E order \in SetToSeqs(ItemsOf(item, Task[r].sale)) :
              Proceed(r, "move", << >>, SaleLines(item, order, n))

-----------------------------------------------------------------------------
(* create_inventory_movement: lock the variant, read, check, write *)

\* Faulty form: no guard against negative stock.
InStockUnguarded(r, l) == TRUE

\* A movement may not take the stock below zero.
InStock(r, l) == StockRead(r, l.variant) + l.quantity >= 0

\* Faulty form: the variant is read without FOR UPDATE.
RecordMovementUnlocked(r) ==
  /\ Reached(r, "move") /\ todo[r] # << >>
  /\ LET l == Head(todo[r])
         v == l.variant
         level == IF rows[r][v] = << >> THEN stock[v] ELSE cur[r][v]
     IN  /\ level + l.quantity >= 0
         /\ cur' = [cur EXCEPT ![r][v] = level + l.quantity]
         /\ rows' = [rows EXCEPT ![r][v] = Append(@, RowOf(l))]
  /\ todo' = [todo EXCEPT ![r] = Tail(@)]
  /\ UNCHANGED <<tables, pc, lock, plan, memo, hooks, effects>>

RecordMovement(r) ==
  /\ Reached(r, "move") /\ todo[r] # << >>
  /\ LET l == Head(todo[r])
         v == l.variant
     IN  /\ Lockable(r, VariantRow(v))
         /\ InStock(r, l)
         /\ lock' = [lock EXCEPT ![VariantRow(v)] = r]
         /\ cur' = [cur EXCEPT ![r][v] = StockRead(r, v) + l.quantity]
         /\ rows' = [rows EXCEPT ![r][v] = Append(@, RowOf(l))]
  /\ todo' = [todo EXCEPT ![r] = Tail(@)]
  /\ UNCHANGED <<tables, pc, plan, memo, hooks, effects>>

\* The callbacks the service registers before it returns.
Callbacks(r) ==
  LET t == Task[r]
  IN  CASE t.kind = "complete" ->
             (IF SaleStore[t.sale] \in EmailStore
              THEN <<<<"enqueue", t.sale>>>> ELSE << >>)
             \o <<<<"invalidate", SaleStore[t.sale]>>>>
        [] t.kind = "cancel" -> <<<<"invalidate", SaleStore[t.sale]>>>>
        [] t.kind = "movement" ->
             <<<<"invalidate", StoreOfVariant(t.line.variant)>>>>
        [] t.kind = "batch" -> <<<<"invalidate", StoreOf[t.product]>>>>
        [] OTHER -> << >>

Seal(r) ==
  /\ Reached(r, "move") /\ todo[r] = << >>
  /\ pc' = [pc EXCEPT ![r] = "commit"]
  /\ hooks' = [hooks EXCEPT ![r] = Callbacks(r)]
  /\ UNCHANGED <<tables, control, effects>>

-----------------------------------------------------------------------------
(* The end of a transaction *)

Forget(r) ==
  /\ lock' = Free(r)
  /\ plan' = [plan EXCEPT ![r] = << >>]
  /\ todo' = [todo EXCEPT ![r] = << >>]
  /\ cur' = [cur EXCEPT ![r] = [v \in Variant |-> 0]]
  /\ rows' = [rows EXCEPT ![r] = [v \in Variant |-> << >>]]
  /\ memo' = [memo EXCEPT ![r] = NoMemo]

Committing(r) ==
  /\ Reached(r, "commit")
  /\ pc' = [pc EXCEPT ![r] = IF hooks[r] = << >> THEN "done" ELSE "hooks"]
  /\ Forget(r)
  /\ UNCHANGED <<hooks, effects>>

CommitCreate(r) ==
  /\ Committing(r) /\ Task[r].kind = "create"
  /\ status' = [status EXCEPT ![Task[r].sale] = "draft"]
  /\ UNCHANGED <<number, total, item, stock, movements, price, outbox>>

CommitDelete(r) ==
  /\ Committing(r) /\ Task[r].kind = "delete"
  /\ status' = [status EXCEPT ![Task[r].sale] = "none"]
  /\ total' = [total EXCEPT ![Task[r].sale] = 0]
  /\ item' = [i \in Item |->
                IF i \in ItemsOf(item, Task[r].sale) THEN NoItem ELSE item[i]]
  /\ UNCHANGED <<number, stock, movements, price, outbox>>

CommitItem(r) ==
  /\ Committing(r) /\ Task[r].kind \in {"add", "update", "remove"}
  /\ item' = [item EXCEPT ![Task[r].item] = memo[r].row]
  /\ total' = [total EXCEPT ![Task[r].sale] = memo[r].total]
  /\ UNCHANGED <<status, number, stock, movements, price, outbox>>

CommitPrice(r) ==
  /\ Committing(r) /\ Task[r].kind = "price"
  /\ price' = [v \in Variant |-> IF ProductOf[v] = Task[r].product
                                 THEN Task[r].amount ELSE price[v]]
  /\ UNCHANGED <<status, number, total, item, stock, movements, outbox>>

\* The stock and the movement rows of a transaction reach the tables together.
WriteStock(r) ==
  /\ stock' = [v \in Variant |->
                 IF rows[r][v] = << >> THEN stock[v] ELSE cur[r][v]]
  /\ movements' = [v \in Variant |-> movements[v] \o rows[r][v]]

CommitStockIn(r) ==
  /\ Committing(r) /\ Task[r].kind \in {"movement", "batch"}
  /\ WriteStock(r)
  /\ UNCHANGED <<status, number, total, item, price, outbox>>

CommitCheckout(r) ==
  /\ Committing(r) /\ Task[r].kind = "complete"
  /\ WriteStock(r)
  /\ status' = [status EXCEPT ![Task[r].sale] = "completed"]
  /\ number' = [number EXCEPT ![Task[r].sale] = memo[r].number]
  /\ outbox' = IF SaleStore[Task[r].sale] \in EmailStore
               THEN outbox \cup {Task[r].sale} ELSE outbox
  /\ UNCHANGED <<total, item, price>>

\* Faulty form: cancellation gives the sale number back.
CommitCancelNumber(r) ==
  /\ Committing(r) /\ Task[r].kind = "cancel"
  /\ WriteStock(r)
  /\ status' = [status EXCEPT ![Task[r].sale] = "cancelled"]
  /\ number' = [number EXCEPT ![Task[r].sale] = 0]
  /\ UNCHANGED <<total, item, price, outbox>>

\* A cancelled sale keeps its number.
CommitCancel(r) ==
  /\ Committing(r) /\ Task[r].kind = "cancel"
  /\ WriteStock(r)
  /\ status' = [status EXCEPT ![Task[r].sale] = "cancelled"]
  /\ UNCHANGED <<number, total, item, price, outbox>>

\* Faulty form: the task is handed to the broker inside the transaction.
RunHookEarly(r) ==
  /\ pc[r] \in {"commit", "hooks"} /\ hooks[r] # << >>
  /\ effects' \in {effects, effects \cup {Head(hooks[r])}}
  /\ hooks' = [hooks EXCEPT ![r] = Tail(@)]
  /\ pc' = [pc EXCEPT ![r] = IF pc[r] = "hooks" /\ Len(hooks[r]) = 1
                             THEN "done" ELSE @]
  /\ UNCHANGED <<tables, control>>

\* Django runs the callbacks one after the other; a failing one is logged.
RunHook(r) ==
  /\ pc[r] = "hooks" /\ hooks[r] # << >>
  /\ effects' \in {effects, effects \cup {Head(hooks[r])}}
  /\ hooks' = [hooks EXCEPT ![r] = Tail(@)]
  /\ pc' = [pc EXCEPT ![r] = IF Len(hooks[r]) = 1 THEN "done" ELSE "hooks"]
  /\ UNCHANGED <<tables, control>>

InTransaction(r) == pc[r] \notin {"idle", "hooks", "done", "failed"}

Rollback(r) ==
  /\ InTransaction(r)
  /\ pc' = [pc EXCEPT ![r] = "failed"]
  /\ hooks' = [hooks EXCEPT ![r] = << >>]
  /\ Forget(r)
  /\ UNCHANGED <<tables, effects>>

\* Faulty form: a checkout that lacks stock waits for it.
RefuseButCheckouts(r) ==
  /\ \/ Reached(r, "sale") /\ ~ Acceptable(r)
     \/ /\ Reached(r, "move") /\ todo[r] # << >>
        /\ Lockable(r, VariantRow(Head(todo[r]).variant))
        /\ ~ InStock(r, Head(todo[r]))
  /\ Rollback(r)

\* A validation of the service fails.
Refuse(r) ==
  /\ \/ Reached(r, "sale") /\ ~ Acceptable(r)
     \/ Reached(r, "validate") /\ ~ StockSuffices(r)
     \/ /\ Reached(r, "move") /\ todo[r] # << >>
        /\ Lockable(r, VariantRow(Head(todo[r]).variant))
        /\ ~ InStock(r, Head(todo[r]))
  /\ Rollback(r)

\* PostgreSQL aborts a member of a wait cycle; the code does not retry.
DeadlockAbort(r) ==
  /\ \E S \in SUBSET Waiting : r \in S /\ WaitCycle(S)
  /\ Rollback(r)

\* The process dies: in a transaction, or between the commit and a callback.
CrashInTransaction(r) == Rollback(r)
CrashBeforeHook(r) ==
  /\ pc[r] = "hooks"
  /\ pc' = [pc EXCEPT ![r] = "failed"]
  /\ hooks' = [hooks EXCEPT ![r] = << >>]
  /\ UNCHANGED <<tables, control, effects>>

-----------------------------------------------------------------------------
(* Specification *)

Start(r) == \/ StartCreate(r) \/ StartOnSale(r) \/ StartAdd(r)
            \/ StartMovement(r) \/ StartBatch(r) \/ StartPrice(r)
            \/ RefusePrice(r)

Handle(r) == \/ Delete(r) \/ EditItem(r) \/ BeginCheckout(r) \/ BeginCancel(r)
             \/ ValidateStock(r) \/ AssignNumber(r)
             \/ RecordMovement(r) \/ Seal(r)

Commit(r) == \/ CommitCreate(r) \/ CommitDelete(r) \/ CommitItem(r)
             \/ CommitPrice(r) \/ CommitStockIn(r)
             \/ CommitCheckout(r) \/ CommitCancel(r)

\* What a live process and a live database do for a request.
Advance(r) == \/ Acquire(r) \/ Handle(r) \/ Commit(r) \/ RunHook(r)
              \/ Refuse(r) \/ DeadlockAbort(r)

Crash(r) == CrashInTransaction(r) \/ CrashBeforeHook(r)

Ended(r) == pc[r] \in {"done", "failed"}

\* No request is left: the system may rest.
Rest == (\A r \in Request : Ended(r)) /\ UNCHANGED vars

Next == \/ \E r \in Request : Start(r) \/ Advance(r) \/ Crash(r)
        \/ Rest

Spec == Init /\ [][Next]_vars
-----------------------------------------------------------------------------
(* Properties *)

Point == {"idle", "sale", "validate", "number", "move", "commit", "hooks",
          "done", "failed"}

TablesOK ==
  /\ status \in [Sale -> Status]
  /\ number \in [Sale -> Nat]
  /\ DOMAIN total = Sale
  /\ item \in [Item -> ItemRow \cup {NoItem}]
  /\ stock \in [Variant -> Nat]
  /\ movements \in [Variant -> Seq(Movement)]
  /\ price \in [Variant -> Nat]
  /\ outbox \subseteq Sale

MemoOK ==
  /\ DOMAIN memo = Request
  /\ \A r \in Request : /\ memo[r].unit \in Nat
                        /\ memo[r].number \in Nat
                        /\ memo[r].row \in ItemRow \cup {NoItem}

RequestsOK ==
  /\ pc \in [Request -> Point]
  /\ lock \in [Row -> Request \cup {Nobody}]
  /\ plan \in [Request -> Seq(Row)]
  /\ todo \in [Request -> Seq(Line)]
  /\ cur \in [Request -> [Variant -> Nat]]
  /\ rows \in [Request -> [Variant -> Seq(Movement)]]
  /\ MemoOK

\* Types.  In particular no stock level, committed or about to be committed,
\* is ever negative (current_stock is a PositiveIntegerField).
TypeOK == TablesOK /\ RequestsOK

\* The stock of a variant is exactly what its movement history adds up to,
\* whatever checkouts, cancellations, purchases and adjustments overlap, fail
\* or die: create_inventory_movement updates the one and inserts the other.
StockIsLedger == \A v \in Variant : stock[v] = Balance(movements[v])

\* What the movements that quote the number of sale s add up to on variant v.
NetEffect(s, v) == Quoted(movements[v], number[s])

\* A completed sale has taken its quantities out of stock once, a cancelled
\* one has put all of them back once, and no other sale has a number: neither
\* two submissions of one checkout, nor two cancellations, nor a checkout
\* overlapping an edit, count twice or count something else than the items.
SaleCountsOnce ==
  \A s \in Sale :
    /\ number[s] # 0 <=> status[s] \in {"completed", "cancelled"}
    /\ number[s] # 0 =>
         \A v \in {w \in Variant : StoreOfVariant(w) = SaleStore[s]} :
            NetEffect(s, v) = IF status[s] = "completed"
                              THEN - Required(item, s, v) ELSE 0

\* complete_sale numbers the sales of a store 1, 2, 3, ... without gaps and
\* without giving a number twice, although checkouts overlap, roll back and
\* crash.  The model has no unique constraint: the Store lock alone ensures it.
NumbersSequential ==
  /\ \A st \in Store :
       NumbersOf(number, st) = 1 .. Cardinality(NumbersOf(number, st))
  /\ \A s, t \in Sale : /\ s # t /\ SaleStore[s] = SaleStore[t]
                        /\ number[s] # 0
                        => number[s] # number[t]

\* The stored total of a sale is the sum over its items, and every item is
\* priced from its own quantity, snapshot price and discount, although the
\* items of one sale are added, changed and removed by overlapping requests.
TotalsMatch ==
  /\ \A s \in Sale : total[s] = Total(item, s)
  /\ \A i \in Item : item[i] # NoItem =>
       /\ status[item[i].sale] # "none"
       /\ item[i].final = item[i].unit * item[i].quantity - item[i].discount

\* The notification event exists exactly for the sales of a store with an
\* e-mail address whose checkout has committed, and a task is handed to the
\* broker only for an event that a worker can already see.
OutboxIsCommitted ==
  /\ outbox = {s \in Sale : /\ status[s] \in {"completed", "cancelled"}
                            /\ SaleStore[s] \in EmailStore}
  /\ \A s \in Sale : <<"enqueue", s>> \in effects => s \in outbox

\* A step never changes the items, the total or the number of a sale that has
\* been completed, and moves it nowhere but to "cancelled", for good.
FinalizedFrozen ==
  [][\A s \in Sale : status[s] \in {"completed", "cancelled"} =>
       /\ status'[s] \in {status[s], "cancelled"}
       /\ number'[s] = number[s]
       /\ total'[s] = total[s]
       /\ ItemsOf(item', s) = ItemsOf(item, s)
       /\ \A i \in ItemsOf(item, s) : item'[i] = item[i]]_vars

\* Every step of a transaction is, on the committed tables, one whole service
\* call taking effect, or nothing: the calls are serializable.
AtomicServices == [][Abs!Next]_tables

\* The detailed specification implements the abstract one.
ImplementsServices == Abs!Spec

\* Checkouts never wait for one another in a circle: complete_sale takes its
\* locks in an order that excludes it.
NoWaitCycle == \A S \in SUBSET Waiting : ~ WaitCycle(S)

\* A request that has arrived goes on: it executes its next statement, gets a
\* lock that stays free, or is the victim of a deadlock.
Fairness == \A r \in Request : WF_vars(Advance(r))

\* While processes live, every request that arrives is answered: it commits
\* and runs its callbacks, or it fails.  PostgreSQL's deadlock detector and
\* the release of all locks at the end of a transaction are what ensures it.
EveryRequestEnds == \A r \in Request : (pc[r] # "idle") ~> Ended(r)
=============================================================================
