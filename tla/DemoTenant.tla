----------------------------- MODULE DemoTenant -----------------------------
(***************************************************************************)
(* The public demo store beside an ordinary one (stores/demo.py): visitors *)
(* log in with one click, which moves the dates of the sales forward, and  *)
(* they make and cancel sales; an operator or a deployment rebuilds the    *)
(* store; reports are read meanwhile.  The services that make and cancel   *)
(* sales are those of SalesTransactions; here sales have dates, and only   *)
(* the locks and the rows the demo meets are kept.  Rebuilding is one step *)
(* from the deletion of the old store to the commit.                       *)
(***************************************************************************)
EXTENDS RowLocks, StoreReports

CONSTANTS
  Store, Demo, Shop,  \* the demo store at first, and another user's store
  NoStore,
  Variant,            \* of every store
  ProductOf, PurchasePrice, SalePrice,   \* functions on Variant
  Opening,            \* Variant -> stock that was bought for every store
  Empty,              \* the basket of a new sale
  SaleSpecs,          \* sale_specs, cancelled_specs and draft_specs, in order
  ShopSales,          \* the sales of the other store
  FirstDay, LastDay,  \* the days that the model lasts
  Never               \* in place of a date

Line == [variant: Variant, units: Nat, discount: Nat, price: Nat, cost: Nat]
Status == {"draft", "completed", "cancelled"}
Sale == [status: Status, number: Nat, channel: Channel, basket: DOMAIN Lines,
         made: Nat, done: Nat \cup {Never}]
SaleKey == Store \X Nat

Query == [kind: {"report", "dashboard"}, store: Store,
          from: Nat \cup {Today}, to: Nat \cup {Today}]
Operation ==
       [kind: {"login"}]
  \cup [kind: {"seed"}, reset: BOOLEAN, store: Store]
  \cup [kind: {"create"}, sale: SaleKey, channel: Channel]
  \cup [kind: {"add"}, sale: SaleKey, variant: Variant, units: Nat, discount: Nat]
  \cup [kind: {"complete", "cancel"}, sale: SaleKey]
  \cup Query

ASSUME DemoAssumption ==
  /\ \A b \in DOMAIN Lines : Lines[b] \in Seq(Line)
  /\ Empty \in DOMAIN Lines /\ Lines[Empty] = << >>
  /\ \A b \in DOMAIN Lines : \A i \in DOMAIN Lines[b] :
       Lines[b][i].discount <= Lines[b][i].price * Lines[b][i].units
  /\ Traffic \subseteq [Request -> Operation]
  /\ {Demo, Shop} \subseteq Store /\ Demo # Shop
  /\ NoStore \notin Store /\ Never \notin Nat
  /\ FirstDay \in Nat /\ LastDay \in Nat /\ FirstDay <= LastDay
  /\ IsFiniteSet(Variant)
  /\ ProductOf \in [Variant -> Nat] /\ Opening \in [Variant -> Nat]
  /\ SaleSpecs \in Seq([ago: 0..FirstDay, status: Status, channel: Channel,
                        basket: DOMAIN Lines])

\* The keys of a store that is rebuilt and of a sale are given once.
ASSUME FreshKeys ==
  \A T \in Traffic : \A q \in Request :
    LET t == T[q] IN
    /\ t.kind = "seed" =>
         /\ t.store # Shop /\ (t.reset => t.store # Demo)
         /\ \A r \in Request \ {q} : T[r].kind = "seed" => T[r].store # t.store
    /\ t.kind = "create" =>
         /\ t.sale \notin DOMAIN ShopSales /\ t.sale[2] \notin DOMAIN SaleSpecs
         /\ \A r \in Request \ {q} : T[r].kind = "create" => T[r].sale # t.sale

\* What the other store has sold before the first day.
ASSUME FirstSales ==
  /\ IsFiniteSet(DOMAIN ShopSales) /\ DOMAIN ShopSales \subseteq {Shop} \X Nat
  /\ ShopSales \in [DOMAIN ShopSales -> Sale]
  /\ \A k \in DOMAIN ShopSales :
       /\ ShopSales[k].done = Never <=> ShopSales[k].status = "draft"
       /\ ShopSales[k].status # "cancelled" => ShopSales[k].made <= FirstDay
       /\ ShopSales[k].status = "completed" => ShopSales[k].done <= FirstDay

VARIABLES
  day,       \* timezone.localdate()
  manages,   \* the store of the demo user, or NoStore before there is one
  sale,      \* the committed sales: SaleKey -> Sale, on the keys that exist
  movement,  \* SaleKey \X {"sale", "cancellation"} -> the number of the sale
             \* that the note of the movement tells, and the day it was made
  stock,     \* stores that exist -> Variant -> current_stock
  memo,      \* Request -> what its handler has read
  torn       \* reports during which sales of their store changed; only read
             \* by the properties

tables == <<manages, sale, movement, stock>>
vars == <<transaction, day, tables, memo, torn>>

StoreRow(s) == <<"store", s>>
SaleRow(k) == <<"sale", k>>
VariantRow(s, v) == <<"variant", s, v>>
DemoUser == <<"user">>

SalesOf(s) == {k \in DOMAIN sale : k[1] = s}
Finished(k) == sale[k].status \in {"completed", "cancelled"}

-----------------------------------------------------------------------------
(* The sales that a rebuilt store begins with *)

\* Drafts come last, so that a sale's number is its place.
SeedSale(i, d) ==
  LET spec == SaleSpecs[i]
      final == spec.status # "draft"
  IN [status |-> spec.status, number |-> IF final THEN i ELSE 0,
      channel |-> spec.channel, basket |-> spec.basket,
      made |-> d - spec.ago, done |-> IF final THEN d ELSE Never]

SeedSales(s, d) ==
  [k \in {s} \X DOMAIN SaleSpecs |-> SeedSale(k[2], d)]

MovementKeys(sales) ==
       {<<k, "sale">> : k \in {j \in DOMAIN sales : sales[j].status # "draft"}}
  \cup {<<k, "cancellation">> : k \in {j \in DOMAIN sales : sales[j].status = "cancelled"}}

MovementsOf(sales) ==
  [m \in MovementKeys(sales) |-> [number |-> sales[m[1]].number, made |-> sales[m[1]].made]]

Units(row, v) ==
  SumFunction([i \in DOMAIN Lines[row.basket] |->
                 IF Lines[row.basket][i].variant = v THEN Lines[row.basket][i].units ELSE 0])

StockAfter(sales) ==
  [v \in Variant |->
     Opening[v] - SumFunction([k \in {j \in DOMAIN sales : sales[j].status = "completed"} |->
                                 Units(sales[k], v)])]

\* More was bought than the first sales take.
ASSUME EnoughBought ==
  /\ StockAfter(ShopSales) \in [Variant -> Nat]
  /\ \A s \in Store, d \in FirstDay..LastDay :
       StockAfter(SeedSales(s, d)) \in [Variant -> Nat]

Nothing == [store |-> NoStore, found |-> FALSE, days |-> 0,
            from |-> 0, to |-> 0, left |-> << >>, answer |-> << >>]

Join(f, g) == [x \in DOMAIN f \cup DOMAIN g |-> IF x \in DOMAIN f THEN f[x] ELSE g[x]]
Add(f, k, row) == [x \in DOMAIN f \cup {k} |-> IF x = k THEN row ELSE f[x]]
Keep(f, S) == [x \in DOMAIN f \cap S |-> f[x]]

Init ==
  /\ AtRest
  /\ day = FirstDay
  /\ manages \in {Demo, NoStore}
  /\ LET seeded == IF manages = Demo THEN SeedSales(Demo, FirstDay) ELSE << >>
         all == Join(seeded, ShopSales)
         open == {manages, Shop} \ {NoStore}
     IN /\ sale = all
        /\ movement = MovementsOf(all)
        /\ stock = [s \in open |-> StockAfter(Keep(all, {s} \X Nat))]
  /\ memo = [r \in Request |-> Nothing]
  /\ torn = {}

\* Midnight, which requests may find at any point.
NewDay ==
  /\ day < LastDay
  /\ day' = day + 1
  /\ UNCHANGED <<transaction, tables, memo, torn>>

Remember(r, field, value) ==
  memo' = [memo EXCEPT ![r] = [@ EXCEPT ![field] = value]]

\* The reports of s that are being read while its sales change.
ReadersOf(s) ==
  {q \in Request : pc[q] = "reading" /\ memo[q].store = s /\ memo[q].answer # << >>}

-----------------------------------------------------------------------------
(* DemoLoginView and refresh_demo_timeline *)

\* Faulty form: the store is not locked.
LogInUnlocked(r) ==
  /\ At(r, "idle") /\ task[r].kind = "login"
  /\ Remember(r, "store", manages)
  /\ GotoIf(manages # NoStore, r, "refreshing", << >>)
  /\ UNCHANGED <<day, tables, torn>>

LogIn(r) ==
  /\ At(r, "idle") /\ task[r].kind = "login"
  /\ Remember(r, "store", manages)
  /\ GotoIf(manages # NoStore, r, "refreshing", <<StoreRow(manages)>>)
  /\ UNCHANGED <<day, tables, torn>>

\* The end of a transaction; a token is made by the next, for the user's row.
ThenIssueToken(r) ==
  /\ pc' = [pc EXCEPT ![r] = "issuing"]
  /\ held' = [held EXCEPT ![r] = {}]
  /\ plan' = [plan EXCEPT ![r] = <<DemoUser>>]
  /\ UNCHANGED task

Made(s, status) == {sale[k].made : k \in {j \in SalesOf(s) : sale[j].status = status}}

\* How many days the newest completed sale is behind today.
Behind(s) == IF Made(s, "completed") = {} THEN 0 ELSE day - Max(Made(s, "completed"))

\* A store that was rebuilt while its lock was awaited is not found.
Refresh(r) ==
  LET s == memo[r].store IN
  /\ At(r, "refreshing")
  /\ \/ s \notin DOMAIN stock /\ Finish(r, "failed")
     \/ s \in DOMAIN stock /\ Behind(s) = 0 /\ ThenIssueToken(r)
     \/ /\ s \in DOMAIN stock /\ Behind(s) # 0
        /\ \E rows \in Orders({SaleRow(k) : k \in {j \in SalesOf(s) : Finished(j)}}) :
             Goto(r, "shifting", rows)
  /\ Remember(r, "days", Behind(s))
  /\ UNCHANGED <<day, tables, torn>>

\* Faulty form: the movements of cancellations are not found.
DatedSalesOnly(s) == {m \in DOMAIN movement : m[1][1] = s /\ m[2] = "sale"}

Dated(s) == {m \in DOMAIN movement : m[1][1] = s /\ m[2] \in {"sale", "cancellation"}}

\* Sales that were cancelled while their locks were awaited move as well.
CommitShift(r) ==
  LET s == memo[r].store
      Later(made) == made + memo[r].days
  IN /\ At(r, "shifting")
     /\ sale' = [k \in DOMAIN sale |->
                   IF SaleRow(k) \in held[r] /\ Finished(k)
                   THEN [sale[k] EXCEPT !.made = Later(@)] ELSE sale[k]]
     /\ movement' = [m \in DOMAIN movement |->
                       IF m \in Dated(s)
                       THEN [movement[m] EXCEPT !.made = Later(@)] ELSE movement[m]]
     /\ ThenIssueToken(r)
     /\ UNCHANGED <<day, manages, stock, memo, torn>>

IssueToken(r) ==
  /\ At(r, "issuing")
  /\ Finish(r, "done")
  /\ UNCHANGED <<day, tables, memo, torn>>

-----------------------------------------------------------------------------
(* The command seed_demo and reset_demo_data *)

Command(r) ==
  /\ At(r, "idle") /\ task[r].kind = "seed"
  /\ IF manages # NoStore /\ ~ task[r].reset THEN Finish(r, "done")
     ELSE Goto(r, "rebuilding", << >>)
  /\ UNCHANGED <<day, tables, memo, torn>>

\* The user is locked, or waits for the other that is being created: there may
\* be one demo user.
FindUser(r) ==
  /\ At(r, "rebuilding")
  /\ Remember(r, "found", manages # NoStore)
  /\ Goto(r, "preparing", <<DemoUser>>)
  /\ UNCHANGED <<day, tables, torn>>

Prepare(r) ==
  /\ At(r, "preparing")
  /\ IF memo[r].found
     THEN Goto(r, "emptying", <<StoreRow(manages)>>)
     ELSE GotoIf(manages = NoStore, r, "building", << >>)
  /\ UNCHANGED <<day, tables, memo, torn>>

DeleteSales(r) ==
  /\ At(r, "emptying")
  /\ \E rows \in Orders({SaleRow(k) : k \in SalesOf(manages)}) :
       Goto(r, "deleting", rows)
  /\ UNCHANGED <<day, tables, memo, torn>>

DeleteStore(r) ==
  /\ At(r, "deleting")
  /\ \E rows \in Orders({VariantRow(manages, v) : v \in Variant}) :
       Goto(r, "building", rows)
  /\ UNCHANGED <<day, tables, memo, torn>>

\* _set_sale_date: the movements are found by the number in their note.
SetSaleDate(moves, d) ==
  [m \in DOMAIN moves |->
     IF moves[m].number \in {i \in DOMAIN SaleSpecs : SaleSpecs[i].status # "draft"}
     THEN [moves[m] EXCEPT !.made = d - SaleSpecs[moves[m].number].ago] ELSE moves[m]]

\* The store is built by the services of the others and its sales are dated.
CommitSeed(r) ==
  LET fresh == SeedSales(task[r].store, day)
      kept == {k \in DOMAIN sale : k[1] # manages}
  IN /\ At(r, "building")
     /\ manages' = task[r].store
     /\ sale' = Join(fresh, Keep(sale, kept))
     /\ movement' = SetSaleDate(Join(MovementsOf(fresh),
                        Keep(movement, {m \in DOMAIN movement : m[1] \in kept})), day)
     /\ stock' = Add(Keep(stock, DOMAIN stock \ {manages}),
                     task[r].store, StockAfter(fresh))
     /\ torn' = torn \cup ReadersOf(manages)
     /\ Finish(r, "done")
     /\ UNCHANGED <<day, memo>>

-----------------------------------------------------------------------------
(* Sales of visitors and of the other store *)

\* create_sale; the row refers to the store.
Create(r) ==
  /\ At(r, "idle") /\ task[r].kind = "create"
  /\ GotoIf(task[r].sale[1] \in DOMAIN stock, r, "creating", <<StoreRow(task[r].sale[1])>>)
  /\ UNCHANGED <<day, tables, memo, torn>>

\* Faulty form: the sale is kept although its store is gone.
CommitCreateAnyway(r) ==
  LET t == task[r] IN
  /\ At(r, "creating")
  /\ sale' = Add(sale, t.sale,
                 [status |-> "draft", number |-> 0, channel |-> t.channel,
                  basket |-> Empty, made |-> day, done |-> Never])
  /\ Finish(r, "done")
  /\ UNCHANGED <<day, manages, movement, stock, memo, torn>>

CommitCreate(r) ==
  LET t == task[r] IN
  /\ At(r, "creating")
  /\ \/ /\ t.sale[1] \in DOMAIN stock
        /\ sale' = Add(sale, t.sale,
                       [status |-> "draft", number |-> 0, channel |-> t.channel,
                        basket |-> Empty, made |-> day, done |-> Never])
        /\ Finish(r, "done")
     \/ /\ t.sale[1] \notin DOMAIN stock
        /\ Finish(r, "failed")
        /\ UNCHANGED sale
  /\ UNCHANGED <<day, manages, movement, stock, memo, torn>>

\* add_sale_item, complete_sale and cancel_sale lock the sale first.
TakeSale(r) ==
  /\ At(r, "idle") /\ task[r].kind \in {"add", "complete", "cancel"}
  /\ GotoIf(task[r].sale \in DOMAIN sale, r, task[r].kind, <<SaleRow(task[r].sale)>>)
  /\ UNCHANGED <<day, tables, memo, torn>>

LinesIn(k) == Lines[sale[k].basket]
VariantsOf(k) == {LinesIn(k)[i].variant : i \in DOMAIN LinesIn(k)}
Is(k, status) == k \in DOMAIN sale /\ sale[k].status = status

NewLine(r) ==
  LET t == task[r] IN
  [variant |-> t.variant, units |-> t.units, discount |-> t.discount,
   price |-> SalePrice[t.variant], cost |-> PurchasePrice[t.variant]]

\* What a sale has with one item more.  Lines bounds it: a draft gets no item
\* beyond the baskets there are.
WithItem(r) ==
  {b \in DOMAIN Lines : Lines[b] = Append(LinesIn(task[r].sale), NewLine(r))}

\* The new row refers to its variant.
AddItem(r) ==
  LET t == task[r] IN
  /\ At(r, "add")
  /\ GotoIf(/\ Is(t.sale, "draft")
            /\ t.units > 0 /\ t.discount <= SalePrice[t.variant] * t.units
            /\ WithItem(r) # {},
            r, "adding", <<VariantRow(t.sale[1], t.variant)>>)
  /\ UNCHANGED <<day, tables, memo, torn>>

CommitItem(r) ==
  /\ At(r, "adding")
  /\ \E b \in WithItem(r) : sale' = [sale EXCEPT ![task[r].sale].basket = b]
  /\ Finish(r, "done")
  /\ UNCHANGED <<day, manages, movement, stock, memo, torn>>

\* ORDER BY id
Ascending(rows) == \A i, j \in DOMAIN rows : i < j => rows[i][3] < rows[j][3]

Complete(r) ==
  LET k == task[r].sale IN
  /\ At(r, "complete")
  /\ IF Is(k, "draft") /\ LinesIn(k) # << >>
     THEN \E rows \in Orders({VariantRow(k[1], v) : v \in VariantsOf(k)}) :
            Ascending(rows) /\ Goto(r, "checking", rows)
     ELSE Finish(r, "failed")
  /\ UNCHANGED <<day, tables, memo, torn>>

ValidateStock(r) ==
  LET k == task[r].sale IN
  /\ At(r, "checking")
  /\ GotoIf(\A v \in VariantsOf(k) : Units(sale[k], v) <= stock[k[1]][v],
            r, "numbering", <<StoreRow(k[1])>>)
  /\ UNCHANGED <<day, tables, memo, torn>>

CommitComplete(r) ==
  LET k == task[r].sale
      number == 1 + Max({0} \cup {sale[j].number : j \in SalesOf(k[1])})
  IN /\ At(r, "numbering")
     /\ sale' = [sale EXCEPT ![k].status = "completed", ![k].number = number, ![k].done = day]
     /\ movement' = Add(movement, <<k, "sale">>, [number |-> number, made |-> day])
     /\ stock' = [stock EXCEPT ![k[1]] = [v \in Variant |-> @[v] - Units(sale[k], v)]]
     /\ torn' = torn \cup ReadersOf(k[1])
     /\ Finish(r, "done")
     /\ UNCHANGED <<day, manages, memo>>

Cancel(r) ==
  LET k == task[r].sale IN
  /\ At(r, "cancel")
  /\ IF Is(k, "completed")
     THEN Goto(r, "restocking", [i \in DOMAIN LinesIn(k) |->
                                   VariantRow(k[1], LinesIn(k)[i].variant)])
     ELSE Finish(r, "failed")
  /\ UNCHANGED <<day, tables, memo, torn>>

CommitCancel(r) ==
  LET k == task[r].sale IN
  /\ At(r, "restocking")
  /\ sale' = [sale EXCEPT ![k].status = "cancelled"]
  /\ movement' = Add(movement, <<k, "cancellation">>,
                      [number |-> sale[k].number, made |-> day])
  /\ stock' = [stock EXCEPT ![k[1]] = [v \in Variant |-> @[v] + Units(sale[k], v)]]
  /\ torn' = torn \cup ReadersOf(k[1])
  /\ Finish(r, "done")
  /\ UNCHANGED <<day, manages, memo>>

-----------------------------------------------------------------------------
(* ReportView and DashboardView *)

Sections(kind) ==
  IF kind = "report"
  THEN <<"totals", "items", "daily", "channels", "products", "inventory", "low", "out">>
  ELSE <<"totals", "items", "inventory", "lowProducts", "products">>

\* What a query computes from the completed sales of its period and from the
\* stock that it found.
Section(name, found, from, to) ==
  LET S == found.sales
      K == DOMAIN S
  IN CASE name = "totals"      -> SalesTotals(S, K)
       [] name = "items"       -> ItemTotals(S, K)
       [] name = "daily"       -> Daily(S, K, from, to)
       [] name = "channels"    -> Channels(S, K)
       [] name = "products"    -> Products(S, K, ProductOf)
       [] name = "inventory"   -> Inventory(found.stock, PurchasePrice, SalePrice)
       [] name = "low"         -> LowStock(found.stock)
       [] name = "out"         -> OutOfStock(found.stock)
       [] name = "lowProducts" -> LowStockProducts(found.stock)

\* The columns that the queries read.
Columns(row) == [channel |-> row.channel, basket |-> row.basket, done |-> row.done]

Snapshot(s, from, to) ==
  [sales |-> [k \in Completed(sale, from, to) \cap SalesOf(s) |-> Columns(sale[k])],
   stock |-> IF s \in DOMAIN stock THEN stock[s] ELSE << >>]

Ask(r) ==
  LET t == task[r] IN
  /\ At(r, "idle") /\ t.kind \in {"report", "dashboard"}
  /\ GotoIf(t.store \in DOMAIN stock /\ ValidPeriod(DateFrom(t, day), DateTo(t, day)),
            r, "reading", << >>)
  /\ memo' = [memo EXCEPT ![r].store = t.store, ![r].left = Sections(t.kind),
                          ![r].from = DateFrom(t, day), ![r].to = DateTo(t, day)]
  /\ UNCHANGED <<day, tables, torn>>

\* Every query is a transaction of its own; the answer keeps what it found.
ReadSection(r) ==
  LET m == memo[r]
      name == Head(m.left)
  IN /\ At(r, "reading")
     /\ memo' = [memo EXCEPT ![r].left = Tail(m.left),
                   ![r].answer = Add(m.answer, name, Snapshot(m.store, m.from, m.to))]
     /\ IF Tail(m.left) = << >> THEN Finish(r, "done") ELSE UNCHANGED transaction
     /\ UNCHANGED <<day, tables, torn>>

Answer(r) ==
  [name \in DOMAIN memo[r].answer |->
     Section(name, memo[r].answer[name], memo[r].from, memo[r].to)]

-----------------------------------------------------------------------------
Rollback(r) ==
  /\ Crash(r) \/ ResolveDeadlock(r)
  /\ UNCHANGED <<day, tables, memo, torn>>

Handle(r) ==
  \/ Acquire(r) /\ UNCHANGED <<day, tables, memo, torn>>
  \/ LogIn(r) \/ Refresh(r) \/ CommitShift(r) \/ IssueToken(r)
  \/ Command(r) \/ FindUser(r) \/ Prepare(r)
  \/ DeleteSales(r) \/ DeleteStore(r) \/ CommitSeed(r)
  \/ Create(r) \/ CommitCreate(r) \/ AddItem(r) \/ CommitItem(r)
  \/ TakeSale(r) \/ Complete(r) \/ ValidateStock(r) \/ CommitComplete(r)
  \/ Cancel(r) \/ CommitCancel(r)
  \/ Ask(r) \/ ReadSection(r)

Over == (\A r \in Request : Ended(r)) /\ UNCHANGED vars

Next ==
  \/ \E r \in Request : Handle(r) \/ Rollback(r)
  \/ NewDay
  \/ Over

\* A request that has arrived is worked on, and PostgreSQL's deadlock detector
\* runs.
Fairness ==
  \A r \in Request :
    WF_vars(\/ pc[r] # "idle" /\ Handle(r)
            \/ ResolveDeadlock(r) /\ UNCHANGED <<day, tables, memo, torn>>)

Spec == Init /\ [][Next]_vars /\ Fairness

-----------------------------------------------------------------------------
(* Properties *)

TypeOK ==
  /\ day \in FirstDay..LastDay
  /\ manages \in Store \cup {NoStore}
  /\ DOMAIN sale \subseteq SaleKey
  /\ \A k \in DOMAIN sale : /\ sale[k] \in Sale
                            /\ sale[k].done = Never <=> sale[k].status = "draft"
  /\ DOMAIN movement \subseteq SaleKey \X {"sale", "cancellation"}
  /\ \A m \in DOMAIN movement : movement[m] \in [number: Nat, made: Nat]
  /\ stock \in [DOMAIN stock -> [Variant -> Nat]] /\ DOMAIN stock \subseteq Store

\* However many visitors log in at once, and whatever they sell meanwhile, no
\* completed sale is dated after today (stores/demo.py:103-142).
NoCompletedSaleAhead ==
  \A k \in DOMAIN sale : sale[k].status = "completed" => sale[k].made <= day

NothingDangles ==
  /\ \A k \in DOMAIN sale : k[1] \in DOMAIN stock
  /\ manages \in DOMAIN stock \cup {NoStore}

\* The tables hold well-formed rows, no sale outlives its store, and the demo
\* user has one, though visitors add drafts while the store is rebuilt
\* (stores/demo.py:156-164).
TablesSound == TypeOK /\ NothingDangles

\* While the demo store stands, its finished sales and the movements made for
\* them move forward by the same number of days, those too that are cancelled
\* while the timeline is moved (stores/demo.py:128-141).
TimelineMovesTogether ==
  [][LET K == {k \in DOMAIN sale \cap DOMAIN sale' : k[1] = manages /\ Finished(k)}
     IN \E d \in 0..LastDay :
          /\ \A k \in K : sale'[k].made = sale[k].made + d
          /\ \A m \in DOMAIN movement : m[1] \in K => movement'[m].made = movement[m].made + d]_vars

\* The days, the channels and the products of a report add up to its totals,
\* and what it says was sold and is in stock to what was bought, unless a sale
\* of the store was completed or cancelled while the report was computed: its
\* queries have no common snapshot (dashboard/services/reports.py:15-118).
ReportAddsUp ==
  \A r \in Request :
    task[r].kind = "report" /\ pc[r] = "done" /\ r \notin torn =>
      LET a == Answer(r)
          Sum(f) == [orders  |-> SumFunction([x \in DOMAIN f |-> f[x].orders]),
                     revenue |-> SumFunction([x \in DOMAIN f |-> f[x].revenue])]
          sold == SumFunction([p \in DOMAIN a.products |-> a.products[p].sold])
          revenue == SumFunction([p \in DOMAIN a.products |-> a.products[p].revenue])
      IN /\ a.totals = Sum(a.daily) /\ a.totals = Sum(a.channels)
         /\ revenue <= a.totals.revenue
         /\ Cardinality(DOMAIN a.products) < TopSize => revenue = a.totals.revenue
         /\ GrossProfit(a.totals, a.items) <= a.totals.revenue
         /\ a.low \cap a.out = {}
         /\ memo[r].from = 0 /\ day <= memo[r].to /\ Cardinality(DOMAIN a.products) < TopSize
              /\ memo[r].store \in DOMAIN stock
              => a.inventory.stock + sold = SumFunction(Opening)

\* What docs/OPERATIONS.md:19-20 says: rebuilding the demo store leaves other
\* stores as they were.
OtherStoresUntouched ==
  [][\A m \in DOMAIN movement : m[1][1] = Shop => movement'[m].made = movement[m].made]_vars
=============================================================================
