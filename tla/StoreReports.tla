---------------------------- MODULE StoreReports ----------------------------
(***************************************************************************)
(* What the dashboard and the report of a store compute from its tables:   *)
(* one operator for each query of dashboard/services.  A table is a        *)
(* function from primary keys to rows; a day stands for the local date of  *)
(* a timestamp.  A sale has a basket, which stands for its rows of         *)
(* SaleItem: a line has the prices of the sale, not those of its variant.  *)
(***************************************************************************)
EXTENDS Naturals, Integers, Sequences, FiniteSets, FiniteSetsExt

CONSTANTS
  Lines,             \* basket -> its lines, a sequence
  Channel,           \* Sale.ChannelChoices
  LowStockThreshold,
  TopSize,           \* how many products are listed (10)
  MaxRange,          \* DASHBOARD_MAX_DATE_RANGE_DAYS
  ReportSpan,        \* days in a report when none are asked for (30)
  Today              \* stands for a date that the query leaves out

ASSUME ReportAssumption ==
  /\ IsFiniteSet(Channel)
  /\ TopSize \in Nat /\ ReportSpan \in Nat

FinalPrice(line) == line.price * line.units - line.discount

Total(sale) ==
  SumFunction([i \in DOMAIN Lines[sale.basket] |-> FinalPrice(Lines[sale.basket][i])])

\* The completed sales of a period, by the day they were completed.
Completed(sales, from, to) ==
  {k \in DOMAIN sales : sales[k].status = "completed" /\ sales[k].done \in from..to}

LinesOf(sales, K) == UNION {{k} \X DOMAIN Lines[sales[k].basket] : k \in K}

LineAt(sales, x) == Lines[sales[x[1]].basket][x[2]]

SalesTotals(sales, K) ==
  [orders  |-> Cardinality(K),
   revenue |-> SumFunction([k \in K |-> Total(sales[k])])]

ItemTotals(sales, K) ==
  LET L == LinesOf(sales, K)
      Cost(line) == line.cost * line.units
  IN [discount |-> SumFunction([x \in L |-> LineAt(sales, x).discount]),
      cost     |-> SumFunction([x \in L |-> Cost(LineAt(sales, x))])]

\* Faulty form: the last day of the period is left out.
DailyShort(sales, K, from, to) ==
  [d \in from..(to - 1) |-> SalesTotals(sales, {k \in K : sales[k].done = d})]

Daily(sales, K, from, to) ==
  [d \in from..to |-> SalesTotals(sales, {k \in K : sales[k].done = d})]

Channels(sales, K) ==
  [c \in Channel |-> SalesTotals(sales, {k \in K : sales[k].channel = c})]

\* The products sold most, the first names first among equals.  The name of a
\* product is a number.
Products(sales, K, productOf) ==
  LET NameOf(x) == productOf[LineAt(sales, x).variant]
      Sold(L) ==
        [sold    |-> SumFunction([x \in L |-> LineAt(sales, x).units]),
         revenue |-> SumFunction([x \in L |-> FinalPrice(LineAt(sales, x))])]
      lines == LinesOf(sales, K)
      sold == [p \in {NameOf(x) : x \in lines} |-> Sold({x \in lines : NameOf(x) = p})]
      Before(q, p) == \/ sold[q].sold > sold[p].sold
                      \/ sold[q].sold = sold[p].sold /\ q < p
  IN [p \in {q \in DOMAIN sold : Cardinality({b \in DOMAIN sold : Before(b, q)}) < TopSize}
        |-> sold[p]]

\* "stock" is the current_stock of the variants of the store.
Inventory(stock, purchasePrice, salePrice) ==
  [variants |-> Cardinality(DOMAIN stock),
   stock    |-> SumFunction(stock),
   purchase |-> SumFunction([v \in DOMAIN stock |-> purchasePrice[v] * stock[v]]),
   retail   |-> SumFunction([v \in DOMAIN stock |-> salePrice[v] * stock[v]])]

\* The report counts apart what is low and what is out of stock; the dashboard
\* lists both.
LowStock(stock) == {v \in DOMAIN stock : stock[v] > 0 /\ stock[v] <= LowStockThreshold}
OutOfStock(stock) == {v \in DOMAIN stock : stock[v] = 0}
LowStockProducts(stock) == {v \in DOMAIN stock : stock[v] <= LowStockThreshold}

GrossProfit(totals, items) == totals.revenue - items.cost

\* The period of a query: a date that is left out is today's, and a report
\* then begins ReportSpan - 1 days before its end.
DateTo(query, day) == IF query.to = Today THEN day ELSE query.to

DateFrom(query, day) ==
  IF query.from # Today THEN query.from
  ELSE IF query.kind = "report" THEN DateTo(query, day) - (ReportSpan - 1)
  ELSE day

ValidPeriod(from, to) == from <= to /\ to - from <= MaxRange
=============================================================================
