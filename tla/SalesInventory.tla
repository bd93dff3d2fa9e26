--------------------------- MODULE SalesInventory ---------------------------
(***************************************************************************)
(* What the sales and inventory services promise: each service call takes  *)
(* effect as one atomic step on the committed tables, or not at all.       *)
(* SalesTransactions, which models the transactions and row locks of the   *)
(* code, is checked to implement this specification.                       *)
(***************************************************************************)
EXTENDS ShopData

VARIABLES
  status,     \* Sale -> Status; "none" when the row does not exist
  number,     \* Sale -> Nat; 0 stands for sale_number = NULL
  total,      \* Sale -> total_amount
  item,       \* Item -> ItemRow or NoItem
  stock,      \* Variant -> current_stock
  movements,  \* Variant -> its inventory movements, oldest first
  price,      \* Variant -> sale_price
  outbox      \* the sales that have a sale_completed NotificationEvent

tables == <<status, number, total, item, stock, movements, price, outbox>>

Init ==
  /\ status = [s \in Sale |-> "none"]
  /\ number = [s \in Sale |-> 0]
  /\ total = [s \in Sale |-> 0]
  /\ item = [i \in Item |-> NoItem]
  /\ stock = [v \in Variant |-> 0]
  /\ movements = [v \in Variant |-> << >>]
  /\ price \in [Variant -> Nat]
  /\ outbox = {}

-----------------------------------------------------------------------------
(* Draft sales *)

CreateSale(s) ==
  /\ status[s] = "none"
  /\ status' = [status EXCEPT ![s] = "draft"]
  /\ UNCHANGED <<number, total, item, stock, movements, price, outbox>>

DeleteDraftSale(s) ==
  /\ status[s] = "draft"
  /\ status' = [status EXCEPT ![s] = "none"]
  /\ total' = [total EXCEPT ![s] = 0]
  /\ item' = [i \in Item |-> IF i \in ItemsOf(item, s) THEN NoItem ELSE item[i]]
  /\ UNCHANGED <<number, stock, movements, price, outbox>>

\* One row of a draft changes and the total follows it in the same step.
PutItem(s, i, row) ==
  /\ status[s] = "draft"
  /\ item' = [item EXCEPT ![i] = row]
  /\ total' = [total EXCEPT ![s] = Total(item', s)]
  /\ UNCHANGED <<status, number, stock, movements, price, outbox>>

\* A line is sold at some price; which price is add_sale_item's concern.
AddSaleItem(s, i) ==
  /\ item[i] = NoItem
  /\ item'[i] \in ItemRow
  /\ item'[i].sale = s
  /\ StoreOfVariant(item'[i].variant) = SaleStore[s]
  /\ item'[i].final = item'[i].unit * item'[i].quantity - item'[i].discount
  /\ PutItem(s, i, item'[i])

UpdateSaleItem(s, i) ==
  /\ i \in ItemsOf(item, s)
  /\ item'[i] \in ItemRow
  /\ item'[i] = Priced(s, item[i].variant, item'[i].quantity,
                       item[i].unit, item'[i].discount)
  /\ PutItem(s, i, item'[i])

DeleteSaleItem(s, i) ==
  /\ i \in ItemsOf(item, s)
  /\ PutItem(s, i, NoItem)

-----------------------------------------------------------------------------
(* Stock *)

\* The lines are recorded in order and the stock follows their sum.
Record(lines) ==
  /\ movements' = [v \in Variant |-> movements[v] \o RowsFor(lines, v)]
  /\ stock' = [v \in Variant |-> stock[v] + Balance(RowsFor(lines, v))]

CreateInventoryMovement(v) ==
  /\ Len(movements'[v]) = Len(movements[v]) + 1
  /\ LET m == Last(movements'[v])
     IN  /\ m.type \in {"purchase", "adjustment"}
         /\ m.quantity # 0
         /\ m.type = "purchase" => m.quantity > 0
         /\ m.note = 0
         /\ stock[v] + m.quantity >= 0
         /\ Record(<<[variant |-> v, quantity |-> m.quantity,
                      type |-> m.type, note |-> 0]>>)
  /\ UNCHANGED <<status, number, total, item, price, outbox>>

\* One purchase receives at most one line of each variant of one product.
CreateBatchPurchase(p) ==
  /\ \A v \in Variant :
       LET n == Len(movements[v])
           added == SubSeq(movements'[v], n + 1, Len(movements'[v]))
       IN  /\ movements'[v] = movements[v] \o added
           /\ Len(added) <= 1
           /\ v \notin VariantsOf(p) => added = << >>
           /\ \A k \in DOMAIN added : /\ added[k].type = "purchase"
                                      /\ added[k].quantity > 0
                                      /\ added[k].note = 0
           /\ stock'[v] = stock[v] + Balance(added)
  /\ UNCHANGED <<status, number, total, item, price, outbox>>

UpdateProductSalePrice(p, amount) ==
  /\ VariantsOf(p) # {}
  /\ price' = [v \in Variant |-> IF ProductOf[v] = p THEN amount ELSE price[v]]
  /\ UNCHANGED <<status, number, total, item, stock, movements, outbox>>

-----------------------------------------------------------------------------
(* Checkout and cancellation *)

CompleteSale(s) ==
  /\ status[s] = "draft"
  /\ ItemsOf(item, s) # {}
  /\ \A v \in VariantsSold(item, s) : stock[v] >= Required(item, s, v)
  /\ status' = [status EXCEPT ![s] = "completed"]
  /\ number' = [number EXCEPT ![s] = LatestNumber(number, SaleStore[s]) + 1]
  /\ \E order \in SetToSeqs(ItemsOf(item, s)) :
       Record(SaleLines(item, order, number'[s]))
  /\ outbox' = IF SaleStore[s] \in EmailStore THEN outbox \cup {s} ELSE outbox
  /\ UNCHANGED <<total, item, price>>

CancelSale(s) ==
  /\ status[s] = "completed"
  /\ status' = [status EXCEPT ![s] = "cancelled"]
  /\ \E order \in SetToSeqs(ItemsOf(item, s)) :
       Record(CancellationLines(item, order, number[s]))
  /\ UNCHANGED <<number, total, item, price, outbox>>

-----------------------------------------------------------------------------

Next ==
  \/ \E s \in Sale : \/ CreateSale(s)
                     \/ DeleteDraftSale(s)
                     \/ CompleteSale(s)
                     \/ CancelSale(s)
  \/ \E s \in Sale, i \in Item : \/ AddSaleItem(s, i)
                                 \/ UpdateSaleItem(s, i)
                                 \/ DeleteSaleItem(s, i)
  \/ \E v \in Variant : CreateInventoryMovement(v)
  \/ \E p \in Product : \/ CreateBatchPurchase(p)
                        \/ \E v \in VariantsOf(p) :
                             UpdateProductSalePrice(p, price'[v])

Spec == Init /\ [][Next]_tables
=============================================================================
