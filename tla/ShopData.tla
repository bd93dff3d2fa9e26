------------------------------ MODULE ShopData ------------------------------
(***************************************************************************)
(* The rows of a shop's sales and inventory tables, and the queries the    *)
(* services run over them.  The module has no state: the abstract and the  *)
(* detailed specification of the services both extend it.                  *)
(*                                                                         *)
(* A primary key stands for its row.  Foreign keys that no code path ever  *)
(* changes (a variant's product, a product's store, a sale's store) are    *)
(* constant functions; size, names, costs, customers and timestamps are    *)
(* left out because no property depends on them.                           *)
(***************************************************************************)
EXTENDS Integers, Sequences, FiniteSets, SequencesExt

CONSTANTS
  Store,       \* tenants
  Product,     \* catalog products
  Variant,     \* product variants: their primary keys, ordered as numbers
  Sale,        \* primary keys of sales
  Item,        \* primary keys of sale items
  NoItem,      \* "no such row" in the sale item table
  ProductOf,   \* variant -> product
  StoreOf,     \* product -> store
  SaleStore,   \* sale -> store
  EmailStore   \* the stores whose notification_email is set

ASSUME KeysAssumption ==
  /\ Variant \subseteq Nat
  /\ IsFiniteSet(Variant) /\ IsFiniteSet(Item)
  /\ ProductOf \in [Variant -> Product]
  /\ StoreOf \in [Product -> Store]
  /\ SaleStore \in [Sale -> Store]
  /\ EmailStore \subseteq Store

-----------------------------------------------------------------------------
(* Rows *)

Status == {"none", "draft", "completed", "cancelled"}

\* A sale item; "unit" is the price snapshot, "final" the stored line total.
ItemRow == [sale: Sale, variant: Variant, quantity: Nat \ {0},
            unit: Nat, discount: Nat, final: Nat]

ASSUME NoItemAssumption == NoItem \notin ItemRow

\* An inventory movement; "note" is the sale number its text quotes, or 0.
Movement == [quantity: Int \ {0},
             type: {"purchase", "sale", "adjustment"}, note: Nat]

\* A movement still to be recorded, together with its variant.
Line == [variant: Variant, quantity: Int \ {0},
         type: {"purchase", "sale", "adjustment"}, note: Nat]

RowOf(l) == [quantity |-> l.quantity, type |-> l.type, note |-> l.note]

-----------------------------------------------------------------------------
(* Queries *)

StoreOfVariant(v) == StoreOf[ProductOf[v]]

VariantsOf(p) == {v \in Variant : ProductOf[v] = p}

\* sale.items.all() over the sale item table tbl.
ItemsOf(tbl, s) == {i \in Item : tbl[i] # NoItem /\ tbl[i].sale = s}

\* The aggregated demand of a sale for one variant.
Required(tbl, s, v) ==
  SumFunction([i \in {k \in ItemsOf(tbl, s) : tbl[k].variant = v}
                 |-> tbl[i].quantity])

VariantsSold(tbl, s) == {tbl[i].variant : i \in ItemsOf(tbl, s)}

\* update_sale_total: the aggregate of the line totals, 0 without lines.
Total(tbl, s) == SumFunction([i \in ItemsOf(tbl, s) |-> tbl[i].final])

\* The numbers already given to sales of a store, and the greatest of them.
NumbersOf(nums, st) == {nums[s] : s \in {t \in Sale : SaleStore[t] = st}} \ {0}
LatestNumber(nums, st) ==
  IF NumbersOf(nums, st) = {} THEN 0 ELSE Max(NumbersOf(nums, st))

\* A line priced as add_sale_item and update_sale_item price it.
Priced(s, v, quantity, unit, discount) ==
  [sale |-> s, variant |-> v, quantity |-> quantity, unit |-> unit,
   discount |-> discount, final |-> unit * quantity - discount]

\* The movements of a sale's items, taken in the given order of items.
SaleLines(tbl, order, n) ==
  [k \in DOMAIN order |->
     [variant |-> tbl[order[k]].variant, quantity |-> - tbl[order[k]].quantity,
      type |-> "sale", note |-> n]]
CancellationLines(tbl, order, n) ==
  [k \in DOMAIN order |->
     [variant |-> tbl[order[k]].variant, quantity |-> tbl[order[k]].quantity,
      type |-> "adjustment", note |-> n]]

\* The movement rows that a sequence of lines adds to one variant.
RowsFor(lines, v) ==
  LET kept[n \in 0 .. Len(lines)] ==
        IF n = 0 THEN << >>
        ELSE IF lines[n].variant = v THEN Append(kept[n - 1], RowOf(lines[n]))
        ELSE kept[n - 1]
  IN  kept[Len(lines)]

\* What the movements at some positions of a history add up to, what all of
\* them do, and what those do whose text quotes a sale number.
SumAt(ms, positions) == SumFunction([k \in positions |-> ms[k].quantity])
Balance(ms) == SumAt(ms, DOMAIN ms)
Quoted(ms, n) == SumAt(ms, {k \in DOMAIN ms : ms[k].note = n})
=============================================================================
