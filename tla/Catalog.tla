------------------------------- MODULE Catalog -------------------------------
(***************************************************************************)
(* Products and their variants: create, change, delete, reprice, restock   *)
(* and sell.  catalog/services.py locks the product before a variant is    *)
(* added or changed; the UPDATE of a product's prices, the deletions and   *)
(* the lines of a draft sale do not.                                       *)
(***************************************************************************)
EXTENDS RowLocks

CONSTANTS
  Product, Variant,   \* primary keys
  Size, NoSize,       \* NoSize is NULL: the size of a sizeless variant
  Price,
  Omitted,            \* a field that a PATCH, or a price that a batch, leaves out
  NoRow,
  Line,               \* primary keys of the lines of one draft sale
  FirstVariant        \* the variants the requests find

Sizes == Size \cup {NoSize}
Row == [product: Product, size: Sizes, price: Price, stock: Nat]

\* "ids" names the primary key a new variant of each size gets.
Operation ==
       [kind: {"create"}, product: Product, size: Sizes, price: Price, id: Variant]
  \cup [kind: {"patch"}, variant: Variant, size: Sizes \cup {Omitted},
        price: Price \cup {Omitted}]
  \cup [kind: {"reprice"}, product: Product, price: Price]
  \cup [kind: {"batch"}, product: Product, ids: UNION {[S -> Variant] : S \in SUBSET Sizes},
        price: Price \cup {Omitted}]
  \cup [kind: {"drop"}, variant: Variant]
  \cup [kind: {"dropProduct"}, product: Product]
  \cup [kind: {"line"}, variant: Variant, id: Line]

ASSUME CatalogAssumption ==
  /\ Traffic \subseteq [Request -> Operation]
  /\ NoSize \notin Size /\ Omitted \notin Sizes \cup Price
  /\ IsFiniteSet(Variant) /\ NoRow \notin Row
  /\ FirstVariant \in [Variant -> Row \cup {NoRow}]

\* The keys of the variants that a request may insert.
Keys(t) ==
  {v \in Variant : \/ t.kind = "create" /\ v = t.id
                   \/ t.kind = "batch" /\ \E s \in DOMAIN t.ids : v = t.ids[s]}

\* A key is given once, and to none of the variants there are at the start.
ASSUME FreshKeys ==
  \A T \in Traffic : \A q \in Request :
    /\ \A v \in Keys(T[q]) : /\ FirstVariant[v] = NoRow
                             /\ \A r \in Request \ {q} : v \notin Keys(T[r])
    /\ T[q].kind = "batch" =>
         \A s, t \in DOMAIN T[q].ids : T[q].ids[s] = T[q].ids[t] => s = t

\* Nor are there two modes or sizes that are the same at the start.
ASSUME FirstVariantsFit ==
  \A v, w \in Variant :
    LET a == FirstVariant[v]
        b == FirstVariant[w] IN
    v # w /\ a # NoRow /\ b # NoRow /\ a.product = b.product
      => a.size # b.size /\ a.size # NoSize

VARIABLES
  product,   \* the products there are
  variant,   \* Variant -> the row, or NoRow
  line,      \* Line -> the line of the draft sale, or NoRow
  memo,      \* Request -> what its handler has read
  (* only read by the properties *)
  asked,     \* Variant -> the price that the last request for it asked for
  stale,     \* variants to which a PATCH has given back a replaced price
  repriced   \* requests for a line whose variant was repriced meanwhile

tables == <<product, variant, line>>
history == <<asked, stale, repriced>>
vars == <<transaction, tables, memo, history>>

VariantsOf(p) == {v \in Variant : variant[v] # NoRow /\ variant[v].product = p}
SizesOf(S) == {variant[v].size : v \in S}
LinesOf(v) == {l \in Line : line[l] # NoRow /\ line[l].variant = v}

ProductRow(p) == <<"product", p>>
VariantRow(v) == <<"variant", v>>
DraftRow == <<"draft">>
RowsOf(p) == {VariantRow(v) : v \in VariantsOf(p)}

Nothing == [rows |-> {}, price |-> Omitted, size |-> Omitted]

Init ==
  /\ AtRest
  /\ product = Product
  /\ variant = FirstVariant
  /\ line = [l \in Line |-> NoRow]
  /\ memo = [r \in Request |-> Nothing]
  /\ asked = [v \in Variant |-> IF variant[v] = NoRow THEN Omitted
                                ELSE variant[v].price]
  /\ stale = {} /\ repriced = {}

\* validate_variant_mode, for a product whose other variants are S.
ModeAllows(S, size) ==
  IF size = NoSize THEN SizesOf(S) \subseteq {NoSize}
                   ELSE NoSize \notin SizesOf(S)

\* Requests that have read v for a line and that a new price overtakes.
Overtaken(S) ==
  {q \in Request : /\ Running(q) /\ task[q].kind = "line"
                   /\ task[q].variant \in S}

-----------------------------------------------------------------------------
(* create_variant *)

\* Faulty form: the product is not locked.
BeginCreateUnlocked(r) ==
  /\ At(r, "idle") /\ task[r].kind = "create"
  /\ GotoIf(task[r].product \in product, r, "create", << >>)
  /\ UNCHANGED <<tables, memo, history>>

BeginCreate(r) ==
  /\ At(r, "idle") /\ task[r].kind = "create"
  /\ GotoIf(task[r].product \in product, r, "create",
            <<ProductRow(task[r].product)>>)
  /\ UNCHANGED <<tables, memo, history>>

CheckMode(r) ==
  LET p == task[r].product IN
  /\ At(r, "create")
  /\ GotoIf(p \in product /\ ModeAllows(VariantsOf(p), task[r].size),
            r, "adding", << >>)
  /\ UNCHANGED <<tables, memo, history>>

\* unique_product_variant_size, unique_sizeless_variant_per_product
AddVariant(r) ==
  LET t == task[r] IN
  /\ At(r, "adding")
  /\ IF t.size \in SizesOf(VariantsOf(t.product))
     THEN Finish(r, "failed") /\ UNCHANGED <<variant, asked>>
     ELSE /\ variant' = [variant EXCEPT ![t.id] =
               [product |-> t.product, size |-> t.size, price |-> t.price,
                stock |-> 0]]
          /\ asked' = [asked EXCEPT ![t.id] = t.price]
          /\ Finish(r, "done")
  /\ UNCHANGED <<product, line, memo, stale, repriced>>

-----------------------------------------------------------------------------
(* ProductVariantDetailView.perform_update and update_variant *)

\* The fields that were omitted are filled from the row as it was loaded.
Filled(t, row) ==
  [rows |-> {}, size |-> IF t.size = Omitted THEN row.size ELSE t.size,
   price |-> IF t.price = Omitted THEN row.price ELSE t.price]

LoadVariant(r) ==
  LET t == task[r] IN
  /\ At(r, "idle") /\ t.kind = "patch"
  /\ IF variant[t.variant] = NoRow THEN Finish(r, "failed") /\ UNCHANGED memo
     ELSE /\ memo' = [memo EXCEPT ![r] = Filled(t, variant[t.variant])]
          /\ Goto(r, "patch", <<ProductRow(variant[t.variant].product),
                                VariantRow(t.variant)>>)
  /\ UNCHANGED <<tables, history>>

\* With the product and the variant locked, the mode is checked against the
\* other variants.
CheckPatch(r) ==
  LET v == task[r].variant IN
  /\ At(r, "patch")
  /\ GotoIf(/\ variant[v] # NoRow
            /\ ModeAllows(VariantsOf(variant[v].product) \ {v}, memo[r].size),
            r, "saving", << >>)
  /\ UNCHANGED <<tables, memo, history>>

\* Faulty form: sale_price is missing in update_fields.
SaveNoPrice(r) ==
  LET v == task[r].variant IN
  /\ At(r, "saving")
  /\ variant' = [variant EXCEPT ![v].size = memo[r].size]
  /\ asked' = [asked EXCEPT ![v] = IF task[r].price = Omitted THEN @
                                   ELSE task[r].price]
  /\ Finish(r, "done")
  /\ UNCHANGED <<product, line, memo, stale, repriced>>

\* update_fields leaves the stock as it is.  A price that was omitted, and has
\* been replaced since it was loaded, comes back.
SaveVariant(r) ==
  LET v == task[r].variant
      others == VariantsOf(variant[v].product) \ {v} IN
  /\ At(r, "saving")
  /\ IF memo[r].size \in SizesOf(others)
     THEN Finish(r, "failed") /\ UNCHANGED <<variant, history>>
     ELSE /\ variant' = [variant EXCEPT ![v].size = memo[r].size,
                                        ![v].price = memo[r].price]
          /\ asked' = [asked EXCEPT ![v] = IF task[r].price = Omitted THEN @
                                           ELSE task[r].price]
          /\ stale' = IF task[r].price # Omitted THEN stale \ {v}
                      ELSE stale \cup {w \in {v} : variant[w].price # memo[r].price}
          /\ repriced' = repriced \cup
               {q \in Overtaken({v}) : variant[v].price # memo[r].price}
          /\ Finish(r, "done")
  /\ UNCHANGED <<product, line, memo>>

-----------------------------------------------------------------------------
(* update_product_sale_price: one UPDATE, without the lock of the product *)

BeginReprice(r) ==
  LET p == task[r].product IN
  /\ At(r, "idle") /\ task[r].kind = "reprice"
  /\ \/ p \notin product /\ Finish(r, "failed")
     \/ p \in product /\ \E rows \in Orders(RowsOf(p)) : Goto(r, "reprice", rows)
  /\ UNCHANGED <<tables, memo, history>>

CommitReprice(r) ==
  LET S == {v \in VariantsOf(task[r].product) : VariantRow(v) \in held[r]} IN
  /\ At(r, "reprice")
  /\ IF S = {} THEN Finish(r, "failed") /\ UNCHANGED <<variant, history>>
     ELSE /\ variant' = [v \in Variant |->
               IF v \in S THEN [variant[v] EXCEPT !.price = task[r].price]
               ELSE variant[v]]
          /\ asked' = [v \in Variant |-> IF v \in S THEN task[r].price ELSE asked[v]]
          /\ stale' = stale \ S
          /\ repriced' = repriced \cup Overtaken(S)
          /\ Finish(r, "done")
  /\ UNCHANGED <<product, line, memo>>

-----------------------------------------------------------------------------
(* create_batch_purchase *)

\* Faulty form: the variants are locked, but not the product.
BeginBatchUnlocked(r) ==
  /\ At(r, "idle") /\ task[r].kind = "batch"
  /\ GotoIf(task[r].product \in product, r, "batch", << >>)
  /\ UNCHANGED <<tables, memo, history>>

BeginBatch(r) ==
  /\ At(r, "idle") /\ task[r].kind = "batch"
  /\ GotoIf(task[r].product \in product, r, "batch",
            <<ProductRow(task[r].product)>>)
  /\ UNCHANGED <<tables, memo, history>>

LockVariants(r) ==
  LET p == task[r].product IN
  /\ At(r, "batch")
  /\ \/ p \notin product /\ Finish(r, "failed")
     \/ p \in product /\ \E rows \in Orders(RowsOf(p)) : Goto(r, "checking", rows)
  /\ UNCHANGED <<tables, memo, history>>

Locked(r) == {v \in VariantsOf(task[r].product) : VariantRow(v) \in held[r]}
Missing(r) == DOMAIN task[r].ids \ SizesOf(memo[r].rows)

\* Sized and sizeless variants do not mix, in the batch or with the others.
CheckBatch(r) ==
  LET wanted == DOMAIN task[r].ids IN
  /\ At(r, "checking")
  /\ memo' = [memo EXCEPT ![r].rows = Locked(r)]
  /\ GotoIf(/\ wanted \cup SizesOf(Locked(r)) = {NoSize}
               \/ NoSize \notin wanted \cup SizesOf(Locked(r))
            /\ wanted \subseteq SizesOf(Locked(r)) \/ task[r].price # Omitted,
            r, "filling", << >>)
  /\ UNCHANGED <<tables, history>>

\* Sizes that are missing become new variants, and each gets a purchase of 1.
FillBatch(r) ==
  LET t == task[r]
      new == {t.ids[s] : s \in Missing(r)}
      sizeOf(v) == CHOOSE s \in Missing(r) : t.ids[s] = v IN
  /\ At(r, "filling")
  /\ IF Missing(r) \cap SizesOf(VariantsOf(t.product)) # {}
     THEN Finish(r, "failed") /\ UNCHANGED <<variant, asked>>
     ELSE /\ variant' = [v \in Variant |->
               IF v \in new
               THEN [product |-> t.product, size |-> sizeOf(v),
                     price |-> t.price, stock |-> 1]
               ELSE IF v \in memo[r].rows /\ variant[v].size \in DOMAIN t.ids
               THEN [variant[v] EXCEPT !.stock = @ + 1]
               ELSE variant[v]]
          /\ asked' = [v \in Variant |-> IF v \in new THEN t.price ELSE asked[v]]
          /\ Finish(r, "done")
  /\ UNCHANGED <<product, line, memo, stale, repriced>>

-----------------------------------------------------------------------------
(* Deletions and lines *)

\* The collector finds what refers to the row before anything is locked: lines
\* protect their variant, the variants go with their product.
BeginDrop(r) ==
  LET t == task[r]
      doomed == IF t.kind = "drop" THEN {v \in {t.variant} : variant[v] # NoRow}
                ELSE VariantsOf(t.product) IN
  /\ At(r, "idle") /\ t.kind \in {"drop", "dropProduct"}
  /\ memo' = [memo EXCEPT ![r].rows = doomed]
  /\ \/ /\ \E v \in doomed : LinesOf(v) # {}
        /\ Finish(r, "failed")
     \/ /\ \A v \in doomed : LinesOf(v) = {}
        /\ \E rows \in Orders({VariantRow(v) : v \in doomed}) :
             Goto(r, "drop", IF t.kind = "drop" THEN rows
                             ELSE Append(rows, ProductRow(t.product)))
  /\ UNCHANGED <<tables, history>>

\* Faulty form: the foreign keys are not checked.
CommitDropAnyway(r) ==
  /\ At(r, "drop")
  /\ variant' = [v \in Variant |-> IF v \in memo[r].rows THEN NoRow ELSE variant[v]]
  /\ product' = IF task[r].kind = "drop" THEN product
                ELSE product \ {task[r].product}
  /\ Finish(r, "done")
  /\ UNCHANGED <<line, memo, history>>

\* Rows that were added since refer to rows that are gone: the transaction
\* fails when it commits.
CommitDrop(r) ==
  /\ At(r, "drop")
  /\ IF \/ \E v \in memo[r].rows : LinesOf(v) # {}
        \/ /\ task[r].kind = "dropProduct"
           /\ ~ VariantsOf(task[r].product) \subseteq memo[r].rows
     THEN Finish(r, "failed") /\ UNCHANGED <<variant, product>>
     ELSE /\ variant' = [v \in Variant |->
               IF v \in memo[r].rows THEN NoRow ELSE variant[v]]
          /\ product' = IF task[r].kind = "drop" THEN product
                        ELSE product \ {task[r].product}
          /\ Finish(r, "done")
  /\ UNCHANGED <<line, memo, history>>

\* add_sale_item: the serializer has loaded the variant before the draft is
\* locked.
BeginLine(r) ==
  LET v == task[r].variant IN
  /\ At(r, "idle") /\ task[r].kind = "line"
  /\ IF variant[v] = NoRow THEN Finish(r, "failed") /\ UNCHANGED memo
     ELSE /\ memo' = [memo EXCEPT ![r].price = variant[v].price]
          /\ Goto(r, "line", <<DraftRow>>)
  /\ UNCHANGED <<tables, history>>

\* The line refers to the variant, which is looked for at the commit.
InsertLine(r) ==
  /\ At(r, "line")
  /\ Goto(r, "pricing", <<VariantRow(task[r].variant)>>)
  /\ UNCHANGED <<tables, memo, history>>

\* Faulty form: a line has the price of a line of the variant before it.
PriceOfLineBefore(r) ==
  IF LinesOf(task[r].variant) = {} THEN memo[r].price
  ELSE line[CHOOSE l \in LinesOf(task[r].variant) : TRUE].price

PriceOfLine(r) == memo[r].price

CommitLine(r) ==
  LET v == task[r].variant IN
  /\ At(r, "pricing")
  /\ IF variant[v] = NoRow THEN Finish(r, "failed") /\ UNCHANGED line
     ELSE /\ line' = [line EXCEPT ![task[r].id] =
                        [variant |-> v, price |-> PriceOfLine(r)]]
          /\ Finish(r, "done")
  /\ UNCHANGED <<product, variant, memo, history>>

-----------------------------------------------------------------------------
Rollback(r) ==
  /\ Crash(r) \/ ResolveDeadlock(r)
  /\ UNCHANGED <<tables, memo, history>>

Handle(r) ==
  \/ Acquire(r) /\ UNCHANGED <<tables, memo, history>>
  \/ BeginCreate(r) \/ CheckMode(r) \/ AddVariant(r)
  \/ LoadVariant(r) \/ CheckPatch(r) \/ SaveVariant(r)
  \/ BeginReprice(r) \/ CommitReprice(r)
  \/ BeginBatch(r) \/ LockVariants(r) \/ CheckBatch(r) \/ FillBatch(r)
  \/ BeginDrop(r) \/ CommitDrop(r)
  \/ BeginLine(r) \/ InsertLine(r) \/ CommitLine(r)

Finished == (\A r \in Request : Ended(r)) /\ UNCHANGED vars

Next ==
  \/ \E r \in Request : Handle(r) \/ Rollback(r)
  \/ Finished

Spec == Init /\ [][Next]_vars

-----------------------------------------------------------------------------
(* Properties *)

TypeOK ==
  /\ product \subseteq Product
  /\ variant \in [Variant -> Row \cup {NoRow}]
  /\ line \in [Line -> [variant: Variant, price: Price] \cup {NoRow}]
  /\ \A r \in Request : memo[r].rows \subseteq Variant

\* However variants are added, changed and bought side by side, a product has
\* sized variants or one without a size, and never two of a size: no
\* constraint of the database says so for the mode (catalog/services.py:27).
OneVariantMode ==
  \A p \in Product : LET S == VariantsOf(p) IN
    /\ NoSize \in SizesOf(S) => Cardinality(S) = 1
    /\ \A v, w \in S : variant[v].size = variant[w].size => v = w

\* What a batch found missing stays missing until it creates it: a purchase
\* is never rolled back by the unique constraint (inventory/services.py:103).
BatchSeesAllSizes ==
  \A r \in Request : pc[r] = "filling" =>
    Missing(r) \cap SizesOf(VariantsOf(task[r].product)) = {}

\* A variant has the price that was last asked for, for it or for its product,
\* unless a PATCH that leaves the price out has loaded it before
\* (catalog/api/views.py:308).
PriceIsLastAskedUnlessStale ==
  \A v \in Variant : variant[v] # NoRow =>
    variant[v].price = asked[v] \/ v \in stale

\* A line is added at the price its variant has when the line commits, unless
\* the price changed since the request read it (sales/services.py:72).
LinePriceIsCurrentUnlessRepriced ==
  [][\A r \in Request :
       task[r].kind = "line" /\ pc[r] # "done" /\ pc'[r] = "done"
         => \/ line'[task[r].id].price = variant[task[r].variant].price
            \/ r \in repriced]_vars

\* Lines refer to variants, and variants to products, that are there.
NothingDangles ==
  /\ \A v \in Variant : variant[v] # NoRow => variant[v].product \in product
  /\ \A l \in Line : line[l] # NoRow => variant[line[l].variant] # NoRow

\* The tables hold well-formed rows that refer to rows that are there: what is
\* deleted is protected or goes with it, though nothing is locked when the
\* deletion looks for it (catalog/api/views.py:195, 315).
TablesSound == TypeOK /\ NothingDangles
=============================================================================
