--------------------------- MODULE CatalogProofs ---------------------------
(***************************************************************************)
(* Why a product has one mode and one variant of a size, a batch sees all  *)
(* sizes, prices are the last that were asked for and nothing dangles, for *)
(* any number of products, variants and overlapping requests.  Whoever     *)
(* adds variants to a product, or gives one another size, holds the row of *)
(* the product from the check to the commit (HoldsInv); reprices and       *)
(* deletions do not, and only lock the variants that they change.          *)
(***************************************************************************)
EXTENDS Catalog, RowLocksProofs, FiniteSetTheorems

Lockable == ({"product"} \X Product) \cup ({"variant"} \X Variant) \cup {DraftRow}

Locks == LocksInv(Lockable) /\ task \in Traffic

Notes == [rows: SUBSET Variant, price: Price \cup {Omitted}, size: Sizes \cup {Omitted}]

Types == TypeOK /\ memo \in [Request -> Notes]

There(v) == variant[v] # NoRow
IsOf(v, p) == There(v) /\ variant[v].product = p
SameMode(a, b) == (a = NoSize) <=> (b = NoSize)

BatchPoints == {"batch", "checking", "filling"}
LinePoints == {"line", "pricing"}

\* The points at which a request has read its variant without locking it.
ReadPoints == {"patch"} \cup LinePoints

\* Each kind of request has its own points.
PointOf(r) ==
  /\ pc[r] \in {"create", "adding"} => task[r].kind = "create"
  /\ pc[r] \in {"patch", "saving"} => task[r].kind = "patch"
  /\ pc[r] = "reprice" => task[r].kind = "reprice"
  /\ pc[r] \in BatchPoints => task[r].kind = "batch"
  /\ pc[r] = "drop" => task[r].kind \in {"drop", "dropProduct"}
  /\ pc[r] \in LinePoints => task[r].kind = "line"

\* A new variant is of the mode of its product, which is locked.
CreateOf(r) ==
  /\ pc[r] = "create" => ProductRow(task[r].product) \in Reserved(r)
  /\ pc[r] = "adding" =>
       /\ task[r].product \in product /\ ProductRow(task[r].product) \in held[r]
       /\ \A v \in Variant : IsOf(v, task[r].product) =>
            SameMode(variant[v].size, task[r].size)

\* A variant and its product are locked, and its new size is of the mode of
\* the other variants; its price is the one asked for, or that of the row.
PatchOf(r) ==
  /\ pc[r] \in {"patch", "saving"} =>
       /\ VariantRow(task[r].variant) \in Reserved(r)
       /\ memo[r].size \in Sizes /\ memo[r].price \in Price
       /\ task[r].price # Omitted => memo[r].price = task[r].price
  /\ pc[r] = "patch" /\ There(task[r].variant) =>
       ProductRow(variant[task[r].variant].product) \in Reserved(r)
  /\ pc[r] = "saving" =>
       /\ There(task[r].variant) /\ VariantRow(task[r].variant) \in held[r]
       /\ ProductRow(variant[task[r].variant].product) \in held[r]
       /\ \A v \in Variant : v # task[r].variant
              /\ IsOf(v, variant[task[r].variant].product)
            => SameMode(variant[v].size, memo[r].size)

\* A batch locks its product and then all the variants of it: the ones it has
\* found are the ones there are, and the sizes it adds are of their mode.
BatchOf(r) ==
  /\ pc[r] = "batch" => ProductRow(task[r].product) \in Reserved(r)
  /\ pc[r] \in {"checking", "filling"} =>
       /\ task[r].product \in product /\ ProductRow(task[r].product) \in held[r]
       /\ \A v \in Variant : IsOf(v, task[r].product) => VariantRow(v) \in Reserved(r)
  /\ pc[r] = "filling" =>
       /\ \A v \in Variant : v \in memo[r].rows <=> IsOf(v, task[r].product)
       /\ \A v \in memo[r].rows : VariantRow(v) \in held[r]
       /\ \A s, t \in DOMAIN task[r].ids : SameMode(s, t)
       /\ \A s \in DOMAIN task[r].ids : \A v \in memo[r].rows :
            SameMode(variant[v].size, s)
       /\ task[r].price = Omitted =>
            \A s \in DOMAIN task[r].ids : \E v \in memo[r].rows : variant[v].size = s

\* A deletion locks what it deletes.
DropOf(r) ==
  pc[r] = "drop" =>
    /\ \A v \in memo[r].rows : VariantRow(v) \in Reserved(r)
    /\ task[r].kind = "dropProduct" => ProductRow(task[r].product) \in Reserved(r)

LineOf(r) == pc[r] \in LinePoints => memo[r].price \in Price

HoldsOf(r) == PointOf(r) /\ CreateOf(r) /\ PatchOf(r) /\ BatchOf(r) /\ DropOf(r) /\ LineOf(r)

HoldsInv == \A r \in Request : HoldsOf(r)

\* Keys about to be inserted are new, also to the requests that have read
\* their variant, which may be gone.
KeyInv ==
  \A q \in Request : ~ Ended(q) => \A v \in Keys(task[q]) :
    /\ ~ There(v)
    /\ \A r \in Request : pc[r] \in ReadPoints => task[r].variant # v

IInv == Locks /\ Types /\ HoldsInv /\ KeyInv

\* Two variants of a product have two sizes.
ModeInv ==
  \A v, w \in Variant :
    v # w /\ There(v) /\ There(w) /\ variant[v].product = variant[w].product
      => variant[v].size # variant[w].size /\ variant[v].size # NoSize

\* The price a line was read at is that of its variant, or known to be old.
PriceReadInv ==
  \A r \in Request : pc[r] \in LinePoints /\ There(task[r].variant) =>
    memo[r].price = variant[task[r].variant].price \/ r \in repriced

-----------------------------------------------------------------------------
(* Rows, requests and notes *)

LEMMA RowsAreLockable ==
  /\ \A p \in Product : ProductRow(p) \in Lockable
  /\ \A v \in Variant : VariantRow(v) \in Lockable
  /\ DraftRow \in Lockable
  BY DEF Lockable, ProductRow, VariantRow

LEMMA TaskFields ==
  ASSUME task \in Traffic, NEW r \in Request
  PROVE  /\ task[r].kind \in {"create", "reprice", "batch", "dropProduct"} =>
              task[r].product \in Product
         /\ task[r].kind \in {"patch", "drop", "line"} => task[r].variant \in Variant
         /\ task[r].kind = "create" =>
              task[r].size \in Sizes /\ task[r].price \in Price /\ task[r].id \in Variant
         /\ task[r].kind = "patch" => /\ task[r].size \in Sizes \cup {Omitted}
                                      /\ task[r].price \in Price \cup {Omitted}
         /\ task[r].kind = "reprice" => task[r].price \in Price
         /\ task[r].kind = "batch" =>
              /\ task[r].price \in Price \cup {Omitted}
              /\ DOMAIN task[r].ids \subseteq Sizes
              /\ \A s \in DOMAIN task[r].ids : task[r].ids[s] \in Variant
         /\ task[r].kind = "line" => task[r].id \in Line
<1>1. task[r] \in Operation
  BY CatalogAssumption
<1>2. task[r].kind = "batch" => task[r].ids \in UNION {[S -> Variant] : S \in SUBSET Sizes}
  BY <1>1 DEF Operation
<1>3. QED
  BY <1>1, <1>2 DEF Operation

LEMMA KeyOf ==
  ASSUME task \in Traffic, NEW r \in Request
  PROVE  /\ Keys(task[r]) \subseteq Variant
         /\ task[r].kind = "create" => task[r].id \in Keys(task[r])
         /\ task[r].kind = "batch" =>
              /\ \A s \in DOMAIN task[r].ids : task[r].ids[s] \in Keys(task[r])
              /\ \A s, t \in DOMAIN task[r].ids :
                   task[r].ids[s] = task[r].ids[t] => s = t
         /\ \A q \in Request \ {r} : \A v \in Keys(task[r]) : v \notin Keys(task[q])
<1>1. /\ task[r].kind = "batch" => \A s, t \in DOMAIN task[r].ids :
           task[r].ids[s] = task[r].ids[t] => s = t
      /\ \A q \in Request \ {r} : \A v \in Keys(task[r]) : v \notin Keys(task[q])
  BY FreshKeys
<1>2. QED
  BY <1>1, TaskFields DEF Keys

LEMMA RowFields ==
  ASSUME TypeOK, NEW v \in Variant, There(v)
  PROVE  /\ variant[v] \in Row
         /\ variant[v].product \in Product /\ variant[v].size \in Sizes
         /\ variant[v].price \in Price /\ variant[v].stock \in Nat
<1>1. variant[v] \in Row
  BY DEF TypeOK, There
<1>2. QED
  BY <1>1 DEF Row

LEMMA NoteFields ==
  ASSUME NEW m \in Notes
  PROVE  /\ m.rows \in SUBSET Variant /\ m.price \in Price \cup {Omitted}
         /\ m.size \in Sizes \cup {Omitted}
         /\ \A S \in SUBSET Variant : /\ [m EXCEPT !.rows = S] \in Notes
                                      /\ [m EXCEPT !.rows = S].rows = S
         /\ \A x \in Price : /\ [m EXCEPT !.price = x] \in Notes
                             /\ [m EXCEPT !.price = x].price = x
  BY DEF Notes

LEMMA NotesOf ==
  ASSUME Types, NEW r \in Request
  PROVE  memo[r] \in Notes
  BY DEF Types

\* r notes something; the others keep what they have.
LEMMA NotedEffect ==
  ASSUME Types, NEW r \in Request, NEW m \in Notes, memo' = [memo EXCEPT ![r] = m]
  PROVE  /\ memo' \in [Request -> Notes] /\ memo'[r] = m
         /\ \A q \in Request \ {r} : memo'[q] = memo[q]
  BY DEF Types

\* Sizes fit the variants S: all of them are of that mode.
LEMMA ModeAllowed ==
  ASSUME NEW S \in SUBSET Variant, NEW size, ModeAllows(S, size)
  PROVE  \A v \in S : SameMode(variant[v].size, size)
  BY DEF ModeAllows, SizesOf, SameMode

-----------------------------------------------------------------------------
(* Statements and locks *)

LEMMA OneRow ==
  ASSUME NEW x \in Lockable
  PROVE  <<x>> \in Seq(Lockable) /\ {<<x>>[i] : i \in DOMAIN <<x>>} = {x}
<1>1. DOMAIN <<x>> = {1} /\ <<x>>[1] = x
  OBVIOUS
<1>2. QED
  BY <1>1

LEMMA TwoRows ==
  ASSUME NEW x \in Lockable, NEW y \in Lockable
  PROVE  <<x, y>> \in Seq(Lockable) /\ {<<x, y>>[i] : i \in DOMAIN <<x, y>>} = {x, y}
<1>1. DOMAIN <<x, y>> = {1, 2} /\ <<x, y>>[1] = x /\ <<x, y>>[2] = y
  OBVIOUS
<1>2. QED
  BY <1>1

LEMMA OneRowMore ==
  ASSUME NEW rows \in Seq(Lockable), NEW x \in Lockable
  PROVE  /\ Append(rows, x) \in Seq(Lockable)
         /\ {Append(rows, x)[i] : i \in DOMAIN Append(rows, x)}
              = {rows[i] : i \in DOMAIN rows} \cup {x}
<1> DEFINE more == Append(rows, x)
<1>1. /\ more \in Seq(Lockable) /\ Len(rows) \in Nat
      /\ DOMAIN rows = 1..Len(rows) /\ DOMAIN more = 1..(Len(rows) + 1)
      /\ more[Len(rows) + 1] = x /\ \A i \in 1..Len(rows) : more[i] = rows[i]
  OBVIOUS
<1> HIDE DEF more
<1>2. ASSUME NEW i \in DOMAIN more
      PROVE  more[i] \in {rows[j] : j \in DOMAIN rows} \cup {x}
  <2>1. CASE i = Len(rows) + 1
    BY <1>1, <2>1
  <2>2. CASE i # Len(rows) + 1
    <3>1. i \in 1..Len(rows)
      BY <1>1, <2>2
    <3>2. QED
      BY <1>1, <3>1
  <2>3. QED
    BY <2>1, <2>2
<1>3. ASSUME NEW j \in DOMAIN rows
      PROVE  j \in DOMAIN more /\ more[j] = rows[j]
  BY <1>1
<1>4. Len(rows) + 1 \in DOMAIN more
  BY <1>1
<1>5. {more[i] : i \in DOMAIN more} = {rows[i] : i \in DOMAIN rows} \cup {x}
  BY <1>1, <1>2, <1>3, <1>4
<1>6. QED
  BY <1>1, <1>5 DEF more

LEMMA NoRows == << >> \in Seq(Lockable) /\ {<< >>[i] : i \in DOMAIN << >>} = {}
  OBVIOUS

\* The rows of finitely many variants, in any order.
LEMMA RowsOfVariants ==
  ASSUME NEW S \in SUBSET Variant, NEW rows \in Orders({VariantRow(v) : v \in S})
  PROVE  rows \in Seq(Lockable) /\ {rows[i] : i \in DOMAIN rows} = {VariantRow(v) : v \in S}
<1> DEFINE R == {VariantRow(v) : v \in S}
<1>1. IsFiniteSet(S)
  BY CatalogAssumption, FS_Subset
<1>2. R \in SUBSET Lockable
  BY RowsAreLockable
<1>3. Cardinality(R) \in Nat
  <2> DEFINE f == [v \in S |-> VariantRow(v)]
  <2>1. f \in [S -> R] /\ \A x \in R : \E y \in S : f[y] = x
    OBVIOUS
  <2> HIDE DEF f, R
  <2>2. f \in Surjection(S, R)
    BY <2>1 DEF Surjection
  <2>3. IsFiniteSet(R)
    BY <1>1, <2>2, FS_Surjection
  <2>4. QED
    BY <2>3, FS_CardinalityType
<1>4. rows \in Orders(R)
  OBVIOUS
<1> HIDE DEF R
<1>5. rows \in Seq(Lockable) /\ {rows[i] : i \in DOMAIN rows} = R
  BY <1>2, <1>3, <1>4, OrdersAreSequences
<1>6. QED
  BY <1>5 DEF R

\* r goes on from one point to another by a statement that locks the rows S.
Went(r, from, where, S) ==
  /\ pc[r] = from /\ pc'[r] = where
  /\ Reserved(r) = held[r] /\ held'[r] = held[r]
  /\ Reserved(r)' = held[r] \cup S

\* Everybody else, and his notes, are left alone.
Alone(r) == OthersRest(r) /\ \A q \in Request \ {r} : memo'[q] = memo[q]

LEMMA WentBy ==
  ASSUME Locks, NEW r \in Request, NEW from, NEW where, NEW rows \in Seq(Lockable),
         At(r, from), Goto(r, where, rows)
  PROVE  /\ Locks' /\ OthersRest(r)
         /\ Went(r, from, where, {rows[i] : i \in DOMAIN rows})
<1>1. /\ LocksInv(Lockable)' /\ OthersRest(r)
      /\ pc'[r] = where /\ plan'[r] = rows /\ held'[r] = held[r]
  BY GotoEffect DEF Locks
<1>2. pc[r] = from /\ Reserved(r) = held[r]
  BY AtHolds
<1>3. Reserved(r)' = held[r] \cup {rows[i] : i \in DOMAIN rows}
  BY <1>1 DEF Reserved
<1>4. QED
  BY <1>1, <1>2, <1>3 DEF Locks, OthersRest, Went

LEMMA WentNowhere ==
  ASSUME Locks, NEW r \in Request, NEW from, NEW where,
         At(r, from), Goto(r, where, << >>)
  PROVE  Locks' /\ OthersRest(r) /\ Went(r, from, where, {})
  BY NoRows, WentBy

LEMMA WentToOne ==
  ASSUME Locks, NEW r \in Request, NEW from, NEW where, NEW x \in Lockable,
         At(r, from), Goto(r, where, <<x>>)
  PROVE  Locks' /\ OthersRest(r) /\ Went(r, from, where, {x})
<1> DEFINE one == <<x>>
<1>1. one \in Seq(Lockable) /\ {one[i] : i \in DOMAIN one} = {x}
  BY OneRow
<1>2. Goto(r, where, one)
  OBVIOUS
<1> HIDE DEF one
<1>3. /\ Locks' /\ OthersRest(r)
      /\ Went(r, from, where, {one[i] : i \in DOMAIN one})
  BY <1>1, <1>2, WentBy
<1>4. QED
  BY <1>1, <1>3

LEMMA WentToTwo ==
  ASSUME Locks, NEW r \in Request, NEW from, NEW where,
         NEW x \in Lockable, NEW y \in Lockable,
         At(r, from), Goto(r, where, <<x, y>>)
  PROVE  Locks' /\ OthersRest(r) /\ Went(r, from, where, {x, y})
<1> DEFINE two == <<x, y>>
<1>1. two \in Seq(Lockable) /\ {two[i] : i \in DOMAIN two} = {x, y}
  BY TwoRows
<1>2. Goto(r, where, two)
  OBVIOUS
<1> HIDE DEF two
<1>3. /\ Locks' /\ OthersRest(r)
      /\ Went(r, from, where, {two[i] : i \in DOMAIN two})
  BY <1>1, <1>2, WentBy
<1>4. QED
  BY <1>1, <1>3

LEMMA EndedBy ==
  ASSUME Locks, NEW r \in Request, NEW outcome, Finish(r, outcome)
  PROVE  Locks' /\ OthersRest(r) /\ pc'[r] = outcome
<1>1. LocksInv(Lockable)' /\ OthersRest(r) /\ pc'[r] = outcome
  BY FinishEffect DEF Locks
<1>2. QED
  BY <1>1 DEF Locks, OthersRest
-----------------------------------------------------------------------------
(* What a step of one request leaves to the others *)

\* r changes no variant that it has not locked, adds none to a product, gives
\* none of a product another size, and deletes none that it has not locked.
Frame(r) ==
  /\ \A v \in Variant :
       There(v) /\ VariantRow(v) \notin held[r] => variant'[v] = variant[v]
  /\ \A v \in Variant : There(v) /\ There(v)' =>
       /\ variant'[v].product = variant[v].product
       /\ \/ variant'[v].size = variant[v].size
          \/ ProductRow(variant[v].product) \in held[r]
  /\ \A v \in Variant : ~ There(v) /\ There(v)' =>
       ProductRow(variant'[v].product) \in held[r]
  /\ \A p \in product : p \in product' \/ ProductRow(p) \in held[r]

\* A row is inserted under a key that its request was given, at its end; a
\* request that goes on without the lock of its variant has found it.
KeyFrame(r) ==
  /\ Ended(r) => Ended(r)'
  /\ \A v \in Variant : ~ There(v) /\ There(v)' =>
       v \in Keys(task[r]) /\ ~ Ended(r) /\ Ended(r)'
  /\ pc'[r] \in ReadPoints => pc[r] \in ReadPoints \/ There(task[r].variant)

\* What nobody has locked but q is the same for q after a step of r.
LEMMA OtherUnmoved ==
  ASSUME Locks, NEW r \in Request, NEW q \in Request \ {r}, Alone(r)
  PROVE  /\ task' = task /\ pc'[q] = pc[q] /\ held'[q] = held[q]
         /\ memo'[q] = memo[q] /\ Reserved(q)' = Reserved(q)
         /\ \A x \in held[q] : x \notin held[r]
<1>1. held[q] \cap held[r] = {}
  BY DEF Locks, LocksInv
<1>2. QED
  BY <1>1 DEF Alone, OthersRest, Reserved

\* A product that r has not locked gets no variant and no other size.
LEMMA ProductUnmoved ==
  ASSUME NEW r \in Request, Frame(r), NEW p, ProductRow(p) \notin held[r]
  PROVE  /\ \A v \in Variant : IsOf(v, p)' =>
              IsOf(v, p) /\ variant'[v].size = variant[v].size
         /\ p \in product => p \in product'
<1>1. p \in product => p \in product'
  BY DEF Frame
<1>2. ASSUME NEW v \in Variant, There(v)', variant'[v].product = p
      PROVE  IsOf(v, p) /\ variant'[v].size = variant[v].size
  <2>1. There(v)
    BY <1>2 DEF Frame
  <2>2. QED
    BY <1>2, <2>1 DEF Frame, IsOf
<1>3. QED
  BY <1>1, <1>2 DEF IsOf

LEMMA OtherCreate ==
  ASSUME IInv, NEW r \in Request, NEW q \in Request \ {r}, Alone(r), Frame(r)
  PROVE  CreateOf(q)'
<1> DEFINE p == task[q].product
<1>1. /\ task' = task /\ pc'[q] = pc[q] /\ held'[q] = held[q]
      /\ Reserved(q)' = Reserved(q) /\ \A x \in held[q] : x \notin held[r]
  BY OtherUnmoved DEF IInv
<1>2. CreateOf(q)
  BY DEF IInv, HoldsInv, HoldsOf
<1>3. pc[q] = "create" => ProductRow(p) \in Reserved(q)
  BY <1>2 DEF CreateOf
<1>4. ASSUME pc[q] = "adding"
      PROVE  /\ p \in product' /\ ProductRow(p) \in held[q]
             /\ \A v \in Variant : There(v)' /\ variant'[v].product = p =>
                  SameMode(variant'[v].size, task[q].size)
  <2>1. /\ p \in product /\ ProductRow(p) \in held[q]
        /\ \A v \in Variant : IsOf(v, p) => SameMode(variant[v].size, task[q].size)
    BY <1>2, <1>4 DEF CreateOf
  <2> HIDE DEF p
  <2>2. PICK x : x = p
    OBVIOUS
  <2>3. /\ \A v \in Variant : IsOf(v, x)' =>
             IsOf(v, x) /\ variant'[v].size = variant[v].size
        /\ x \in product'
    BY <1>1, <2>1, <2>2, ProductUnmoved
  <2>4. QED
    BY <2>1, <2>2, <2>3 DEF IsOf
<1>5. QED
  BY <1>1, <1>3, <1>4 DEF CreateOf, IsOf, ProductRow, SameMode

LEMMA OtherPatch ==
  ASSUME IInv, NEW r \in Request, NEW q \in Request \ {r}, Alone(r), Frame(r), KeyFrame(r)
  PROVE  PatchOf(q)'
<1>0. PICK w : w = task[q].variant
  OBVIOUS
<1>1. /\ task' = task /\ pc'[q] = pc[q] /\ held'[q] = held[q] /\ memo'[q] = memo[q]
      /\ Reserved(q)' = Reserved(q) /\ \A x \in held[q] : x \notin held[r]
  BY OtherUnmoved DEF IInv
<1>2. PatchOf(q) /\ PointOf(q)
  BY DEF IInv, HoldsInv, HoldsOf
<1>3. pc[q] \in {"patch", "saving"} => w \in Variant
  BY <1>0, <1>2, TaskFields DEF IInv, Locks, PointOf
<1>4. pc[q] \in {"patch", "saving"} =>
        /\ VariantRow(w) \in Reserved(q)
        /\ memo[q].size \in Sizes /\ memo[q].price \in Price
        /\ task[q].price # Omitted => memo[q].price = task[q].price
  BY <1>0, <1>2 DEF PatchOf
<1>5. ASSUME pc[q] = "patch", There(w)'
      PROVE  ProductRow(variant'[w].product) \in Reserved(q)
  <2>1. There(w)
    <3>1. ~ There(w) => w \in Keys(task[r]) /\ ~ Ended(r)
      BY <1>3, <1>5 DEF KeyFrame
    <3>2. w \in Keys(task[r]) /\ ~ Ended(r) => FALSE
      BY <1>0, <1>5 DEF IInv, KeyInv, ReadPoints
    <3>3. QED
      BY <3>1, <3>2
  <2>2. variant'[w].product = variant[w].product
    BY <1>3, <1>5, <2>1 DEF Frame
  <2>3. QED
    BY <1>0, <1>2, <1>5, <2>1, <2>2 DEF PatchOf
<1>6. ASSUME pc[q] = "saving"
      PROVE  /\ There(w)' /\ VariantRow(w) \in held[q]
             /\ ProductRow(variant'[w].product) \in held[q]
             /\ \A v \in Variant : v # w /\ There(v)'
                    /\ variant'[v].product = variant'[w].product
                  => SameMode(variant'[v].size, memo[q].size)
  <2>1. /\ There(w) /\ VariantRow(w) \in held[q]
        /\ ProductRow(variant[w].product) \in held[q]
        /\ \A v \in Variant : v # w /\ IsOf(v, variant[w].product)
             => SameMode(variant[v].size, memo[q].size)
    BY <1>0, <1>2, <1>6 DEF PatchOf
  <2>2. variant'[w] = variant[w]
    BY <1>1, <1>3, <1>6, <2>1 DEF Frame
  <2>3. PICK p : p = variant[w].product
    OBVIOUS
  <2>4. \A v \in Variant : IsOf(v, p)' =>
             IsOf(v, p) /\ variant'[v].size = variant[v].size
    BY <1>1, <2>1, <2>3, ProductUnmoved
  <2>5. \A v \in Variant : There(v)' /\ variant'[v].product = p =>
             IsOf(v, p) /\ variant'[v].size = variant[v].size
    BY <2>4 DEF IsOf
  <2>6. There(w)'
    BY <2>1, <2>2 DEF There
  <2>7. QED
    BY <2>1, <2>2, <2>3, <2>5, <2>6
<1>7. QED
  BY <1>0, <1>1, <1>4, <1>5, <1>6 DEF PatchOf, IsOf, There, ProductRow, VariantRow, SameMode

LEMMA OtherBatch ==
  ASSUME IInv, NEW r \in Request, NEW q \in Request \ {r}, Alone(r), Frame(r)
  PROVE  BatchOf(q)'
<1> DEFINE p == task[q].product
           ids == task[q].ids
<1>1. /\ task' = task /\ pc'[q] = pc[q] /\ held'[q] = held[q] /\ memo'[q] = memo[q]
      /\ Reserved(q)' = Reserved(q) /\ \A x \in held[q] : x \notin held[r]
  BY OtherUnmoved DEF IInv
<1>2. BatchOf(q)
  BY DEF IInv, HoldsInv, HoldsOf
<1>3. pc[q] = "batch" => ProductRow(p) \in Reserved(q)
  BY <1>2 DEF BatchOf
<1>4. memo[q].rows \in SUBSET Variant
  BY NotesOf, NoteFields DEF IInv
<1>5. ASSUME pc[q] \in {"checking", "filling"}
      PROVE  /\ p \in product' /\ ProductRow(p) \in held[q]
             /\ \A v \in Variant : There(v)' /\ variant'[v].product = p =>
                  IsOf(v, p) /\ VariantRow(v) \in Reserved(q)
  <2>1. /\ p \in product /\ ProductRow(p) \in held[q]
        /\ \A v \in Variant : IsOf(v, p) => VariantRow(v) \in Reserved(q)
    BY <1>2, <1>5 DEF BatchOf
  <2> HIDE DEF p
  <2>2. PICK x : x = p
    OBVIOUS
  <2>3. /\ \A v \in Variant : IsOf(v, x)' => IsOf(v, x)
        /\ x \in product'
    BY <1>1, <2>1, <2>2, ProductUnmoved
  <2>4. QED
    BY <2>1, <2>2, <2>3 DEF IsOf
<1>6. ASSUME pc[q] = "filling"
      PROVE  /\ \A v \in memo[q].rows :
                  IsOf(v, p) /\ variant'[v] = variant[v] /\ VariantRow(v) \in held[q]
             /\ \A v \in Variant : v \in memo[q].rows <=> There(v)' /\ variant'[v].product = p
  <2>1. /\ \A v \in Variant : v \in memo[q].rows <=> IsOf(v, p)
        /\ \A v \in memo[q].rows : VariantRow(v) \in held[q]
    BY <1>2, <1>6 DEF BatchOf
  <2>2. \A v \in memo[q].rows :
          IsOf(v, p) /\ variant'[v] = variant[v] /\ VariantRow(v) \in held[q]
    BY <1>1, <1>4, <2>1 DEF Frame, IsOf
  <2>3. \A v \in memo[q].rows : There(v)' /\ variant'[v].product = p
    BY <2>2 DEF IsOf, There
  <2>4. \A v \in Variant : There(v)' /\ variant'[v].product = p => v \in memo[q].rows
    BY <1>5, <1>6, <2>1
  <2>5. QED
    BY <1>4, <2>2, <2>3, <2>4
<1>7. pc[q] = "filling" =>
        /\ \A s, t \in DOMAIN ids : SameMode(s, t)
        /\ \A s \in DOMAIN ids : \A v \in memo[q].rows : SameMode(variant'[v].size, s)
        /\ task[q].price = Omitted =>
             \A s \in DOMAIN ids : \E v \in memo[q].rows : variant'[v].size = s
  BY <1>2, <1>6 DEF BatchOf
<1>8. QED
  BY <1>1, <1>3, <1>5, <1>6, <1>7 DEF BatchOf, IsOf, ProductRow, VariantRow, SameMode

LEMMA OthersHold ==
  ASSUME IInv, NEW r \in Request, NEW q \in Request \ {r}, Alone(r), Frame(r), KeyFrame(r)
  PROVE  HoldsOf(q)'
<1>1. /\ task' = task /\ pc'[q] = pc[q] /\ memo'[q] = memo[q] /\ Reserved(q)' = Reserved(q)
  BY OtherUnmoved DEF IInv
<1>2. PointOf(q) /\ DropOf(q) /\ LineOf(q)
  BY DEF IInv, HoldsInv, HoldsOf
<1>3. PointOf(q)'
  BY <1>1, <1>2 DEF PointOf
<1>4. DropOf(q)'
  BY <1>1, <1>2 DEF DropOf, VariantRow, ProductRow
<1>5. LineOf(q)'
  BY <1>1, <1>2 DEF LineOf
<1>6. QED
  BY <1>3, <1>4, <1>5, OtherCreate, OtherPatch, OtherBatch DEF HoldsOf

LEMMA KeysStep ==
  ASSUME Locks, KeyInv, NEW r \in Request, Alone(r), KeyFrame(r)
  PROVE  KeyInv'
<1>1. task' = task /\ \A q \in Request \ {r} : pc'[q] = pc[q]
  BY DEF Alone, OthersRest
<1> SUFFICES ASSUME NEW q \in Request, ~ Ended(q)', NEW v \in Keys(task[q])
             PROVE  /\ ~ There(v)'
                    /\ \A p \in Request : pc'[p] \in ReadPoints => task[p].variant # v
  BY <1>1 DEF KeyInv, Keys
<1>2. ~ Ended(q) /\ (q = r => ~ Ended(r)')
  <2>1. CASE q = r
    BY <2>1 DEF KeyFrame
  <2>2. CASE q # r
    BY <1>1, <2>2 DEF Ended
  <2>3. QED
    BY <2>1, <2>2
<1>3. v \in Variant /\ ~ There(v)
      /\ \A p \in Request : pc[p] \in ReadPoints => task[p].variant # v
  BY <1>2, KeyOf DEF KeyInv, Locks
<1>4. ~ There(v)'
  <2>1. There(v)' => v \in Keys(task[r]) /\ Ended(r)'
    BY <1>3 DEF KeyFrame
  <2>2. q # r => v \notin Keys(task[r])
    BY KeyOf DEF Locks
  <2>3. QED
    BY <1>2, <2>1, <2>2
<1>5. ASSUME NEW p \in Request, pc'[p] \in ReadPoints
      PROVE  task[p].variant # v
  <2>1. CASE p = r
    BY <1>3, <1>5, <2>1 DEF KeyFrame
  <2>2. CASE p # r
    BY <1>1, <1>3, <1>5, <2>2
  <2>3. QED
    BY <2>1, <2>2
<1>6. QED
  BY <1>4, <1>5

LEMMA StepHolds ==
  ASSUME IInv, NEW r \in Request, Alone(r), Frame(r), KeyFrame(r),
         Locks', Types', HoldsOf(r)'
  PROVE  IInv'
<1>1. HoldsInv'
  BY OthersHold DEF HoldsInv
<1>2. KeyInv'
  BY KeysStep DEF IInv
<1>3. QED
  BY <1>1, <1>2 DEF IInv

\* A step that changes no row.
LEMMA QuietStep ==
  ASSUME IInv, NEW r \in Request, OthersRest(r), UNCHANGED <<product, variant, line>>,
         memo' \in [Request -> Notes], \A q \in Request \ {r} : memo'[q] = memo[q],
         Ended(r) => Ended(r)', Locks', HoldsOf(r)',
         pc'[r] \in ReadPoints => pc[r] \in ReadPoints \/ There(task[r].variant)
  PROVE  IInv'
<1>1. Frame(r) /\ KeyFrame(r)
  BY DEF Frame, KeyFrame, There
<1>2. Types'
  <2>1. \A q \in Request : memo'[q].rows \subseteq Variant
    BY NoteFields
  <2>2. QED
    BY <2>1 DEF IInv, Types, TypeOK
<1>3. QED
  BY <1>1, <1>2, StepHolds DEF Alone

\* Whoever has ended holds nothing, and has nothing to show.
LEMMA EndedHolds ==
  ASSUME NEW r \in Request, pc'[r] \in {"done", "failed"}
  PROVE  HoldsOf(r)' /\ Ended(r)' /\ pc'[r] \notin ReadPoints
<1>1. /\ pc'[r] \notin BatchPoints /\ pc'[r] \notin LinePoints /\ pc'[r] \notin ReadPoints
      /\ pc'[r] \notin {"create", "adding", "patch", "saving", "reprice", "drop"}
                         \cup {"batch", "checking", "filling"}
  BY DEF BatchPoints, LinePoints, ReadPoints
<1>2. PointOf(r)' /\ CreateOf(r)' /\ PatchOf(r)' /\ BatchOf(r)' /\ DropOf(r)' /\ LineOf(r)'
  BY <1>1 DEF PointOf, CreateOf, PatchOf, BatchOf, DropOf, LineOf
<1>3. QED
  BY <1>1, <1>2 DEF HoldsOf, Ended

LEMMA RefusedStep ==
  ASSUME IInv, NEW r \in Request, NEW outcome \in {"done", "failed"},
         Finish(r, outcome), UNCHANGED <<product, variant, line>>,
         memo' = memo \/ \E m \in Notes : memo' = [memo EXCEPT ![r] = m]
  PROVE  IInv'
<1>1. Locks' /\ OthersRest(r) /\ pc'[r] = outcome
  BY EndedBy DEF IInv
<1>2. HoldsOf(r)' /\ Ended(r)' /\ pc'[r] \notin ReadPoints
  BY <1>1, EndedHolds
<1>3. memo' \in [Request -> Notes] /\ \A q \in Request \ {r} : memo'[q] = memo[q]
  BY NotedEffect DEF IInv, Types
<1>4. QED
  BY <1>1, <1>2, <1>3, QuietStep

\* A step that goes on and changes no row.
LEMMA ReadingStep ==
  ASSUME IInv, NEW r \in Request, OthersRest(r), UNCHANGED <<product, variant, line>>,
         memo' = memo \/ (\E m \in Notes : memo' = [memo EXCEPT ![r] = m]),
         ~ Ended(r), Locks', HoldsOf(r)',
         pc'[r] \in ReadPoints => pc[r] \in ReadPoints \/ There(task[r].variant)
  PROVE  IInv'
<1>1. memo' \in [Request -> Notes] /\ \A q \in Request \ {r} : memo'[q] = memo[q]
  BY NotedEffect DEF IInv, Types
<1>2. QED
  BY <1>1, QuietStep
-----------------------------------------------------------------------------
(* The points of each kind of request *)

LEMMA CreateHolds ==
  ASSUME NEW r \in Request, task'[r].kind = "create", pc'[r] \in {"create", "adding"},
         CreateOf(r)'
  PROVE  HoldsOf(r)'
<1>1. /\ pc'[r] \notin BatchPoints /\ pc'[r] \notin LinePoints
      /\ pc'[r] \notin {"patch", "saving", "reprice", "drop", "batch", "checking", "filling"}
  BY DEF BatchPoints, LinePoints
<1>2. PointOf(r)' /\ PatchOf(r)' /\ BatchOf(r)' /\ DropOf(r)' /\ LineOf(r)'
  BY <1>1 DEF PointOf, PatchOf, BatchOf, DropOf, LineOf
<1>3. QED
  BY <1>2 DEF HoldsOf

LEMMA PatchHolds ==
  ASSUME NEW r \in Request, task'[r].kind = "patch", pc'[r] \in {"patch", "saving"},
         PatchOf(r)'
  PROVE  HoldsOf(r)'
<1>1. /\ pc'[r] \notin BatchPoints /\ pc'[r] \notin LinePoints
      /\ pc'[r] \notin {"create", "adding", "reprice", "drop", "batch", "checking", "filling"}
  BY DEF BatchPoints, LinePoints
<1>2. PointOf(r)' /\ CreateOf(r)' /\ BatchOf(r)' /\ DropOf(r)' /\ LineOf(r)'
  BY <1>1 DEF PointOf, CreateOf, BatchOf, DropOf, LineOf
<1>3. QED
  BY <1>2 DEF HoldsOf

LEMMA BatchHolds ==
  ASSUME NEW r \in Request, task'[r].kind = "batch", pc'[r] \in BatchPoints, BatchOf(r)'
  PROVE  HoldsOf(r)'
<1>1. /\ pc'[r] \notin LinePoints
      /\ pc'[r] \notin {"create", "adding", "patch", "saving", "reprice", "drop"}
  BY DEF BatchPoints, LinePoints
<1>2. PointOf(r)' /\ CreateOf(r)' /\ PatchOf(r)' /\ DropOf(r)' /\ LineOf(r)'
  BY <1>1 DEF PointOf, CreateOf, PatchOf, DropOf, LineOf
<1>3. QED
  BY <1>2 DEF HoldsOf

LEMMA DropHolds ==
  ASSUME NEW r \in Request, task'[r].kind \in {"drop", "dropProduct"}, pc'[r] = "drop",
         DropOf(r)'
  PROVE  HoldsOf(r)'
<1>1. PointOf(r)' /\ CreateOf(r)' /\ PatchOf(r)' /\ BatchOf(r)' /\ LineOf(r)'
  BY DEF PointOf, CreateOf, PatchOf, BatchOf, LineOf, BatchPoints, LinePoints
<1>2. QED
  BY <1>1 DEF HoldsOf

LEMMA RepriceHolds ==
  ASSUME NEW r \in Request, task'[r].kind = "reprice", pc'[r] = "reprice"
  PROVE  HoldsOf(r)'
<1>1. PointOf(r)' /\ CreateOf(r)' /\ PatchOf(r)' /\ BatchOf(r)' /\ DropOf(r)' /\ LineOf(r)'
  BY DEF PointOf, CreateOf, PatchOf, BatchOf, DropOf, LineOf, BatchPoints, LinePoints
<1>2. QED
  BY <1>1 DEF HoldsOf

LEMMA LineHolds ==
  ASSUME NEW r \in Request, task'[r].kind = "line", pc'[r] \in LinePoints,
         memo'[r].price \in Price
  PROVE  HoldsOf(r)'
<1>1. /\ pc'[r] \notin BatchPoints
      /\ pc'[r] \notin {"create", "adding", "patch", "saving", "reprice", "drop"}
                         \cup {"batch", "checking", "filling"}
  BY DEF BatchPoints, LinePoints
<1>2. PointOf(r)' /\ CreateOf(r)' /\ PatchOf(r)' /\ BatchOf(r)' /\ DropOf(r)' /\ LineOf(r)'
  BY <1>1 DEF PointOf, CreateOf, PatchOf, BatchOf, DropOf, LineOf
<1>3. QED
  BY <1>2 DEF HoldsOf

-----------------------------------------------------------------------------
(* The steps that change no row *)

LEMMA AcquireHolds ==
  ASSUME IInv, NEW r \in Request, Acquire(r), UNCHANGED <<tables, memo, history>>
  PROVE  IInv'
<1>1. Locks' /\ OthersRest(r)
  BY AcquireEffect DEF IInv, Locks, OthersRest
<1>2. /\ pc'[r] = pc[r] /\ held[r] \subseteq held'[r] /\ Reserved(r)' = Reserved(r)
      /\ task' = task
  BY AcquireEffect DEF IInv, Locks, OthersRest
<1>3. UNCHANGED <<product, variant, line, memo>>
  BY DEF tables
<1>4. PointOf(r) /\ CreateOf(r) /\ PatchOf(r) /\ BatchOf(r) /\ DropOf(r) /\ LineOf(r)
  BY DEF IInv, HoldsInv, HoldsOf
<1>5. PointOf(r)' /\ LineOf(r)'
  BY <1>2, <1>3, <1>4 DEF PointOf, LineOf
<1>6. CreateOf(r)'
  BY <1>2, <1>3, <1>4 DEF CreateOf, IsOf, There, ProductRow, SameMode
<1>7. PatchOf(r)'
  BY <1>2, <1>3, <1>4 DEF PatchOf, IsOf, There, ProductRow, VariantRow, SameMode
<1>8. BatchOf(r)'
  BY <1>2, <1>3, <1>4 DEF BatchOf, IsOf, There, ProductRow, VariantRow, SameMode
<1>9. DropOf(r)'
  BY <1>2, <1>3, <1>4 DEF DropOf, ProductRow, VariantRow
<1>10. HoldsOf(r)'
  BY <1>5, <1>6, <1>7, <1>8, <1>9 DEF HoldsOf
<1>11. memo' \in [Request -> Notes] /\ \A q \in Request \ {r} : memo'[q] = memo[q]
  BY <1>3 DEF IInv, Types
<1>12. Ended(r) => Ended(r)'
  BY <1>2 DEF Ended
<1>13. QED
  BY <1>1, <1>2, <1>3, <1>10, <1>11, <1>12, QuietStep

LEMMA RollbackHolds ==
  ASSUME IInv, NEW r \in Request, Rollback(r)
  PROVE  IInv'
<1>1. Finish(r, "failed") /\ UNCHANGED <<product, variant, line, memo>>
  BY DEF Rollback, Crash, ResolveDeadlock, tables
<1>2. QED
  BY <1>1, RefusedStep

\* The product of a request is locked from its first statement on.
LEMMA BeginCreateHolds ==
  ASSUME IInv, NEW r \in Request, BeginCreate(r)
  PROVE  IInv'
<1> DEFINE x == ProductRow(task[r].product)
<1>1. /\ At(r, "idle") /\ task[r].kind = "create"
      /\ UNCHANGED <<product, variant, line, memo>>
      /\ Goto(r, "create", <<x>>) \/ Finish(r, "failed")
  BY DEF BeginCreate, GotoIf, tables
<1>2. x \in Lockable
  BY <1>1, TaskFields, RowsAreLockable DEF IInv, Locks
<1> HIDE DEF x
<1>3. CASE Goto(r, "create", <<x>>)
  <2>1. Locks' /\ OthersRest(r) /\ Went(r, "idle", "create", {x})
    BY <1>1, <1>2, <1>3, WentToOne DEF IInv
  <2>2. pc[r] = "idle" /\ pc'[r] = "create" /\ x \in Reserved(r)' /\ task' = task
    BY <2>1 DEF Went, OthersRest
  <2>3. CreateOf(r)'
    BY <2>2 DEF CreateOf, ProductRow, x
  <2>4. HoldsOf(r)'
    BY <1>1, <2>2, <2>3, CreateHolds
  <2>5. ~ Ended(r) /\ pc'[r] \notin ReadPoints
    BY <2>2 DEF Ended, ReadPoints, LinePoints
  <2>6. QED
    BY <1>1, <2>1, <2>4, <2>5, ReadingStep
<1>4. CASE Finish(r, "failed")
  BY <1>1, <1>4, RefusedStep
<1>5. QED
  BY <1>1, <1>3, <1>4

LEMMA CheckModeHolds ==
  ASSUME IInv, NEW r \in Request, CheckMode(r)
  PROVE  IInv'
<1> DEFINE p == task[r].product
           ok == p \in product /\ ModeAllows(VariantsOf(p), task[r].size)
<1>1. /\ At(r, "create") /\ UNCHANGED <<product, variant, line, memo>>
      /\ (ok /\ Goto(r, "adding", << >>)) \/ Finish(r, "failed")
  BY DEF CheckMode, GotoIf, tables
<1>2. pc[r] = "create" /\ Reserved(r) = held[r]
  BY <1>1, AtHolds
<1>3. task[r].kind = "create" /\ ProductRow(p) \in held[r]
  BY <1>2 DEF IInv, HoldsInv, HoldsOf, PointOf, CreateOf
<1>4. CASE ok /\ Goto(r, "adding", << >>)
  <2>1. Locks' /\ OthersRest(r) /\ Went(r, "create", "adding", {})
    BY <1>1, <1>4, WentNowhere DEF IInv
  <2>2. pc'[r] = "adding" /\ task' = task /\ held'[r] = held[r]
    BY <2>1 DEF Went, OthersRest
  <2>3. \A v \in Variant : variant[v] # NoRow /\ variant[v].product = p =>
          SameMode(variant[v].size, task[r].size)
    <3>1. VariantsOf(p) \in SUBSET Variant
      BY DEF VariantsOf
    <3>2. \A v \in VariantsOf(p) : SameMode(variant[v].size, task[r].size)
      BY <1>4, <3>1, ModeAllowed
    <3>3. QED
      BY <3>2 DEF VariantsOf
  <2>4. CreateOf(r)'
    BY <1>1, <1>3, <1>4, <2>2, <2>3 DEF CreateOf, ProductRow, IsOf, There, SameMode
  <2>5. HoldsOf(r)'
    BY <1>3, <2>2, <2>4, CreateHolds
  <2>6. ~ Ended(r) /\ pc'[r] \notin ReadPoints
    BY <1>2, <2>2 DEF Ended, ReadPoints, LinePoints
  <2>7. QED
    BY <1>1, <2>1, <2>5, <2>6, ReadingStep
<1>5. CASE Finish(r, "failed")
  BY <1>1, <1>5, RefusedStep
<1>6. QED
  BY <1>1, <1>4, <1>5

LEMMA FilledNotes ==
  ASSUME TypeOK, task \in Traffic, NEW r \in Request, task[r].kind = "patch",
         There(task[r].variant)
  PROVE  LET m == Filled(task[r], variant[task[r].variant]) IN
         /\ m \in Notes /\ m.size \in Sizes /\ m.price \in Price
         /\ task[r].price # Omitted => m.price = task[r].price
<1>1. /\ variant[task[r].variant].size \in Sizes /\ variant[task[r].variant].price \in Price
      /\ task[r].size \in Sizes \cup {Omitted} /\ task[r].price \in Price \cup {Omitted}
  BY TaskFields, RowFields
<1>2. QED
  BY <1>1 DEF Filled, Notes

LEMMA LoadVariantHolds ==
  ASSUME IInv, NEW r \in Request, LoadVariant(r)
  PROVE  IInv'
<1> DEFINE w == task[r].variant
           m == Filled(task[r], variant[w])
           x == ProductRow(variant[w].product)
           y == VariantRow(w)
<1>1. /\ At(r, "idle") /\ task[r].kind = "patch" /\ UNCHANGED <<product, variant, line>>
      /\ \/ Finish(r, "failed") /\ memo' = memo
         \/ /\ There(w) /\ memo' = [memo EXCEPT ![r] = m]
            /\ Goto(r, "patch", <<x, y>>)
  BY DEF LoadVariant, tables, There
<1>2. w \in Variant
  BY <1>1, TaskFields DEF IInv, Locks
<1>3. CASE /\ There(w) /\ memo' = [memo EXCEPT ![r] = m]
           /\ Goto(r, "patch", <<x, y>>)
  <2>1. x \in Lockable /\ y \in Lockable
    BY <1>2, <1>3, RowFields, RowsAreLockable DEF IInv, Types
  <2>2. /\ m \in Notes /\ m.size \in Sizes /\ m.price \in Price
        /\ task[r].price # Omitted => m.price = task[r].price
    BY <1>1, <1>3, FilledNotes DEF IInv, Locks, Types
  <2> HIDE DEF m, x, y
  <2>3. Locks' /\ OthersRest(r) /\ Went(r, "idle", "patch", {x, y})
    BY <1>1, <1>3, <2>1, WentToTwo DEF IInv
  <2>4. memo'[r] = m
    BY <1>3, <2>2, NotedEffect DEF IInv
  <2>5. /\ pc[r] = "idle" /\ pc'[r] = "patch" /\ x \in Reserved(r)' /\ y \in Reserved(r)'
        /\ task' = task
    BY <2>3 DEF Went, OthersRest
  <2>6. PatchOf(r)'
    BY <1>1, <2>2, <2>4, <2>5 DEF PatchOf, ProductRow, VariantRow, x, y
  <2>7. HoldsOf(r)'
    BY <1>1, <2>5, <2>6, PatchHolds
  <2>8. ~ Ended(r)
    BY <2>5 DEF Ended
  <2>9. QED
    BY <1>1, <1>3, <2>2, <2>3, <2>7, <2>8, ReadingStep
<1>4. CASE Finish(r, "failed") /\ memo' = memo
  BY <1>1, <1>4, RefusedStep
<1>5. QED
  BY <1>1, <1>3, <1>4

LEMMA CheckPatchHolds ==
  ASSUME IInv, NEW r \in Request, CheckPatch(r)
  PROVE  IInv'
<1>1. PICK w : w = task[r].variant
  OBVIOUS
<1> DEFINE S == VariantsOf(variant[w].product) \ {w}
           ok == There(w) /\ ModeAllows(S, memo[r].size)
<1>2. /\ At(r, "patch") /\ UNCHANGED <<product, variant, line, memo>>
      /\ (ok /\ Goto(r, "saving", << >>)) \/ Finish(r, "failed")
  BY <1>1 DEF CheckPatch, GotoIf, tables, There
<1>3. pc[r] = "patch" /\ Reserved(r) = held[r]
  BY <1>2, AtHolds
<1>4. /\ task[r].kind = "patch" /\ VariantRow(w) \in held[r]
      /\ memo[r].size \in Sizes /\ memo[r].price \in Price
      /\ task[r].price # Omitted => memo[r].price = task[r].price
      /\ There(w) => ProductRow(variant[w].product) \in held[r]
  BY <1>1, <1>3 DEF IInv, HoldsInv, HoldsOf, PointOf, PatchOf
<1>5. CASE ok /\ Goto(r, "saving", << >>)
  <2>1. Locks' /\ OthersRest(r) /\ Went(r, "patch", "saving", {})
    BY <1>2, <1>5, WentNowhere DEF IInv
  <2>2. pc'[r] = "saving" /\ task' = task /\ held'[r] = held[r] /\ held[r] \subseteq Reserved(r)'
    BY <2>1 DEF Went, OthersRest
  <2>3. \A v \in Variant :
          v # w /\ variant[v] # NoRow /\ variant[v].product = variant[w].product =>
            SameMode(variant[v].size, memo[r].size)
    <3>1. S \in SUBSET Variant
      BY DEF VariantsOf
    <3>2. \A v \in S : SameMode(variant[v].size, memo[r].size)
      BY <1>5, <3>1, ModeAllowed
    <3>3. QED
      BY <3>2 DEF VariantsOf
  <2>4. PatchOf(r)'
    BY <1>1, <1>2, <1>4, <1>5, <2>2, <2>3
       DEF PatchOf, ProductRow, VariantRow, IsOf, There, SameMode
  <2>5. HoldsOf(r)'
    BY <1>4, <2>2, <2>4, PatchHolds
  <2>6. ~ Ended(r) /\ pc'[r] \notin ReadPoints
    BY <1>3, <2>2 DEF Ended, ReadPoints, LinePoints
  <2>7. QED
    BY <1>2, <2>1, <2>5, <2>6, ReadingStep
<1>6. CASE Finish(r, "failed")
  BY <1>2, <1>6, RefusedStep
<1>7. QED
  BY <1>2, <1>5, <1>6
LEMMA VariantsThere ==
  ASSUME NEW p
  PROVE  /\ VariantsOf(p) \in SUBSET Variant
         /\ \A v \in Variant : v \in VariantsOf(p) <=> IsOf(v, p)
  BY DEF VariantsOf, IsOf, There

LEMMA BeginRepriceHolds ==
  ASSUME IInv, NEW r \in Request, BeginReprice(r)
  PROVE  IInv'
<1> DEFINE S == VariantsOf(task[r].product)
<1>1. /\ At(r, "idle") /\ task[r].kind = "reprice"
      /\ UNCHANGED <<product, variant, line, memo>>
      /\ \/ Finish(r, "failed")
         \/ \E rows \in Orders({VariantRow(v) : v \in S}) : Goto(r, "reprice", rows)
  BY DEF BeginReprice, RowsOf, tables
<1>2. ASSUME NEW rows \in Orders({VariantRow(v) : v \in S}), Goto(r, "reprice", rows)
      PROVE  IInv'
  <2>1. rows \in Seq(Lockable)
    BY RowsOfVariants, VariantsThere
  <2>2. Locks' /\ OthersRest(r) /\ pc[r] = "idle" /\ pc'[r] = "reprice"
    BY <1>1, <1>2, <2>1, WentBy DEF IInv, Went
  <2>3. HoldsOf(r)'
    BY <1>1, <2>2, RepriceHolds DEF OthersRest
  <2>4. ~ Ended(r) /\ pc'[r] \notin ReadPoints
    BY <2>2 DEF Ended, ReadPoints, LinePoints
  <2>5. QED
    BY <1>1, <2>2, <2>3, <2>4, ReadingStep
<1>3. CASE Finish(r, "failed")
  BY <1>1, <1>3, RefusedStep
<1>4. QED
  BY <1>1, <1>2, <1>3

LEMMA BeginBatchHolds ==
  ASSUME IInv, NEW r \in Request, BeginBatch(r)
  PROVE  IInv'
<1> DEFINE x == ProductRow(task[r].product)
<1>1. /\ At(r, "idle") /\ task[r].kind = "batch"
      /\ UNCHANGED <<product, variant, line, memo>>
      /\ Goto(r, "batch", <<x>>) \/ Finish(r, "failed")
  BY DEF BeginBatch, GotoIf, tables
<1>2. x \in Lockable
  BY <1>1, TaskFields, RowsAreLockable DEF IInv, Locks
<1> HIDE DEF x
<1>3. CASE Goto(r, "batch", <<x>>)
  <2>1. Locks' /\ OthersRest(r) /\ Went(r, "idle", "batch", {x})
    BY <1>1, <1>2, <1>3, WentToOne DEF IInv
  <2>2. pc[r] = "idle" /\ pc'[r] = "batch" /\ x \in Reserved(r)' /\ task' = task
    BY <2>1 DEF Went, OthersRest
  <2>3. BatchOf(r)'
    BY <2>2 DEF BatchOf, ProductRow, x
  <2>4. HoldsOf(r)'
    BY <1>1, <2>2, <2>3, BatchHolds DEF BatchPoints
  <2>5. ~ Ended(r) /\ pc'[r] \notin ReadPoints
    BY <2>2 DEF Ended, ReadPoints, LinePoints
  <2>6. QED
    BY <1>1, <2>1, <2>4, <2>5, ReadingStep
<1>4. CASE Finish(r, "failed")
  BY <1>1, <1>4, RefusedStep
<1>5. QED
  BY <1>1, <1>3, <1>4

\* With its product locked, a batch comes to lock all variants that it has.
LEMMA LockVariantsHolds ==
  ASSUME IInv, NEW r \in Request, LockVariants(r)
  PROVE  IInv'
<1>1. PICK p : p = task[r].product
  OBVIOUS
<1> DEFINE S == VariantsOf(p)
<1>2. /\ At(r, "batch") /\ UNCHANGED <<product, variant, line, memo>>
      /\ \/ Finish(r, "failed")
         \/ /\ p \in product
            /\ \E rows \in Orders({VariantRow(v) : v \in S}) : Goto(r, "checking", rows)
  BY <1>1 DEF LockVariants, RowsOf, tables
<1>3. pc[r] = "batch" /\ Reserved(r) = held[r]
  BY <1>2, AtHolds
<1>4. task[r].kind = "batch" /\ ProductRow(p) \in held[r]
  BY <1>1, <1>3 DEF IInv, HoldsInv, HoldsOf, PointOf, BatchOf, BatchPoints
<1>5. ASSUME p \in product, NEW rows \in Orders({VariantRow(v) : v \in S}),
             Goto(r, "checking", rows)
      PROVE  IInv'
  <2>1. /\ rows \in Seq(Lockable)
        /\ {rows[i] : i \in DOMAIN rows} = {VariantRow(v) : v \in S}
    BY RowsOfVariants, VariantsThere
  <2>2. /\ Locks' /\ OthersRest(r)
        /\ Went(r, "batch", "checking", {rows[i] : i \in DOMAIN rows})
    BY <1>2, <1>5, <2>1, WentBy DEF IInv
  <2>3. /\ pc'[r] = "checking" /\ held'[r] = held[r] /\ task' = task
        /\ \A v \in S : VariantRow(v) \in Reserved(r)'
    BY <2>1, <2>2 DEF Went, OthersRest
  <2>4. \A v \in Variant : variant[v] # NoRow /\ variant[v].product = p =>
          VariantRow(v) \in Reserved(r)'
    BY <2>3, VariantsThere DEF IsOf, There
  <2>5. BatchOf(r)'
    BY <1>1, <1>2, <1>4, <1>5, <2>3, <2>4 DEF BatchOf, IsOf, There, ProductRow, VariantRow
  <2>6. HoldsOf(r)'
    BY <1>4, <2>3, <2>5, BatchHolds DEF BatchPoints
  <2>7. ~ Ended(r) /\ pc'[r] \notin ReadPoints
    BY <1>3, <2>3 DEF Ended, ReadPoints, LinePoints
  <2>8. QED
    BY <1>2, <2>2, <2>6, <2>7, ReadingStep
<1>6. CASE Finish(r, "failed")
  BY <1>2, <1>6, RefusedStep
<1>7. QED
  BY <1>2, <1>5, <1>6

\* What a batch has locked are all the variants of its product.
LEMMA LockedAll ==
  ASSUME IInv, NEW r \in Request, At(r, "checking")
  PROVE  /\ pc[r] = "checking" /\ task[r].kind = "batch"
         /\ task[r].product \in product /\ ProductRow(task[r].product) \in held[r]
         /\ Locked(r) \in SUBSET Variant
         /\ \A v \in Variant : v \in Locked(r) <=> IsOf(v, task[r].product)
         /\ \A v \in Locked(r) : VariantRow(v) \in held[r]
<1>1. pc[r] = "checking" /\ Reserved(r) = held[r]
  BY AtHolds
<1>2. /\ task[r].kind = "batch"
      /\ task[r].product \in product /\ ProductRow(task[r].product) \in held[r]
      /\ \A v \in Variant : IsOf(v, task[r].product) => VariantRow(v) \in held[r]
  BY <1>1 DEF IInv, HoldsInv, HoldsOf, PointOf, BatchOf, BatchPoints
<1>3. QED
  BY <1>1, <1>2, VariantsThere DEF Locked

\* Sizes that may be bought together with the variants S.
LEMMA SizesFit ==
  ASSUME NEW S \in SUBSET Variant, NEW wanted,
         \/ wanted \cup SizesOf(S) = {NoSize}
         \/ NoSize \notin wanted \cup SizesOf(S)
  PROVE  /\ \A s, t \in wanted : SameMode(s, t)
         /\ \A s \in wanted : \A v \in S : SameMode(variant[v].size, s)
<1>1. \A v \in S : variant[v].size \in SizesOf(S)
  BY DEF SizesOf
<1>2. QED
  BY <1>1 DEF SameMode

LEMMA CheckBatchHolds ==
  ASSUME IInv, NEW r \in Request, CheckBatch(r)
  PROVE  IInv'
<1>1. PICK S : S = Locked(r)
  OBVIOUS
<1>2. PICK wanted : wanted = DOMAIN task[r].ids
  OBVIOUS
<1> DEFINE m == [memo[r] EXCEPT !.rows = S]
           fits == \/ wanted \cup SizesOf(S) = {NoSize}
                   \/ NoSize \notin wanted \cup SizesOf(S)
           paid == wanted \subseteq SizesOf(S) \/ task[r].price # Omitted
<1>3. /\ At(r, "checking") /\ UNCHANGED <<product, variant, line>>
      /\ memo' = [memo EXCEPT ![r].rows = S]
      /\ (fits /\ paid /\ Goto(r, "filling", << >>)) \/ Finish(r, "failed")
  BY <1>1, <1>2 DEF CheckBatch, GotoIf, tables
<1>4. /\ pc[r] = "checking" /\ task[r].kind = "batch"
      /\ task[r].product \in product /\ ProductRow(task[r].product) \in held[r]
      /\ S \in SUBSET Variant
      /\ \A v \in Variant : v \in S <=> IsOf(v, task[r].product)
      /\ \A v \in S : VariantRow(v) \in held[r]
  BY <1>1, <1>3, LockedAll
<1>5. m \in Notes /\ m.rows = S
  BY <1>4, NotesOf, NoteFields DEF IInv
<1>6. memo' = [memo EXCEPT ![r] = m]
  BY <1>3 DEF IInv, Types
<1> HIDE DEF m
<1>7. memo'[r].rows = S
  BY <1>5, <1>6, NotedEffect DEF IInv
<1>8. CASE fits /\ paid /\ Goto(r, "filling", << >>)
  <2>1. Locks' /\ OthersRest(r) /\ Went(r, "checking", "filling", {})
    BY <1>3, <1>8, WentNowhere DEF IInv
  <2>2. pc'[r] = "filling" /\ held'[r] = held[r] /\ held[r] \subseteq Reserved(r)' /\ task' = task
    BY <2>1 DEF Went, OthersRest
  <2>3. /\ \A s, t \in wanted : SameMode(s, t)
        /\ \A s \in wanted : \A v \in S : SameMode(variant[v].size, s)
    BY <1>4, <1>8, SizesFit
  <2>4. task[r].price = Omitted => \A s \in wanted : \E v \in S : variant[v].size = s
    BY <1>8 DEF SizesOf
  <2>5. \A v \in Variant : IsOf(v, task[r].product)' <=> IsOf(v, task[r].product)
    BY <1>3, <2>2 DEF IsOf, There
  <2>6. BatchOf(r)'
    <3>1. /\ task'[r].product \in product' /\ ProductRow(task[r].product)' \in held'[r]
          /\ \A v \in Variant : IsOf(v, task[r].product)' => VariantRow(v)' \in Reserved(r)'
      BY <1>3, <1>4, <2>2, <2>5 DEF ProductRow, VariantRow
    <3>2. /\ \A v \in Variant : v \in memo'[r].rows <=> IsOf(v, task[r].product)'
          /\ \A v \in memo'[r].rows : VariantRow(v)' \in held'[r]
      BY <1>4, <1>7, <2>2, <2>5 DEF VariantRow
    <3>3. /\ \A s, t \in DOMAIN task'[r].ids : SameMode(s, t)
          /\ \A s \in DOMAIN task'[r].ids : \A v \in memo'[r].rows :
               SameMode(variant'[v].size, s)
          /\ task'[r].price = Omitted => \A s \in DOMAIN task'[r].ids :
               \E v \in memo'[r].rows : variant'[v].size = s
      BY <1>2, <1>3, <1>7, <2>2, <2>3, <2>4
    <3>4. QED
      BY <2>2, <3>1, <3>2, <3>3 DEF BatchOf, SameMode
  <2>7. HoldsOf(r)'
    BY <1>4, <2>2, <2>6, BatchHolds DEF BatchPoints
  <2>8. ~ Ended(r) /\ pc'[r] \notin ReadPoints
    BY <1>4, <2>2 DEF Ended, ReadPoints, LinePoints
  <2>9. QED
    BY <1>3, <1>5, <1>6, <2>1, <2>7, <2>8, ReadingStep
<1>9. CASE Finish(r, "failed")
  BY <1>3, <1>5, <1>6, <1>9, RefusedStep
<1>10. QED
  BY <1>3, <1>8, <1>9

LEMMA BeginDropHolds ==
  ASSUME IInv, NEW r \in Request, BeginDrop(r)
  PROVE  IInv'
<1> DEFINE t == task[r]
           doomed == IF t.kind = "drop" THEN {v \in {t.variant} : variant[v] # NoRow}
                     ELSE VariantsOf(t.product)
           m == [memo[r] EXCEPT !.rows = doomed]
           x == ProductRow(t.product)
<1>1. /\ At(r, "idle") /\ t.kind \in {"drop", "dropProduct"}
      /\ UNCHANGED <<product, variant, line>>
      /\ memo' = [memo EXCEPT ![r].rows = doomed]
      /\ \/ Finish(r, "failed")
         \/ \E rows \in Orders({VariantRow(v) : v \in doomed}) :
              Goto(r, "drop", IF t.kind = "drop" THEN rows ELSE Append(rows, x))
  BY DEF BeginDrop, tables
<1>2. doomed \in SUBSET Variant
  BY <1>1, TaskFields, VariantsThere DEF IInv, Locks
<1>3. m \in Notes /\ m.rows = doomed
  BY <1>2, NotesOf, NoteFields DEF IInv
<1>4. memo' = [memo EXCEPT ![r] = m]
  BY <1>1 DEF IInv, Types
<1>5. t.kind = "dropProduct" => x \in Lockable
  BY TaskFields, RowsAreLockable DEF IInv, Locks
<1> HIDE DEF doomed, m, x
<1>6. memo'[r].rows = doomed
  BY <1>3, <1>4, NotedEffect DEF IInv
<1>7. ASSUME NEW rows \in Orders({VariantRow(v) : v \in doomed}),
             Goto(r, "drop", IF t.kind = "drop" THEN rows ELSE Append(rows, x))
      PROVE  IInv'
  <2>1. /\ rows \in Seq(Lockable)
        /\ {rows[i] : i \in DOMAIN rows} = {VariantRow(v) : v \in doomed}
    BY <1>2, RowsOfVariants
  <2>2. PICK all \in Seq(Lockable) :
          /\ Goto(r, "drop", all)
          /\ \A v \in doomed : VariantRow(v) \in {all[i] : i \in DOMAIN all}
          /\ t.kind = "dropProduct" => x \in {all[i] : i \in DOMAIN all}
    <3>1. CASE t.kind = "drop"
      BY <1>7, <2>1, <3>1
    <3>2. CASE t.kind = "dropProduct"
      <4> DEFINE more == Append(rows, x)
      <4>1. /\ more \in Seq(Lockable)
            /\ {more[i] : i \in DOMAIN more} = {rows[i] : i \in DOMAIN rows} \cup {x}
        BY <1>5, <2>1, <3>2, OneRowMore
      <4>2. Goto(r, "drop", more)
        BY <1>7, <3>2
      <4> HIDE DEF more
      <4>3. QED
        BY <2>1, <4>1, <4>2
    <3>3. QED
      BY <1>1, <3>1, <3>2
  <2>3. /\ Locks' /\ OthersRest(r)
        /\ Went(r, "idle", "drop", {all[i] : i \in DOMAIN all})
    BY <1>1, <2>2, WentBy DEF IInv
  <2>4. /\ pc[r] = "idle" /\ pc'[r] = "drop" /\ task' = task
        /\ \A v \in doomed : VariantRow(v) \in Reserved(r)'
        /\ t.kind = "dropProduct" => x \in Reserved(r)'
    BY <2>2, <2>3 DEF Went, OthersRest
  <2>5. DropOf(r)'
    BY <1>6, <2>4 DEF DropOf, ProductRow, VariantRow, x
  <2>6. HoldsOf(r)'
    BY <1>1, <2>4, <2>5, DropHolds
  <2>7. ~ Ended(r) /\ pc'[r] \notin ReadPoints
    BY <2>4 DEF Ended, ReadPoints, LinePoints
  <2>8. QED
    BY <1>1, <1>3, <1>4, <2>3, <2>6, <2>7, ReadingStep
<1>8. CASE Finish(r, "failed")
  BY <1>1, <1>3, <1>4, <1>8, RefusedStep
<1>9. QED
  BY <1>1, <1>7, <1>8

LEMMA BeginLineHolds ==
  ASSUME IInv, NEW r \in Request, BeginLine(r)
  PROVE  IInv'
<1> DEFINE w == task[r].variant
           m == [memo[r] EXCEPT !.price = variant[w].price]
<1>1. /\ At(r, "idle") /\ task[r].kind = "line" /\ UNCHANGED <<product, variant, line>>
      /\ \/ Finish(r, "failed") /\ memo' = memo
         \/ /\ There(w) /\ memo' = [memo EXCEPT ![r].price = variant[w].price]
            /\ Goto(r, "line", <<DraftRow>>)
  BY DEF BeginLine, tables, There
<1>2. w \in Variant
  BY <1>1, TaskFields DEF IInv, Locks
<1>3. CASE /\ There(w) /\ memo' = [memo EXCEPT ![r].price = variant[w].price]
           /\ Goto(r, "line", <<DraftRow>>)
  <2>1. variant[w].price \in Price
    BY <1>2, <1>3, RowFields DEF IInv, Types
  <2>2. m \in Notes /\ m.price \in Price
    BY <2>1, NotesOf, NoteFields DEF IInv
  <2>3. memo' = [memo EXCEPT ![r] = m]
    BY <1>3 DEF IInv, Types
  <2> HIDE DEF m
  <2>4. Locks' /\ OthersRest(r) /\ pc[r] = "idle" /\ pc'[r] = "line"
    BY <1>1, <1>3, RowsAreLockable, WentToOne DEF IInv, Went
  <2>5. memo'[r].price \in Price
    BY <2>2, <2>3, NotedEffect DEF IInv
  <2>6. HoldsOf(r)'
    BY <1>1, <2>4, <2>5, LineHolds DEF OthersRest, LinePoints
  <2>7. ~ Ended(r)
    BY <2>4 DEF Ended
  <2>8. QED
    BY <1>1, <1>3, <2>2, <2>3, <2>4, <2>6, <2>7, ReadingStep
<1>4. CASE Finish(r, "failed") /\ memo' = memo
  BY <1>1, <1>4, RefusedStep
<1>5. QED
  BY <1>1, <1>3, <1>4

LEMMA InsertLineHolds ==
  ASSUME IInv, NEW r \in Request, InsertLine(r)
  PROVE  IInv'
<1> DEFINE x == VariantRow(task[r].variant)
<1>1. /\ At(r, "line") /\ UNCHANGED <<product, variant, line, memo>>
      /\ Goto(r, "pricing", <<x>>)
  BY DEF InsertLine, tables
<1>2. pc[r] = "line"
  BY <1>1, AtHolds
<1>3. task[r].kind = "line" /\ memo[r].price \in Price
  BY <1>2 DEF IInv, HoldsInv, HoldsOf, PointOf, LineOf, LinePoints
<1>4. x \in Lockable
  BY <1>3, TaskFields, RowsAreLockable DEF IInv, Locks
<1> HIDE DEF x
<1>5. Locks' /\ OthersRest(r) /\ pc'[r] = "pricing"
  BY <1>1, <1>4, WentToOne DEF IInv, Went
<1>6. HoldsOf(r)'
  BY <1>1, <1>3, <1>5, LineHolds DEF OthersRest, LinePoints
<1>7. ~ Ended(r) /\ pc[r] \in ReadPoints
  BY <1>2 DEF Ended, ReadPoints, LinePoints
<1>8. QED
  BY <1>1, <1>5, <1>6, <1>7, ReadingStep
-----------------------------------------------------------------------------
(* The steps that change rows *)

LEMMA WritingStep ==
  ASSUME IInv, NEW r \in Request, Finish(r, "done"), memo' = memo, Frame(r),
         product' \subseteq Product, variant' \in [Variant -> Row \cup {NoRow}],
         line' \in [Line -> [variant: Variant, price: Price] \cup {NoRow}],
         ~ Ended(r), \A v \in Variant : ~ There(v) /\ There(v)' => v \in Keys(task[r])
  PROVE  IInv'
<1>1. Locks' /\ OthersRest(r) /\ pc'[r] = "done"
  BY EndedBy DEF IInv
<1>2. HoldsOf(r)' /\ Ended(r)' /\ pc'[r] \notin ReadPoints
  BY <1>1, EndedHolds
<1>3. KeyFrame(r)
  BY <1>2 DEF KeyFrame
<1>4. Alone(r) /\ Types'
  BY <1>1 DEF Alone, IInv, Types, TypeOK
<1>5. QED
  BY <1>1, <1>2, <1>3, <1>4, StepHolds

LEMMA NewRow ==
  ASSUME NEW p \in Product, NEW size \in Sizes, NEW price \in Price, NEW stock \in Nat
  PROVE  LET x == [product |-> p, size |-> size, price |-> price, stock |-> stock] IN
         /\ x \in Row /\ x # NoRow
         /\ x.product = p /\ x.size = size /\ x.price = price
<1> DEFINE x == [product |-> p, size |-> size, price |-> price, stock |-> stock]
<1>1. x \in Row /\ x.product = p /\ x.size = size /\ x.price = price
  BY DEF Row
<1>2. x # NoRow
  BY <1>1, CatalogAssumption
<1>3. QED
  BY <1>1, <1>2

LEMMA PricedRow ==
  ASSUME NEW x \in Row, NEW price \in Price, NEW y, y = [x EXCEPT !.price = price]
  PROVE  y \in Row /\ y.product = x.product /\ y.size = x.size /\ y.price = price
  BY DEF Row

LEMMA StockedRow ==
  ASSUME NEW x \in Row, NEW y, y = [x EXCEPT !.stock = @ + 1]
  PROVE  y \in Row /\ y.product = x.product /\ y.size = x.size /\ y.price = x.price
<1>1. x.stock + 1 \in Nat
  BY DEF Row
<1>2. PICK n : n = x.stock + 1
  OBVIOUS
<1>3. n \in Nat /\ y = [x EXCEPT !.stock = n]
  BY <1>1, <1>2
<1>4. QED
  BY <1>3 DEF Row

\* A request that adds a variant holds its product, has a new key, and has
\* checked the mode and the size.
LEMMA AddVariantEffect ==
  ASSUME IInv, NEW r \in Request, AddVariant(r)
  PROVE  /\ pc[r] = "adding" /\ task[r].kind = "create" /\ UNCHANGED <<product, line, memo>>
         /\ UNCHANGED <<stale, repriced>>
         /\ task[r].product \in product /\ ProductRow(task[r].product) \in held[r]
         /\ \/ Finish(r, "failed") /\ UNCHANGED <<variant, asked>>
            \/ /\ Finish(r, "done")
               /\ task[r].id \in Variant /\ task[r].id \in Keys(task[r])
               /\ ~ There(task[r].id)
               /\ asked' = [asked EXCEPT ![task[r].id] = task[r].price]
               /\ variant' \in [Variant -> Row \cup {NoRow}]
               /\ variant'[task[r].id] \in Row
               /\ variant'[task[r].id].product = task[r].product
               /\ variant'[task[r].id].size = task[r].size
               /\ variant'[task[r].id].price = task[r].price
               /\ \A v \in Variant \ {task[r].id} : variant'[v] = variant[v]
               /\ \A v \in Variant : IsOf(v, task[r].product) =>
                    /\ variant[v].size # task[r].size
                    /\ SameMode(variant[v].size, task[r].size)
<1> DEFINE p == task[r].product
           id == task[r].id
           x == [product |-> p, size |-> task[r].size, price |-> task[r].price, stock |-> 0]
<1>1. /\ At(r, "adding") /\ UNCHANGED <<product, line, memo, stale, repriced>>
      /\ \/ Finish(r, "failed") /\ UNCHANGED <<variant, asked>>
         \/ /\ Finish(r, "done") /\ task[r].size \notin SizesOf(VariantsOf(p))
            /\ variant' = [variant EXCEPT ![id] = x]
            /\ asked' = [asked EXCEPT ![id] = task[r].price]
  BY DEF AddVariant
<1>2. pc[r] = "adding"
  BY <1>1, AtHolds
<1>3. /\ task[r].kind = "create" /\ p \in product /\ ProductRow(p) \in held[r]
      /\ \A v \in Variant : IsOf(v, p) => SameMode(variant[v].size, task[r].size)
  BY <1>2 DEF IInv, HoldsInv, HoldsOf, PointOf, CreateOf
<1>4. id \in Variant /\ id \in Keys(task[r]) /\ task[r].size \in Sizes /\ task[r].price \in Price
      /\ p \in Product
  BY <1>3, TaskFields, KeyOf DEF IInv, Locks
<1>5. ~ Ended(r)
  BY <1>2 DEF Ended
<1>6. ~ There(id)
  BY <1>4, <1>5 DEF IInv, KeyInv
<1>7. /\ x \in Row /\ x.product = p /\ x.size = task[r].size /\ x.price = task[r].price
  <2>1. 0 \in Nat
    OBVIOUS
  <2>2. QED
    BY <1>4, <2>1, NewRow
<1> HIDE DEF x
<1>8. CASE /\ Finish(r, "done") /\ task[r].size \notin SizesOf(VariantsOf(p))
           /\ variant' = [variant EXCEPT ![id] = x]
           /\ asked' = [asked EXCEPT ![id] = task[r].price]
  <2>1. /\ variant' \in [Variant -> Row \cup {NoRow}] /\ variant'[id] = x
        /\ \A v \in Variant \ {id} : variant'[v] = variant[v]
    BY <1>4, <1>7, <1>8 DEF IInv, Types, TypeOK
  <2>2. \A v \in Variant : IsOf(v, p) => variant[v].size # task[r].size
    BY <1>8, VariantsThere DEF SizesOf
  <2>3. QED
    BY <1>1, <1>2, <1>3, <1>4, <1>6, <1>7, <1>8, <2>1, <2>2
<1>9. CASE Finish(r, "failed") /\ UNCHANGED <<variant, asked>>
  BY <1>1, <1>2, <1>3, <1>9
<1>10. QED
  BY <1>1, <1>8, <1>9

LEMMA AddVariantHolds ==
  ASSUME IInv, NEW r \in Request, AddVariant(r)
  PROVE  IInv'
<1> DEFINE p == task[r].product
           id == task[r].id
<1>1. /\ pc[r] = "adding" /\ UNCHANGED <<product, line, memo>>
      /\ p \in product /\ ProductRow(p) \in held[r]
  BY AddVariantEffect
<1>2. CASE Finish(r, "failed") /\ UNCHANGED <<variant, asked>>
  BY <1>1, <1>2, RefusedStep
<1>3. CASE /\ Finish(r, "done") /\ id \in Variant /\ id \in Keys(task[r]) /\ ~ There(id)
           /\ variant' \in [Variant -> Row \cup {NoRow}]
           /\ variant'[id].product = p
           /\ \A v \in Variant \ {id} : variant'[v] = variant[v]
  <2>1. Frame(r)
    BY <1>1, <1>3 DEF Frame, There
  <2>2. ~ Ended(r)
    BY <1>1 DEF Ended
  <2>3. \A v \in Variant : ~ There(v) /\ There(v)' => v \in Keys(task[r])
    BY <1>3 DEF There
  <2>4. QED
    BY <1>1, <1>3, <2>1, <2>2, <2>3, WritingStep DEF IInv, Types, TypeOK
<1>4. QED
  BY <1>2, <1>3, AddVariantEffect

\* The variant w has its new size, which no other variant of its product has,
\* and its new price; nothing else has changed.
Saved(r, w) ==
  /\ variant'[w] \in Row
  /\ variant'[w].product = variant[w].product
  /\ variant'[w].size = memo[r].size
  /\ variant'[w].price = memo[r].price
  /\ \A v \in Variant \ {w} : variant'[v] = variant[v]
  /\ \A v \in Variant \ {w} : IsOf(v, variant[w].product) =>
       variant[v].size # memo[r].size /\ SameMode(variant[v].size, memo[r].size)

\* What is noted of a PATCH: the price that it asked for, or that the price it
\* has given back is an old one.
Noted(r, w) ==
  /\ task[r].price # Omitted => memo[r].price = task[r].price
  /\ asked' = [asked EXCEPT ![w] = IF task[r].price = Omitted THEN @ ELSE task[r].price]
  /\ stale' = IF task[r].price # Omitted THEN stale \ {w}
              ELSE stale \cup {v \in {w} : variant[v].price # memo[r].price}

\* A PATCH changes the variant that it holds, in the product that it holds.
LEMMA SaveVariantEffect ==
  ASSUME IInv, NEW r \in Request, SaveVariant(r), NEW w, w = task[r].variant
  PROVE  /\ pc[r] = "saving" /\ task[r].kind = "patch" /\ UNCHANGED <<product, line, memo>>
         /\ w \in Variant /\ There(w) /\ VariantRow(w) \in held[r]
         /\ ProductRow(variant[w].product) \in held[r]
         /\ \/ Finish(r, "failed") /\ UNCHANGED <<variant, history>>
            \/ /\ Finish(r, "done")
               /\ variant' \in [Variant -> Row \cup {NoRow}]
               /\ Saved(r, w) /\ Noted(r, w)
               /\ repriced' = repriced \cup
                    {q \in Overtaken({w}) : variant[w].price # memo[r].price}
<1> DEFINE others == VariantsOf(variant[w].product) \ {w}
<1>1. /\ At(r, "saving") /\ UNCHANGED <<product, line, memo>>
      /\ \/ Finish(r, "failed") /\ UNCHANGED <<variant, history>>
         \/ /\ Finish(r, "done") /\ memo[r].size \notin SizesOf(others)
            /\ variant' = [variant EXCEPT ![w].size = memo[r].size,
                                          ![w].price = memo[r].price]
            /\ asked' = [asked EXCEPT ![w] = IF task[r].price = Omitted THEN @
                                             ELSE task[r].price]
            /\ stale' = IF task[r].price # Omitted THEN stale \ {w}
                        ELSE stale \cup {v \in {w} : variant[v].price # memo[r].price}
            /\ repriced' = repriced \cup
                 {q \in Overtaken({w}) : variant[w].price # memo[r].price}
  BY DEF SaveVariant
<1>2. pc[r] = "saving"
  BY <1>1, AtHolds
<1>3. /\ task[r].kind = "patch" /\ There(w) /\ VariantRow(w) \in held[r]
      /\ ProductRow(variant[w].product) \in held[r]
      /\ memo[r].size \in Sizes /\ memo[r].price \in Price
      /\ task[r].price # Omitted => memo[r].price = task[r].price
      /\ \A v \in Variant : v # w /\ IsOf(v, variant[w].product)
           => SameMode(variant[v].size, memo[r].size)
  BY <1>2 DEF IInv, HoldsInv, HoldsOf, PointOf, PatchOf
<1>4. w \in Variant
  BY <1>3, TaskFields DEF IInv, Locks
<1>5. variant[w] \in Row /\ variant \in [Variant -> Row \cup {NoRow}]
  BY <1>3, <1>4, RowFields DEF IInv, Types, TypeOK
<1>6. PICK x : x = [variant[w] EXCEPT !.size = memo[r].size, !.price = memo[r].price]
  OBVIOUS
<1>11. /\ x \in Row /\ x.product = variant[w].product
      /\ x.size = memo[r].size /\ x.price = memo[r].price
  <2>1. PICK old, size, price :
          old = variant[w] /\ size = memo[r].size /\ price = memo[r].price
    OBVIOUS
  <2>2. x = [old EXCEPT !.size = size, !.price = price]
    BY <1>6, <2>1
  <2>3. old \in Row /\ size \in Sizes /\ price \in Price
    BY <1>3, <1>5, <2>1
  <2>4. x \in Row /\ x.product = old.product /\ x.size = size /\ x.price = price
    BY <2>2, <2>3 DEF Row
  <2>5. QED
    BY <2>1, <2>4
<1>7. ASSUME memo[r].size \notin SizesOf(others),
             variant' = [variant EXCEPT ![w].size = memo[r].size,
                                        ![w].price = memo[r].price]
      PROVE  variant' \in [Variant -> Row \cup {NoRow}] /\ Saved(r, w)
  <2>1. variant' = [variant EXCEPT ![w] = x]
    BY <1>4, <1>5, <1>6, <1>7
  <2>2. /\ variant' \in [Variant -> Row \cup {NoRow}] /\ variant'[w] = x
        /\ \A v \in Variant \ {w} : variant'[v] = variant[v]
    BY <1>4, <1>5, <1>11, <2>1
  <2>3. \A v \in Variant \ {w} : IsOf(v, variant[w].product) => variant[v].size # memo[r].size
    BY <1>7, VariantsThere DEF SizesOf
  <2>4. QED
    BY <1>3, <1>11, <2>2, <2>3 DEF Saved
<1>8. \/ Finish(r, "failed") /\ UNCHANGED <<variant, history>>
      \/ /\ Finish(r, "done")
         /\ variant' \in [Variant -> Row \cup {NoRow}]
         /\ Saved(r, w) /\ Noted(r, w)
         /\ repriced' = repriced \cup
              {q \in Overtaken({w}) : variant[w].price # memo[r].price}
  BY <1>1, <1>3, <1>7 DEF Noted
<1>9. QED
  BY <1>1, <1>2, <1>3, <1>4, <1>8

LEMMA SaveVariantHolds ==
  ASSUME IInv, NEW r \in Request, SaveVariant(r)
  PROVE  IInv'
<1>1. PICK w : w = task[r].variant
  OBVIOUS
<1>2. /\ pc[r] = "saving" /\ UNCHANGED <<product, line, memo>>
      /\ w \in Variant /\ There(w) /\ VariantRow(w) \in held[r]
      /\ ProductRow(variant[w].product) \in held[r]
  BY <1>1, SaveVariantEffect
<1>3. CASE Finish(r, "failed") /\ UNCHANGED <<variant, history>>
  BY <1>2, <1>3, RefusedStep
<1>4. CASE /\ Finish(r, "done")
           /\ variant' \in [Variant -> Row \cup {NoRow}]
           /\ Saved(r, w)
  <2>1. Frame(r)
    BY <1>2, <1>4 DEF Frame, There, Saved
  <2>2. ~ Ended(r)
    BY <1>2 DEF Ended
  <2>3. \A v \in Variant : ~ There(v) /\ There(v)' => v \in Keys(task[r])
    BY <1>2, <1>4 DEF There, Saved
  <2>4. QED
    BY <1>2, <1>4, <2>1, <2>2, <2>3, WritingStep DEF IInv, Types, TypeOK
<1>5. QED
  BY <1>1, <1>3, <1>4, SaveVariantEffect

\* The UPDATE gives variants that it holds a price, and nothing else.
LEMMA CommitRepriceEffect ==
  ASSUME IInv, NEW r \in Request, CommitReprice(r)
  PROVE  /\ pc[r] = "reprice" /\ task[r].kind = "reprice" /\ UNCHANGED <<product, line, memo>>
         /\ \/ Finish(r, "failed") /\ UNCHANGED <<variant, history>>
            \/ /\ Finish(r, "done") /\ variant' \in [Variant -> Row \cup {NoRow}]
               /\ \E S \in SUBSET Variant :
                    /\ \A v \in S :
                         /\ There(v) /\ VariantRow(v) \in held[r]
                         /\ variant'[v] \in Row
                         /\ variant'[v].product = variant[v].product
                         /\ variant'[v].size = variant[v].size
                         /\ variant'[v].price = task[r].price
                    /\ \A v \in Variant \ S : variant'[v] = variant[v]
                    /\ asked' = [v \in Variant |-> IF v \in S THEN task[r].price
                                                   ELSE asked[v]]
                    /\ stale' = stale \ S
                    /\ repriced' = repriced \cup Overtaken(S)
<1>1. PICK S : S = {v \in VariantsOf(task[r].product) : VariantRow(v) \in held[r]}
  OBVIOUS
<1>2. /\ At(r, "reprice") /\ UNCHANGED <<product, line, memo>>
      /\ \/ Finish(r, "failed") /\ UNCHANGED <<variant, history>>
         \/ /\ variant' = [v \in Variant |->
                 IF v \in S THEN [variant[v] EXCEPT !.price = task[r].price]
                 ELSE variant[v]]
            /\ asked' = [v \in Variant |-> IF v \in S THEN task[r].price ELSE asked[v]]
            /\ stale' = stale \ S
            /\ repriced' = repriced \cup Overtaken(S)
            /\ Finish(r, "done")
  BY <1>1 DEF CommitReprice
<1>3. pc[r] = "reprice"
  BY <1>2, AtHolds
<1>4. task[r].kind = "reprice"
  BY <1>3 DEF IInv, HoldsInv, HoldsOf, PointOf
<1>5. task[r].price \in Price
  BY <1>4, TaskFields DEF IInv, Locks
<1>6. S \in SUBSET Variant /\ \A v \in S : There(v) /\ VariantRow(v) \in held[r]
  BY <1>1, VariantsThere DEF IsOf
<1>7. ASSUME variant' = [v \in Variant |->
                 IF v \in S THEN [variant[v] EXCEPT !.price = task[r].price]
                 ELSE variant[v]]
      PROVE  /\ variant' \in [Variant -> Row \cup {NoRow}]
             /\ \A v \in S : /\ variant'[v] \in Row
                             /\ variant'[v].product = variant[v].product
                             /\ variant'[v].size = variant[v].size
                             /\ variant'[v].price = task[r].price
             /\ \A v \in Variant \ S : variant'[v] = variant[v]
  <2>1. ASSUME NEW v \in S
        PROVE  /\ variant'[v] \in Row
               /\ variant'[v].product = variant[v].product
               /\ variant'[v].size = variant[v].size
               /\ variant'[v].price = task[r].price
    <3>1. variant[v] \in Row
      BY <1>6, RowFields DEF IInv, Types
    <3>2. variant'[v] = [variant[v] EXCEPT !.price = task[r].price]
      BY <1>6, <1>7
    <3>3. QED
      BY <1>5, <3>1, <3>2, PricedRow
  <2>2. \A v \in Variant \ S : variant'[v] = variant[v]
    BY <1>7
  <2>3. \A v \in Variant : variant'[v] \in Row \cup {NoRow}
    BY <2>1, <2>2 DEF IInv, Types, TypeOK
  <2>4. variant' \in [Variant -> Row \cup {NoRow}]
    BY <1>7, <2>3
  <2>5. QED
    BY <2>1, <2>2, <2>4
<1>8. QED
  BY <1>2, <1>3, <1>4, <1>6, <1>7

LEMMA CommitRepriceHolds ==
  ASSUME IInv, NEW r \in Request, CommitReprice(r)
  PROVE  IInv'
<1>1. pc[r] = "reprice" /\ UNCHANGED <<product, line, memo>>
  BY CommitRepriceEffect
<1>2. ASSUME Finish(r, "failed"), UNCHANGED <<variant, history>>
      PROVE  IInv'
  BY <1>1, <1>2, RefusedStep
<1>3. ASSUME Finish(r, "done"), variant' \in [Variant -> Row \cup {NoRow}],
             \E S \in SUBSET Variant :
               /\ \A v \in S : /\ There(v) /\ VariantRow(v) \in held[r]
                               /\ variant'[v].product = variant[v].product
                               /\ variant'[v].size = variant[v].size
               /\ \A v \in Variant \ S : variant'[v] = variant[v]
      PROVE  IInv'
  <2>1. PICK S \in SUBSET Variant :
          /\ \A v \in S : /\ There(v) /\ VariantRow(v) \in held[r]
                          /\ variant'[v].product = variant[v].product
                          /\ variant'[v].size = variant[v].size
          /\ \A v \in Variant \ S : variant'[v] = variant[v]
    BY <1>3
  <2>2. Frame(r)
    BY <1>1, <2>1 DEF Frame, There
  <2>3. ~ Ended(r)
    BY <1>1 DEF Ended
  <2>4. \A v \in Variant : ~ There(v) /\ There(v)' => v \in Keys(task[r])
    BY <2>1 DEF There
  <2>5. QED
    BY <1>1, <1>3, <2>2, <2>3, <2>4, WritingStep DEF IInv, Types, TypeOK
<1>4. QED
  BY <1>2, <1>3, CommitRepriceEffect

\* A size that a batch adds has the key that was given for it.
LEMMA SizeOfKey ==
  ASSUME NEW M, NEW ids, NEW v \in {ids[s] : s \in M}
  PROVE  /\ (CHOOSE s \in M : ids[s] = v) \in M
         /\ ids[CHOOSE s \in M : ids[s] = v] = v
  OBVIOUS

\* The variants that are new got the sizes that were missing, under the keys
\* given for them; of the others at most the stock has changed.
Bought(r, p, new) ==
  /\ \A v \in new : /\ v \in Keys(task[r]) /\ ~ There(v)
                    /\ variant'[v] \in Row
                    /\ variant'[v].product = p
                    /\ variant'[v].price = task[r].price
                    /\ variant'[v].size \in Missing(r)
                    /\ v = task[r].ids[variant'[v].size]
  /\ \A v \in Variant \ new :
       \/ variant'[v] = variant[v]
       \/ /\ There(v) /\ VariantRow(v) \in held[r]
          /\ variant'[v] \in Row
          /\ variant'[v].product = variant[v].product
          /\ variant'[v].size = variant[v].size
          /\ variant'[v].price = variant[v].price
  /\ asked' = [v \in Variant |-> IF v \in new THEN task[r].price ELSE asked[v]]

\* A batch adds variants of sizes that its product does not have, under new
\* keys and at the price asked for, and changes the stock of others.
LEMMA FillBatchEffect ==
  ASSUME IInv, NEW r \in Request, FillBatch(r), NEW p, p = task[r].product
  PROVE  /\ pc[r] = "filling" /\ task[r].kind = "batch"
         /\ UNCHANGED <<product, line, memo, stale, repriced>>
         /\ p \in product /\ ProductRow(p) \in held[r]
         /\ \/ Finish(r, "failed") /\ UNCHANGED <<variant, asked>>
            \/ /\ Finish(r, "done") /\ variant' \in [Variant -> Row \cup {NoRow}]
               /\ \E new \in SUBSET Variant : Bought(r, p, new)
<1>1. PICK ids, M, rows : ids = task[r].ids /\ M = Missing(r) /\ rows = memo[r].rows
  OBVIOUS
<1>2. PICK new : new = {ids[s] : s \in M}
  OBVIOUS
<1>3. /\ At(r, "filling") /\ UNCHANGED <<product, line, memo, stale, repriced>>
      /\ \/ Finish(r, "failed") /\ UNCHANGED <<variant, asked>>
         \/ /\ variant' = [v \in Variant |->
                 IF v \in new
                 THEN [product |-> p, size |-> CHOOSE s \in M : ids[s] = v,
                       price |-> task[r].price, stock |-> 1]
                 ELSE IF v \in rows /\ variant[v].size \in DOMAIN ids
                 THEN [variant[v] EXCEPT !.stock = @ + 1]
                 ELSE variant[v]]
            /\ asked' = [v \in Variant |-> IF v \in new THEN task[r].price ELSE asked[v]]
            /\ Finish(r, "done")
  BY <1>1, <1>2 DEF FillBatch
<1>4. pc[r] = "filling"
  BY <1>3, AtHolds
<1>5. task[r].kind = "batch" /\ p \in product /\ ProductRow(p) \in held[r]
  BY <1>4 DEF IInv, HoldsInv, HoldsOf, PointOf, BatchOf, BatchPoints
<1>6. /\ \A v \in rows : VariantRow(v) \in held[r]
      /\ \A v \in Variant : v \in rows => There(v)
      /\ task[r].price = Omitted =>
           \A s \in DOMAIN ids : \E v \in rows : variant[v].size = s
  BY <1>1, <1>4 DEF IInv, HoldsInv, HoldsOf, BatchOf, IsOf
<1>7. M \subseteq DOMAIN ids /\ \A s \in M : \A v \in rows : variant[v].size # s
  BY <1>1 DEF Missing, SizesOf
<1>8. /\ DOMAIN ids \subseteq Sizes /\ p \in Product
      /\ task[r].price \in Price \cup {Omitted}
      /\ \A s \in DOMAIN ids : ids[s] \in Variant /\ ids[s] \in Keys(task[r])
  BY <1>1, <1>5, TaskFields, KeyOf DEF IInv, Locks
<1>9. \A v \in Keys(task[r]) : ~ There(v)
  BY <1>4 DEF IInv, KeyInv, Ended
<1>10. ASSUME NEW v \in new
       PROVE  v \in Variant /\ v \in Keys(task[r]) /\ ~ There(v)
  BY <1>2, <1>7, <1>8, <1>9
<1>11. ASSUME variant' = [v \in Variant |->
                 IF v \in new
                 THEN [product |-> p, size |-> CHOOSE s \in M : ids[s] = v,
                       price |-> task[r].price, stock |-> 1]
                 ELSE IF v \in rows /\ variant[v].size \in DOMAIN ids
                 THEN [variant[v] EXCEPT !.stock = @ + 1]
                 ELSE variant[v]]
       PROVE  /\ variant' \in [Variant -> Row \cup {NoRow}]
              /\ \A v \in new : /\ variant'[v] \in Row
                                /\ variant'[v].product = p
                                /\ variant'[v].price = task[r].price
                                /\ variant'[v].size \in M
                                /\ v = ids[variant'[v].size]
              /\ \A v \in Variant \ new :
                   \/ variant'[v] = variant[v]
                   \/ /\ There(v) /\ VariantRow(v) \in held[r]
                      /\ variant'[v] \in Row
                      /\ variant'[v].product = variant[v].product
                      /\ variant'[v].size = variant[v].size
                      /\ variant'[v].price = variant[v].price
  <2>1. ASSUME NEW v \in new
        PROVE  /\ variant'[v] \in Row
               /\ variant'[v].product = p /\ variant'[v].price = task[r].price
               /\ variant'[v].size \in M /\ v = ids[variant'[v].size]
    <3>1. PICK s : s = CHOOSE t \in M : ids[t] = v
      OBVIOUS
    <3>2. s \in M /\ ids[s] = v
      BY <1>2, <3>1, SizeOfKey
    <3>3. s \in Sizes /\ task[r].price \in Price /\ 1 \in Nat
      BY <1>6, <1>7, <1>8, <3>2
    <3>4. PICK price : price = task[r].price
      OBVIOUS
    <3>5. variant'[v] = [product |-> p, size |-> s, price |-> price, stock |-> 1]
      BY <1>10, <1>11, <3>1, <3>4
    <3>6. /\ variant'[v] \in Row /\ variant'[v].product = p
          /\ variant'[v].size = s /\ variant'[v].price = price
      BY <1>8, <3>3, <3>4, <3>5, NewRow
    <3>7. QED
      BY <3>2, <3>4, <3>6
  <2>2. ASSUME NEW v \in Variant \ new, v \in rows, variant[v].size \in DOMAIN ids
        PROVE  /\ There(v) /\ VariantRow(v) \in held[r]
               /\ variant'[v] \in Row /\ variant'[v].product = variant[v].product
               /\ variant'[v].size = variant[v].size /\ variant'[v].price = variant[v].price
    <3>1. There(v) /\ VariantRow(v) \in held[r]
      BY <1>6, <2>2
    <3>2. variant[v] \in Row
      BY <3>1, RowFields DEF IInv, Types
    <3>3. PICK x, y : x = variant[v] /\ y = variant'[v]
      OBVIOUS
    <3>4. x \in Row /\ y = [x EXCEPT !.stock = @ + 1]
      BY <1>11, <2>2, <3>2, <3>3
    <3>5. y \in Row /\ y.product = x.product /\ y.size = x.size /\ y.price = x.price
      BY <3>4, StockedRow
    <3>6. QED
      BY <3>1, <3>3, <3>5
  <2>3. ASSUME NEW v \in Variant \ new, ~ (v \in rows /\ variant[v].size \in DOMAIN ids)
        PROVE  variant'[v] = variant[v]
    BY <1>11, <2>3
  <2>4. \A v \in Variant : variant'[v] \in Row \cup {NoRow}
    BY <2>1, <2>2, <2>3 DEF IInv, Types, TypeOK
  <2>5. variant' \in [Variant -> Row \cup {NoRow}]
    BY <1>11, <2>4
  <2>6. QED
    BY <2>1, <2>2, <2>3, <2>5
<1>12. new \in SUBSET Variant
  BY <1>10
<1>13. ASSUME variant' = [v \in Variant |->
                 IF v \in new
                 THEN [product |-> p, size |-> CHOOSE s \in M : ids[s] = v,
                       price |-> task[r].price, stock |-> 1]
                 ELSE IF v \in rows /\ variant[v].size \in DOMAIN ids
                 THEN [variant[v] EXCEPT !.stock = @ + 1]
                 ELSE variant[v]],
              asked' = [v \in Variant |-> IF v \in new THEN task[r].price ELSE asked[v]]
       PROVE  variant' \in [Variant -> Row \cup {NoRow}] /\ Bought(r, p, new)
  BY <1>1, <1>10, <1>11, <1>13 DEF Bought
<1>14. QED
  BY <1>3, <1>4, <1>5, <1>12, <1>13

LEMMA FillBatchHolds ==
  ASSUME IInv, NEW r \in Request, FillBatch(r)
  PROVE  IInv'
<1>1. PICK p : p = task[r].product
  OBVIOUS
<1>2. /\ pc[r] = "filling" /\ UNCHANGED <<product, line, memo>>
      /\ p \in product /\ ProductRow(p) \in held[r]
  BY <1>1, FillBatchEffect
<1>3. CASE Finish(r, "failed") /\ UNCHANGED <<variant, asked>>
  BY <1>2, <1>3, RefusedStep
<1>4. ASSUME Finish(r, "done"), variant' \in [Variant -> Row \cup {NoRow}],
             NEW new \in SUBSET Variant,
             \A v \in new : /\ v \in Keys(task[r]) /\ ~ There(v)
                            /\ variant'[v].product = p,
             \A v \in Variant \ new :
               \/ variant'[v] = variant[v]
               \/ /\ There(v) /\ VariantRow(v) \in held[r]
                  /\ variant'[v].product = variant[v].product
                  /\ variant'[v].size = variant[v].size
      PROVE  IInv'
  <2>1. Frame(r)
    BY <1>2, <1>4 DEF Frame, There
  <2>2. ~ Ended(r)
    BY <1>2 DEF Ended
  <2>3. \A v \in Variant : ~ There(v) /\ There(v)' => v \in Keys(task[r])
    BY <1>4 DEF There
  <2>4. QED
    BY <1>2, <1>4, <2>1, <2>2, <2>3, WritingStep DEF IInv, Types, TypeOK
<1>5. ASSUME Finish(r, "done"), variant' \in [Variant -> Row \cup {NoRow}],
             NEW new \in SUBSET Variant, Bought(r, p, new)
      PROVE  IInv'
  BY <1>4, <1>5 DEF Bought
<1>6. QED
  BY <1>1, <1>3, <1>5, FillBatchEffect

\* A deletion takes what it has locked, and what has no line.
LEMMA CommitDropEffect ==
  ASSUME IInv, NEW r \in Request, CommitDrop(r)
  PROVE  /\ pc[r] = "drop" /\ UNCHANGED <<line, memo, history>>
         /\ memo[r].rows \subseteq Variant
         /\ \/ Finish(r, "failed") /\ UNCHANGED <<variant, product>>
            \/ /\ Finish(r, "done")
               /\ variant' \in [Variant -> Row \cup {NoRow}]
               /\ \A v \in memo[r].rows :
                    VariantRow(v) \in held[r] /\ variant'[v] = NoRow /\ LinesOf(v) = {}
               /\ \A v \in Variant \ memo[r].rows : variant'[v] = variant[v]
               /\ \/ product' = product
                  \/ \E p \in Product :
                       /\ product' = product \ {p} /\ ProductRow(p) \in held[r]
                       /\ VariantsOf(p) \subseteq memo[r].rows
<1>1. PICK rows, p : rows = memo[r].rows /\ p = task[r].product
  OBVIOUS
<1>2. /\ At(r, "drop") /\ UNCHANGED <<line, memo, history>>
      /\ \/ Finish(r, "failed") /\ UNCHANGED <<variant, product>>
         \/ /\ \A v \in rows : LinesOf(v) = {}
            /\ task[r].kind = "dropProduct" => VariantsOf(p) \subseteq rows
            /\ variant' = [v \in Variant |-> IF v \in rows THEN NoRow ELSE variant[v]]
            /\ product' = IF task[r].kind = "drop" THEN product ELSE product \ {p}
            /\ Finish(r, "done")
  BY <1>1 DEF CommitDrop
<1>3. pc[r] = "drop" /\ Reserved(r) = held[r]
  BY <1>2, AtHolds
<1>4. /\ task[r].kind \in {"drop", "dropProduct"}
      /\ \A v \in rows : VariantRow(v) \in held[r]
      /\ task[r].kind = "dropProduct" => ProductRow(p) \in held[r]
  BY <1>1, <1>3 DEF IInv, HoldsInv, HoldsOf, PointOf, DropOf
<1>5. rows \subseteq Variant
  BY <1>1, NotesOf, NoteFields DEF IInv
<1>6. task[r].kind = "dropProduct" => p \in Product
  BY <1>1, TaskFields DEF IInv, Locks
<1>7. ASSUME variant' = [v \in Variant |-> IF v \in rows THEN NoRow ELSE variant[v]]
      PROVE  /\ variant' \in [Variant -> Row \cup {NoRow}]
             /\ \A v \in rows : variant'[v] = NoRow
             /\ \A v \in Variant \ rows : variant'[v] = variant[v]
  BY <1>5, <1>7 DEF IInv, Types, TypeOK
<1>8. ASSUME task[r].kind = "dropProduct" => VariantsOf(p) \subseteq rows,
             product' = IF task[r].kind = "drop" THEN product ELSE product \ {p}
      PROVE  \/ product' = product
             \/ \E q \in Product :
                  /\ product' = product \ {q} /\ ProductRow(q) \in held[r]
                  /\ VariantsOf(q) \subseteq rows
  BY <1>4, <1>6, <1>8
<1>9. QED
  BY <1>1, <1>2, <1>3, <1>4, <1>5, <1>7, <1>8

LEMMA CommitDropHolds ==
  ASSUME IInv, NEW r \in Request, CommitDrop(r)
  PROVE  IInv'
<1>1. PICK rows : rows = memo[r].rows
  OBVIOUS
<1>2. pc[r] = "drop" /\ UNCHANGED <<line, memo>> /\ rows \subseteq Variant
  BY <1>1, CommitDropEffect
<1>3. CASE Finish(r, "failed") /\ UNCHANGED <<variant, product>>
  BY <1>2, <1>3, RefusedStep
<1>4. ASSUME Finish(r, "done"), variant' \in [Variant -> Row \cup {NoRow}],
             \A v \in rows : VariantRow(v) \in held[r] /\ variant'[v] = NoRow,
             \A v \in Variant \ rows : variant'[v] = variant[v],
             \/ product' = product
             \/ \E p \in Product : product' = product \ {p} /\ ProductRow(p) \in held[r]
      PROVE  IInv'
  <2>1. product' \subseteq Product /\ \A p \in product : p \in product' \/ ProductRow(p) \in held[r]
    BY <1>4 DEF IInv, Types, TypeOK
  <2>2. Frame(r)
    BY <1>2, <1>4, <2>1 DEF Frame, There
  <2>3. ~ Ended(r)
    BY <1>2 DEF Ended
  <2>4. \A v \in Variant : ~ There(v) /\ There(v)' => v \in Keys(task[r])
    BY <1>2, <1>4 DEF There
  <2>5. QED
    BY <1>2, <1>4, <2>1, <2>2, <2>3, <2>4, WritingStep DEF IInv, Types, TypeOK
<1>5. QED
  BY <1>1, <1>3, <1>4, CommitDropEffect

\* A line has the price that was read, and its variant is there.
LEMMA CommitLineEffect ==
  ASSUME IInv, NEW r \in Request, CommitLine(r)
  PROVE  /\ pc[r] = "pricing" /\ task[r].kind = "line"
         /\ UNCHANGED <<product, variant, memo, history>>
         /\ \/ Finish(r, "failed") /\ UNCHANGED line
            \/ /\ Finish(r, "done") /\ There(task[r].variant)
               /\ line' \in [Line -> [variant: Variant, price: Price] \cup {NoRow}]
               /\ task[r].id \in Line
               /\ line'[task[r].id] = [variant |-> task[r].variant, price |-> memo[r].price]
               /\ \A l \in Line \ {task[r].id} : line'[l] = line[l]
<1>1. PICK x : x = [variant |-> task[r].variant, price |-> memo[r].price]
  OBVIOUS
<1>2. /\ At(r, "pricing") /\ UNCHANGED <<product, variant, memo, history>>
      /\ \/ Finish(r, "failed") /\ UNCHANGED line
         \/ /\ Finish(r, "done") /\ There(task[r].variant)
            /\ line' = [line EXCEPT ![task[r].id] = x]
  BY <1>1 DEF CommitLine, PriceOfLine, There
<1>3. pc[r] = "pricing"
  BY <1>2, AtHolds
<1>4. task[r].kind = "line" /\ memo[r].price \in Price
  BY <1>3 DEF IInv, HoldsInv, HoldsOf, PointOf, LineOf, LinePoints
<1>5. task[r].variant \in Variant /\ task[r].id \in Line
  BY <1>4, TaskFields DEF IInv, Locks
<1>6. x \in [variant: Variant, price: Price]
  BY <1>1, <1>4, <1>5
<1>7. ASSUME line' = [line EXCEPT ![task[r].id] = x]
      PROVE  /\ line' \in [Line -> [variant: Variant, price: Price] \cup {NoRow}]
             /\ line'[task[r].id] = x
             /\ \A l \in Line \ {task[r].id} : line'[l] = line[l]
  <2>1. line \in [Line -> [variant: Variant, price: Price] \cup {NoRow}]
    BY DEF IInv, Types, TypeOK
  <2>2. QED
    BY <1>5, <1>6, <1>7, <2>1
<1>8. QED
  BY <1>1, <1>2, <1>3, <1>4, <1>5, <1>7

LEMMA CommitLineHolds ==
  ASSUME IInv, NEW r \in Request, CommitLine(r)
  PROVE  IInv'
<1>1. /\ pc[r] = "pricing" /\ UNCHANGED <<product, variant, memo>>
      /\ \/ Finish(r, "failed") /\ UNCHANGED line
         \/ /\ Finish(r, "done")
            /\ line' \in [Line -> [variant: Variant, price: Price] \cup {NoRow}]
  BY CommitLineEffect
<1>2. CASE Finish(r, "failed") /\ UNCHANGED line
  BY <1>1, <1>2, RefusedStep
<1>3. CASE /\ Finish(r, "done")
           /\ line' \in [Line -> [variant: Variant, price: Price] \cup {NoRow}]
  <2>1. Frame(r)
    BY <1>1 DEF Frame, There
  <2>2. ~ Ended(r)
    BY <1>1 DEF Ended
  <2>3. \A v \in Variant : ~ There(v) /\ There(v)' => v \in Keys(task[r])
    BY <1>1 DEF There
  <2>4. QED
    BY <1>1, <1>3, <2>1, <2>2, <2>3, WritingStep DEF IInv, Types, TypeOK
<1>4. QED
  BY <1>1, <1>2, <1>3

-----------------------------------------------------------------------------
(* The invariant *)

LEMMA InitHolds == Init => IInv
<1> SUFFICES ASSUME Init PROVE IInv
  OBVIOUS
<1>1. Locks /\ \A r \in Request : pc[r] = "idle"
  BY LocksInit DEF Init, Locks
<1>2. Types
  <2>1. Nothing \in Notes /\ Nothing.rows = {}
    BY DEF Nothing, Notes
  <2>2. /\ memo \in [Request -> Notes] /\ \A r \in Request : memo[r].rows \subseteq Variant
    BY <2>1 DEF Init
  <2>3. /\ product \subseteq Product /\ variant \in [Variant -> Row \cup {NoRow}]
        /\ line \in [Line -> [variant: Variant, price: Price] \cup {NoRow}]
    BY CatalogAssumption DEF Init
  <2>4. QED
    BY <2>2, <2>3 DEF Types, TypeOK
<1>3. HoldsInv
  <2>1. ASSUME NEW r \in Request
        PROVE  HoldsOf(r)
    <3>1. pc[r] = "idle"
      BY <1>1
    <3>2. QED
      BY <3>1 DEF HoldsOf, PointOf, CreateOf, PatchOf, BatchOf, DropOf, LineOf,
                  BatchPoints, LinePoints
  <2>2. QED
    BY <2>1 DEF HoldsInv
<1>4. KeyInv
  <2>1. \A r \in Request : pc[r] \notin ReadPoints
    BY <1>1 DEF ReadPoints, LinePoints
  <2>2. \A q \in Request : \A v \in Keys(task[q]) : FirstVariant[v] = NoRow
    BY <1>1, FreshKeys DEF Locks
  <2>3. QED
    BY <2>1, <2>2 DEF KeyInv, There, Init
<1>5. QED
  BY <1>1, <1>2, <1>3, <1>4 DEF IInv

LEMMA StutterHolds ==
  ASSUME IInv, UNCHANGED vars
  PROVE  IInv'
<1>1. UNCHANGED <<transaction, product, variant, line, memo>>
  BY DEF vars, tables
<1>2. Types'
  BY <1>1 DEF IInv, Types, TypeOK
<1>3. Locks'
  BY <1>1 DEF transaction, IInv, Locks, LocksInv
<1>4. KeyInv'
  BY <1>1 DEF transaction, IInv, KeyInv, Ended, There
<1>5. HoldsInv'
  <2>1. ASSUME NEW r \in Request
        PROVE  /\ PointOf(r)' = PointOf(r) /\ CreateOf(r)' = CreateOf(r)
               /\ PatchOf(r)' = PatchOf(r) /\ BatchOf(r)' = BatchOf(r)
               /\ DropOf(r)' = DropOf(r) /\ LineOf(r)' = LineOf(r)
    BY <1>1 DEF transaction, PointOf, CreateOf, PatchOf, BatchOf, DropOf, LineOf,
                Reserved, IsOf, There, ProductRow, VariantRow
  <2>2. QED
    BY <2>1 DEF IInv, HoldsInv, HoldsOf
<1>6. QED
  BY <1>2, <1>3, <1>4, <1>5 DEF IInv

LEMMA HandleHolds ==
  ASSUME IInv, NEW r \in Request, Handle(r)
  PROVE  IInv'
<1>1. CASE \/ Acquire(r) /\ UNCHANGED <<tables, memo, history>>
           \/ BeginCreate(r) \/ CheckMode(r) \/ AddVariant(r)
           \/ LoadVariant(r) \/ CheckPatch(r) \/ SaveVariant(r)
           \/ BeginReprice(r) \/ CommitReprice(r)
  BY <1>1, AcquireHolds, BeginCreateHolds, CheckModeHolds, AddVariantHolds,
     LoadVariantHolds, CheckPatchHolds, SaveVariantHolds, BeginRepriceHolds,
     CommitRepriceHolds
<1>2. CASE \/ BeginBatch(r) \/ LockVariants(r) \/ CheckBatch(r) \/ FillBatch(r)
           \/ BeginDrop(r) \/ CommitDrop(r)
           \/ BeginLine(r) \/ InsertLine(r) \/ CommitLine(r)
  BY <1>2, BeginBatchHolds, LockVariantsHolds, CheckBatchHolds, FillBatchHolds,
     BeginDropHolds, CommitDropHolds, BeginLineHolds, InsertLineHolds, CommitLineHolds
<1>3. QED
  BY <1>1, <1>2, Zenon DEF Handle

LEMMA NextHolds == IInv /\ [Next]_vars => IInv'
  BY HandleHolds, RollbackHolds, StutterHolds DEF Next, Finished
\* The actions that change a row: all others only read and lock.
LEMMA WhoWrites ==
  ASSUME [Next]_vars
  PROVE  \/ UNCHANGED <<tables, history>>
         \/ \E r \in Request : \/ AddVariant(r) \/ SaveVariant(r) \/ CommitReprice(r)
                               \/ FillBatch(r) \/ CommitDrop(r) \/ CommitLine(r)
<1>1. ASSUME NEW r \in Request,
             \/ Acquire(r) /\ UNCHANGED <<tables, memo, history>>
             \/ BeginCreate(r) \/ CheckMode(r) \/ LoadVariant(r) \/ CheckPatch(r)
             \/ BeginReprice(r) \/ BeginBatch(r) \/ LockVariants(r) \/ CheckBatch(r)
             \/ BeginDrop(r) \/ BeginLine(r) \/ InsertLine(r) \/ Rollback(r)
      PROVE  UNCHANGED <<tables, history>>
  BY <1>1 DEF BeginCreate, CheckMode, LoadVariant, CheckPatch, BeginReprice, BeginBatch,
              LockVariants, CheckBatch, BeginDrop, BeginLine, InsertLine, Rollback
<1>2. UNCHANGED vars => UNCHANGED <<tables, history>>
  BY DEF vars
<1>3. CASE \E r \in Request : Handle(r) \/ Rollback(r)
  <2>1. PICK r \in Request : Handle(r) \/ Rollback(r)
    BY <1>3
  <2>2. \/ \/ Acquire(r) /\ UNCHANGED <<tables, memo, history>>
           \/ BeginCreate(r) \/ CheckMode(r) \/ LoadVariant(r) \/ CheckPatch(r)
           \/ BeginReprice(r) \/ BeginBatch(r) \/ LockVariants(r) \/ CheckBatch(r)
           \/ BeginDrop(r) \/ BeginLine(r) \/ InsertLine(r) \/ Rollback(r)
        \/ \/ AddVariant(r) \/ SaveVariant(r) \/ CommitReprice(r)
           \/ FillBatch(r) \/ CommitDrop(r) \/ CommitLine(r)
    BY <2>1, Zenon DEF Handle
  <2>3. QED
    BY <1>1, <2>2, Zenon
<1>4. QED
  BY <1>2, <1>3 DEF Next, Finished

-----------------------------------------------------------------------------
(* One mode, and one variant of a size *)

LEMMA ModeInit == Init => ModeInv
  BY FirstVariantsFit DEF Init, ModeInv, There

\* The variants of the set S have got another row, all in the product p; they
\* differ from each other and from the other variants of p.
LEMMA ModeKept ==
  ASSUME ModeInv, NEW S, NEW p,
         \A v \in Variant \ S :
           \/ variant'[v] = variant[v]
           \/ variant'[v] = NoRow
           \/ /\ There(v) /\ variant'[v].product = variant[v].product
              /\ variant'[v].size = variant[v].size,
         \A v \in S : variant'[v].product = p,
         \A v, w \in S : v # w =>
           variant'[v].size # variant'[w].size /\ variant'[v].size # NoSize,
         \A v \in S : \A w \in Variant \ S : IsOf(w, p) =>
           /\ variant[w].size # variant'[v].size
           /\ SameMode(variant[w].size, variant'[v].size)
  PROVE  ModeInv'
<1> SUFFICES ASSUME NEW v \in Variant, NEW w \in Variant, v # w, There(v)', There(w)',
                    variant'[v].product = variant'[w].product
             PROVE  variant'[v].size # variant'[w].size /\ variant'[v].size # NoSize
  BY DEF ModeInv, There
<1>1. \A u \in Variant \ S : There(u)' =>
        /\ There(u) /\ variant'[u].product = variant[u].product
        /\ variant'[u].size = variant[u].size
  BY DEF There
<1>2. CASE v \notin S /\ w \notin S
  BY <1>1, <1>2 DEF ModeInv
<1>3. CASE v \in S /\ w \in S
  BY <1>3
<1>4. CASE v \in S /\ w \notin S
  BY <1>1, <1>4 DEF IsOf, SameMode
<1>5. CASE v \notin S /\ w \in S
  BY <1>1, <1>5 DEF IsOf, SameMode
<1>6. QED
  BY <1>2, <1>3, <1>4, <1>5

LEMMA ModeKeptByOne ==
  ASSUME ModeInv, NEW w, NEW p, NEW size,
         variant'[w].product = p, variant'[w].size = size,
         \A v \in Variant \ {w} : variant'[v] = variant[v],
         \A v \in Variant \ {w} : IsOf(v, p) =>
           variant[v].size # size /\ SameMode(variant[v].size, size)
  PROVE  ModeInv'
<1>1. PICK S : S = {w}
  OBVIOUS
<1>2. /\ \A v \in S : variant'[v].product = p /\ variant'[v].size = size
      /\ \A v \in Variant \ S : variant'[v] = variant[v]
      /\ \A v \in Variant \ S : IsOf(v, p) =>
           variant[v].size # size /\ SameMode(variant[v].size, size)
      /\ \A u, v \in S : u = v
  BY <1>1
<1>3. QED
  BY <1>2, ModeKept

LEMMA ModeNext == IInv /\ ModeInv /\ [Next]_vars => ModeInv'
<1> SUFFICES ASSUME IInv, ModeInv, [Next]_vars PROVE ModeInv'
  OBVIOUS
<1>1. CASE variant' = variant
  BY <1>1 DEF ModeInv, There
<1>2. ASSUME NEW r \in Request, AddVariant(r)
      PROVE  ModeInv'
  <2>1. PICK id, p, size : id = task[r].id /\ p = task[r].product /\ size = task[r].size
    OBVIOUS
  <2>2. \/ variant' = variant
        \/ /\ ~ There(id) /\ variant'[id].product = p /\ variant'[id].size = size
           /\ \A v \in Variant \ {id} : variant'[v] = variant[v]
           /\ \A v \in Variant : IsOf(v, p) =>
                variant[v].size # size /\ SameMode(variant[v].size, size)
    BY <1>2, <2>1, AddVariantEffect
  <2>3. QED
    BY <1>1, <2>2, ModeKeptByOne
<1>3. ASSUME NEW r \in Request, SaveVariant(r)
      PROVE  ModeInv'
  <2>1. PICK w : w = task[r].variant
    OBVIOUS
  <2>2. PICK p, size : p = variant[w].product /\ size = memo[r].size
    OBVIOUS
  <2>3. variant' = variant \/ Saved(r, w)
    BY <1>3, <2>1, SaveVariantEffect
  <2>4. \/ variant' = variant
        \/ /\ variant'[w].product = p /\ variant'[w].size = size
           /\ \A v \in Variant \ {w} : variant'[v] = variant[v]
           /\ \A v \in Variant \ {w} : IsOf(v, p) =>
                variant[v].size # size /\ SameMode(variant[v].size, size)
    BY <2>2, <2>3 DEF Saved
  <2>5. QED
    BY <1>1, <2>4, ModeKeptByOne
<1>4. ASSUME NEW r \in Request, CommitReprice(r)
      PROVE  ModeInv'
  <2>1. CASE \E S \in SUBSET Variant :
               /\ \A v \in S : /\ There(v)
                               /\ variant'[v].product = variant[v].product
                               /\ variant'[v].size = variant[v].size
               /\ \A v \in Variant \ S : variant'[v] = variant[v]
    <3>1. \A v \in Variant : \/ variant'[v] = variant[v]
                             \/ /\ There(v) /\ variant'[v].product = variant[v].product
                                /\ variant'[v].size = variant[v].size
      BY <2>1
    <3>2. QED
      BY <3>1 DEF ModeInv, There
  <2>2. QED
    BY <1>1, <1>4, <2>1, CommitRepriceEffect
<1>5. ASSUME NEW r \in Request, FillBatch(r)
      PROVE  ModeInv'
  <2>1. PICK p, ids : p = task[r].product /\ ids = task[r].ids
    OBVIOUS
  <2>2. pc[r] = "filling" /\ task[r].kind = "batch"
    BY <1>5, FillBatchEffect
  <2>3. /\ \A v \in Variant : v \in memo[r].rows <=> IsOf(v, p)
        /\ \A s, t \in DOMAIN ids : SameMode(s, t)
        /\ \A s \in DOMAIN ids : \A v \in memo[r].rows : SameMode(variant[v].size, s)
    BY <2>1, <2>2 DEF IInv, HoldsInv, HoldsOf, BatchOf
  <2>4. ASSUME NEW new \in SUBSET Variant, Bought(r, p, new)
        PROVE  ModeInv'
    <3>1. \A v \in new : /\ variant'[v].product = p
                         /\ variant'[v].size \in DOMAIN ids
                         /\ v = ids[variant'[v].size]
                         /\ \A w \in memo[r].rows : variant[w].size # variant'[v].size
      BY <2>1, <2>4 DEF Bought, Missing, SizesOf
    <3>2. \A v \in Variant \ new :
            \/ variant'[v] = variant[v]
            \/ /\ There(v) /\ variant'[v].product = variant[v].product
               /\ variant'[v].size = variant[v].size
      BY <2>4 DEF Bought
    <3>3. ASSUME NEW v \in new, NEW w \in new, v # w
          PROVE  variant'[v].size # variant'[w].size /\ variant'[v].size # NoSize
      <4>1. variant'[v].size # variant'[w].size
        BY <3>1, <3>3
      <4>2. SameMode(variant'[v].size, variant'[w].size)
        BY <2>3, <3>1
      <4>3. QED
        BY <4>1, <4>2 DEF SameMode
    <3>4. \A v \in new : \A w \in Variant \ new : IsOf(w, p) =>
            /\ variant[w].size # variant'[v].size
            /\ SameMode(variant[w].size, variant'[v].size)
      BY <2>3, <3>1
    <3>5. QED
      BY <3>1, <3>2, <3>3, <3>4, ModeKept
  <2>5. QED
    BY <1>1, <1>5, <2>1, <2>4, FillBatchEffect
<1>6. ASSUME NEW r \in Request, CommitDrop(r)
      PROVE  ModeInv'
  <2>1. \A v \in Variant : variant'[v] = variant[v] \/ variant'[v] = NoRow
    BY <1>6, CommitDropEffect
  <2>2. QED
    BY <2>1 DEF ModeInv, There
<1>7. ASSUME NEW r \in Request, CommitLine(r)
      PROVE  ModeInv'
  BY <1>1, <1>7, CommitLineEffect
<1>8. UNCHANGED <<tables, history>> => ModeInv'
  BY <1>1 DEF tables
<1>9. QED
  BY <1>2, <1>3, <1>4, <1>5, <1>6, <1>7, <1>8, WhoWrites
LEMMA OneModeOf == TypeOK /\ ModeInv => OneVariantMode
<1> SUFFICES ASSUME TypeOK, ModeInv, NEW p \in Product, NEW S, S = VariantsOf(p)
             PROVE  /\ NoSize \in SizesOf(S) => Cardinality(S) = 1
                    /\ \A v, w \in S : variant[v].size = variant[w].size => v = w
  BY DEF OneVariantMode
<1>1. \A v \in S : v \in Variant /\ There(v) /\ variant[v].product = p
  BY VariantsThere DEF IsOf
<1>2. \A v, w \in S : v # w =>
        variant[v].size # variant[w].size /\ variant[v].size # NoSize
  BY <1>1 DEF ModeInv
<1>3. ASSUME NoSize \in SizesOf(S)
      PROVE  Cardinality(S) = 1
  <2>1. PICK v \in S : variant[v].size = NoSize
    BY <1>3 DEF SizesOf
  <2>2. S = {v}
    BY <1>2, <2>1
  <2>3. Cardinality({v}) = 1
    BY FS_Singleton, Zenon
  <2>4. QED
    BY <2>2, <2>3
<1>4. QED
  BY <1>2, <1>3

\* Requests that overlap in any way leave each product with sized variants, one
\* of a size, or with a single variant without a size: whoever adds a variant
\* or changes a size holds the row of the product since it checked
\* (catalog/services.py:27).
THEOREM OneVariantModeAlways == Spec => []OneVariantMode
<1>1. Init => IInv /\ ModeInv
  BY InitHolds, ModeInit
<1>2. IInv /\ ModeInv /\ [Next]_vars => (IInv /\ ModeInv)'
  BY NextHolds, ModeNext
<1>3. IInv /\ ModeInv => OneVariantMode
  BY OneModeOf DEF IInv, Types
<1>4. QED
  BY <1>1, <1>2, <1>3, PTL DEF Spec

-----------------------------------------------------------------------------
(* What a batch has found *)

LEMMA AllSizesSeen == IInv => BatchSeesAllSizes
<1> SUFFICES ASSUME IInv, NEW r \in Request, pc[r] = "filling"
             PROVE  Missing(r) \cap SizesOf(VariantsOf(task[r].product)) = {}
  BY DEF BatchSeesAllSizes
<1>1. \A v \in Variant : v \in memo[r].rows <=> IsOf(v, task[r].product)
  BY DEF IInv, HoldsInv, HoldsOf, BatchOf
<1>2. \A v \in VariantsOf(task[r].product) : v \in memo[r].rows
  BY <1>1, VariantsThere
<1>3. QED
  BY <1>2 DEF Missing, SizesOf

\* A batch that found sizes missing is the only one to create them: its
\* purchase is never refused by the unique constraint
\* (inventory/services.py:103).
THEOREM BatchSeesAllSizesAlways == Spec => []BatchSeesAllSizes
<1>1. QED
  BY InitHolds, NextHolds, AllSizesSeen, PTL DEF Spec

-----------------------------------------------------------------------------
(* Rows refer to rows that are there *)

LEMMA DanglesInit == Init => NothingDangles
  BY CatalogAssumption DEF Init, NothingDangles, Row

LEMMA LinesOfThere ==
  ASSUME NEW v, NEW l \in Line, LinesOf(v) = {}, line[l] # NoRow
  PROVE  line[l].variant # v
  BY DEF LinesOf

LEMMA LineFields ==
  ASSUME TypeOK, NEW l \in Line, line[l] # NoRow
  PROVE  line[l].variant \in Variant /\ line[l].price \in Price
<1>1. line[l] \in [variant: Variant, price: Price]
  BY DEF TypeOK
<1>2. QED
  BY <1>1

\* Rows are added to, or changed in, products that are there.
LEMMA NothingDanglesAfter ==
  ASSUME NothingDangles, TypeOK, product' = product, line' = line,
         \A v \in Variant : There(v)' =>
           \/ variant'[v].product \in product
           \/ There(v) /\ variant'[v].product = variant[v].product,
         \A v \in Variant : There(v) => There(v)'
  PROVE  NothingDangles'
<1>1. \A v \in Variant : There(v)' => variant'[v].product \in product'
  BY DEF NothingDangles, There
<1>2. \A l \in Line : line'[l] # NoRow => There(line'[l].variant) /\ line'[l].variant \in Variant
  BY LineFields DEF NothingDangles, There
<1>3. \A l \in Line : line'[l] # NoRow => variant'[line'[l].variant] # NoRow
  BY <1>2 DEF There
<1>4. QED
  BY <1>1, <1>3 DEF NothingDangles, There

LEMMA DanglesNext == IInv /\ NothingDangles /\ [Next]_vars => NothingDangles'
<1> SUFFICES ASSUME IInv, NothingDangles, [Next]_vars PROVE NothingDangles'
  OBVIOUS
<1>1. TypeOK
  BY DEF IInv, Types
<1>2. CASE UNCHANGED <<product, variant, line>>
  BY <1>2 DEF NothingDangles
<1>3. ASSUME NEW r \in Request, AddVariant(r)
      PROVE  NothingDangles'
  <2>1. PICK id, p : id = task[r].id /\ p = task[r].product
    OBVIOUS
  <2>2. /\ UNCHANGED <<product, line>> /\ p \in product
        /\ \/ variant' = variant
           \/ /\ variant'[id] \in Row /\ variant'[id].product = p
              /\ \A v \in Variant \ {id} : variant'[v] = variant[v]
    BY <1>3, <2>1, AddVariantEffect
  <2>3. NoRow \notin Row
    BY CatalogAssumption
  <2>4. /\ \A v \in Variant : There(v)' =>
             \/ variant'[v].product \in product
             \/ There(v) /\ variant'[v].product = variant[v].product
        /\ \A v \in Variant : There(v) => There(v)'
    BY <2>2, <2>3 DEF There
  <2>5. QED
    BY <1>1, <2>2, <2>4, NothingDanglesAfter
<1>4. ASSUME NEW r \in Request, SaveVariant(r)
      PROVE  NothingDangles'
  <2>1. PICK w : w = task[r].variant
    OBVIOUS
  <2>2. /\ UNCHANGED <<product, line>> /\ There(w)
        /\ variant' = variant \/ Saved(r, w)
    BY <1>4, <2>1, SaveVariantEffect
  <2>3. NoRow \notin Row
    BY CatalogAssumption
  <2>4. /\ \A v \in Variant : There(v)' =>
             There(v) /\ variant'[v].product = variant[v].product
        /\ \A v \in Variant : There(v) => There(v)'
    BY <2>2, <2>3 DEF There, Saved
  <2>5. QED
    BY <1>1, <2>2, <2>4, NothingDanglesAfter
<1>5. ASSUME NEW r \in Request, CommitReprice(r)
      PROVE  NothingDangles'
  <2>1. CASE \E S \in SUBSET Variant :
               /\ \A v \in S : /\ There(v)
                               /\ variant'[v] \in Row
                               /\ variant'[v].product = variant[v].product
               /\ \A v \in Variant \ S : variant'[v] = variant[v]
    <3>1. NoRow \notin Row
      BY CatalogAssumption
    <3>2. /\ \A v \in Variant : There(v)' =>
               There(v) /\ variant'[v].product = variant[v].product
          /\ \A v \in Variant : There(v) => There(v)'
      BY <2>1, <3>1 DEF There
    <3>3. UNCHANGED <<product, line>>
      BY <1>5, CommitRepriceEffect
    <3>4. QED
      BY <1>1, <3>2, <3>3, NothingDanglesAfter
  <2>2. QED
    BY <1>2, <1>5, <2>1, CommitRepriceEffect
<1>6. ASSUME NEW r \in Request, FillBatch(r)
      PROVE  NothingDangles'
  <2>1. PICK p : p = task[r].product
    OBVIOUS
  <2>2. /\ UNCHANGED <<product, line>> /\ p \in product
        /\ \/ variant' = variant
           \/ \E new \in SUBSET Variant : Bought(r, p, new)
    BY <1>6, <2>1, FillBatchEffect
  <2>3. ASSUME NEW new \in SUBSET Variant, Bought(r, p, new)
        PROVE  NothingDangles'
    <3>1. NoRow \notin Row
      BY CatalogAssumption
    <3>2. /\ \A v \in Variant : There(v)' =>
               \/ variant'[v].product \in product
               \/ There(v) /\ variant'[v].product = variant[v].product
          /\ \A v \in Variant : There(v) => There(v)'
      BY <2>2, <2>3, <3>1 DEF There, Bought
    <3>3. QED
      BY <1>1, <2>2, <3>2, NothingDanglesAfter
  <2>4. QED
    BY <1>2, <2>2, <2>3
<1>7. ASSUME NEW r \in Request, CommitDrop(r)
      PROVE  NothingDangles'
  <2>1. PICK rows : rows = memo[r].rows
    OBVIOUS
  <2>2. line' = line
    BY <1>7, CommitDropEffect
  <2>3. CASE /\ \A v \in rows :
                  VariantRow(v) \in held[r] /\ variant'[v] = NoRow /\ LinesOf(v) = {}
             /\ \A v \in Variant \ rows : variant'[v] = variant[v]
             /\ \/ product' = product
                \/ \E p \in Product :
                     /\ product' = product \ {p} /\ ProductRow(p) \in held[r]
                     /\ VariantsOf(p) \subseteq rows
    <3>1. ASSUME NEW v \in Variant, There(v)'
          PROVE  variant'[v].product \in product'
      <4>1. v \notin rows /\ variant'[v] = variant[v]
        BY <2>3, <3>1 DEF There
      <4>2. There(v) /\ variant[v].product \in product
        BY <3>1, <4>1 DEF There, NothingDangles
      <4>3. \A p : variant[v].product = p => v \in VariantsOf(p)
        BY <4>2, VariantsThere DEF IsOf
      <4>4. QED
        BY <2>3, <4>1, <4>2, <4>3
    <3>2. ASSUME NEW l \in Line, line[l] # NoRow
          PROVE  variant'[line[l].variant] # NoRow
      <4>1. PICK v : v = line[l].variant
        OBVIOUS
      <4>2. v \in Variant /\ There(v)
        BY <1>1, <3>2, <4>1, LineFields DEF There, NothingDangles
      <4>3. v \notin rows
        BY <2>3, <3>2, <4>1, LinesOfThere
      <4>4. QED
        BY <2>3, <4>1, <4>2, <4>3 DEF There
    <3>3. QED
      BY <2>2, <3>1, <3>2 DEF NothingDangles, There
  <2>4. \/ UNCHANGED <<variant, product>>
        \/ /\ \A v \in rows :
                VariantRow(v) \in held[r] /\ variant'[v] = NoRow /\ LinesOf(v) = {}
           /\ \A v \in Variant \ rows : variant'[v] = variant[v]
           /\ \/ product' = product
              \/ \E p \in Product :
                   /\ product' = product \ {p} /\ ProductRow(p) \in held[r]
                   /\ VariantsOf(p) \subseteq rows
    BY <1>7, <2>1, CommitDropEffect
  <2>5. CASE UNCHANGED <<variant, product>>
    BY <1>2, <2>2, <2>5
  <2>6. QED
    BY <2>3, <2>4, <2>5, Zenon
<1>8. ASSUME NEW r \in Request, CommitLine(r)
      PROVE  NothingDangles'
  <2>1. PICK id, w, price : id = task[r].id /\ w = task[r].variant /\ price = memo[r].price
    OBVIOUS
  <2>2. /\ UNCHANGED <<product, variant>>
        /\ \/ line' = line
           \/ /\ There(w) /\ line'[id] = [variant |-> w, price |-> price]
              /\ \A l \in Line \ {id} : line'[l] = line[l]
    BY <1>8, <2>1, CommitLineEffect
  <2>3. line' = line \/ (There(w) /\ line'[id].variant = w)
    BY <2>2
  <2>4. \A v \in Variant : There(v)' => variant'[v].product \in product'
    BY <2>2 DEF There, NothingDangles
  <2>5. \A l \in Line : line'[l] # NoRow => variant'[line'[l].variant] # NoRow
    BY <2>2, <2>3 DEF There, NothingDangles
  <2>6. QED
    BY <2>4, <2>5 DEF There, NothingDangles
<1>9. UNCHANGED <<tables, history>> => NothingDangles'
  BY <1>2 DEF tables
<1>10. QED
  BY <1>3, <1>4, <1>5, <1>6, <1>7, <1>8, <1>9, WhoWrites

\* The tables are well formed, and no line, variant or product is deleted from
\* under what refers to it, though a deletion looks for that before it locks
\* anything (catalog/api/views.py:195, 315).
THEOREM TablesSoundAlways == Spec => []TablesSound
<1>1. Init => IInv /\ NothingDangles
  BY InitHolds, DanglesInit
<1>2. IInv /\ NothingDangles /\ [Next]_vars => (IInv /\ NothingDangles)'
  BY NextHolds, DanglesNext
<1>3. IInv /\ NothingDangles => TablesSound
  BY DEF IInv, Types, TablesSound
<1>4. QED
  BY <1>1, <1>2, <1>3, PTL DEF Spec
-----------------------------------------------------------------------------
(* The price last asked for *)

\* What was asked for is noted for every variant.
AskedInv == DOMAIN asked = Variant /\ PriceIsLastAskedUnlessStale

LEMMA AskedInit == Init => AskedInv
  BY DEF Init, AskedInv, PriceIsLastAskedUnlessStale

\* A row that a step leaves alone, and about which nothing is noted, or a row
\* that gets the price that is noted.
LEMMA AskedAfter ==
  ASSUME AskedInv, DOMAIN asked' = Variant,
         \A v \in Variant : There(v)' =>
           \/ variant'[v].price = asked'[v]
           \/ v \in stale'
           \/ /\ There(v) /\ variant'[v].price = variant[v].price
              /\ asked'[v] = asked[v] /\ (v \in stale => v \in stale')
  PROVE  AskedInv'
  BY DEF AskedInv, PriceIsLastAskedUnlessStale, There

LEMMA AskedNext == IInv /\ AskedInv /\ [Next]_vars => AskedInv'
<1> SUFFICES ASSUME IInv, AskedInv, [Next]_vars PROVE AskedInv'
  OBVIOUS
<1>1. DOMAIN asked = Variant
  BY DEF AskedInv
<1>2. CASE UNCHANGED <<variant, asked, stale>>
  BY <1>2 DEF AskedInv, PriceIsLastAskedUnlessStale
<1>3. ASSUME NEW r \in Request, AddVariant(r)
      PROVE  AskedInv'
  <2>1. PICK id, price : id = task[r].id /\ price = task[r].price
    OBVIOUS
  <2>2. /\ UNCHANGED stale
        /\ \/ UNCHANGED <<variant, asked>>
           \/ /\ id \in Variant /\ asked' = [asked EXCEPT ![id] = price]
              /\ variant'[id].price = price
              /\ \A v \in Variant \ {id} : variant'[v] = variant[v]
    BY <1>3, <2>1, AddVariantEffect
  <2>3. CASE /\ id \in Variant /\ asked' = [asked EXCEPT ![id] = price]
             /\ variant'[id].price = price
             /\ \A v \in Variant \ {id} : variant'[v] = variant[v]
    <3>1. /\ DOMAIN asked' = Variant /\ asked'[id] = price
          /\ \A v \in Variant \ {id} : asked'[v] = asked[v]
      BY <1>1, <2>3
    <3>2. QED
      BY <2>2, <2>3, <3>1, AskedAfter DEF There
  <2>4. QED
    BY <1>2, <2>2, <2>3
<1>4. ASSUME NEW r \in Request, SaveVariant(r)
      PROVE  AskedInv'
  <2>1. PICK w : w = task[r].variant
    OBVIOUS
  <2>2. PICK old, new, wish : old = variant[w].price /\ new = memo[r].price /\ wish = task[r].price
    OBVIOUS
  <2>3. w \in Variant /\ There(w)
    BY <1>4, <2>1, SaveVariantEffect
  <2>4. \/ UNCHANGED <<variant, history>>
        \/ Saved(r, w) /\ Noted(r, w)
    BY <1>4, <2>1, SaveVariantEffect
  <2>5. ASSUME Saved(r, w), wish # Omitted => new = wish,
               asked' = [asked EXCEPT ![w] = IF wish = Omitted THEN @ ELSE wish],
               stale' = IF wish # Omitted THEN stale \ {w}
                        ELSE stale \cup {v \in {w} : variant[v].price # new}
        PROVE  AskedInv'
    <3>1. /\ variant'[w].price = new
          /\ \A v \in Variant \ {w} : variant'[v] = variant[v]
      BY <2>2, <2>5 DEF Saved
    <3>2. /\ DOMAIN asked' = Variant
          /\ asked'[w] = IF wish = Omitted THEN asked[w] ELSE wish
          /\ \A v \in Variant \ {w} : asked'[v] = asked[v]
      BY <1>1, <2>3, <2>5
    <3>3. \A v \in Variant \ {w} : v \in stale => v \in stale'
      BY <2>5
    <3>4. CASE wish # Omitted
      BY <2>5, <3>1, <3>2, <3>3, <3>4, AskedAfter DEF There
    <3>5. CASE wish = Omitted
      <4>1. new = old \/ w \in stale'
        BY <2>2, <2>5, <3>5
      <4>2. w \in stale => w \in stale'
        BY <2>5, <3>5
      <4>3. QED
        BY <2>2, <2>3, <3>1, <3>2, <3>3, <3>5, <4>1, <4>2, AskedAfter DEF There
    <3>6. QED
      BY <3>4, <3>5
  <2>6. QED
    BY <1>2, <2>2, <2>4, <2>5 DEF Noted, history
<1>5. ASSUME NEW r \in Request, CommitReprice(r)
      PROVE  AskedInv'
  <2>1. PICK price : price = task[r].price
    OBVIOUS
  <2>2. CASE \E S \in SUBSET Variant :
               /\ \A v \in S : There(v) /\ variant'[v].price = price
               /\ \A v \in Variant \ S : variant'[v] = variant[v]
               /\ asked' = [v \in Variant |-> IF v \in S THEN price ELSE asked[v]]
               /\ stale' = stale \ S
    <3>1. PICK S \in SUBSET Variant :
               /\ \A v \in S : There(v) /\ variant'[v].price = price
               /\ \A v \in Variant \ S : variant'[v] = variant[v]
               /\ asked' = [v \in Variant |-> IF v \in S THEN price ELSE asked[v]]
               /\ stale' = stale \ S
      BY <2>2
    <3>2. /\ DOMAIN asked' = Variant /\ \A v \in S : asked'[v] = price
          /\ \A v \in Variant \ S : asked'[v] = asked[v] /\ (v \in stale => v \in stale')
      BY <3>1
    <3>3. QED
      BY <3>1, <3>2, AskedAfter DEF There
  <2>3. QED
    BY <1>2, <1>5, <2>1, <2>2, CommitRepriceEffect DEF history
<1>6. ASSUME NEW r \in Request, FillBatch(r)
      PROVE  AskedInv'
  <2>1. PICK p, price : p = task[r].product /\ price = task[r].price
    OBVIOUS
  <2>2. /\ UNCHANGED stale
        /\ UNCHANGED <<variant, asked>> \/ \E new \in SUBSET Variant : Bought(r, p, new)
    BY <1>6, <2>1, FillBatchEffect
  <2>3. ASSUME NEW new \in SUBSET Variant, Bought(r, p, new)
        PROVE  AskedInv'
    <3>1. asked' = [v \in Variant |-> IF v \in new THEN price ELSE asked[v]]
      BY <2>1, <2>3 DEF Bought
    <3>2. /\ \A v \in new : variant'[v].price = price
          /\ \A v \in Variant \ new : There(v)' =>
               There(v) /\ variant'[v].price = variant[v].price
      BY <2>1, <2>3 DEF Bought, There
    <3>3. /\ DOMAIN asked' = Variant /\ \A v \in new : asked'[v] = price
          /\ \A v \in Variant \ new : asked'[v] = asked[v]
      BY <3>1
    <3>4. QED
      BY <2>2, <3>2, <3>3, AskedAfter
  <2>4. QED
    BY <1>2, <2>2, <2>3
<1>7. ASSUME NEW r \in Request, CommitDrop(r)
      PROVE  AskedInv'
  <2>1. UNCHANGED <<asked, stale>>
    BY <1>7, CommitDropEffect DEF history
  <2>2. \A v \in Variant : variant'[v] = variant[v] \/ variant'[v] = NoRow
    BY <1>7, CommitDropEffect
  <2>3. QED
    BY <1>1, <2>1, <2>2, AskedAfter DEF There
<1>8. ASSUME NEW r \in Request, CommitLine(r)
      PROVE  AskedInv'
  BY <1>2, <1>8, CommitLineEffect DEF history
<1>9. UNCHANGED <<tables, history>> => AskedInv'
  BY <1>2 DEF tables, history
<1>10. QED
  BY <1>3, <1>4, <1>5, <1>6, <1>7, <1>8, <1>9, WhoWrites

\* A variant costs what was last asked for it or for its product, however
\* requests overlap; only a PATCH that leaves the price out, and has read the
\* row before, brings back an older price (catalog/api/views.py:308).
THEOREM PriceIsLastAskedUnlessStaleAlways == Spec => []PriceIsLastAskedUnlessStale
<1>1. Init => IInv /\ AskedInv
  BY InitHolds, AskedInit
<1>2. IInv /\ AskedInv /\ [Next]_vars => (IInv /\ AskedInv)'
  BY NextHolds, AskedNext
<1>3. AskedInv => PriceIsLastAskedUnlessStale
  BY DEF AskedInv
<1>4. QED
  BY <1>1, <1>2, <1>3, PTL DEF Spec
-----------------------------------------------------------------------------
(* Where a step takes a request *)

LEMMA Moved ==
  ASSUME Locks, NEW r \in Request, NEW where, NEW rows,
         Goto(r, where, rows) \/ Finish(r, where)
  PROVE  pc'[r] = where /\ OthersRest(r)
  BY DEF Goto, Finish, Locks, LocksInv, OthersRest

LEMMA MovedIf ==
  ASSUME Locks, NEW r \in Request, NEW ok, NEW where, NEW rows,
         GotoIf(ok, r, where, rows)
  PROVE  (pc'[r] = where \/ pc'[r] = "failed") /\ OthersRest(r)
  BY Moved DEF GotoIf

LEMMA VariantMoves ==
  ASSUME Locks, NEW r \in Request
  PROVE  /\ BeginCreate(r) => pc'[r] \in {"create", "failed"} /\ OthersRest(r)
         /\ CheckMode(r) => pc'[r] \in {"adding", "failed"} /\ OthersRest(r)
         /\ LoadVariant(r) => pc'[r] \in {"patch", "failed"} /\ OthersRest(r)
         /\ CheckPatch(r) => pc'[r] \in {"saving", "failed"} /\ OthersRest(r)
         /\ BeginReprice(r) => pc'[r] \in {"reprice", "failed"} /\ OthersRest(r)
<1>1. BeginCreate(r) => pc'[r] \in {"create", "failed"} /\ OthersRest(r)
  BY MovedIf DEF BeginCreate
<1>2. CheckMode(r) => pc'[r] \in {"adding", "failed"} /\ OthersRest(r)
  BY MovedIf DEF CheckMode
<1>3. LoadVariant(r) => pc'[r] \in {"patch", "failed"} /\ OthersRest(r)
  BY Moved DEF LoadVariant
<1>4. CheckPatch(r) => pc'[r] \in {"saving", "failed"} /\ OthersRest(r)
  BY MovedIf DEF CheckPatch
<1>5. BeginReprice(r) => pc'[r] \in {"reprice", "failed"} /\ OthersRest(r)
  BY Moved DEF BeginReprice
<1>6. QED
  BY <1>1, <1>2, <1>3, <1>4, <1>5

LEMMA BatchMoves ==
  ASSUME Locks, NEW r \in Request
  PROVE  /\ BeginBatch(r) => pc'[r] \in {"batch", "failed"} /\ OthersRest(r)
         /\ LockVariants(r) => pc'[r] \in {"checking", "failed"} /\ OthersRest(r)
         /\ CheckBatch(r) => pc'[r] \in {"filling", "failed"} /\ OthersRest(r)
         /\ BeginDrop(r) => pc'[r] \in {"drop", "failed"} /\ OthersRest(r)
         /\ BeginLine(r) => pc'[r] \in {"line", "failed"} /\ OthersRest(r)
         /\ InsertLine(r) => pc'[r] = "pricing" /\ OthersRest(r)
         /\ Rollback(r) => pc'[r] = "failed" /\ OthersRest(r)
<1>1. BeginBatch(r) => pc'[r] \in {"batch", "failed"} /\ OthersRest(r)
  BY MovedIf DEF BeginBatch
<1>2. LockVariants(r) => pc'[r] \in {"checking", "failed"} /\ OthersRest(r)
  BY Moved DEF LockVariants
<1>3. CheckBatch(r) => pc'[r] \in {"filling", "failed"} /\ OthersRest(r)
  BY MovedIf DEF CheckBatch
<1>4. BeginDrop(r) => pc'[r] \in {"drop", "failed"} /\ OthersRest(r)
  BY Moved DEF BeginDrop
<1>5. BeginLine(r) => pc'[r] \in {"line", "failed"} /\ OthersRest(r)
  BY Moved DEF BeginLine
<1>6. InsertLine(r) => pc'[r] = "pricing" /\ OthersRest(r)
  BY Moved DEF InsertLine
<1>7. Rollback(r) => pc'[r] = "failed" /\ OthersRest(r)
  BY Moved DEF Rollback, Crash, ResolveDeadlock
<1>8. QED
  BY <1>1, <1>2, <1>3, <1>4, <1>5, <1>6, <1>7

LEMMA WritersMove ==
  ASSUME Locks, NEW r \in Request,
         \/ AddVariant(r) \/ SaveVariant(r) \/ CommitReprice(r)
         \/ FillBatch(r) \/ CommitDrop(r) \/ CommitLine(r)
  PROVE  OthersRest(r) /\ pc'[r] \in {"done", "failed"}
<1>1. Finish(r, "done") \/ Finish(r, "failed")
  BY Zenon DEF AddVariant, SaveVariant, CommitReprice, FillBatch, CommitDrop, CommitLine
<1>2. QED
  BY <1>1, Moved

\* The actions that take a request to the points of a line, and to its end.
LEMMA WhoMoves ==
  ASSUME Locks, NEW r \in Request, Handle(r) \/ Rollback(r)
  PROVE  /\ OthersRest(r)
         /\ pc'[r] \in LinePoints =>
              \/ BeginLine(r) \/ InsertLine(r)
              \/ Acquire(r) /\ UNCHANGED <<tables, memo, history>> /\ pc'[r] = pc[r]
         /\ pc'[r] = "done" =>
              \/ AddVariant(r) \/ SaveVariant(r) \/ CommitReprice(r)
              \/ FillBatch(r) \/ CommitDrop(r) \/ CommitLine(r) \/ pc[r] = "done"
<1>1. Acquire(r) => pc'[r] = pc[r] /\ OthersRest(r)
  BY AcquireEffect DEF Locks
<1>2. CASE Acquire(r) /\ UNCHANGED <<tables, memo, history>>
  BY <1>1, <1>2
<1>3. CASE \/ BeginCreate(r) \/ CheckMode(r) \/ LoadVariant(r) \/ CheckPatch(r)
           \/ BeginReprice(r)
  BY <1>3, VariantMoves DEF LinePoints
<1>4. CASE \/ BeginBatch(r) \/ LockVariants(r) \/ CheckBatch(r) \/ BeginDrop(r)
           \/ BeginLine(r) \/ InsertLine(r) \/ Rollback(r)
  BY <1>4, BatchMoves DEF LinePoints
<1>5. CASE \/ AddVariant(r) \/ SaveVariant(r) \/ CommitReprice(r)
           \/ FillBatch(r) \/ CommitDrop(r) \/ CommitLine(r)
  BY <1>5, WritersMove DEF LinePoints
<1>6. \/ Acquire(r) /\ UNCHANGED <<tables, memo, history>>
      \/ \/ BeginCreate(r) \/ CheckMode(r) \/ LoadVariant(r) \/ CheckPatch(r)
         \/ BeginReprice(r)
      \/ \/ BeginBatch(r) \/ LockVariants(r) \/ CheckBatch(r) \/ BeginDrop(r)
         \/ BeginLine(r) \/ InsertLine(r) \/ Rollback(r)
      \/ \/ AddVariant(r) \/ SaveVariant(r) \/ CommitReprice(r)
         \/ FillBatch(r) \/ CommitDrop(r) \/ CommitLine(r)
  BY Zenon DEF Handle
<1>7. QED
  BY <1>2, <1>3, <1>4, <1>5, <1>6, Zenon

LEMMA MemoOfOthers ==
  ASSUME Types, NEW r \in Request, Handle(r) \/ Rollback(r), NEW q \in Request \ {r}
  PROVE  memo'[q] = memo[q]
<1>1. memo \in [Request -> Notes]
  BY DEF Types
<1>2. CASE \/ Acquire(r) /\ UNCHANGED <<tables, memo, history>>
           \/ BeginCreate(r) \/ CheckMode(r) \/ CheckPatch(r) \/ BeginReprice(r)
           \/ BeginBatch(r) \/ LockVariants(r) \/ InsertLine(r) \/ Rollback(r)
  BY <1>2 DEF BeginCreate, CheckMode, CheckPatch, BeginReprice, BeginBatch, LockVariants,
              InsertLine, Rollback
<1>3. CASE \/ AddVariant(r) \/ SaveVariant(r) \/ CommitReprice(r)
           \/ FillBatch(r) \/ CommitDrop(r) \/ CommitLine(r)
  <2>1. memo' = memo
    BY <1>3, Zenon DEF AddVariant, SaveVariant, CommitReprice, FillBatch, CommitDrop, CommitLine
  <2>2. QED
    BY <2>1
<1>4. CASE LoadVariant(r)
  BY <1>1, <1>4 DEF LoadVariant
<1>5. CASE CheckBatch(r)
  BY <1>1, <1>5 DEF CheckBatch
<1>6. CASE BeginDrop(r)
  BY <1>1, <1>6 DEF BeginDrop
<1>7. CASE BeginLine(r)
  BY <1>1, <1>7 DEF BeginLine
<1>8. \/ \/ Acquire(r) /\ UNCHANGED <<tables, memo, history>>
         \/ BeginCreate(r) \/ CheckMode(r) \/ CheckPatch(r) \/ BeginReprice(r)
         \/ BeginBatch(r) \/ LockVariants(r) \/ InsertLine(r) \/ Rollback(r)
      \/ \/ AddVariant(r) \/ SaveVariant(r) \/ CommitReprice(r)
         \/ FillBatch(r) \/ CommitDrop(r) \/ CommitLine(r)
      \/ LoadVariant(r) \/ CheckBatch(r) \/ BeginDrop(r) \/ BeginLine(r)
  BY Zenon DEF Handle
<1>9. QED
  BY <1>2, <1>3, <1>4, <1>5, <1>6, <1>7, <1>8, Zenon

LEMMA StepOf ==
  ASSUME [Next]_vars
  PROVE  \/ UNCHANGED <<transaction, tables, memo, history>>
         \/ \E r \in Request : Handle(r) \/ Rollback(r)
  BY DEF Next, Finished, vars
-----------------------------------------------------------------------------
(* The price a line was read at *)

LEMMA PriceReadInit == Init => PriceReadInv
<1> SUFFICES ASSUME Init PROVE PriceReadInv
  OBVIOUS
<1>1. \A r \in Request : pc[r] \notin LinePoints
  BY LocksInit DEF Init, LinePoints
<1>2. QED
  BY <1>1 DEF PriceReadInv

\* Whoever replaces the price of a variant notes the requests that have read it.
LEMMA RepricedNoted ==
  ASSUME IInv, NEW r \in Request,
         \/ AddVariant(r) \/ SaveVariant(r) \/ CommitReprice(r)
         \/ FillBatch(r) \/ CommitDrop(r) \/ CommitLine(r),
         NEW q \in Request, pc[q] \in LinePoints, NEW w, w = task[q].variant, There(w)'
  PROVE  /\ repriced \subseteq repriced'
         /\ There(w) /\ (variant'[w].price = variant[w].price \/ q \in repriced')
<1>1. task[q].kind = "line" /\ Running(q)
  BY DEF IInv, HoldsInv, HoldsOf, PointOf, LinePoints, Running, Ended
<1>2. w \in Variant
  BY <1>1, TaskFields DEF IInv, Locks
<1>3. \A S : w \in S => q \in Overtaken(S)
  BY <1>1 DEF Overtaken
<1>4. \A v \in Keys(task[r]) : ~ Ended(r) => w # v
  BY DEF IInv, KeyInv, ReadPoints
<1>5. CASE variant' = variant /\ repriced' = repriced
  BY <1>5 DEF There
<1>6. CASE AddVariant(r)
  <2>1. PICK id : id = task[r].id
    OBVIOUS
  <2>2. /\ pc[r] = "adding" /\ repriced' = repriced
        /\ \/ variant' = variant
           \/ id \in Keys(task[r]) /\ \A v \in Variant \ {id} : variant'[v] = variant[v]
    BY <1>6, <2>1, AddVariantEffect
  <2>3. ~ Ended(r)
    BY <2>2 DEF Ended
  <2>4. variant'[w] = variant[w]
    BY <1>2, <1>4, <2>2, <2>3
  <2>5. QED
    BY <2>2, <2>4 DEF There
<1>7. CASE SaveVariant(r)
  <2>1. PICK x : x = task[r].variant
    OBVIOUS
  <2>2. PICK old, new : old = variant[x].price /\ new = memo[r].price
    OBVIOUS
  <2>3. /\ There(x)
        /\ \/ UNCHANGED <<variant, history>>
           \/ /\ Saved(r, x)
              /\ repriced' = repriced \cup
                   {p \in Overtaken({x}) : variant[x].price # memo[r].price}
    BY <1>7, <2>1, SaveVariantEffect
  <2>4. CASE Saved(r, x) /\ repriced' = repriced \cup {p \in Overtaken({x}) : old # new}
    <3>1. CASE w = x
      BY <1>3, <2>2, <2>3, <2>4, <3>1 DEF Saved
    <3>2. CASE w # x
      BY <1>2, <2>4, <3>2 DEF Saved, There
    <3>3. QED
      BY <3>1, <3>2
  <2>5. QED
    BY <1>5, <2>2, <2>3, <2>4 DEF history
<1>8. CASE CommitReprice(r)
  <2>1. CASE \E S \in SUBSET Variant :
               /\ \A v \in S : There(v)
               /\ \A v \in Variant \ S : variant'[v] = variant[v]
               /\ repriced' = repriced \cup Overtaken(S)
    BY <1>2, <1>3, <2>1 DEF There
  <2>2. QED
    BY <1>5, <1>8, <2>1, CommitRepriceEffect DEF history
<1>9. CASE FillBatch(r)
  <2>1. PICK p : p = task[r].product
    OBVIOUS
  <2>2. /\ pc[r] = "filling" /\ repriced' = repriced
        /\ variant' = variant \/ \E new \in SUBSET Variant : Bought(r, p, new)
    BY <1>9, <2>1, FillBatchEffect
  <2>3. ~ Ended(r)
    BY <2>2 DEF Ended
  <2>4. ASSUME NEW new \in SUBSET Variant, Bought(r, p, new)
        PROVE  There(w) /\ variant'[w].price = variant[w].price
    <3>1. w \notin new
      BY <1>4, <2>3, <2>4 DEF Bought
    <3>2. QED
      BY <1>2, <2>4, <3>1 DEF Bought, There
  <2>5. QED
    BY <1>5, <2>2, <2>4
<1>10. CASE CommitDrop(r)
  <2>1. repriced' = repriced
    BY <1>10, CommitDropEffect DEF history
  <2>2. \A v \in Variant : variant'[v] = variant[v] \/ variant'[v] = NoRow
    BY <1>10, CommitDropEffect
  <2>3. QED
    BY <1>2, <2>1, <2>2 DEF There
<1>11. CASE CommitLine(r)
  BY <1>5, <1>11, CommitLineEffect DEF history
<1>12. QED
  BY <1>6, <1>7, <1>8, <1>9, <1>10, <1>11

LEMMA PriceReadNext == IInv /\ PriceReadInv /\ [Next]_vars => PriceReadInv'
<1> SUFFICES ASSUME IInv, PriceReadInv, [Next]_vars PROVE PriceReadInv'
  OBVIOUS
<1>1. CASE UNCHANGED <<transaction, tables, memo, history>>
  BY <1>1 DEF transaction, tables, history, PriceReadInv, There
<1>2. ASSUME NEW r \in Request, Handle(r) \/ Rollback(r)
      PROVE  PriceReadInv'
  <2>1. /\ task' = task /\ \A q \in Request \ {r} : pc'[q] = pc[q]
        /\ \A q \in Request \ {r} : memo'[q] = memo[q]
    BY <1>2, WhoMoves, MemoOfOthers DEF IInv, OthersRest
  <2>2. ASSUME NEW q \in Request, pc[q] \in LinePoints, NEW w, w = task[q].variant, There(w)'
        PROVE  /\ repriced \subseteq repriced'
               /\ There(w) /\ (variant'[w].price = variant[w].price \/ q \in repriced')
    <3>1. CASE UNCHANGED <<tables, history>>
      BY <2>2, <3>1 DEF tables, history, There
    <3>2. CASE \E s \in Request : \/ AddVariant(s) \/ SaveVariant(s) \/ CommitReprice(s)
                                  \/ FillBatch(s) \/ CommitDrop(s) \/ CommitLine(s)
      BY <2>2, <3>2, RepricedNoted
    <3>3. QED
      BY <3>1, <3>2, WhoWrites
  <2>3. ASSUME NEW q \in Request, pc'[q] \in LinePoints, NEW w, w = task[q].variant, There(w)'
        PROVE  memo'[q].price = variant'[w].price \/ q \in repriced'
    <3>1. CASE pc[q] \in LinePoints /\ memo'[q] = memo[q]
      <4>1. /\ repriced \subseteq repriced'
            /\ There(w) /\ (variant'[w].price = variant[w].price \/ q \in repriced')
        BY <2>2, <2>3, <3>1
      <4>2. memo[q].price = variant[w].price \/ q \in repriced
        BY <2>3, <3>1, <4>1 DEF PriceReadInv
      <4>3. QED
        BY <3>1, <4>1, <4>2
    <3>2. CASE q # r
      BY <2>1, <2>3, <3>1, <3>2
    <3>3. CASE q = r /\ BeginLine(r)
      <4>1. \/ Finish(r, "failed")
            \/ variant' = variant /\ memo' = [memo EXCEPT ![r].price = variant[w].price]
        BY <2>3, <3>3 DEF BeginLine, tables
      <4>2. ~ Finish(r, "failed")
        <5>1. Finish(r, "failed") => pc'[r] = "failed"
          BY Moved DEF IInv
        <5>2. QED
          BY <2>3, <3>3, <5>1 DEF LinePoints
      <4>3. memo[r] \in Notes /\ memo \in [Request -> Notes]
        BY DEF IInv, Types
      <4>4. memo'[r] = [memo[r] EXCEPT !.price = variant[w].price]
        BY <4>1, <4>2, <4>3
      <4>5. memo'[r].price = variant[w].price
        BY <4>3, <4>4 DEF Notes
      <4>6. QED
        BY <3>3, <4>1, <4>2, <4>5
    <3>4. CASE q = r /\ InsertLine(r)
      <4>1. At(r, "line") /\ memo' = memo
        BY <3>4 DEF InsertLine
      <4>2. pc[r] \in LinePoints
        BY <4>1, AtHolds DEF LinePoints
      <4>3. QED
        BY <3>1, <3>4, <4>1, <4>2
    <3>5. CASE q = r /\ UNCHANGED <<tables, memo, history>> /\ pc'[r] = pc[r]
      BY <2>3, <3>1, <3>5
    <3>6. QED
      BY <1>2, <2>3, <3>2, <3>3, <3>4, <3>5, WhoMoves DEF IInv
  <2>4. QED
    BY <2>1, <2>3 DEF PriceReadInv
<1>3. QED
  BY <1>1, <1>2, StepOf

\* A line is added at the price its variant has at that moment, unless the
\* price was replaced after the request had read it, without any lock
\* (sales/services.py:72).
THEOREM LinePriceIsCurrentUnlessRepricedAlways == Spec => LinePriceIsCurrentUnlessRepriced
<1>1. Init => IInv /\ PriceReadInv
  BY InitHolds, PriceReadInit
<1>2. IInv /\ PriceReadInv /\ [Next]_vars => (IInv /\ PriceReadInv)'
  BY NextHolds, PriceReadNext
<1>3. ASSUME IInv, PriceReadInv, [Next]_vars, NEW r \in Request,
             task[r].kind = "line", pc[r] # "done", pc'[r] = "done"
      PROVE  \/ line'[task[r].id].price = variant[task[r].variant].price
             \/ r \in repriced
  <2>1. PICK s \in Request : Handle(s) \/ Rollback(s)
    BY <1>3, StepOf DEF transaction
  <2>2. s = r
    BY <1>3, <2>1, WhoMoves DEF IInv, OthersRest
  <2>3. \/ AddVariant(r) \/ SaveVariant(r) \/ CommitReprice(r)
        \/ FillBatch(r) \/ CommitDrop(r) \/ CommitLine(r)
    BY <1>3, <2>1, <2>2, WhoMoves DEF IInv
  <2>4. /\ ~ AddVariant(r) /\ ~ SaveVariant(r) /\ ~ CommitReprice(r)
        /\ ~ FillBatch(r) /\ ~ CommitDrop(r)
    <3>1. ~ AddVariant(r)
      BY <1>3, AddVariantEffect
    <3>2. ~ SaveVariant(r)
      BY <1>3, SaveVariantEffect
    <3>3. ~ CommitReprice(r)
      BY <1>3, CommitRepriceEffect
    <3>4. ~ FillBatch(r)
      BY <1>3, FillBatchEffect
    <3>5. ~ CommitDrop(r)
      <4>1. CommitDrop(r) => pc[r] = "drop"
        BY <1>3, CommitDropEffect
      <4>2. pc[r] # "drop"
        BY <1>3 DEF IInv, HoldsInv, HoldsOf, PointOf
      <4>3. QED
        BY <4>1, <4>2
    <3>6. QED
      BY <3>1, <3>2, <3>3, <3>4, <3>5
  <2>5. CommitLine(r)
    BY <2>3, <2>4
  <2>6. PICK id, w, price : id = task[r].id /\ w = task[r].variant /\ price = memo[r].price
    OBVIOUS
  <2>7. /\ pc[r] = "pricing"
        /\ \/ Finish(r, "failed")
           \/ There(w) /\ line'[id] = [variant |-> w, price |-> price]
    BY <1>3, <2>5, <2>6, CommitLineEffect
  <2>8. ~ Finish(r, "failed")
    <3>1. Finish(r, "failed") => pc'[r] = "failed"
      BY <1>3, Moved DEF IInv
    <3>2. QED
      BY <1>3, <3>1
  <2>9. There(w) /\ line'[id].price = price
    BY <2>7, <2>8
  <2>10. price = variant[w].price \/ r \in repriced
    BY <1>3, <2>6, <2>7, <2>9 DEF PriceReadInv, LinePoints
  <2>11. QED
    BY <2>6, <2>9, <2>10
<1>4. IInv /\ PriceReadInv /\ [Next]_vars =>
        [\A r \in Request :
           task[r].kind = "line" /\ pc[r] # "done" /\ pc'[r] = "done"
             => \/ line'[task[r].id].price = variant[task[r].variant].price
                \/ r \in repriced]_vars
  BY <1>3
<1>5. QED
  BY <1>1, <1>2, <1>4, PTL DEF Spec, LinePriceIsCurrentUnlessRepriced
=============================================================================
