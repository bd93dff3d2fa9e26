----------------------------- MODULE MCCatalog -----------------------------
(***************************************************************************)
(* An instance of Catalog for TLC: a product with two sizes and a product  *)
(* without variants.                                                       *)
(***************************************************************************)
EXTENDS Catalog, TLC

CONSTANTS shirt, belt, v1, v2, v3, v4, v5, small, large, huge, cheap, dear, sale,
          l1, l2, r1, r2, r3, r4

Shirt(size) == [product |-> shirt, size |-> size, price |-> cheap, stock |-> 0]
MCFirstVariant == (v1 :> Shirt(small)) @@ (v2 :> Shirt(large))
               @@ [v \in {v3, v4, v5} |-> NoRow]

New(p, size, v) ==
  [kind |-> "create", product |-> p, size |-> size, price |-> cheap, id |-> v]
Patch(v, size, pr) == [kind |-> "patch", variant |-> v, size |-> size, price |-> pr]
Reprice(p, pr) == [kind |-> "reprice", product |-> p, price |-> pr]
Batch(p, ids, pr) == [kind |-> "batch", product |-> p, ids |-> ids, price |-> pr]
Drop(v) == [kind |-> "drop", variant |-> v]
DropProduct(p) == [kind |-> "dropProduct", product |-> p]
Sell(v, l) == [kind |-> "line", variant |-> v, id |-> l]

Together(a, b, c, d) == (r1 :> a) @@ (r2 :> b) @@ (r3 :> c) @@ (r4 :> d)

\* Variants of both modes added side by side; batches that buy a size which
\* another request adds, renames or drops; prices that overtake each other.
MCTraffic ==
  { Together(New(belt, NoSize, v3), New(belt, small, v4),
             Batch(belt, large :> v5, dear), DropProduct(belt)),
    Together(New(belt, NoSize, v3), Batch(belt, small :> v4, dear),
             Reprice(belt, dear), Reprice(belt, sale)),
    Together(New(shirt, huge, v3), Batch(shirt, (huge :> v4) @@ (small :> v5), dear),
             Patch(v2, huge, Omitted), Drop(v1)),
    Together(Batch(shirt, small :> v3, Omitted), Drop(v1), Drop(v2),
             Patch(v2, NoSize, sale)),
    Together(Patch(v1, large, Omitted), Patch(v2, small, dear), Patch(v2, huge, Omitted),
             Reprice(shirt, sale)),
    Together(Batch(shirt, (small :> v3) @@ (large :> v4), Omitted),
             Reprice(shirt, dear), Reprice(shirt, sale), Sell(v1, l1)),
    Together(Sell(v1, l1), Sell(v1, l2), Patch(v1, Omitted, sale), Reprice(shirt, dear)),
    Together(Sell(v1, l1), Drop(v1), DropProduct(shirt), New(shirt, huge, v3)) }
=============================================================================
