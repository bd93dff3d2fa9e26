------------------------ MODULE MCSalesTransactions ------------------------
(***************************************************************************)
(* Instances of SalesTransactions for TLC.  A prepared starting point (one *)
(* purchase per variant, drafts with lines) stands for what earlier, ended *)
(* requests have left; the lifecycle run starts from empty tables instead. *)
(***************************************************************************)
EXTENDS SalesTransactions

CONSTANTS a, b, shirt, mug, cap, s1, s2, s3, i1, i2, i3, i4, i5, i6,
          k1, k2, k3, k4, k5,   \* checkouts
          e1, e2, e3, e4, e5,   \* edits
          p1, p2, p3, p4, p5,   \* purchases
          l1, l2, l3, l4, l5  \* the life of a sale

MCStore == {a, b}
MCProduct == {shirt, mug, cap}
MCVariant == {1, 2, 3}
MCSale == {s1, s2, s3}
MCItem == {i1, i2, i3, i4, i5, i6}
MCProductOf == <<shirt, shirt, mug>>
MCStoreOf == (shirt :> a) @@ (mug :> a) @@ (cap :> b)
MCSaleStore == (s1 :> a) @@ (s2 :> a) @@ (s3 :> a)
MCEmailStore == {a}

\* Requests with one and the same task may be exchanged.
SameTask == Permutations({k4, k5})

-----------------------------------------------------------------------------
(* Tasks *)

On(kind, s) == [kind |-> kind, sale |-> s]
Add(s, i, v, q, d) == [kind |-> "add", sale |-> s, item |-> i, variant |-> v,
                       quantity |-> q, discount |-> d]
Patch(s, i, q, d) == [kind |-> "update", sale |-> s, item |-> i,
                      quantity |-> q, discount |-> d]
Drop(s, i) == [kind |-> "remove", sale |-> s, item |-> i]
In(v, q) == [variant |-> v, quantity |-> q, type |-> "purchase", note |-> 0]
Adjust(v, q) ==
  [kind |-> "movement",
   line |-> [variant |-> v, quantity |-> q, type |-> "adjustment", note |-> 0]]
Batch(p, lines) == [kind |-> "batch", product |-> p, lines |-> lines]
Reprice(p, n) == [kind |-> "price", product |-> p, amount |-> n]

\* Checkouts that compete for variant 1 or only for the next sale number, and
\* a sale cancelled twice.
CheckoutTask == (k1 :> On("complete", s1)) @@ (k2 :> On("complete", s2))
             @@ (k3 :> On("complete", s3)) @@ (k4 :> On("cancel", s1))
             @@ (k5 :> On("cancel", s1))

\* One draft edited by several requests while one of them checks it out.
DraftTask == (e1 :> Add(s1, i4, 2, 1, 1)) @@ (e2 :> Patch(s1, i1, 2, NoValue))
          @@ (e3 :> Drop(s1, i2)) @@ (e4 :> On("complete", s1))
          @@ (e5 :> On("delete", s1))

\* Stock comes in while one sale is checked out and prices change; a price
\* update has nothing to update.
StockInTask == (p1 :> Batch(shirt, <<In(1, 1), In(2, 2)>>))
            @@ (p2 :> Adjust(1, -2)) @@ (p3 :> On("complete", s2))
            @@ (p4 :> Reprice(shirt, 5)) @@ (p5 :> Reprice(cap, 5))

\* Two checkouts.
TwoSizesTask == (k1 :> On("complete", s1)) @@ (k2 :> On("complete", s2))

\* The life of one sale, from empty tables, with a batch that locks its product
\* and its variant in the other order.
LifecycleTask == (l1 :> Batch(shirt, <<In(1, 1), In(2, 1)>>))
              @@ (l2 :> On("create", s1)) @@ (l3 :> Add(s1, i1, 1, 1, 1))
              @@ (l4 :> On("complete", s1)) @@ (l5 :> On("cancel", s1))

-----------------------------------------------------------------------------
(* Starting points *)

Lines(f) == f @@ [i \in MCItem |-> NoItem]

\* Sale s1 has two lines of variant 1; s2 and s3 sell one piece each.
CheckoutLines == Lines((i1 :> Priced(s1, 1, 1, 2, 0))
                    @@ (i2 :> Priced(s1, 1, 1, 2, 1))
                    @@ (i3 :> Priced(s2, 1, 1, 2, 0))
                    @@ (i4 :> Priced(s3, 3, 1, 2, 0)))

\* Sale s1 has a line of variant 1 and one of variant 2.
DraftLines == Lines((i1 :> Priced(s1, 1, 1, 2, 1))
                 @@ (i2 :> Priced(s1, 2, 1, 3, 0))
                 @@ (i3 :> Priced(s2, 1, 1, 2, 0))
                 @@ (i5 :> Priced(s2, 2, 1, 3, 0)))

\* Sale s1 has two sizes of one product, s2 has one of them.
TwoSizeLines == Lines((i1 :> Priced(s1, 1, 1, 2, 0))
                   @@ (i2 :> Priced(s1, 2, 1, 3, 0))
                   @@ (i3 :> Priced(s2, 2, 1, 3, 0)))

\* The requests R are to come; those of the other scenarios have ended.
Awaiting(R) ==
  NoTransaction /\ pc = [r \in Request |-> IF r \in R THEN "idle" ELSE "done"]

Prepared(lines, R) ==
  /\ Awaiting(R)
  /\ status = [s \in Sale |-> "draft"]
  /\ number = [s \in Sale |-> 0]
  /\ item = lines
  /\ total = [s \in Sale |-> Total(lines, s)]
  /\ stock = <<2, 1, 1>>
  /\ movements = [v \in Variant |-> <<RowOf(In(v, stock[v]))>>]
  /\ price = <<2, 3, 2>>
  /\ outbox = {}

SalesTask == CheckoutTask @@ DraftTask @@ StockInTask
SalesInit == \/ Prepared(CheckoutLines, DOMAIN CheckoutTask)
             \/ Prepared(DraftLines, DOMAIN DraftTask)
             \/ Prepared(DraftLines, DOMAIN StockInTask)
SalesSpec == SalesInit /\ [][Next]_vars

TwoSizeSpec == Prepared(TwoSizeLines, Request) /\ [][Next]_vars

\* The lifecycle starts from empty tables and one price list.
LifecycleInit == price = <<2, 3, 2>> /\ Init
LifecycleSpec == LifecycleInit /\ [][Next]_vars /\ Fairness
=============================================================================
