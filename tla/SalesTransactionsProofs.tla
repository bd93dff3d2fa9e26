---------------------- MODULE SalesTransactionsProofs ----------------------
(***************************************************************************)
(* Proofs about SalesTransactions, for any number of requests, stores,     *)
(* variants, sales and items.  They come in two layers.                    *)
(*                                                                         *)
(* The first inductive invariant, IInv, joins the types, what a request    *)
(* holds and remembers at each point of its handler (ControlInv), the      *)
(* ledger of every variant as committed and as the holder of its lock sees *)
(* it (LedgerInv), and the numbers already given (NumberInv).  It gives    *)
(* TypeOK, StockIsLedger and NumbersSequential.                            *)
(*                                                                         *)
(* The second layer takes IInv for granted and adds one part per question: *)
(*   - HooksInv: the callbacks it has registered (OutboxIsCommitted);      *)
(*   - EditInv: what an edit has prepared fits the items of the sale it    *)
(*     has locked (TotalsMatch, FinalizedFrozen);                          *)
(*   - RecordInv: the movement rows of a transaction are those of the      *)
(*     lines its service has dealt with (AtomicServices, and with it the   *)
(*     refinement ImplementsServices);                                     *)
(*   - CountsInv: what the movements that quote a sale number add up to    *)
(*     (SaleCountsOnce).                                                   *)
(*                                                                         *)
(* First come lemmas about the queries of ShopData, for tables of any      *)
(* size: sums over finite sets, what a movement history adds up to, what   *)
(* of it quotes a sale number, and the movements that a list of lines adds *)
(* to a variant.  Sums are folds whose order is CHOOSEn, so each of their  *)
(* laws takes an induction over finite sets.  It has the form of a         *)
(* smallest counterexample: a set of sets on which the law fails has, if   *)
(* it is not empty, a member of least cardinality.                         *)
(***************************************************************************)
EXTENDS SalesTransactions, FiniteSetTheorems, SequenceTheorems,
        WellFoundedInduction, TLAPS

-----------------------------------------------------------------------------
(* Smallest counterexamples *)

LEMMA LeastNumber ==
  ASSUME NEW T \in SUBSET Nat, T # {}
  PROVE  \E x \in T : \A y \in T : x <= y
<1> DEFINE R == OpToRel(<, Nat)
<1>1. IsWellFoundedOn(R, Nat)
  BY NatLessThanWellFounded
<1>2. \A x, y \in Nat : y < x => <<y, x>> \in R
  BY DEF OpToRel
<1> HIDE DEF R
<1>3. PICK x \in T : \A y \in T : ~ (<<y, x>> \in R)
  BY <1>1, WFMin
<1>4. ASSUME NEW y \in T
      PROVE  x <= y
  <2>1. x \in Nat /\ y \in Nat
    OBVIOUS
  <2>2. ~ (y < x)
    BY <1>2, <1>3, <2>1, Zenon
  <2>3. QED
    BY <2>1, <2>2
<1>5. QED
  BY <1>4, Zenon

\* Among the sets in B there is one all of whose proper subsets are not in B.
LEMMA SmallestSet ==
  ASSUME NEW D, IsFiniteSet(D), NEW B \in SUBSET SUBSET D, B # {}
  PROVE  \E S \in B : \A x \in S : S \ {x} \notin B
<1> DEFINE T == {Cardinality(S) : S \in B}
<1>1. \A S \in B : IsFiniteSet(S) /\ Cardinality(S) \in Nat
  BY FS_Subset, FS_CardinalityType
<1>2. T \in SUBSET Nat /\ T # {}
  BY <1>1
<1>3. PICK n \in T : \A m \in T : n <= m
  BY <1>2, LeastNumber
<1>4. PICK S \in B : n = Cardinality(S)
  OBVIOUS
<1>5. ASSUME NEW x \in S, S \ {x} \in B
      PROVE  FALSE
  <2>1. IsFiniteSet(S) /\ Cardinality(S) \in Nat
    BY <1>1
  <2>2. Cardinality(S \ {x}) = Cardinality(S) - 1
    BY <2>1, FS_RemoveElement
  <2>3. Cardinality(S \ {x}) \in T
    BY <1>5
  <2>4. n <= Cardinality(S \ {x})
    BY <1>3, <2>3, Zenon
  <2>5. QED
    BY <1>4, <2>1, <2>2, <2>4
<1>6. QED
  BY <1>5

-----------------------------------------------------------------------------
(* Sums *)

\* g gives, for each set of indices, the sum of f over it.
IsFold(g, f) ==
  g = [s \in SUBSET (DOMAIN f) |->
        IF s = {} THEN 0
        ELSE LET x == CHOOSE x \in s : TRUE IN f[x] + g[s \ {x}]]

LEMMA SumIsFold ==
  ASSUME NEW f
  PROVE  SumFunction(f) = (CHOOSE g : IsFold(g, f))[DOMAIN f]
  BY Zenon DEF SumFunction, SumFunctionOnSet, FoldFunctionOnSet, MapThenFoldSet,
    IsFold

\* The equation of a fold, without its function.
LEMMA FoldStep ==
  ASSUME NEW f, NEW g, IsFold(g, f), NEW S \in SUBSET (DOMAIN f)
  PROVE  /\ S = {} => g[S] = 0
         /\ S # {} => \E x \in S : /\ x = (CHOOSE y \in S : TRUE)
                                   /\ g[S] = f[x] + g[S \ {x}]
<1> DEFINE x == CHOOSE y \in S : TRUE
<1>1. S # {} => x \in S
  OBVIOUS
<1>2. g[S] = IF S = {} THEN 0 ELSE f[x] + g[S \ {x}]
  BY DEF IsFold
<1>3. QED
  BY <1>1, <1>2

LEMMA FoldExists ==
  ASSUME NEW f, IsFiniteSet(DOMAIN f)
  PROVE  \E g : IsFold(g, f)
<1> DEFINE D == DOMAIN f
           Some(S) == CHOOSE x \in S : TRUE
           Fits(g, S) == g[S] = IF S = {} THEN 0 ELSE f[Some(S)] + g[S \ {Some(S)}]
           UpTo(n) == \E g : /\ g = [S \in SUBSET D |-> g[S]]
                             /\ \A S \in SUBSET D : Cardinality(S) <= n => Fits(g, S)
           Bad == {n \in Nat : ~ UpTo(n)}
<1>1. \A S \in SUBSET D : IsFiniteSet(S) /\ Cardinality(S) \in Nat
  BY FS_Subset, FS_CardinalityType
<1>2. \A S \in SUBSET D : S # {} => Some(S) \in S
  OBVIOUS
<1>3. UpTo(0)
  <2> DEFINE g == [S \in SUBSET D |-> 0]
  <2>1. \A S \in SUBSET D : Cardinality(S) <= 0 => S = {}
    BY <1>1, FS_EmptySet
  <2>2. \A S \in SUBSET D : Cardinality(S) <= 0 => Fits(g, S)
    BY <2>1
  <2>3. g = [S \in SUBSET D |-> g[S]]
    OBVIOUS
  <2>4. QED
    BY <2>2, <2>3
<1>4. ASSUME NEW n \in Nat, UpTo(n)
      PROVE  UpTo(n + 1)
  <2>1. PICK g : /\ g = [S \in SUBSET D |-> g[S]]
                 /\ \A S \in SUBSET D : Cardinality(S) <= n => Fits(g, S)
    BY <1>4
  <2> DEFINE h == [S \in SUBSET D |->
                     IF Cardinality(S) <= n THEN g[S] ELSE f[Some(S)] + g[S \ {Some(S)}]]
  <2>2. ASSUME NEW S \in SUBSET D, Cardinality(S) <= n + 1
        PROVE  Fits(h, S)
    <3>1. CASE S = {}
      <4>1. Cardinality(S) <= n
        BY <3>1, FS_EmptySet
      <4>2. h[S] = 0
        BY <2>1, <3>1, <4>1
      <4>3. QED
        BY <3>1, <4>2
    <3>2. CASE S # {}
      <4> DEFINE x == Some(S)
                 P == S \ {x}
      <4>1. x \in S /\ P \in SUBSET D
        BY <1>2, <3>2
      <4>2. Cardinality(P) = Cardinality(S) - 1 /\ Cardinality(S) \in Nat
        BY <1>1, <4>1, FS_RemoveElement
      <4> HIDE DEF x, P
      <4>3. Cardinality(P) <= n
        BY <2>2, <4>2
      <4>4. h[P] = g[P]
        BY <4>1, <4>3
      <4>5. h[S] = f[x] + g[P]
        <5>1. CASE Cardinality(S) <= n
          BY <2>1, <3>2, <5>1 DEF x, P
        <5>2. CASE ~ (Cardinality(S) <= n)
          BY <5>2 DEF x, P
        <5>3. QED
          BY <5>1, <5>2
      <4>6. h[S] = f[x] + h[P]
        BY <4>4, <4>5
      <4>7. QED
        BY <3>2, <4>6 DEF x, P
    <3>3. QED
      BY <3>1, <3>2
  <2>3. h = [S \in SUBSET D |-> h[S]]
    OBVIOUS
  <2> HIDE DEF h
  <2>4. QED
    BY <2>2, <2>3
<1> HIDE DEF UpTo
<1>5. Bad = {}
  <2> SUFFICES ASSUME Bad # {}
               PROVE  FALSE
    OBVIOUS
  <2>1. PICK n \in Bad : \A m \in Bad : n <= m
    BY LeastNumber
  <2>2. n # 0
    BY <1>3
  <2>3. n - 1 \in Nat /\ n - 1 \notin Bad
    BY <2>1, <2>2
  <2>4. UpTo((n - 1) + 1)
    BY <1>4, <2>3
  <2>5. (n - 1) + 1 = n
    OBVIOUS
  <2>6. QED
    BY <2>1, <2>4, <2>5
<1>6. Cardinality(D) \in Nat /\ UpTo(Cardinality(D))
  BY <1>1, <1>5
<1>7. PICK g : /\ g = [S \in SUBSET D |-> g[S]]
               /\ \A S \in SUBSET D : Cardinality(S) <= Cardinality(D) => Fits(g, S)
  BY <1>6 DEF UpTo
<1>8. \A S \in SUBSET D : Cardinality(S) <= Cardinality(D)
  BY FS_Subset
<1>9. \A S \in SUBSET D : Fits(g, S)
  BY <1>7, <1>8
<1>10. g = [S \in SUBSET D |->
              IF S = {} THEN 0
              ELSE LET x == CHOOSE x \in S : TRUE IN f[x] + g[S \ {x}]]
  BY <1>7, <1>9
<1>11. QED
  BY <1>10 DEF IsFold

\* Of functions that agree on a finite set of indices the folds agree there,
\* and on a finite set of integers a fold is an integer.
LEMMA FoldsAgree ==
  ASSUME NEW f, NEW h, NEW g, NEW k, IsFold(g, f), IsFold(k, h),
         NEW D, IsFiniteSet(D), D \subseteq DOMAIN f, D \subseteq DOMAIN h,
         \A x \in D : f[x] = h[x] /\ f[x] \in Int
  PROVE  g[D] = k[D] /\ g[D] \in Int
<1> DEFINE Bad == {S \in SUBSET D : ~ (g[S] = k[S] /\ g[S] \in Int)}
<1>1. Bad = {}
  <2> SUFFICES ASSUME Bad # {}
               PROVE  FALSE
    OBVIOUS
  <2>1. PICK S \in Bad : \A x \in S : S \ {x} \notin Bad
    BY SmallestSet
  <2>2. S \in SUBSET (DOMAIN f) /\ S \in SUBSET (DOMAIN h) /\ S \in SUBSET D
    OBVIOUS
  <2>3. S # {}
    BY <2>2, FoldStep
  <2>4. PICK x \in S : x = (CHOOSE y \in S : TRUE) /\ g[S] = f[x] + g[S \ {x}]
    BY <2>2, <2>3, FoldStep
  <2>5. k[S] = h[x] + k[S \ {x}]
    <3>1. PICK y \in S : y = (CHOOSE z \in S : TRUE) /\ k[S] = h[y] + k[S \ {y}]
      BY <2>2, <2>3, FoldStep
    <3>2. y = x
      BY <2>4, <3>1
    <3>3. QED
      BY <3>1, <3>2
  <2>6. g[S \ {x}] = k[S \ {x}] /\ g[S \ {x}] \in Int
    BY <2>1, <2>2
  <2>7. f[x] = h[x] /\ f[x] \in Int
    BY <2>2
  <2>8. g[S] = k[S] /\ g[S] \in Int
    BY <2>4, <2>5, <2>6, <2>7
  <2>9. QED
    BY <2>8
<1>2. QED
  BY <1>1

\* Which index a fold takes first makes no difference.
LEMMA FoldAnyOrder ==
  ASSUME NEW f, NEW g, IsFold(g, f), IsFiniteSet(DOMAIN f),
         \A x \in DOMAIN f : f[x] \in Int,
         NEW D \in SUBSET DOMAIN f, NEW z \in D
  PROVE  g[D] = f[z] + g[D \ {z}]
<1> DEFINE Bad == {S \in SUBSET DOMAIN f : \E x \in S : g[S] # f[x] + g[S \ {x}]}
<1>1. \A S \in SUBSET DOMAIN f : g[S] \in Int
  BY FoldsAgree, FS_Subset
<1>2. Bad = {}
  <2> SUFFICES ASSUME Bad # {}
               PROVE  FALSE
    OBVIOUS
  <2>1. PICK S \in Bad : \A x \in S : S \ {x} \notin Bad
    BY SmallestSet
  <2>2. PICK x \in S : g[S] # f[x] + g[S \ {x}]
    OBVIOUS
  <2>3. PICK y \in S : g[S] = f[y] + g[S \ {y}]
    BY <2>2, FoldStep
  <2>4. x # y
    BY <2>2, <2>3
  <2> DEFINE rest == S \ {x, y}
  <2>5. (S \ {x}) \ {y} = rest /\ (S \ {y}) \ {x} = rest
    OBVIOUS
  <2>6. g[S \ {y}] = f[x] + g[(S \ {y}) \ {x}]
    <3>1. S \ {y} \in SUBSET DOMAIN f /\ S \ {y} \notin Bad /\ x \in S \ {y}
      BY <2>1, <2>4
    <3>2. QED
      BY <3>1
  <2>7. g[S \ {x}] = f[y] + g[(S \ {x}) \ {y}]
    <3>1. S \ {x} \in SUBSET DOMAIN f /\ S \ {x} \notin Bad /\ y \in S \ {x}
      BY <2>1, <2>4
    <3>2. QED
      BY <3>1
  <2> HIDE DEF rest
  <2>8. g[S \ {y}] = f[x] + g[rest] /\ g[S \ {x}] = f[y] + g[rest]
    BY <2>5, <2>6, <2>7
  <2>9. rest \in SUBSET DOMAIN f /\ f[x] \in Int /\ f[y] \in Int
    BY DEF rest
  <2>10. g[rest] \in Int
    BY <1>1, <2>9
  <2>11. f[y] + (f[x] + g[rest]) = f[x] + (f[y] + g[rest])
    BY <2>9, <2>10
  <2>12. QED
    BY <2>2, <2>3, <2>8, <2>11
<1>3. QED
  BY <1>2

\* The laws of sums that the proofs about the services use.
LEMMA SumByFold ==
  ASSUME NEW f, IsFiniteSet(DOMAIN f)
  PROVE  \E g : IsFold(g, f) /\ SumFunction(f) = g[DOMAIN f]
  BY FoldExists, SumIsFold

LEMMA SumOfNone ==
  ASSUME NEW f, DOMAIN f = {}
  PROVE  SumFunction(f) = 0
<1>1. PICK g : IsFold(g, f) /\ SumFunction(f) = g[DOMAIN f]
  BY SumByFold, FS_EmptySet
<1>2. QED
  BY <1>1, FoldStep

\* The sum of f over a set of its indices.
SumOver(f, D) == SumFunction([x \in D |-> f[x]])

LEMMA SumWhole ==
  ASSUME NEW D, NEW f, f = [x \in D |-> f[x]]
  PROVE  SumFunction(f) = SumOver(f, D)
  BY Zenon DEF SumOver

LEMMA SumEmpty ==
  ASSUME NEW f
  PROVE  SumOver(f, {}) = 0
  BY SumOfNone DEF SumOver

\* A sum is that over any one index and that over the others.
LEMMA SumTake ==
  ASSUME NEW D, IsFiniteSet(D), NEW f, \A x \in D : f[x] \in Int
  PROVE  /\ SumOver(f, D) \in Int
         /\ \A x \in D : SumOver(f, D) = f[x] + SumOver(f, D \ {x})
<1> DEFINE h == [y \in D |-> f[y]]
<1>1. DOMAIN h = D /\ \A x \in D : h[x] = f[x] /\ h[x] \in Int
  OBVIOUS
<1> HIDE DEF h
<1>2. PICK g : IsFold(g, h) /\ SumFunction(h) = g[D]
  BY <1>1, SumByFold
<1>3. g[D] \in Int
  BY <1>1, <1>2, FoldsAgree
<1>4. ASSUME NEW x \in D
      PROVE  g[D] = f[x] + SumOver(f, D \ {x})
  <2> DEFINE E == D \ {x}
             k == [y \in E |-> f[y]]
  <2>1. IsFiniteSet(E) /\ DOMAIN k = E /\ \A y \in E : k[y] = f[y] /\ k[y] = h[y]
    BY <1>1, FS_RemoveElement
  <2> HIDE DEF k
  <2>2. PICK e : IsFold(e, k) /\ SumFunction(k) = e[E]
    BY <2>1, SumByFold
  <2>3. g[E] = e[E]
    BY <1>1, <1>2, <2>1, <2>2, FoldsAgree
  <2>4. g[D] = h[x] + g[E]
    BY <1>1, <1>2, FoldAnyOrder
  <2>5. SumOver(f, E) = SumFunction(k)
    BY DEF SumOver, k
  <2>6. QED
    BY <1>1, <2>2, <2>3, <2>4, <2>5
<1>5. SumOver(f, D) = g[D]
  BY <1>2 DEF SumOver, h
<1>6. QED
  BY <1>3, <1>4, <1>5

\* A sum is those over two parts.
LEMMA SumSplit ==
  ASSUME NEW D, IsFiniteSet(D), NEW f, \A x \in D : f[x] \in Int, NEW E \in SUBSET D
  PROVE  SumOver(f, D) = SumOver(f, D \ E) + SumOver(f, E)
<1> DEFINE Bad == {S \in SUBSET D : SumOver(f, D) # SumOver(f, D \ S) + SumOver(f, S)}
<1>1. \A S \in SUBSET D : /\ SumOver(f, S) \in Int
                          /\ \A x \in S : SumOver(f, S) = f[x] + SumOver(f, S \ {x})
  BY SumTake, FS_Subset
<1>2. Bad = {}
  <2> SUFFICES ASSUME Bad # {}
               PROVE  FALSE
    OBVIOUS
  <2>1. PICK S \in Bad : \A x \in S : S \ {x} \notin Bad
    BY SmallestSet
  <2>2. S # {}
    <3>1. D \ {} = D /\ SumOver(f, {}) = 0
      BY SumEmpty
    <3>2. SumOver(f, D) = SumOver(f, D \ {}) + SumOver(f, {})
      BY <1>1, <3>1
    <3>3. QED
      BY <3>2
  <2>3. PICK x \in S : TRUE
    BY <2>2
  <2> DEFINE T == S \ {x}
  <2>4. T \in SUBSET D /\ D \ T \in SUBSET D /\ x \in D \ T /\ (D \ T) \ {x} = D \ S
    OBVIOUS
  <2>5. SumOver(f, D) = SumOver(f, D \ T) + SumOver(f, T)
    BY <2>1, <2>4
  <2>6. /\ SumOver(f, D \ T) = f[x] + SumOver(f, D \ S)
        /\ SumOver(f, S) = f[x] + SumOver(f, T)
    <3>1. SumOver(f, D \ T) = f[x] + SumOver(f, (D \ T) \ {x})
      BY <1>1, <2>4
    <3>2. SumOver(f, S) = f[x] + SumOver(f, S \ {x})
      BY <1>1, <2>3
    <3>3. QED
      BY <2>4, <3>1, <3>2
  <2>7. SumOver(f, T) \in Int /\ SumOver(f, D \ S) \in Int /\ f[x] \in Int
    BY <1>1, <2>4
  <2> HIDE DEF T
  <2>8. SumOver(f, D) = SumOver(f, D \ S) + SumOver(f, S)
    BY <2>5, <2>6, <2>7
  <2>9. QED
    BY <2>8
<1>3. QED
  BY <1>2

\* Summing in another numbering of the indices changes nothing.
LEMMA SumReindex ==
  ASSUME NEW D, IsFiniteSet(D), NEW E, NEW b \in Bijection(D, E), NEW f, NEW h,
         \A x \in D : h[x] \in Int, \A x \in D : h[x] = f[b[x]]
  PROVE  SumOver(h, D) = SumOver(f, E)
<1>0. /\ b \in [D -> E]
      /\ \A x, y \in D : b[x] = b[y] => x = y
      /\ \A e \in E : \E x \in D : e = b[x]
  BY DEF Bijection, Injection, IsInjective, Surjection
<1> DEFINE Img(S) == {b[x] : x \in S}
           Bad == {S \in SUBSET D : SumOver(h, S) # SumOver(f, Img(S))}
<1>1. ASSUME NEW S \in SUBSET D
      PROVE  IsFiniteSet(S) /\ IsFiniteSet(Img(S))
  <2>1. IsFiniteSet(S)
    BY FS_Subset
  <2> DEFINE c == [x \in S |-> b[x]]
  <2>2. c \in Surjection(S, Img(S))
    BY <1>0 DEF Surjection
  <2>3. QED
    BY <2>1, <2>2, FS_Surjection
<1>2. Img(D) = E /\ Img({}) = {}
  BY <1>0
<1>3. ASSUME NEW S \in SUBSET D, NEW x \in S
      PROVE  /\ SumOver(h, S) = h[x] + SumOver(h, S \ {x})
             /\ SumOver(f, Img(S)) = h[x] + SumOver(f, Img(S \ {x}))
  <2>0. IsFiniteSet(S) /\ \A y \in S : h[y] \in Int
    BY <1>1
  <2>1. \A y \in S : SumOver(h, S) = h[y] + SumOver(h, S \ {y})
    BY <2>0, SumTake, Zenon
  <2>2. /\ IsFiniteSet(Img(S)) /\ \A e \in Img(S) : f[e] \in Int
        /\ b[x] \in Img(S) /\ f[b[x]] = h[x]
    BY <1>1
  <2>5. Img(S) \ {b[x]} = Img(S \ {x})
    BY <1>0
  <2> HIDE DEF Img
  <2>3. \A e \in Img(S) : SumOver(f, Img(S)) = f[e] + SumOver(f, Img(S) \ {e})
    BY <2>2, SumTake, Zenon
  <2>4. QED
    BY <2>1, <2>2, <2>3, <2>5
<1> HIDE DEF Img
<1>4. Bad = {}
  <2> SUFFICES ASSUME Bad # {}
               PROVE  FALSE
    OBVIOUS
  <2>1. PICK S \in Bad : \A x \in S : S \ {x} \notin Bad
    BY SmallestSet
  <2>2. S # {}
    BY <1>2, SumEmpty
  <2>3. PICK x \in S : TRUE
    BY <2>2
  <2>4. SumOver(h, S \ {x}) = SumOver(f, Img(S \ {x}))
    BY <2>1
  <2>5. SumOver(h, S) = SumOver(f, Img(S))
    BY <1>3, <2>4
  <2>6. QED
    BY <2>5
<1>5. QED
  BY <1>2, <1>4

\* Sums of equal and of opposite numbers.
LEMMA SumCompare ==
  ASSUME NEW D, IsFiniteSet(D), NEW f, NEW h, \A x \in D : f[x] \in Int
  PROVE  /\ (\A x \in D : h[x] = f[x]) => SumOver(h, D) = SumOver(f, D)
         /\ (\A x \in D : h[x] = - f[x]) => SumOver(h, D) = - SumOver(f, D)
<1>1. (\A x \in D : h[x] = f[x]) => SumOver(h, D) = SumOver(f, D)
  <2> SUFFICES ASSUME \A x \in D : h[x] = f[x]
               PROVE  SumOver(h, D) = SumOver(f, D)
    OBVIOUS
  <2>1. [x \in D |-> h[x]] = [x \in D |-> f[x]]
    OBVIOUS
  <2>2. QED
    BY <2>1 DEF SumOver
<1>2. ASSUME \A x \in D : h[x] = - f[x]
      PROVE  SumOver(h, D) = - SumOver(f, D)
  <2> DEFINE Bad == {S \in SUBSET D : SumOver(h, S) # - SumOver(f, S)}
  <2>1. ASSUME NEW S \in SUBSET D
        PROVE  /\ \A x \in S : /\ SumOver(h, S) = h[x] + SumOver(h, S \ {x})
                               /\ SumOver(f, S) = f[x] + SumOver(f, S \ {x})
               /\ SumOver(f, S) \in Int
    <3>1. IsFiniteSet(S) /\ \A x \in S : h[x] \in Int /\ f[x] \in Int
      BY <1>2, FS_Subset
    <3>2. QED
      BY <3>1, SumTake
  <2>2. Bad = {}
    <3> SUFFICES ASSUME Bad # {}
                 PROVE  FALSE
      OBVIOUS
    <3>1. PICK S \in Bad : \A x \in S : S \ {x} \notin Bad
      BY SmallestSet
    <3>2. S # {}
      BY SumEmpty
    <3>3. PICK x \in S : TRUE
      BY <3>2
    <3>4. SumOver(h, S \ {x}) = - SumOver(f, S \ {x})
      BY <3>1
    <3>5. SumOver(h, S) = - SumOver(f, S)
      <4>1. h[x] = - f[x] /\ f[x] \in Int /\ SumOver(f, S \ {x}) \in Int
        BY <1>2, <2>1
      <4>2. QED
        BY <2>1, <3>4, <4>1
    <3>6. QED
      BY <3>5
  <2>3. QED
    BY <2>2
<1>3. QED
  BY <1>1, <1>2
-----------------------------------------------------------------------------
(* What movements add up to *)

Quantities(ms) == [k \in DOMAIN ms |-> ms[k].quantity]

LEMMA SumAtIs ==
  ASSUME NEW ms, NEW P \in SUBSET DOMAIN ms
  PROVE  SumAt(ms, P) = SumOver(Quantities(ms), P)
<1>1. [k \in P |-> ms[k].quantity] = [k \in P |-> Quantities(ms)[k]]
  BY DEF Quantities
<1>2. QED
  BY <1>1 DEF SumAt, SumOver

LEMMA MovementTypes ==
  ASSUME NEW ms \in Seq(Movement)
  PROVE  /\ Len(ms) \in Nat /\ DOMAIN ms = 1 .. Len(ms) /\ IsFiniteSet(DOMAIN ms)
         /\ \A k \in DOMAIN ms : /\ ms[k] \in Movement
                                 /\ Quantities(ms)[k] = ms[k].quantity
                                 /\ Quantities(ms)[k] \in Int
<1>1. Len(ms) \in Nat /\ DOMAIN ms = 1 .. Len(ms)
  OBVIOUS
<1>2. IsFiniteSet(DOMAIN ms)
  BY <1>1, FS_Interval
<1>3. \A k \in DOMAIN ms : ms[k] \in Movement
  OBVIOUS
<1>4. \A k \in DOMAIN ms : ms[k].quantity \in Int
  BY <1>3 DEF Movement
<1>5. QED
  BY <1>1, <1>2, <1>3, <1>4 DEF Quantities

LEMMA SumAtType ==
  ASSUME NEW ms \in Seq(Movement), NEW P \in SUBSET DOMAIN ms
  PROVE  SumAt(ms, P) \in Int
<1>1. IsFiniteSet(P) /\ \A k \in P : Quantities(ms)[k] \in Int
  BY MovementTypes, FS_Subset
<1>2. SumOver(Quantities(ms), P) \in Int
  BY <1>1, SumTake, Zenon
<1>3. QED
  BY <1>2, SumAtIs

LEMMA BalanceEmpty == Balance(<< >>) = 0
<1>1. DOMAIN << >> = {}
  OBVIOUS
<1>2. DOMAIN [k \in {} |-> << >>[k].quantity] = {}
  OBVIOUS
<1>3. QED
  BY <1>1, <1>2, SumOfNone DEF Balance, SumAt

\* The positions A of a and B of b, in a \o b.
LEMMA SumAtConcat ==
  ASSUME NEW a \in Seq(Movement), NEW b \in Seq(Movement),
         NEW A \in SUBSET DOMAIN a, NEW B \in SUBSET DOMAIN b
  PROVE  SumAt(a \o b, A \cup {Len(a) + k : k \in B}) = SumAt(a, A) + SumAt(b, B)
<1> DEFINE c == a \o b
           n == Len(a)
           E == {n + k : k \in B}
           P == A \cup E
           f == Quantities(c)
<1>1. /\ c \in Seq(Movement) /\ n \in Nat /\ A \in SUBSET (1 .. n)
      /\ B \in SUBSET (1 .. Len(b)) /\ Len(b) \in Nat
      /\ DOMAIN c = 1 .. (n + Len(b))
      /\ \A k \in 1 .. n : c[k] = a[k]
      /\ \A k \in 1 .. Len(b) : c[n + k] = b[k]
  BY MovementTypes
<1>2. /\ IsFiniteSet(A) /\ IsFiniteSet(B)
      /\ \A k \in A : Quantities(a)[k] = a[k].quantity /\ Quantities(a)[k] \in Int
      /\ \A k \in B : Quantities(b)[k] = b[k].quantity /\ Quantities(b)[k] \in Int
  BY MovementTypes, FS_Subset
<1> HIDE DEF c, n
<1>3. P \in SUBSET DOMAIN c /\ E \in SUBSET P /\ P \ E = A /\ A \in SUBSET DOMAIN c
  <2>1. \A k \in 1 .. Len(b) : n + k \in 1 .. (n + Len(b)) /\ n + k \notin 1 .. n
    BY <1>1
  <2>2. 1 .. n \subseteq 1 .. (n + Len(b))
    BY <1>1
  <2>3. \A k \in B : n + k \in DOMAIN c /\ n + k \notin A
    BY <1>1, <2>1
  <2>4. A \subseteq DOMAIN c
    BY <1>1, <2>2
  <2>5. QED
    BY <2>3, <2>4
<1>4. IsFiniteSet(P) /\ \A k \in P : f[k] \in Int
  BY <1>1, <1>3, MovementTypes, FS_Subset
<1>5. SumOver(f, P) = SumOver(f, A) + SumOver(f, E)
  <2> HIDE DEF f, P, E
  <2>1. SumOver(f, P) = SumOver(f, P \ E) + SumOver(f, E)
    BY <1>3, <1>4, SumSplit
  <2>2. QED
    BY <1>3, <2>1
<1>6. SumOver(f, A) = SumOver(Quantities(a), A)
  <2>1. \A k \in A : f[k] = Quantities(a)[k]
    BY <1>1, <1>2, <1>3 DEF Quantities
  <2> HIDE DEF f
  <2>2. QED
    BY <1>2, <2>1, SumCompare
<1>7. SumOver(Quantities(b), B) = SumOver(f, E)
  <2> DEFINE t == [k \in B |-> n + k]
             q == Quantities(b)
  <2>1. t \in Bijection(B, E)
    <3>1. t \in [B -> E]
      OBVIOUS
    <3>2. \A x, y \in B : t[x] = t[y] => x = y
      BY <1>1
    <3>3. \A e \in E : \E x \in B : t[x] = e
      OBVIOUS
    <3> HIDE DEF t, E
    <3>4. QED
      BY <3>1, <3>2, <3>3 DEF Bijection, Injection, IsInjective, Surjection
  <2>2. \A k \in B : q[k] = f[t[k]]
    BY <1>1, <1>2, <1>3 DEF Quantities
  <2>3. \A k \in B : q[k] \in Int
    BY <1>2
  <2>4. IsFiniteSet(B)
    BY <1>2
  <2> HIDE DEF t, q, f, E
  <2>5. SumOver(q, B) = SumOver(f, E)
    BY <2>1, <2>2, <2>3, <2>4, SumReindex
  <2>6. QED
    BY <2>5 DEF q
<1>8. SumAt(c, P) = SumOver(f, P)
  <2> HIDE DEF P
  <2>1. QED
    BY <1>3, SumAtIs
<1>9. SumAt(a, A) = SumOver(Quantities(a), A) /\ SumAt(b, B) = SumOver(Quantities(b), B)
  BY SumAtIs
<1>10. QED
  BY <1>5, <1>6, <1>7, <1>8, <1>9 DEF c, n

LEMMA BalanceConcat ==
  ASSUME NEW a \in Seq(Movement), NEW b \in Seq(Movement)
  PROVE  /\ Balance(a \o b) = Balance(a) + Balance(b)
         /\ Balance(a) \in Int
<1>1. /\ Len(a) \in Nat /\ Len(b) \in Nat
      /\ DOMAIN a = 1 .. Len(a) /\ DOMAIN b = 1 .. Len(b)
      /\ DOMAIN (a \o b) = 1 .. (Len(a) + Len(b))
  OBVIOUS
<1>2. DOMAIN (a \o b) = DOMAIN a \cup {Len(a) + k : k \in DOMAIN b}
  <2>1. \A j \in 1 .. (Len(a) + Len(b)) : j \notin 1 .. Len(a)
          => j - Len(a) \in 1 .. Len(b) /\ j = Len(a) + (j - Len(a))
    BY <1>1
  <2>2. \A k \in 1 .. Len(b) : Len(a) + k \in 1 .. (Len(a) + Len(b))
    BY <1>1
  <2>3. \A k \in 1 .. Len(a) : k \in 1 .. (Len(a) + Len(b))
    BY <1>1
  <2>4. ASSUME NEW j
        PROVE  j \in 1 .. (Len(a) + Len(b))
                 <=> j \in 1 .. Len(a) \/ \E k \in 1 .. Len(b) : j = Len(a) + k
    BY <2>1, <2>2, <2>3, Zenon
  <2>5. QED
    BY <1>1, <2>4
<1>3. QED
  BY <1>2, SumAtConcat, SumAtType DEF Balance

LEMMA QuotedConcat ==
  ASSUME NEW a \in Seq(Movement), NEW b \in Seq(Movement), NEW n
  PROVE  /\ Quoted(a \o b, n) = Quoted(a, n) + Quoted(b, n)
         /\ Quoted(a, n) \in Int
<1> DEFINE A == {k \in DOMAIN a : a[k].note = n}
           B == {k \in DOMAIN b : b[k].note = n}
           C == {k \in DOMAIN (a \o b) : (a \o b)[k].note = n}
<1>1. /\ Len(a) \in Nat /\ Len(b) \in Nat
      /\ DOMAIN a = 1 .. Len(a) /\ DOMAIN b = 1 .. Len(b)
      /\ DOMAIN (a \o b) = 1 .. (Len(a) + Len(b))
      /\ \A k \in 1 .. Len(a) : (a \o b)[k] = a[k]
      /\ \A k \in 1 .. Len(b) : (a \o b)[Len(a) + k] = b[k]
  OBVIOUS
<1>2. \A j \in 1 .. (Len(a) + Len(b)) : j \notin 1 .. Len(a)
        => j - Len(a) \in 1 .. Len(b) /\ j = Len(a) + (j - Len(a))
  BY <1>1
<1>3. \A k \in 1 .. Len(b) : Len(a) + k \in 1 .. (Len(a) + Len(b))
  BY <1>1
<1>4. \A k \in 1 .. Len(a) : k \in 1 .. (Len(a) + Len(b))
  BY <1>1
<1>5. ASSUME NEW j
      PROVE  j \in C <=> j \in A \/ \E k \in B : j = Len(a) + k
  <2>1. ASSUME j \in C
        PROVE  j \in A \/ \E k \in B : j = Len(a) + k
    <3>1. CASE j \in 1 .. Len(a)
      BY <1>1, <2>1, <3>1
    <3>2. CASE j \notin 1 .. Len(a)
      <4>1. j - Len(a) \in 1 .. Len(b) /\ j = Len(a) + (j - Len(a))
        BY <1>1, <1>2, <2>1, <3>2
      <4>2. (a \o b)[j] = b[j - Len(a)]
        BY <1>1, <4>1
      <4>3. j - Len(a) \in B
        BY <1>1, <2>1, <4>1, <4>2
      <4>4. QED
        BY <4>1, <4>3
    <3>3. QED
      BY <3>1, <3>2
  <2>2. j \in A => j \in C
    BY <1>1, <1>4
  <2>3. ASSUME NEW k \in B, j = Len(a) + k
        PROVE  j \in C
    BY <1>1, <1>3, <2>3
  <2>4. QED
    BY <2>1, <2>2, <2>3
<1>6. C = A \cup {Len(a) + k : k \in B}
  <2> HIDE DEF A, B, C
  <2>1. QED
    BY <1>5
<1>7. A \in SUBSET DOMAIN a /\ B \in SUBSET DOMAIN b
  OBVIOUS
<1> HIDE DEF A, B, C
<1>8. SumAt(a \o b, C) = SumAt(a, A) + SumAt(b, B) /\ SumAt(a, A) \in Int
  BY <1>6, <1>7, SumAtConcat, SumAtType
<1>9. QED
  BY <1>8 DEF Quoted, A, B, C

\* One movement more.
LEMMA BalanceAppend ==
  ASSUME NEW ms \in Seq(Movement), NEW m \in Movement
  PROVE  Balance(Append(ms, m)) = Balance(ms) + m.quantity
<1> DEFINE one == <<m>>
           f == Quantities(one)
<1>1. one \in Seq(Movement) /\ DOMAIN one = {1} /\ one[1] = m
  OBVIOUS
<1>2. m.quantity \in Int
  BY DEF Movement
<1>3. f[1] = m.quantity
  BY <1>1 DEF Quantities
<1> HIDE DEF one, f
<1>4. IsFiniteSet({1}) /\ \A x \in {1} : f[x] \in Int
  BY <1>2, <1>3, FS_Singleton
<1>5. \A x \in {1} : SumOver(f, {1}) = f[x] + SumOver(f, {1} \ {x})
  BY <1>4, SumTake, Zenon
<1>6. SumOver(f, {1} \ {1}) = 0
  <2>1. {1} \ {1} = {}
    OBVIOUS
  <2>2. QED
    BY <2>1, SumEmpty
<1>7. SumOver(f, {1}) = m.quantity
  <2>1. SumOver(f, {1}) = f[1] + SumOver(f, {1} \ {1})
    BY <1>5, Zenon
  <2>2. QED
    BY <1>2, <1>3, <1>6, <2>1
<1>8. Balance(one) = m.quantity
  BY <1>1, <1>7, SumAtIs DEF Balance, f
<1>9. Append(ms, m) = ms \o one
  BY AppendIsConcat DEF one
<1>10. QED
  BY <1>1, <1>8, <1>9, BalanceConcat

LEMMA QuotedAllOrNone ==
  ASSUME NEW ms \in Seq(Movement), NEW n
  PROVE  /\ (\A k \in DOMAIN ms : ms[k].note = n) => Quoted(ms, n) = Balance(ms)
         /\ (\A k \in DOMAIN ms : ms[k].note # n) => Quoted(ms, n) = 0
<1>1. ASSUME \A k \in DOMAIN ms : ms[k].note = n
      PROVE  Quoted(ms, n) = Balance(ms)
  <2>1. {k \in DOMAIN ms : ms[k].note = n} = DOMAIN ms
    BY <1>1
  <2>2. QED
    BY <2>1 DEF Quoted, Balance
<1>2. ASSUME \A k \in DOMAIN ms : ms[k].note # n
      PROVE  Quoted(ms, n) = 0
  <2>1. {k \in DOMAIN ms : ms[k].note = n} = {}
    BY <1>2
  <2>2. SumAt(ms, {}) = SumOver(Quantities(ms), {})
    BY SumAtIs
  <2>3. QED
    BY <2>1, <2>2, SumEmpty DEF Quoted
<1>3. QED
  BY <1>1, <1>2
-----------------------------------------------------------------------------
(* What a list of lines adds to a variant *)

\* The lines of variant v, and what they add up to.
LinesOf(lines, v) == {j \in DOMAIN lines : lines[j].variant = v}
LineSum(lines, v) == SumOver(Quantities(lines), LinesOf(lines, v))

IsKept(k, lines, v) ==
  k = [n \in 0 .. Len(lines) |->
         IF n = 0 THEN << >>
         ELSE IF lines[n].variant = v THEN Append(k[n - 1], RowOf(lines[n]))
         ELSE k[n - 1]]

\* What is to be known of the rows of v among the lines.
Gathered(lines, v) ==
  LET ms == RowsFor(lines, v)
  IN  /\ ms \in Seq(Movement)
      /\ \A k \in DOMAIN ms : \E j \in LinesOf(lines, v) : ms[k] = RowOf(lines[j])
      /\ Len(ms) > 1 => \E i, j \in LinesOf(lines, v) : i # j
      /\ Balance(ms) = LineSum(lines, v)

LEMMA RowsForIsKept ==
  ASSUME NEW lines, NEW v
  PROVE  RowsFor(lines, v) = (CHOOSE k : IsKept(k, lines, v))[Len(lines)]
  BY Zenon DEF RowsFor, IsKept

KeptOnce(lines, v) ==
  /\ \E k : IsKept(k, lines, v)
  /\ \A k : IsKept(k, lines, v) => k[Len(lines)] = RowsFor(lines, v)

LEMMA KeptEmpty ==
  ASSUME NEW v
  PROVE  KeptOnce(<< >>, v) /\ RowsFor(<< >>, v) = << >>
<1>1. IsKept([n \in 0 .. 0 |-> << >>], << >>, v)
  BY DEF IsKept
<1>2. ASSUME NEW k, IsKept(k, << >>, v)
      PROVE  k[0] = << >>
  BY <1>2 DEF IsKept
<1>3. Len(<< >>) = 0
  OBVIOUS
<1>4. RowsFor(<< >>, v) = << >>
  BY <1>1, <1>2, <1>3, RowsForIsKept
<1>5. QED
  BY <1>1, <1>2, <1>3, <1>4 DEF KeptOnce

LEMMA KeptAppend ==
  ASSUME NEW lines \in Seq(Line), NEW l \in Line, NEW v, KeptOnce(lines, v)
  PROVE  /\ KeptOnce(Append(lines, l), v)
         /\ RowsFor(Append(lines, l), v)
              = IF l.variant = v THEN Append(RowsFor(lines, v), RowOf(l))
                                 ELSE RowsFor(lines, v)
<1> DEFINE more == Append(lines, l)
           n == Len(lines)
           ms == RowsFor(lines, v)
           new == IF l.variant = v THEN Append(ms, RowOf(l)) ELSE ms
<1>1. /\ n \in Nat /\ Len(more) = n + 1 /\ more[n + 1] = l
      /\ \A m \in 1 .. n : more[m] = lines[m]
  OBVIOUS
<1>2. PICK k : IsKept(k, lines, v) /\ k[n] = ms
  BY DEF KeptOnce
<1> DEFINE e == [m \in 0 .. n + 1 |-> IF m = n + 1 THEN new ELSE k[m]]
           Next1(f, m) == IF m = 0 THEN << >>
                          ELSE IF more[m].variant = v
                          THEN Append(f[m - 1], RowOf(more[m])) ELSE f[m - 1]
<1>3. IsKept(e, more, v)
  <2>1. ASSUME NEW m \in 0 .. n + 1
        PROVE  e[m] = Next1(e, m)
    <3>1. CASE m = n + 1
      <4>1. m # 0 /\ m - 1 = n /\ e[m - 1] = ms /\ more[m] = l
        BY <1>1, <1>2, <3>1
      <4>2. QED
        BY <3>1, <4>1
    <3>2. CASE m = 0
      <4>1. e[m] = k[m] /\ 0 \in 0 .. n
        BY <1>1, <3>2
      <4>2. k[0] = << >>
        BY <1>2, <4>1 DEF IsKept
      <4>3. QED
        BY <3>2, <4>1, <4>2
    <3>3. CASE m \in 1 .. n
      <4>1. /\ e[m] = k[m] /\ e[m - 1] = k[m - 1] /\ more[m] = lines[m] /\ m # 0
            /\ m \in 0 .. n
        BY <1>1, <3>3
      <4>2. k[m] = IF lines[m].variant = v THEN Append(k[m - 1], RowOf(lines[m]))
                                           ELSE k[m - 1]
        BY <1>2, <4>1 DEF IsKept
      <4>3. QED
        BY <4>1, <4>2
    <3>4. QED
      BY <1>1, <3>1, <3>2, <3>3
  <2>2. e = [m \in 0 .. n + 1 |-> e[m]]
    OBVIOUS
  <2> HIDE DEF e
  <2>3. e = [m \in 0 .. n + 1 |-> Next1(e, m)]
    BY <2>1, <2>2
  <2>4. QED
    BY <1>1, <2>3, Zenon DEF IsKept
<1>4. ASSUME NEW d, IsKept(d, more, v)
      PROVE  d[n + 1] = new
  <2> DEFINE c == [m \in 0 .. n |-> d[m]]
  <2>1. \A m \in 0 .. n + 1 : d[m] = Next1(d, m)
    BY <1>1, <1>4 DEF IsKept
  <2>2. \A m \in 0 .. n : d[m] = IF m = 0 THEN << >>
                                 ELSE IF lines[m].variant = v
                                 THEN Append(d[m - 1], RowOf(lines[m]))
                                 ELSE d[m - 1]
    <3>1. ASSUME NEW m \in 0 .. n
          PROVE  m \in 0 .. n + 1 /\ (m # 0 => more[m] = lines[m])
      BY <1>1
    <3>2. QED
      BY <2>1, <3>1
  <2>3. \A m \in 0 .. n : c[m] = d[m] /\ (m # 0 => c[m - 1] = d[m - 1])
    BY <1>1
  <2>4. IsKept(c, lines, v)
    <3>1. c = [m \in 0 .. n |-> c[m]]
      OBVIOUS
    <3> HIDE DEF c
    <3>2. QED
      BY <2>2, <2>3, <3>1 DEF IsKept
  <2>5. c[n] = ms
    BY <2>4 DEF KeptOnce
  <2>6. d[n] = ms
    BY <1>1, <2>3, <2>5
  <2>7. n + 1 \in 0 .. n + 1 /\ n + 1 # 0 /\ (n + 1) - 1 = n
    BY <1>1
  <2>8. d[n + 1] = Next1(d, n + 1)
    BY <2>1, <2>7
  <2>9. QED
    BY <1>1, <2>6, <2>7, <2>8
<1> HIDE DEF e, new, more
<1>5. RowsFor(more, v) = new
  BY <1>1, <1>3, <1>4, RowsForIsKept
<1>6. KeptOnce(more, v)
  BY <1>1, <1>3, <1>4, <1>5 DEF KeptOnce
<1>7. QED
  BY <1>5, <1>6 DEF more, new

\* One line more.
LEMMA LineSumAppend ==
  ASSUME NEW lines \in Seq(Line), NEW l \in Line, NEW v
  PROVE  /\ LineSum(lines, v) \in Int
         /\ LineSum(Append(lines, l), v)
              = LineSum(lines, v) + (IF l.variant = v THEN l.quantity ELSE 0)
         /\ LinesOf(Append(lines, l), v)
              = LinesOf(lines, v) \cup (IF l.variant = v THEN {Len(lines) + 1} ELSE {})
<1> DEFINE more == Append(lines, l)
           n == Len(lines)
           D == LinesOf(lines, v)
           E == LinesOf(more, v)
           f == Quantities(lines)
           h == Quantities(more)
<1>1. /\ n \in Nat /\ DOMAIN lines = 1 .. n /\ DOMAIN more = 1 .. n + 1
      /\ more[n + 1] = l /\ \A k \in 1 .. n : more[k] = lines[k]
      /\ \A k \in 1 .. n : lines[k] \in Line
  OBVIOUS
<1>2. l.quantity \in Int /\ \A k \in 1 .. n : lines[k].quantity \in Int
  BY <1>1 DEF Line
<1> HIDE DEF more, n
<1>3. /\ \A k \in 1 .. n : f[k] = lines[k].quantity /\ h[k] = f[k] /\ f[k] \in Int
      /\ h[n + 1] = l.quantity
  <2>1. \A k \in 1 .. n : k \in 1 .. n + 1
    BY <1>1
  <2>2. n + 1 \in 1 .. n + 1
    BY <1>1
  <2>3. QED
    BY <1>1, <1>2, <2>1, <2>2 DEF Quantities
<1>4. D \subseteq 1 .. n /\ IsFiniteSet(D) /\ n + 1 \notin D
  <2>1. D \subseteq 1 .. n
    BY <1>1 DEF LinesOf
  <2>2. n + 1 \notin 1 .. n
    BY <1>1
  <2>3. IsFiniteSet(1 .. n)
    BY <1>1, FS_Interval
  <2>4. IsFiniteSet(D)
    BY <2>1, <2>3, FS_Subset
  <2>5. QED
    BY <2>1, <2>2, <2>4
<1>5. E = D \cup (IF l.variant = v THEN {n + 1} ELSE {})
  <2>1. \A k : k \in 1 .. n + 1 <=> k \in 1 .. n \/ k = n + 1
    BY <1>1
  <2>2. QED
    BY <1>1, <2>1 DEF LinesOf
<1>6. SumOver(h, D) = SumOver(f, D) /\ SumOver(f, D) \in Int
  <2>1. \A k \in D : f[k] \in Int
    BY <1>3, <1>4
  <2>2. \A k \in D : h[k] = f[k]
    BY <1>3, <1>4
  <2> HIDE DEF D, f, h
  <2>3. SumOver(f, D) \in Int
    BY <1>4, <2>1, SumTake
  <2>4. QED
    BY <1>4, <2>1, <2>2, <2>3, SumCompare
<1>7. CASE l.variant # v
  BY <1>5, <1>6, <1>7 DEF LineSum, more, n
<1>8. CASE l.variant = v
  <2>1. E = D \cup {n + 1} /\ E \ {n + 1} = D
    BY <1>4, <1>5, <1>8
  <2>2. IsFiniteSet(E)
    BY <1>4, <2>1, FS_AddElement
  <2>3. \A k \in E : h[k] \in Int
    BY <1>2, <1>3, <1>4, <2>1
  <2> HIDE DEF D, E, f, h
  <2>4. \A k \in E : SumOver(h, E) = h[k] + SumOver(h, E \ {k})
    BY <2>2, <2>3, SumTake, Zenon
  <2>5. SumOver(h, E) = h[n + 1] + SumOver(h, D)
    BY <2>1, <2>4
  <2>6. SumOver(h, E) = SumOver(f, D) + l.quantity
    BY <1>2, <1>3, <1>6, <2>5
  <2>7. QED
    BY <1>5, <1>6, <1>8, <2>6 DEF LineSum, more, n, D, E, f, h
<1>9. QED
  BY <1>7, <1>8

LEMMA GatheredEmpty ==
  ASSUME NEW v
  PROVE  Gathered(<< >>, v)
<1>1. LinesOf(<< >>, v) = {}
  BY DEF LinesOf
<1>2. LineSum(<< >>, v) = 0
  BY <1>1, SumEmpty DEF LineSum
<1>3. /\ << >> \in Seq(Movement) /\ Len(<< >>) = 0
      /\ DOMAIN << >> = {}
  OBVIOUS
<1>4. /\ RowsFor(<< >>, v) = << >>
      /\ Balance(<< >>) = 0
  BY KeptEmpty, BalanceEmpty
<1> DEFINE ms == RowsFor(<< >>, v)
<1>5. /\ ms \in Seq(Movement) /\ Len(ms) = 0 /\ DOMAIN ms = {}
      /\ Balance(ms) = LineSum(<< >>, v)
  <2>1. ms = << >>
    BY <1>4
  <2> HIDE DEF ms
  <2>2. Balance(ms) = 0
    BY <1>4, <2>1
  <2>3. QED
    BY <1>2, <1>3, <2>1, <2>2
<1>6. QED
  <2> HIDE DEF ms
  <2>1. ~ (Len(ms) > 1)
    BY <1>5
  <2>2. QED
    BY <1>5, <2>1 DEF Gathered, ms

LEMMA GatheredAppend ==
  ASSUME NEW lines \in Seq(Line), NEW l \in Line, NEW v, KeptOnce(lines, v),
         Gathered(lines, v)
  PROVE  Gathered(Append(lines, l), v)
<1> DEFINE more == Append(lines, l)
           ms == RowsFor(lines, v)
           new == RowsFor(more, v)
           n == Len(lines)
           D == LinesOf(lines, v)
           E == LinesOf(more, v)
<1>1. /\ ms \in Seq(Movement)
      /\ \A k \in DOMAIN ms : \E j \in D : ms[k] = RowOf(lines[j])
      /\ Len(ms) > 1 => \E i, j \in D : i # j
      /\ Balance(ms) = LineSum(lines, v)
  BY DEF Gathered
<1>2. new = IF l.variant = v THEN Append(ms, RowOf(l)) ELSE ms
  BY KeptAppend
<1>3. /\ E = D \cup (IF l.variant = v THEN {n + 1} ELSE {})
      /\ LineSum(more, v) = LineSum(lines, v) + (IF l.variant = v THEN l.quantity ELSE 0)
      /\ LineSum(lines, v) \in Int
  BY LineSumAppend
<1>4. /\ n \in Nat /\ more[n + 1] = l /\ D \subseteq 1 .. n
      /\ \A k \in 1 .. n : more[k] = lines[k]
  BY DEF LinesOf
<1> HIDE DEF more, ms, new, n, D, E
<1>5. n + 1 \notin D /\ \A j \in D : more[j] = lines[j]
  BY <1>4
<1>6. CASE l.variant # v
  <2>1. new = ms /\ E = D /\ LineSum(more, v) = LineSum(lines, v)
    BY <1>2, <1>3, <1>6
  <2>2. \A k \in DOMAIN new : \E j \in E : new[k] = RowOf(more[j])
    BY <1>1, <1>5, <2>1
  <2>3. /\ new \in Seq(Movement)
        /\ Len(new) > 1 => \E i, j \in E : i # j
        /\ Balance(new) = LineSum(more, v)
    BY <1>1, <2>1
  <2>4. QED
    BY <2>2, <2>3 DEF Gathered, new, E, more
<1>7. CASE l.variant = v
  <2> DEFINE m == RowOf(l)
  <2>1. /\ new = Append(ms, m) /\ E = D \cup {n + 1}
        /\ LineSum(more, v) = LineSum(lines, v) + l.quantity
    BY <1>2, <1>3, <1>7
  <2>2. m \in Movement /\ m.quantity = l.quantity /\ m = RowOf(more[n + 1])
    BY <1>4 DEF Line, Movement, RowOf
  <2> HIDE DEF m
  <2>3. /\ new \in Seq(Movement) /\ Len(ms) \in Nat /\ Len(new) = Len(ms) + 1
        /\ DOMAIN new = 1 .. Len(ms) + 1 /\ DOMAIN ms = 1 .. Len(ms)
        /\ new[Len(ms) + 1] = m
        /\ \A k \in 1 .. Len(ms) : new[k] = ms[k]
    BY <1>1, <2>1, <2>2
  <2>4. ASSUME NEW k \in DOMAIN new
        PROVE  \E j \in E : new[k] = RowOf(more[j])
    <3>1. CASE k = Len(ms) + 1
      BY <2>1, <2>2, <2>3, <3>1
    <3>2. CASE k # Len(ms) + 1
      <4>1. k \in DOMAIN ms /\ new[k] = ms[k]
        BY <2>3, <3>2
      <4>2. PICK j \in D : ms[k] = RowOf(lines[j])
        BY <1>1, <4>1
      <4>3. j \in E /\ more[j] = lines[j]
        BY <1>5, <2>1
      <4>4. QED
        BY <4>1, <4>2, <4>3
    <3>3. QED
      BY <3>1, <3>2
  <2>5. ASSUME Len(new) > 1
        PROVE  \E i, j \in E : i # j
    <3>1. 1 \in DOMAIN ms
      BY <2>3, <2>5
    <3>2. PICK j \in D : ms[1] = RowOf(lines[j])
      BY <1>1, <3>1
    <3>3. j \in E /\ n + 1 \in E /\ j # n + 1
      BY <1>5, <2>1
    <3>4. QED
      BY <3>3
  <2>6. Balance(new) = LineSum(more, v)
    BY <1>1, <2>1, <2>2, BalanceAppend
  <2>7. QED
    BY <2>3, <2>4, <2>5, <2>6 DEF Gathered, new, E, more
<1>8. QED
  BY <1>6, <1>7

\* A set of sequences that is not empty has a member that is empty or whose
\* last element cannot be dropped.
LEMMA ShortestSeq ==
  ASSUME NEW S, NEW B \in SUBSET Seq(S), B # {}, << >> \notin B
  PROVE  \E s \in Seq(S), e \in S : Append(s, e) \in B /\ s \notin B
<1> DEFINE T == {Len(s) : s \in B}
<1>1. T \in SUBSET Nat /\ T # {}
  <2>1. \A s \in B : Len(s) \in Nat
    OBVIOUS
  <2>2. QED
    BY <2>1
<1>2. PICK n \in T : \A m \in T : n <= m
  BY <1>1, LeastNumber
<1>3. PICK t \in B : n = Len(t)
  OBVIOUS
<1>4. PICK s \in Seq(S), e \in S : t = Append(s, e)
  BY SequenceEmptyOrAppend
<1>5. Len(s) \in Nat /\ Len(t) = Len(s) + 1
  BY <1>4
<1>6. ASSUME s \in B
      PROVE  FALSE
  <2>1. n <= Len(s)
    BY <1>2, <1>6, Zenon
  <2>2. QED
    BY <1>3, <1>5, <2>1
<1>7. QED
  BY <1>3, <1>4, <1>6

\* What RowsFor returns, and how it grows, for every list of lines.
LEMMA RowsForLines ==
  ASSUME NEW lines \in Seq(Line), NEW v
  PROVE  /\ Gathered(lines, v)
         /\ \A l \in Line : RowsFor(Append(lines, l), v)
              = IF l.variant = v THEN Append(RowsFor(lines, v), RowOf(l))
                                 ELSE RowsFor(lines, v)
<1> DEFINE Bad == {s \in Seq(Line) : ~ (KeptOnce(s, v) /\ Gathered(s, v))}
<1>1. << >> \notin Bad
  BY KeptEmpty, GatheredEmpty
<1>2. Bad = {}
  <2> SUFFICES ASSUME Bad # {}
               PROVE  FALSE
    OBVIOUS
  <2>1. PICK s \in Seq(Line), l \in Line : Append(s, l) \in Bad /\ s \notin Bad
    BY <1>1, ShortestSeq
  <2>2. KeptOnce(s, v) /\ Gathered(s, v)
    BY <2>1
  <2>3. KeptOnce(Append(s, l), v) /\ Gathered(Append(s, l), v)
    BY <2>2, KeptAppend, GatheredAppend
  <2>4. QED
    BY <2>1, <2>3
<1>3. KeptOnce(lines, v) /\ Gathered(lines, v)
  BY <1>2
<1>4. QED
  BY <1>3, KeptAppend
-----------------------------------------------------------------------------
(* The lines of a sale *)

\* Sequences of distinct elements of a finite set are sequences over it, and
\* list each of its elements once.
LEMMA ListingsAreSeqs ==
  ASSUME NEW S, IsFiniteSet(S), NEW o \in SetToSeqs(S)
  PROVE  o \in Seq(S)
<1>1. Cardinality(S) \in Nat
  BY FS_CardinalityType
<1>2. o \in [1 .. Cardinality(S) -> S]
  BY DEF SetToSeqs
<1>3. QED
  BY <1>1, <1>2

LEMMA ListingsListAll ==
  ASSUME NEW S, IsFiniteSet(S), NEW o \in SetToSeqs(S)
  PROVE  o \in Bijection(DOMAIN o, S)
<1> DEFINE D == 1 .. Cardinality(S)
<1>1. Cardinality(S) \in Nat
  BY FS_CardinalityType
<1>2. /\ o \in [D -> S] /\ DOMAIN o = D
      /\ \A i, j \in D : i # j => o[i] # o[j]
  BY DEF SetToSeqs
<1>3. Cardinality(D) = Cardinality(S)
  BY <1>1, FS_Interval
<1> HIDE DEF D
<1>4. o \in Injection(D, S)
  BY <1>2 DEF Injection, IsInjective
<1>5. o \in Surjection(D, S)
  BY <1>3, <1>4, FS_Injection
<1>6. QED
  BY <1>2, <1>4, <1>5 DEF Bijection

\* A list with one line for each item of a sale takes from, or puts back to, a
\* variant what the sale requires of it.
LEMMA SumOfSaleLines ==
  ASSUME NEW tbl \in [Item -> ItemRow \cup {NoItem}], NEW s \in Sale,
         NEW o \in SetToSeqs(ItemsOf(tbl, s)), NEW lines, NEW v,
         DOMAIN lines = DOMAIN o,
         \A k \in DOMAIN o : lines[k].variant = tbl[o[k]].variant
  PROVE  /\ Required(tbl, s, v) \in Int
         /\ (\A k \in DOMAIN o : lines[k].quantity = tbl[o[k]].quantity)
              => LineSum(lines, v) = Required(tbl, s, v)
         /\ (\A k \in DOMAIN o : lines[k].quantity = - tbl[o[k]].quantity)
              => LineSum(lines, v) = - Required(tbl, s, v)
<1> DEFINE S == ItemsOf(tbl, s)
           E == {i \in S : tbl[i].variant = v}
           f == [i \in S |-> tbl[i].quantity]
           D == LinesOf(lines, v)
           b == [k \in D |-> o[k]]
           h == [k \in D |-> f[o[k]]]
           q == Quantities(lines)
<1>1. S \subseteq Item /\ IsFiniteSet(S) /\ \A i \in S : tbl[i] \in ItemRow
  <2>1. S \subseteq Item /\ \A i \in S : tbl[i] \in ItemRow
    BY DEF ItemsOf
  <2>2. QED
    BY <2>1, KeysAssumption, FS_Subset
<1>2. \A i \in S : f[i] \in Int
  BY <1>1 DEF ItemRow
<1>3. o \in Bijection(DOMAIN o, S)
  <2> HIDE DEF S
  <2>1. o \in SetToSeqs(S)
    BY DEF S
  <2>2. QED
    BY <1>1, <2>1, ListingsListAll
<1>4. /\ o \in [DOMAIN o -> S]
      /\ \A i, j \in DOMAIN o : o[i] = o[j] => i = j
      /\ \A t \in S : \E k \in DOMAIN o : o[k] = t
  <2> HIDE DEF S
  <2>1. QED
    BY <1>3 DEF Bijection, Injection, IsInjective, Surjection
<1>5. D = {k \in DOMAIN o : o[k] \in E} /\ D \subseteq DOMAIN o
  BY <1>4 DEF LinesOf
<1>6. IsFiniteSet(D)
  <2>1. o \in Seq(S)
    BY <1>1, ListingsAreSeqs
  <2>2. IsFiniteSet(DOMAIN o)
    <3>1. DOMAIN o = 1 .. Len(o) /\ Len(o) \in Nat
      BY <2>1
    <3>2. QED
      BY <3>1, FS_Interval
  <2>3. QED
    BY <1>5, <2>2, FS_Subset
<1>7. E \subseteq S
  OBVIOUS
<1>8. Required(tbl, s, v) = SumOver(f, E)
  <2>1. [i \in E |-> tbl[i].quantity] = [i \in E |-> f[i]]
    BY <1>7
  <2>2. Required(tbl, s, v) = SumFunction([i \in E |-> tbl[i].quantity])
    BY Zenon DEF Required
  <2>3. QED
    BY <2>1, <2>2, Zenon DEF SumOver
<1>9. /\ \A k \in D : /\ h[k] = f[b[k]] /\ h[k] \in Int
                      /\ h[k] = tbl[o[k]].quantity
                      /\ q[k] = lines[k].quantity
  BY <1>2, <1>4, <1>5 DEF Quantities
<1>10. b \in Bijection(D, E)
  <2>1. b \in [D -> E] /\ \A k \in D : b[k] = o[k]
    BY <1>5
  <2> HIDE DEF b, D, E
  <2>2. \A i, j \in D : b[i] = b[j] => i = j
    BY <1>4, <1>5, <2>1
  <2>3. \A t \in E : \E k \in D : b[k] = t
    BY <1>4, <1>5, <1>7, <2>1
  <2>4. QED
    BY <2>1, <2>2, <2>3 DEF Bijection, Injection, IsInjective, Surjection
<1>11. IsFiniteSet(E)
  BY <1>1, <1>7, FS_Subset
<1>12. \A i \in E : f[i] \in Int
  BY <1>2, <1>7
<1>13. LineSum(lines, v) = SumOver(q, D)
  BY DEF LineSum
<1> HIDE DEF S, E, f, D, b, h, q
<1>14. SumOver(h, D) = SumOver(f, E)
  BY <1>6, <1>9, <1>10, SumReindex
<1>15. SumOver(f, E) \in Int
  BY <1>11, <1>12, SumTake
<1>16. ASSUME \A k \in DOMAIN o : lines[k].quantity = tbl[o[k]].quantity
       PROVE  LineSum(lines, v) = Required(tbl, s, v)
  <2>1. \A k \in D : q[k] = h[k]
    BY <1>5, <1>9, <1>16
  <2>2. SumOver(q, D) = SumOver(h, D)
    BY <1>6, <1>9, <2>1, SumCompare
  <2>3. QED
    BY <1>8, <1>13, <1>14, <2>2
<1>17. ASSUME \A k \in DOMAIN o : lines[k].quantity = - tbl[o[k]].quantity
       PROVE  LineSum(lines, v) = - Required(tbl, s, v)
  <2>1. \A k \in D : q[k] = - h[k]
    BY <1>5, <1>9, <1>17
  <2>2. SumOver(q, D) = - SumOver(h, D)
    BY <1>6, <1>9, <2>1, SumCompare
  <2>3. QED
    BY <1>8, <1>13, <1>14, <2>2
<1>18. QED
  BY <1>8, <1>15, <1>16, <1>17

LEMMA SaleLinesSum ==
  ASSUME NEW tbl \in [Item -> ItemRow \cup {NoItem}], NEW s \in Sale,
         NEW o \in SetToSeqs(ItemsOf(tbl, s)), NEW n, NEW v
  PROVE  /\ Required(tbl, s, v) \in Int
         /\ LineSum(SaleLines(tbl, o, n), v) = - Required(tbl, s, v)
         /\ LineSum(CancellationLines(tbl, o, n), v) = Required(tbl, s, v)
<1> DEFINE a == SaleLines(tbl, o, n)
           b == CancellationLines(tbl, o, n)
<1>1. /\ DOMAIN a = DOMAIN o
      /\ \A k \in DOMAIN o : /\ a[k].variant = tbl[o[k]].variant
                             /\ a[k].quantity = - tbl[o[k]].quantity
  BY DEF SaleLines
<1>2. /\ DOMAIN b = DOMAIN o
      /\ \A k \in DOMAIN o : /\ b[k].variant = tbl[o[k]].variant
                             /\ b[k].quantity = tbl[o[k]].quantity
  BY DEF CancellationLines
<1> HIDE DEF a, b
<1>3. Required(tbl, s, v) \in Int /\ LineSum(a, v) = - Required(tbl, s, v)
  <2>1. \A k \in DOMAIN o : a[k].variant = tbl[o[k]].variant
    BY <1>1
  <2>2. \A k \in DOMAIN o : a[k].quantity = - tbl[o[k]].quantity
    BY <1>1
  <2>3. DOMAIN a = DOMAIN o
    BY <1>1
  <2>4. QED
    BY <2>1, <2>2, <2>3, SumOfSaleLines
<1>4. LineSum(b, v) = Required(tbl, s, v)
  <2>1. \A k \in DOMAIN o : b[k].variant = tbl[o[k]].variant
    BY <1>2
  <2>2. \A k \in DOMAIN o : b[k].quantity = tbl[o[k]].quantity
    BY <1>2
  <2>3. DOMAIN b = DOMAIN o
    BY <1>2
  <2>4. QED
    BY <2>1, <2>2, <2>3, SumOfSaleLines
<1>5. QED
  BY <1>3, <1>4 DEF a, b

-----------------------------------------------------------------------------
(* The inductive invariant *)

SaleKinds == {"delete", "add", "update", "remove", "complete", "cancel"}

\* A request past its sale lock holds it, and the status it has checked is
\* still the status of the sale.
HoldsSale(r) ==
  /\ lock[SaleRow(Task[r].sale)] = r
  /\ status[Task[r].sale] = ExpectedStatus(r)

\* A checkout that has chosen its number holds the store, and the number is
\* still the next one of the store.
HoldsNumber(r) ==
  LET st == SaleStore[Task[r].sale]
  IN  /\ lock[StoreRow(st)] = r
      /\ memo[r].number = LatestNumber(number, st) + 1

\* What is left to lock before "rows" are held: the row itself, or nothing.
LocksFirst(r, row) ==
  plan[r] = <<row>> \/ (plan[r] = << >> /\ lock[row] = r)

ControlOf(r) ==
  /\ pc[r] = "sale" => /\ Task[r].kind \in SaleKinds
                       /\ LocksFirst(r, SaleRow(Task[r].sale))
  /\ pc[r] \in {"validate", "number"} => Task[r].kind = "complete"
  /\ pc[r] = "number" => LocksFirst(r, StoreRow(SaleStore[Task[r].sale]))
  /\ pc[r] = "move" => Task[r].kind \in {"complete", "cancel", "movement", "batch"}
  /\ pc[r] \in {"validate", "number", "move", "commit"} /\ Task[r].kind \in SaleKinds
       => HoldsSale(r)
  /\ pc[r] \in {"move", "commit"} /\ Task[r].kind = "complete"
       => HoldsNumber(r)
  /\ pc[r] \in {"idle", "commit"} /\ Task[r].kind = "create"
       => status[Task[r].sale] = "none"

ControlInv == \A r \in Request : ControlOf(r)

NumberInv ==
  /\ \A st \in Store : \E n \in Nat : NumbersOf(number, st) = 1 .. n
  /\ \A s, t \in Sale : /\ s # t /\ SaleStore[s] = SaleStore[t]
                        /\ number[s] # 0
                        => number[s] # number[t]
  /\ \A s \in Sale : number[s] # 0 => status[s] \in {"completed", "cancelled"}

\* The movements s add up to x.
Balanced(s, x) == Balance(s) = x

\* The committed stock of a variant balances; whoever has inserted movements
\* holds its lock; and the holder's view balances with its own movements.
LedgerInv ==
  /\ \A v \in Variant : Balanced(movements[v], stock[v])
  /\ \A r \in Request, v \in Variant :
       /\ rows[r][v] # << >> => lock[VariantRow(v)] = r
       /\ lock[VariantRow(v)] = r
            => Balanced(movements[v] \o rows[r][v], cur[r][v])

IInv == TypeOK /\ ControlInv /\ NumberInv /\ LedgerInv

-----------------------------------------------------------------------------
(* Sums of movements *)

LEMMA BalancedRecord ==
  ASSUME NEW s \in Seq(Movement), NEW t \in Seq(Movement), NEW x \in Int,
         NEW m \in Movement, Balanced(s \o t, x)
  PROVE  Balanced(s \o Append(t, m), x + m.quantity)
<1>1. s \o t \in Seq(Movement)
  OBVIOUS
<1>2. Append(s \o t, m) = s \o Append(t, m)
  <2>1. <<m>> \in Seq(Movement)
    OBVIOUS
  <2>2. Append(s \o t, m) = (s \o t) \o <<m>>
    BY <1>1, AppendIsConcat
  <2>3. Append(t, m) = t \o <<m>>
    BY AppendIsConcat
  <2>4. (s \o t) \o <<m>> = s \o (t \o <<m>>)
    BY <2>1, ConcatAssociative
  <2>5. QED
    BY <2>2, <2>3, <2>4
<1>3. QED
  BY <1>1, <1>2, BalanceAppend DEF Balanced

-----------------------------------------------------------------------------
(* Rows and locks *)

LEMMA RowTypes ==
  /\ \A s \in Sale : SaleRow(s) \in Row
  /\ \A v \in Variant : VariantRow(v) \in Row
  /\ \A p \in Product : ProductRow(p) \in Row
  /\ \A st \in Store : StoreRow(st) \in Row
  BY DEF Row, SaleRow, VariantRow, ProductRow, StoreRow

\* A row that is named like a variant's is the row of a variant.
LEMMA VariantRowShape ==
  ASSUME NEW row \in Row, row[1] = "variant"
  PROVE  row[2] \in Variant /\ row = VariantRow(row[2])
  BY DEF Row, VariantRow

LEMMA RowsDiffer ==
  /\ \A v, w : VariantRow(v) = VariantRow(w) => v = w
  /\ \A v : VariantRow(v)[1] = "variant" /\ VariantRow(v)[2] = v
  /\ \A s, v : SaleRow(s) # VariantRow(v)
  /\ \A st, v : StoreRow(st) # VariantRow(v)
  BY DEF SaleRow, VariantRow, StoreRow

LEMMA FiniteQueries ==
  ASSUME item \in [Item -> ItemRow \cup {NoItem}]
  PROVE  /\ \A p \in Product : IsFiniteSet(VariantsOf(p))
         /\ \A s \in Sale : /\ IsFiniteSet(ItemsOf(item, s))
                            /\ VariantsSold(item, s) \subseteq Variant
                            /\ IsFiniteSet(VariantsSold(item, s))
<1>1. \A p \in Product : VariantsOf(p) \subseteq Variant
  BY DEF VariantsOf
<1>2. \A s \in Sale : ItemsOf(item, s) \subseteq Item
  BY DEF ItemsOf
<1>3. \A s \in Sale : VariantsSold(item, s) \subseteq Variant
  BY DEF VariantsSold, ItemsOf, ItemRow
<1>4. QED
  BY <1>1, <1>2, <1>3, FS_Subset, KeysAssumption

-----------------------------------------------------------------------------
(* What the services put into plans, movement lists and local variables *)

LEMMA TaskTypes ==
  ASSUME NEW r \in Request
  PROVE  /\ Task[r].kind \in SaleKinds \cup {"create", "movement", "batch", "price"}
         /\ Task[r].kind \in SaleKinds \cup {"create"} => Task[r].sale \in Sale
         /\ Task[r].kind \in {"add", "update", "remove"} => Task[r].item \in Item
         /\ Task[r].kind = "add" => /\ Task[r].variant \in Variant
                                    /\ Task[r].quantity \in Nat
                                    /\ Task[r].discount \in Int
         /\ Task[r].kind = "update" => /\ Task[r].quantity \in Nat \cup {NoValue}
                                       /\ Task[r].discount \in Int \cup {NoValue}
         /\ Task[r].kind = "movement" => Task[r].line \in Line
         /\ Task[r].kind = "batch" => /\ Task[r].product \in Product
                                      /\ Task[r].lines \in Seq(Line)
         /\ Task[r].kind = "price" => /\ Task[r].product \in Product
                                      /\ Task[r].amount \in Nat
<1> DEFINE t == Task[r]
<1>1. t \in Operation
  BY TaskAssumption
<1>2. CASE t \in [kind: {"create", "delete", "complete", "cancel"}, sale: Sale]
  BY <1>2 DEF SaleKinds
<1>3. CASE t \in [kind: {"add"}, sale: Sale, item: Item, variant: Variant,
                  quantity: Nat, discount: Int]
  BY <1>3 DEF SaleKinds
<1>4. CASE t \in [kind: {"update"}, sale: Sale, item: Item,
                  quantity: Nat \cup {NoValue}, discount: Int \cup {NoValue}]
  BY <1>4 DEF SaleKinds
<1>5. CASE t \in [kind: {"remove"}, sale: Sale, item: Item]
  BY <1>5 DEF SaleKinds
<1>6. CASE t \in [kind: {"movement"}, line: Line]
  BY <1>6 DEF SaleKinds
<1>7. CASE t \in [kind: {"batch"}, product: Product, lines: Seq(Line)]
  BY <1>7 DEF SaleKinds
<1>8. CASE t \in [kind: {"price"}, product: Product, amount: Nat]
  BY <1>8 DEF SaleKinds
<1>9. QED
  BY <1>1, <1>2, <1>3, <1>4, <1>5, <1>6, <1>7, <1>8 DEF Operation

LEMMA LineRow ==
  ASSUME NEW l \in Line
  PROVE  l.variant \in Variant /\ l.quantity \in Int /\ RowOf(l) \in Movement
         /\ RowOf(l).quantity = l.quantity
  BY DEF Line, Movement, RowOf

LEMMA LinesOfSale ==
  ASSUME item \in [Item -> ItemRow \cup {NoItem}],
         NEW s \in Sale, NEW n \in Nat,
         NEW order \in SetToSeqs(ItemsOf(item, s))
  PROVE  /\ SaleLines(item, order, n) \in Seq(Line)
         /\ CancellationLines(item, order, n) \in Seq(Line)
<1>1. order \in Seq(ItemsOf(item, s))
  BY FiniteQueries, ListingsAreSeqs
<1>2. \A k \in 1 .. Len(order) :
        /\ item[order[k]].variant \in Variant
        /\ item[order[k]].quantity \in Nat \ {0}
  BY <1>1 DEF ItemsOf, ItemRow
<1>3. \A k \in 1 .. Len(order) :
        /\ SaleLines(item, order, n)[k] \in Line
        /\ CancellationLines(item, order, n)[k] \in Line
  BY <1>1, <1>2 DEF SaleLines, CancellationLines, Line
<1>4. /\ SaleLines(item, order, n)
           = [k \in 1 .. Len(order) |-> SaleLines(item, order, n)[k]]
      /\ CancellationLines(item, order, n)
           = [k \in 1 .. Len(order) |-> CancellationLines(item, order, n)[k]]
  BY <1>1 DEF SaleLines, CancellationLines
<1>5. QED
  BY <1>1, <1>3, <1>4

LEMMA ProductTypes == ProductOf \in [Variant -> Product]
  BY KeysAssumption

LEMMA JoinedRowsType ==
  ASSUME NEW order \in Seq(Variant)
  PROVE  JoinedRows(order) \in Seq(Row)
<1> DEFINE n == Len(order)
<1>1. n \in Nat /\ 2 * n \in Nat
  OBVIOUS
<1>2. ASSUME NEW k \in 1 .. 2 * n
      PROVE  JoinedRows(order)[k] \in Row
  <2>1. CASE k % 2 = 1
    <3>1. (k + 1) \div 2 \in 1 .. n
      BY <2>1, <1>1
    <3>2. JoinedRows(order)[k] = VariantRow(order[(k + 1) \div 2])
      BY <2>1 DEF JoinedRows
    <3>3. QED
      BY <3>1, <3>2, RowTypes
  <2>2. CASE k % 2 # 1
    <3>1. k \div 2 \in 1 .. n
      BY <2>2, <1>1
    <3>2. JoinedRows(order)[k] = ProductRow(ProductOf[order[k \div 2]])
      BY <2>2 DEF JoinedRows
    <3>3. order[k \div 2] \in Variant
      BY <3>1
    <3>4. ProductOf[order[k \div 2]] \in Product
      BY <3>3, ProductTypes
    <3>5. QED
      BY <3>2, <3>4, RowTypes
  <2>3. QED
    BY <2>1, <2>2
<1>3. JoinedRows(order) = [k \in 1 .. 2 * n |-> JoinedRows(order)[k]]
  BY DEF JoinedRows
<1>4. QED
  BY <1>1, <1>2, <1>3

LEMMA VariantRowsType ==
  ASSUME NEW order \in Seq(Variant)
  PROVE  VariantRows(order) \in Seq(Row)
<1>1. VariantRows(order) = [k \in 1 .. Len(order) |-> VariantRow(order[k])]
  BY DEF VariantRows
<1>2. \A k \in 1 .. Len(order) : VariantRow(order[k]) \in Row
  BY RowTypes
<1>3. QED
  BY <1>1, <1>2

LEMMA NewRowType ==
  ASSUME TypeOK, NEW r \in Request, Task[r].kind \in {"add", "update"},
         Acceptable(r)
  PROVE  NewRow(r) \in ItemRow
<1>1. CASE Task[r].kind = "add"
  <2>1. NewRow(r) = Priced(Task[r].sale, Task[r].variant, Task[r].quantity,
                           memo[r].unit, Task[r].discount)
    BY <1>1 DEF NewRow
  <2>2. ValidRow(NewRow(r))
    BY <1>1 DEF Acceptable
  <2>3. memo[r].unit \in Nat
    BY DEF TypeOK, RequestsOK, MemoOK
  <2>4. QED
    BY <1>1, <2>1, <2>2, <2>3, TaskTypes DEF Priced, ValidRow, ItemRow, SaleKinds
<1>2. CASE Task[r].kind = "update"
  <2> DEFINE old == item[Task[r].item]
             q == Given(Task[r].quantity, old.quantity)
             d == Given(Task[r].discount, old.discount)
  <2>1. NewRow(r) = Priced(Task[r].sale, old.variant, q, old.unit, d)
    BY <1>2 DEF NewRow
  <2>2. ValidRow(NewRow(r)) /\ Task[r].item \in ItemsOf(item, Task[r].sale)
    BY <1>2 DEF Acceptable
  <2>3. old \in ItemRow
    BY <2>2 DEF TypeOK, TablesOK, ItemsOf
  <2>4. q \in Nat /\ d \in Int
    BY <1>2, <2>3, TaskTypes DEF Given, ItemRow
  <2>5. old.variant \in Variant /\ old.unit \in Nat
    BY <2>3 DEF ItemRow
  <2> HIDE DEF old, q, d
  <2>6. QED
    BY <1>2, <2>1, <2>2, <2>4, <2>5, TaskTypes
    DEF Priced, ValidRow, ItemRow, SaleKinds
<1>3. QED
  BY <1>1, <1>2

\* Where the numbers given are 1, ..., n, the latest one is n.
LEMMA LatestOfInterval ==
  ASSUME NEW nums, NEW st, NEW n \in Nat, NumbersOf(nums, st) = 1 .. n
  PROVE  LatestNumber(nums, st) = n
<1>1. CASE n = 0
  BY <1>1 DEF LatestNumber
<1>2. CASE n > 0
  <2>1. LatestNumber(nums, st) = Max(1 .. n)
    BY <1>2 DEF LatestNumber
  <2>2. n \in 1 .. n /\ \A y \in 1 .. n : n >= y
    BY <1>2
  <2>3. \A x \in 1 .. n : (\A y \in 1 .. n : x >= y) => x = n
    BY <1>2
  <2>4. QED
    BY <2>1, <2>2, <2>3 DEF Max
<1>3. QED
  BY <1>1, <1>2

-----------------------------------------------------------------------------
(* Types are preserved *)

USE DEF vars, tables, control

\* A step that only moves a request on: new point, new plan, new lines.
LEMMA MoveOnType ==
  ASSUME TypeOK, NEW r \in Request, NEW where \in Point,
         NEW rs \in Seq(Row), NEW ls \in Seq(Line),
         pc' = [pc EXCEPT ![r] = where],
         plan' = [plan EXCEPT ![r] = rs],
         todo' = [todo EXCEPT ![r] = ls],
         UNCHANGED <<tables, lock, cur, rows>>,
         MemoOK'
  PROVE  TypeOK'
  BY DEF TypeOK, TablesOK, RequestsOK

LEMMA MemoStays ==
  ASSUME TypeOK, UNCHANGED memo
  PROVE  MemoOK'
  BY DEF TypeOK, RequestsOK, MemoOK

LEMMA MemoSet ==
  ASSUME TypeOK, NEW r \in Request, NEW unit \in Nat, NEW n \in Nat,
         NEW row \in ItemRow \cup {NoItem}, NEW sum,
         memo' = [memo EXCEPT ![r] = Memo(unit, n, row, sum)]
  PROVE  MemoOK'
  BY DEF TypeOK, RequestsOK, MemoOK, Memo

LEMMA EnterType ==
  ASSUME TypeOK, NEW r \in Request, NEW where \in Point,
         NEW rs \in Seq(Row), NEW ls \in Seq(Line),
         Enter(r, where, rs, ls), MemoOK'
  PROVE  TypeOK'
  BY MoveOnType DEF Enter

LEMMA ProceedType ==
  ASSUME TypeOK, NEW r \in Request, NEW where \in Point,
         NEW rs \in Seq(Row), NEW ls \in Seq(Line),
         Proceed(r, where, rs, ls), MemoOK'
  PROVE  TypeOK'
  BY MoveOnType DEF Proceed

LEMMA EmptyLists == << >> \in Seq(Row) /\ << >> \in Seq(Line)
  OBVIOUS

LEMMA Points == /\ "idle" \in Point /\ "sale" \in Point /\ "validate" \in Point
                /\ "number" \in Point /\ "move" \in Point /\ "commit" \in Point
                /\ "hooks" \in Point /\ "done" \in Point /\ "failed" \in Point
  BY DEF Point

\* The variants of a product, in any order, give a list of rows.
LEMMA ListedVariantRows ==
  ASSUME TypeOK, NEW p \in Product, NEW order \in SetToSeqs(VariantsOf(p))
  PROVE  VariantRows(order) \in Seq(Row)
<1>1. item \in [Item -> ItemRow \cup {NoItem}]
  BY DEF TypeOK, TablesOK
<1>2. order \in Seq(VariantsOf(p))
  BY <1>1, FiniteQueries, ListingsAreSeqs
<1>3. order \in Seq(Variant)
  BY <1>2 DEF VariantsOf
<1>4. QED
  BY <1>3, VariantRowsType

LEMMA StartType ==
  ASSUME TypeOK, NEW r \in Request, Start(r)
  PROVE  TypeOK'
<1>1. CASE StartCreate(r)
  BY <1>1, EnterType, MemoStays, EmptyLists, Points DEF StartCreate
<1>2. CASE StartOnSale(r)
  <2>1. Task[r].sale \in Sale
    BY <1>2, TaskTypes DEF StartOnSale, SaleKinds
  <2>2. <<SaleRow(Task[r].sale)>> \in Seq(Row)
    BY <2>1, RowTypes
  <2>3. QED
    BY <1>2, <2>2, EnterType, MemoStays, EmptyLists, Points DEF StartOnSale
<1>3. CASE StartAdd(r)
  <2>1. Task[r].sale \in Sale /\ Task[r].variant \in Variant
    BY <1>3, TaskTypes DEF StartAdd, SaleKinds
  <2>2. <<SaleRow(Task[r].sale)>> \in Seq(Row)
    BY <2>1, RowTypes
  <2>3. price[Task[r].variant] \in Nat
    BY <2>1 DEF TypeOK, TablesOK
  <2>4. MemoOK'
    BY <1>3, <2>3, MemoSet DEF StartAdd
  <2>5. QED
    BY <1>3, <2>2, <2>4, EnterType, EmptyLists, Points DEF StartAdd
<1>4. CASE StartMovement(r)
  <2>1. Task[r].line \in Line
    BY <1>4, TaskTypes DEF StartMovement
  <2>2. <<Task[r].line>> \in Seq(Line)
    BY <2>1
  <2>3. QED
    BY <1>4, <2>2, EnterType, MemoStays, EmptyLists, Points DEF StartMovement
<1>5. CASE StartBatch(r)
  <2>1. PICK order \in SetToSeqs(VariantsOf(Task[r].product)) :
          Enter(r, "move", <<ProductRow(Task[r].product)>> \o VariantRows(order),
                Task[r].lines)
    BY <1>5 DEF StartBatch
  <2>2. Task[r].product \in Product /\ Task[r].lines \in Seq(Line)
    BY <1>5, TaskTypes DEF StartBatch
  <2>3. VariantRows(order) \in Seq(Row) /\ ProductRow(Task[r].product) \in Row
    BY <2>2, ListedVariantRows, RowTypes
  <2>4. <<ProductRow(Task[r].product)>> \o VariantRows(order) \in Seq(Row)
    BY <2>3
  <2>5. MemoOK'
    BY <1>5, MemoStays DEF StartBatch
  <2>6. QED
    BY <2>1, <2>2, <2>4, <2>5, EnterType, Points
<1>6. CASE StartPrice(r)
  <2>1. PICK order \in SetToSeqs(VariantsOf(Task[r].product)) :
          Enter(r, "commit", VariantRows(order), << >>)
    BY <1>6 DEF StartPrice
  <2>2. Task[r].product \in Product
    BY <1>6, TaskTypes DEF StartPrice
  <2>3. VariantRows(order) \in Seq(Row)
    BY <2>2, ListedVariantRows
  <2>4. MemoOK'
    BY <1>6, MemoStays DEF StartPrice
  <2>5. QED
    BY <2>1, <2>3, <2>4, EnterType, EmptyLists, Points
<1>7. CASE RefusePrice(r)
  BY <1>7, EnterType, MemoStays, EmptyLists, Points DEF RefusePrice
<1>8. QED
  BY <1>1, <1>2, <1>3, <1>4, <1>5, <1>6, <1>7 DEF Start

LEMMA AcquireType ==
  ASSUME TypeOK, NEW r \in Request, Acquire(r)
  PROVE  TypeOK'
<1> DEFINE row == Head(plan[r])
<1>1. row \in Row /\ Tail(plan[r]) \in Seq(Row)
  BY DEF Acquire, TypeOK, RequestsOK
<1>2. cur' \in [Request -> [Variant -> Nat]]
  <2>1. CASE row[1] = "variant"
    <3>1. StockRead(r, row[2]) \in Nat /\ row[2] \in Variant
      BY <1>1, <2>1, VariantRowShape
      DEF StockRead, TypeOK, TablesOK, RequestsOK
    <3>2. cur' = [cur EXCEPT ![r][row[2]] = StockRead(r, row[2])]
      BY <2>1 DEF Acquire
    <3>3. QED
      BY <3>1, <3>2 DEF TypeOK, RequestsOK
  <2>2. CASE row[1] # "variant"
    BY <2>2 DEF Acquire, TypeOK, RequestsOK
  <2>3. QED
    BY <2>1, <2>2
<1>3. lock' \in [Row -> Request \cup {Nobody}]
  BY <1>1 DEF Acquire, TypeOK, RequestsOK
<1>4. plan' \in [Request -> Seq(Row)]
  BY <1>1 DEF Acquire, TypeOK, RequestsOK
<1>5. MemoOK'
  BY MemoStays DEF Acquire
<1>6. QED
  BY <1>2, <1>3, <1>4, <1>5 DEF Acquire, TypeOK, TablesOK, RequestsOK

LEMMA RecordMovementType ==
  ASSUME TypeOK, NEW r \in Request, RecordMovement(r)
  PROVE  TypeOK'
<1> DEFINE l == Head(todo[r])
           v == l.variant
<1>1. l \in Line /\ Tail(todo[r]) \in Seq(Line)
  BY DEF RecordMovement, TypeOK, RequestsOK
<1>2. v \in Variant /\ RowOf(l) \in Movement /\ VariantRow(v) \in Row
  BY <1>1, LineRow, RowTypes
<1>3. StockRead(r, v) + l.quantity \in Nat
  <2>1. StockRead(r, v) + l.quantity >= 0
    BY DEF RecordMovement, InStock
  <2>2. StockRead(r, v) \in Nat
    BY <1>2 DEF StockRead, TypeOK, TablesOK, RequestsOK
  <2>3. QED
    BY <1>1, <2>1, <2>2, LineRow
<1>4. cur' = [cur EXCEPT ![r][v] = StockRead(r, v) + l.quantity]
  BY DEF RecordMovement
<1>5. rows' = [rows EXCEPT ![r][v] = Append(@, RowOf(l))]
  BY DEF RecordMovement
<1>6. lock' = [lock EXCEPT ![VariantRow(v)] = r]
  BY DEF RecordMovement
<1>7. MemoOK'
  BY MemoStays DEF RecordMovement
<1>8. cur' \in [Request -> [Variant -> Nat]]
  BY <1>2, <1>3, <1>4 DEF TypeOK, RequestsOK
<1>9. rows' \in [Request -> [Variant -> Seq(Movement)]]
  BY <1>2, <1>5 DEF TypeOK, RequestsOK
<1>10. lock' \in [Row -> Request \cup {Nobody}]
  BY <1>2, <1>6 DEF TypeOK, RequestsOK
<1>11. todo' \in [Request -> Seq(Line)]
  BY <1>1 DEF RecordMovement, TypeOK, RequestsOK
<1>12. QED
  BY <1>7, <1>8, <1>9, <1>10, <1>11
  DEF RecordMovement, TypeOK, TablesOK, RequestsOK

LEMMA LatestIsNat ==
  ASSUME NumberInv, NEW st \in Store
  PROVE  LatestNumber(number, st) \in Nat
<1>1. PICK n \in Nat : NumbersOf(number, st) = 1 .. n
  BY DEF NumberInv
<1>2. QED
  BY <1>1, LatestOfInterval

LEMMA HandleType ==
  ASSUME TypeOK, ControlInv, NumberInv, NEW r \in Request, Handle(r)
  PROVE  TypeOK'
<1>1. CASE Delete(r)
  BY <1>1, ProceedType, MemoStays, EmptyLists, Points DEF Delete
<1>2. CASE EditItem(r)
  <2>1. PICK row, sum : /\ row = IF Task[r].kind = "remove" THEN NoItem ELSE NewRow(r)
                        /\ memo' = [memo EXCEPT ![r] = Memo(0, 0, row, sum)]
    BY <1>2 DEF EditItem
  <2>2. row \in ItemRow \cup {NoItem}
    BY <1>2, <2>1, NewRowType DEF EditItem
  <2>3. MemoOK'
    BY <2>1, <2>2, MemoSet
  <2>4. QED
    BY <1>2, <2>3, ProceedType, EmptyLists, Points DEF EditItem
<1>3. CASE BeginCheckout(r)
  <2>1. Task[r].sale \in Sale
    BY <1>3, TaskTypes DEF BeginCheckout, SaleKinds
  <2>2. PICK order \in IdOrders(VariantsSold(item, Task[r].sale)) :
          Proceed(r, "validate", JoinedRows(order), << >>)
    BY <1>3 DEF BeginCheckout
  <2>3. order \in SetToSeqs(VariantsSold(item, Task[r].sale))
    BY DEF IdOrders
  <2>4. item \in [Item -> ItemRow \cup {NoItem}]
    BY DEF TypeOK, TablesOK
  <2>5. order \in Seq(VariantsSold(item, Task[r].sale))
    BY <2>1, <2>3, <2>4, FiniteQueries, ListingsAreSeqs
  <2>6. order \in Seq(Variant)
    BY <2>1, <2>4, <2>5, FiniteQueries
  <2>7. JoinedRows(order) \in Seq(Row)
    BY <2>6, JoinedRowsType
  <2>8. MemoOK'
    BY <1>3, MemoStays DEF BeginCheckout
  <2>9. QED
    BY <2>2, <2>7, <2>8, ProceedType, EmptyLists, Points
<1>4. CASE BeginCancel(r)
  <2>1. Task[r].sale \in Sale
    BY <1>4, TaskTypes DEF BeginCancel, SaleKinds
  <2>2. PICK order \in SetToSeqs(ItemsOf(item, Task[r].sale)) :
          Proceed(r, "move", << >>,
                  CancellationLines(item, order, number[Task[r].sale]))
    BY <1>4 DEF BeginCancel
  <2>3. /\ item \in [Item -> ItemRow \cup {NoItem}]
        /\ number[Task[r].sale] \in Nat
    BY <2>1 DEF TypeOK, TablesOK
  <2>4. CancellationLines(item, order, number[Task[r].sale]) \in Seq(Line)
    BY <2>1, <2>3, LinesOfSale
  <2>5. MemoOK'
    BY <1>4, MemoStays DEF BeginCancel
  <2>6. QED
    BY <2>2, <2>4, <2>5, ProceedType, EmptyLists, Points
<1>5. CASE ValidateStock(r)
  <2>1. Task[r].kind = "complete"
    BY <1>5 DEF ValidateStock, Reached, ControlInv, ControlOf
  <2>2. Task[r].sale \in Sale
    BY <2>1, TaskTypes DEF SaleKinds
  <2>3. StoreRow(SaleStore[Task[r].sale]) \in Row
    BY <2>2, KeysAssumption, RowTypes
  <2>4. <<StoreRow(SaleStore[Task[r].sale])>> \in Seq(Row)
    BY <2>3
  <2>5. QED
    BY <1>5, <2>4, ProceedType, MemoStays, EmptyLists, Points DEF ValidateStock
<1>6. CASE AssignNumber(r)
  <2> DEFINE n == LatestNumber(number, SaleStore[Task[r].sale]) + 1
  <2>1. Task[r].kind = "complete"
    BY <1>6 DEF AssignNumber, Reached, ControlInv, ControlOf
  <2>2. Task[r].sale \in Sale /\ SaleStore[Task[r].sale] \in Store
    BY <2>1, TaskTypes, KeysAssumption DEF SaleKinds
  <2>3. n \in Nat
    BY <2>2, LatestIsNat
  <2>4. PICK order \in SetToSeqs(ItemsOf(item, Task[r].sale)) :
          Proceed(r, "move", << >>, SaleLines(item, order, n))
    BY <1>6 DEF AssignNumber
  <2>5. item \in [Item -> ItemRow \cup {NoItem}]
    BY DEF TypeOK, TablesOK
  <2>6. SaleLines(item, order, n) \in Seq(Line)
    BY <2>2, <2>3, <2>5, LinesOfSale
  <2>7. memo' = [memo EXCEPT ![r] = Memo(0, n, NoItem, 0)]
    BY <1>6 DEF AssignNumber
  <2>8. MemoOK'
    BY <2>3, <2>7, MemoSet
  <2>9. QED
    BY <2>4, <2>6, <2>8, ProceedType, EmptyLists, Points
<1>7. CASE RecordMovement(r)
  BY <1>7, RecordMovementType
<1>8. CASE Seal(r)
  <2>1. MemoOK'
    BY <1>8, MemoStays DEF Seal
  <2>2. pc' \in [Request -> Point]
    BY <1>8 DEF Seal, TypeOK, RequestsOK, Point
  <2>3. QED
    BY <1>8, <2>1, <2>2 DEF Seal, TypeOK, TablesOK, RequestsOK
<1>9. QED
  BY <1>1, <1>2, <1>3, <1>4, <1>5, <1>6, <1>7, <1>8 DEF Handle

\* The end of a transaction clears what the request holds.
LEMMA ForgetType ==
  ASSUME TypeOK, NEW r \in Request, Forget(r)
  PROVE  /\ lock' \in [Row -> Request \cup {Nobody}]
         /\ plan' \in [Request -> Seq(Row)]
         /\ todo' \in [Request -> Seq(Line)]
         /\ cur' \in [Request -> [Variant -> Nat]]
         /\ rows' \in [Request -> [Variant -> Seq(Movement)]]
         /\ MemoOK'
<1>1. lock' \in [Row -> Request \cup {Nobody}]
  BY DEF Forget, Free, TypeOK, RequestsOK
<1>2. plan' \in [Request -> Seq(Row)] /\ todo' \in [Request -> Seq(Line)]
  BY DEF Forget, TypeOK, RequestsOK
<1>3. [v \in Variant |-> 0] \in [Variant -> Nat]
  OBVIOUS
<1>4. cur' \in [Request -> [Variant -> Nat]]
  BY <1>3 DEF Forget, TypeOK, RequestsOK
<1>5. [v \in Variant |-> << >>] \in [Variant -> Seq(Movement)]
  OBVIOUS
<1>6. rows' \in [Request -> [Variant -> Seq(Movement)]]
  BY <1>5 DEF Forget, TypeOK, RequestsOK
<1>7. memo' = [memo EXCEPT ![r] = Memo(0, 0, NoItem, 0)]
  BY DEF Forget, NoMemo
<1>8. MemoOK'
  BY <1>7, MemoSet
<1>9. QED
  BY <1>1, <1>2, <1>4, <1>6, <1>8

LEMMA WriteStockType ==
  ASSUME TypeOK, NEW r \in Request, WriteStock(r)
  PROVE  stock' \in [Variant -> Nat] /\ movements' \in [Variant -> Seq(Movement)]
<1>1. \A v \in Variant : rows[r][v] \in Seq(Movement) /\ movements[v] \in Seq(Movement)
                         /\ stock[v] \in Nat /\ cur[r][v] \in Nat
  BY DEF TypeOK, TablesOK, RequestsOK
<1>2. stock' \in [Variant -> Nat]
  BY <1>1 DEF WriteStock
<1>3. \A v \in Variant : movements[v] \o rows[r][v] \in Seq(Movement)
  BY <1>1
<1>4. QED
  BY <1>2, <1>3 DEF WriteStock

LEMMA CommitType ==
  ASSUME TypeOK, NEW r \in Request, Commit(r)
  PROVE  TypeOK'
<1>1. Committing(r)
  BY DEF Commit, CommitCreate, CommitDelete, CommitItem, CommitPrice,
         CommitStockIn, CommitCheckout, CommitCancel
<1>2. pc' \in [Request -> Point]
  BY <1>1 DEF Committing, TypeOK, RequestsOK, Point
<1>3. Forget(r)
  BY <1>1 DEF Committing
<1>4. RequestsOK'
  BY <1>2, <1>3, ForgetType DEF RequestsOK
<1>5. CASE CommitCreate(r)
  <2>1. status' \in [Sale -> Status]
    BY <1>5 DEF CommitCreate, TypeOK, TablesOK, Status
  <2>2. QED
    BY <1>4, <1>5, <2>1 DEF CommitCreate, TypeOK, TablesOK
<1>6. CASE CommitDelete(r)
  <2>1. status' \in [Sale -> Status] /\ DOMAIN total' = Sale
    BY <1>6 DEF CommitDelete, TypeOK, TablesOK, Status
  <2>2. item' \in [Item -> ItemRow \cup {NoItem}]
    BY <1>6 DEF CommitDelete, TypeOK, TablesOK
  <2>3. QED
    BY <1>4, <1>6, <2>1, <2>2 DEF CommitDelete, TypeOK, TablesOK
<1>7. CASE CommitItem(r)
  <2>1. memo[r].row \in ItemRow \cup {NoItem}
    BY DEF TypeOK, RequestsOK, MemoOK
  <2>2. item' \in [Item -> ItemRow \cup {NoItem}] /\ DOMAIN total' = Sale
    BY <1>7, <2>1 DEF CommitItem, TypeOK, TablesOK
  <2>3. QED
    BY <1>4, <1>7, <2>2 DEF CommitItem, TypeOK, TablesOK
<1>8. CASE CommitPrice(r)
  <2>1. Task[r].amount \in Nat
    BY <1>8, TaskTypes DEF CommitPrice
  <2>2. price' \in [Variant -> Nat]
    BY <1>8, <2>1 DEF CommitPrice, TypeOK, TablesOK
  <2>3. QED
    BY <1>4, <1>8, <2>2 DEF CommitPrice, TypeOK, TablesOK
<1>9. CASE CommitStockIn(r)
  BY <1>4, <1>9, WriteStockType DEF CommitStockIn, TypeOK, TablesOK
<1>10. CASE CommitCheckout(r)
  <2>1. Task[r].sale \in Sale
    BY <1>10, TaskTypes DEF CommitCheckout, SaleKinds
  <2>2. memo[r].number \in Nat
    BY DEF TypeOK, RequestsOK, MemoOK
  <2>3. status' \in [Sale -> Status]
    BY <1>10 DEF CommitCheckout, TypeOK, TablesOK, Status
  <2>4. number' \in [Sale -> Nat]
    BY <1>10, <2>2 DEF CommitCheckout, TypeOK, TablesOK
  <2>5. outbox' \subseteq Sale
    BY <1>10, <2>1 DEF CommitCheckout, TypeOK, TablesOK
  <2>6. stock' \in [Variant -> Nat] /\ movements' \in [Variant -> Seq(Movement)]
    BY <1>10, WriteStockType DEF CommitCheckout
  <2>7. QED
    BY <1>4, <1>10, <2>3, <2>4, <2>5, <2>6 DEF CommitCheckout, TypeOK, TablesOK
<1>11. CASE CommitCancel(r)
  <2>1. status' \in [Sale -> Status]
    BY <1>11 DEF CommitCancel, TypeOK, TablesOK, Status
  <2>2. stock' \in [Variant -> Nat] /\ movements' \in [Variant -> Seq(Movement)]
    BY <1>11, WriteStockType DEF CommitCancel
  <2>3. QED
    BY <1>4, <1>11, <2>1, <2>2 DEF CommitCancel, TypeOK, TablesOK
<1>12. QED
  BY <1>5, <1>6, <1>7, <1>8, <1>9, <1>10, <1>11 DEF Commit

LEMMA RollbackType ==
  ASSUME TypeOK, NEW r \in Request, Rollback(r)
  PROVE  TypeOK'
<1>1. pc' \in [Request -> Point]
  BY DEF Rollback, TypeOK, RequestsOK, Point
<1>2. RequestsOK'
  BY <1>1, ForgetType DEF Rollback, RequestsOK
<1>3. QED
  BY <1>2 DEF Rollback, TypeOK, TablesOK

\* The steps after the commit change only pc, hooks and effects.
LEMMA AfterCommitType ==
  ASSUME TypeOK, NEW r \in Request, RunHook(r) \/ CrashBeforeHook(r)
  PROVE  TypeOK'
<1>1. pc' \in [Request -> Point]
  BY DEF RunHook, CrashBeforeHook, TypeOK, RequestsOK, Point
<1>2. UNCHANGED <<tables, control>>
  BY DEF RunHook, CrashBeforeHook
<1>3. MemoOK'
  BY <1>2, MemoStays
<1>4. QED
  BY <1>1, <1>2, <1>3 DEF TypeOK, TablesOK, RequestsOK

LEMMA TypeStep ==
  ASSUME TypeOK, ControlInv, NumberInv, [Next]_vars
  PROVE  TypeOK'
<1>1. CASE UNCHANGED vars
  <2>1. MemoOK'
    BY <1>1, MemoStays
  <2>2. QED
    BY <1>1, <2>1 DEF TypeOK, TablesOK, RequestsOK
<1>2. ASSUME NEW r \in Request, Start(r) \/ Advance(r) \/ Crash(r)
      PROVE  TypeOK'
  <2>1. CASE Start(r) \/ Acquire(r) \/ Handle(r) \/ Commit(r)
    BY <2>1, StartType, AcquireType, HandleType, CommitType
  <2>2. CASE Refuse(r) \/ DeadlockAbort(r) \/ CrashInTransaction(r)
    BY <2>2, RollbackType DEF Refuse, DeadlockAbort, CrashInTransaction
  <2>3. CASE RunHook(r) \/ CrashBeforeHook(r)
    BY <2>3, AfterCommitType
  <2>4. QED
    BY <1>2, <2>1, <2>2, <2>3 DEF Advance, Crash
<1>3. QED
  BY <1>1, <1>2 DEF Next, Rest

-----------------------------------------------------------------------------
(* The ledger is preserved *)

LEMMA LedgerFrame ==
  ASSUME LedgerInv, UNCHANGED <<stock, movements, lock, cur, rows>>
  PROVE  LedgerInv'
  BY DEF LedgerInv

\* What a locking read of a variant returns balances with the movements that
\* the reader sees, its own included.
LEMMA LockingRead ==
  ASSUME TypeOK, LedgerInv, NEW r \in Request, NEW v \in Variant,
         Lockable(r, VariantRow(v))
  PROVE  Balanced(movements[v] \o rows[r][v], StockRead(r, v))
<1>1. CASE lock[VariantRow(v)] = r
  BY <1>1 DEF LedgerInv, StockRead
<1>2. CASE lock[VariantRow(v)] # r
  <2>1. rows[r][v] = << >>
    BY <1>2 DEF LedgerInv
  <2>2. movements[v] \o rows[r][v] = movements[v]
    BY <2>1 DEF TypeOK, TablesOK
  <2>3. QED
    BY <1>2, <2>2 DEF LedgerInv, StockRead
<1>3. QED
  BY <1>1, <1>2

\* A request that has, or can take, the lock of a variant sets its own view.
LEMMA LedgerOwnView ==
  ASSUME TypeOK, LedgerInv, NEW r \in Request, NEW v \in Variant,
         Lockable(r, VariantRow(v)), NEW x, NEW ms,
         lock' = [lock EXCEPT ![VariantRow(v)] = r],
         cur' = [cur EXCEPT ![r][v] = x],
         rows' = [rows EXCEPT ![r][v] = ms],
         UNCHANGED <<stock, movements>>,
         Balanced(movements[v] \o ms, x)
  PROVE  LedgerInv'
<1>1. ASSUME NEW q \in Request, NEW w \in Variant
      PROVE  /\ rows'[q][w] # << >> => lock'[VariantRow(w)] = q
             /\ lock'[VariantRow(w)] = q
                  => Balanced(movements'[w] \o rows'[q][w], cur'[q][w])
  <2>1. VariantRow(w) \in Row /\ VariantRow(v) \in Row
        /\ (VariantRow(w) = VariantRow(v) => w = v)
    BY RowTypes, RowsDiffer
  <2>2. CASE w = v /\ q = r
    BY <2>1, <2>2 DEF TypeOK, RequestsOK
  <2>3. CASE w = v /\ q # r
    <3>1. rows'[q][w] = rows[q][w] /\ lock'[VariantRow(w)] = r
      BY <2>1, <2>3 DEF TypeOK, RequestsOK
    <3>2. rows[q][w] = << >>
      BY <2>3, TaskAssumption DEF LedgerInv, Lockable
    <3>3. QED
      BY <2>3, <3>1, <3>2
  <2>4. CASE w # v
    <3>1. /\ rows'[q][w] = rows[q][w] /\ cur'[q][w] = cur[q][w]
          /\ lock'[VariantRow(w)] = lock[VariantRow(w)]
      BY <2>1, <2>4 DEF TypeOK, RequestsOK
    <3>2. QED
      BY <3>1 DEF LedgerInv
  <2>5. QED
    BY <2>2, <2>3, <2>4
<1>2. \A w \in Variant : Balanced(movements'[w], stock'[w])
  BY DEF LedgerInv
<1>3. QED
  BY <1>1, <1>2 DEF LedgerInv

LEMMA AcquireLedger ==
  ASSUME TypeOK, LedgerInv, NEW r \in Request, Acquire(r)
  PROVE  LedgerInv'
<1> DEFINE row == Head(plan[r])
<1>1. row \in Row /\ Lockable(r, row)
  BY DEF Acquire, TypeOK, RequestsOK
<1>2. CASE row[1] = "variant"
  <2> DEFINE v == row[2]
  <2>1. v \in Variant /\ row = VariantRow(v)
    BY <1>1, <1>2, VariantRowShape
  <2>2. lock' = [lock EXCEPT ![VariantRow(v)] = r]
    BY <2>1 DEF Acquire
  <2>3. cur' = [cur EXCEPT ![r][v] = StockRead(r, v)]
    BY <1>2 DEF Acquire
  <2>4. rows' = [rows EXCEPT ![r][v] = rows[r][v]]
    BY <2>1 DEF Acquire, TypeOK, RequestsOK
  <2>5. Balanced(movements[v] \o rows[r][v], StockRead(r, v))
    BY <1>1, <2>1, LockingRead
  <2>6. UNCHANGED <<stock, movements>>
    BY DEF Acquire
  <2>7. Lockable(r, VariantRow(v))
    BY <1>1, <2>1
  <2> HIDE DEF v
  <2>8. QED
    BY <2>1, <2>2, <2>3, <2>4, <2>5, <2>6, <2>7, LedgerOwnView
<1>3. CASE row[1] # "variant"
  <2>1. UNCHANGED <<stock, movements, cur, rows>>
    BY <1>3 DEF Acquire
  <2>2. \A v \in Variant : row # VariantRow(v)
    BY <1>3, RowsDiffer
  <2>3. \A v \in Variant : lock'[VariantRow(v)] = lock[VariantRow(v)]
    BY <1>1, <2>2, RowTypes DEF Acquire, TypeOK, RequestsOK
  <2>4. QED
    BY <2>1, <2>3 DEF LedgerInv
<1>4. QED
  BY <1>2, <1>3

LEMMA RecordMovementLedger ==
  ASSUME TypeOK, LedgerInv, NEW r \in Request, RecordMovement(r)
  PROVE  LedgerInv'
<1> DEFINE l == Head(todo[r])
           v == l.variant
           x == StockRead(r, v)
<1>1. l \in Line /\ Lockable(r, VariantRow(v))
  BY DEF RecordMovement, TypeOK, RequestsOK
<1>2. /\ v \in Variant /\ RowOf(l) \in Movement
      /\ RowOf(l).quantity = l.quantity /\ l.quantity \in Int
  BY <1>1, LineRow
<1>3. x \in Nat
  BY <1>2 DEF StockRead, TypeOK, TablesOK, RequestsOK
<1>4. Balanced(movements[v] \o rows[r][v], x)
  BY <1>1, <1>2, LockingRead
<1>5. movements[v] \in Seq(Movement) /\ rows[r][v] \in Seq(Movement)
  BY <1>2 DEF TypeOK, TablesOK, RequestsOK
<1>6. x \in Int
  BY <1>3
<1>7. Balanced(movements[v] \o Append(rows[r][v], RowOf(l)), x + l.quantity)
  <2> HIDE DEF l, v, x
  <2>1. Balanced(movements[v] \o Append(rows[r][v], RowOf(l)),
                 x + RowOf(l).quantity)
    BY <1>2, <1>4, <1>5, <1>6, BalancedRecord
  <2>2. QED
    BY <1>2, <2>1
<1>8. /\ lock' = [lock EXCEPT ![VariantRow(v)] = r]
      /\ cur' = [cur EXCEPT ![r][v] = x + l.quantity]
      /\ UNCHANGED <<stock, movements>>
  BY DEF RecordMovement
<1>9. rows' = [rows EXCEPT ![r][v] = Append(rows[r][v], RowOf(l))]
  BY DEF RecordMovement
<1> HIDE DEF l, v, x
<1>10. QED
  BY <1>1, <1>2, <1>7, <1>8, <1>9, LedgerOwnView

\* After Forget the request holds nothing and has inserted nothing.
LEMMA ForgetHoldings ==
  ASSUME TypeOK, NEW r \in Request, Forget(r), NEW v \in Variant
  PROVE  /\ rows'[r][v] = << >>
         /\ lock'[VariantRow(v)] # r
         /\ \A q \in Request \ {r} :
              /\ rows'[q][v] = rows[q][v] /\ cur'[q][v] = cur[q][v]
              /\ lock'[VariantRow(v)] = q <=> lock[VariantRow(v)] = q
<1>1. VariantRow(v) \in Row
  BY RowTypes
<1>2. rows'[r][v] = << >>
  BY DEF Forget, TypeOK, RequestsOK
<1>3. lock'[VariantRow(v)] = IF lock[VariantRow(v)] = r THEN Nobody
                             ELSE lock[VariantRow(v)]
  BY <1>1 DEF Forget, Free
<1>4. \A q \in Request \ {r} : rows'[q] = rows[q] /\ cur'[q] = cur[q]
  BY DEF Forget, TypeOK, RequestsOK
<1>5. QED
  BY <1>2, <1>3, <1>4, TaskAssumption

LEMMA ForgetLedger ==
  ASSUME TypeOK, LedgerInv, NEW r \in Request, Forget(r),
         UNCHANGED <<stock, movements>>
  PROVE  LedgerInv'
<1>1. ASSUME NEW q \in Request, NEW v \in Variant
      PROVE  /\ rows'[q][v] # << >> => lock'[VariantRow(v)] = q
             /\ lock'[VariantRow(v)] = q
                  => Balanced(movements'[v] \o rows'[q][v], cur'[q][v])
  BY ForgetHoldings DEF LedgerInv
<1>2. QED
  BY <1>1 DEF LedgerInv

LEMMA WriteStockLedger ==
  ASSUME TypeOK, LedgerInv, NEW r \in Request, Forget(r), WriteStock(r)
  PROVE  LedgerInv'
<1>1. ASSUME NEW v \in Variant
      PROVE  Balanced(movements'[v], stock'[v])
  <2>1. CASE rows[r][v] = << >>
    <3>1. movements'[v] = movements[v] /\ stock'[v] = stock[v]
      BY <2>1 DEF WriteStock, TypeOK, TablesOK
    <3>2. QED
      BY <3>1 DEF LedgerInv
  <2>2. CASE rows[r][v] # << >>
    BY <2>2 DEF WriteStock, LedgerInv
  <2>3. QED
    BY <2>1, <2>2
<1>2. ASSUME NEW q \in Request, NEW v \in Variant
      PROVE  /\ rows'[q][v] # << >> => lock'[VariantRow(v)] = q
             /\ lock'[VariantRow(v)] = q
                  => Balanced(movements'[v] \o rows'[q][v], cur'[q][v])
  <2>1. CASE q = r
    BY <2>1, ForgetHoldings
  <2>2. CASE q # r
    <3>1. /\ rows'[q][v] = rows[q][v] /\ cur'[q][v] = cur[q][v]
          /\ lock'[VariantRow(v)] = q <=> lock[VariantRow(v)] = q
      BY <2>2, ForgetHoldings
    <3>2. lock[VariantRow(v)] = q => rows[r][v] = << >>
      BY <2>2 DEF LedgerInv
    <3>3. rows[r][v] = << >> => movements'[v] = movements[v]
      BY DEF WriteStock, TypeOK, TablesOK
    <3>4. QED
      BY <3>1, <3>2, <3>3 DEF LedgerInv
  <2>3. QED
    BY <2>1, <2>2
<1>3. QED
  BY <1>1, <1>2 DEF LedgerInv

LEMMA LedgerStep ==
  ASSUME TypeOK, LedgerInv, [Next]_vars
  PROVE  LedgerInv'
<1>1. CASE UNCHANGED vars
  BY <1>1, LedgerFrame
<1>2. ASSUME NEW r \in Request, Start(r) \/ Advance(r) \/ Crash(r)
      PROVE  LedgerInv'
  <2>1. CASE Start(r)
    BY <2>1, LedgerFrame
    DEF Start, StartCreate, StartOnSale, StartAdd, StartMovement, StartBatch,
        StartPrice, RefusePrice, Enter
  <2>2. CASE Acquire(r)
    BY <2>2, AcquireLedger
  <2>3. CASE RecordMovement(r)
    BY <2>3, RecordMovementLedger
  <2>4. CASE Delete(r) \/ EditItem(r) \/ BeginCheckout(r) \/ BeginCancel(r)
             \/ ValidateStock(r) \/ AssignNumber(r) \/ Seal(r)
    BY <2>4, LedgerFrame
    DEF Delete, EditItem, BeginCheckout, BeginCancel, ValidateStock,
        AssignNumber, Seal, Proceed
  <2>5. CASE CommitCreate(r) \/ CommitDelete(r) \/ CommitItem(r) \/ CommitPrice(r)
    BY <2>5, ForgetLedger
    DEF CommitCreate, CommitDelete, CommitItem, CommitPrice, Committing
  <2>6. CASE CommitStockIn(r) \/ CommitCheckout(r) \/ CommitCancel(r)
    BY <2>6, WriteStockLedger
    DEF CommitStockIn, CommitCheckout, CommitCancel, Committing
  <2>7. CASE Refuse(r) \/ DeadlockAbort(r) \/ CrashInTransaction(r)
    BY <2>7, ForgetLedger DEF Refuse, DeadlockAbort, CrashInTransaction, Rollback
  <2>8. CASE RunHook(r) \/ CrashBeforeHook(r)
    BY <2>8, LedgerFrame DEF RunHook, CrashBeforeHook
  <2>9. QED
    BY <1>2, <2>1, <2>2, <2>3, <2>4, <2>5, <2>6, <2>7, <2>8
    DEF Advance, Crash, Handle, Commit
<1>3. QED
  BY <1>1, <1>2 DEF Next, Rest

-----------------------------------------------------------------------------
(* What a step of r leaves alone *)

\* The other requests stay where they are and keep the locks they hold.
OthersKept(r) ==
  \A q \in Request \ {r} :
    /\ pc'[q] = pc[q] /\ plan'[q] = plan[q] /\ memo'[q] = memo[q]
    /\ \A row \in Row : lock[row] = q => lock'[row] = q

LEMMA StartKeepsOthers ==
  ASSUME TypeOK, NEW r \in Request, Start(r)
  PROVE  OthersKept(r)
<1>1. PICK where, rs, ls : Enter(r, where, rs, ls)
  BY DEF Start, StartCreate, StartOnSale, StartAdd, StartMovement, StartBatch,
         StartPrice, RefusePrice
<1>2. \A q \in Request \ {r} : memo'[q] = memo[q]
  BY DEF Start, StartCreate, StartOnSale, StartAdd, StartMovement, StartBatch,
         StartPrice, RefusePrice, TypeOK, RequestsOK, MemoOK
<1>3. QED
  BY <1>1, <1>2 DEF Enter, OthersKept, TypeOK, RequestsOK

LEMMA AcquireKeepsLocks ==
  ASSUME TypeOK, NEW r \in Request, Acquire(r)
  PROVE  /\ OthersKept(r)
         /\ \A row \in Row : lock[row] = r => lock'[row] = r
         /\ lock'[Head(plan[r])] = r
<1>1. Head(plan[r]) \in Row /\ lock[Head(plan[r])] \in {Nobody, r}
  BY DEF Acquire, Lockable, TypeOK, RequestsOK
<1>2. lock' = [lock EXCEPT ![Head(plan[r])] = r]
  BY DEF Acquire
<1>3. \A q \in Request : \A row \in Row : lock[row] = q => lock'[row] = q
  BY <1>1, <1>2, TaskAssumption DEF TypeOK, RequestsOK
<1>4. QED
  BY <1>1, <1>2, <1>3 DEF Acquire, OthersKept, TypeOK, RequestsOK

LEMMA RecordKeepsLocks ==
  ASSUME TypeOK, NEW r \in Request, RecordMovement(r)
  PROVE  /\ OthersKept(r)
         /\ \A row \in Row : lock[row] = r => lock'[row] = r
<1> DEFINE row == VariantRow(Head(todo[r]).variant)
<1>1. Head(todo[r]) \in Line /\ lock[row] \in {Nobody, r}
  BY DEF RecordMovement, Lockable, TypeOK, RequestsOK
<1>2. row \in Row
  BY <1>1, LineRow, RowTypes
<1>3. lock' = [lock EXCEPT ![row] = r]
  BY DEF RecordMovement
<1>4. \A q \in Request : \A x \in Row : lock[x] = q => lock'[x] = q
  BY <1>1, <1>2, <1>3, TaskAssumption DEF TypeOK, RequestsOK
<1>5. QED
  BY <1>4 DEF RecordMovement, OthersKept, TypeOK, RequestsOK

LEMMA ProceedKeepsOthers ==
  ASSUME TypeOK, NEW r \in Request, NEW where, NEW rs, NEW ls,
         Proceed(r, where, rs, ls),
         memo' = memo \/ \E m : memo' = [memo EXCEPT ![r] = m]
  PROVE  OthersKept(r)
<1>1. \A q \in Request \ {r} : memo'[q] = memo[q]
  BY DEF TypeOK, RequestsOK, MemoOK
<1>2. QED
  BY <1>1 DEF Proceed, OthersKept, TypeOK, RequestsOK

LEMMA ForgetKeepsOthers ==
  ASSUME TypeOK, NEW r \in Request, Forget(r),
         NEW where, pc' = [pc EXCEPT ![r] = where]
  PROVE  OthersKept(r)
<1>1. \A q \in Request \ {r} : \A row \in Row : lock[row] = q => lock'[row] = q
  BY DEF Forget, Free
<1>2. QED
  BY <1>1 DEF Forget, OthersKept, TypeOK, RequestsOK, MemoOK

\* Hence, while the tables they rely on stay, so does what they know.
LEMMA OtherControl ==
  ASSUME TypeOK, NEW r \in Request, NEW q \in Request \ {r}, ControlOf(q),
         OthersKept(r),
         (q # r /\ Task[q].kind \in SaleKinds /\ HoldsSale(q))
           => status'[Task[q].sale] = status[Task[q].sale],
         (Task[q].kind = "create" /\ status[Task[q].sale] = "none")
           => status'[Task[q].sale] = status[Task[q].sale],
         (Task[q].kind = "complete" /\ HoldsNumber(q))
           => LatestNumber(number', SaleStore[Task[q].sale])
                = LatestNumber(number, SaleStore[Task[q].sale])
  PROVE  ControlOf(q)'
<1>1. /\ pc'[q] = pc[q] /\ plan'[q] = plan[q] /\ memo'[q] = memo[q]
      /\ \A row \in Row : lock[row] = q => lock'[row] = q
  BY DEF OthersKept
<1>2. Task[q].kind \in SaleKinds => SaleRow(Task[q].sale) \in Row
  BY TaskTypes, RowTypes
<1>3. Task[q].kind = "complete" => StoreRow(SaleStore[Task[q].sale]) \in Row
  BY TaskTypes, RowTypes, KeysAssumption DEF SaleKinds
<1>4. pc[q] = "sale" => LocksFirst(q, SaleRow(Task[q].sale))'
  BY <1>1, <1>2 DEF ControlOf, LocksFirst
<1>5. pc[q] = "number" => LocksFirst(q, StoreRow(SaleStore[Task[q].sale]))'
  BY <1>1, <1>3 DEF ControlOf, LocksFirst
<1>6. Task[q].kind \in SaleKinds /\ HoldsSale(q) => HoldsSale(q)'
  BY <1>1, <1>2 DEF HoldsSale, ExpectedStatus
<1>7. Task[q].kind = "complete" /\ HoldsNumber(q) => HoldsNumber(q)'
  BY <1>1, <1>3 DEF HoldsNumber
<1>8. QED
  BY <1>1, <1>4, <1>5, <1>6, <1>7 DEF ControlOf

LEMMA OtherControlFrame ==
  ASSUME TypeOK, ControlInv, NEW r \in Request, OthersKept(r),
         UNCHANGED <<status, number>>, ControlOf(r)'
  PROVE  ControlInv'
  BY OtherControl DEF ControlInv

-----------------------------------------------------------------------------
(* What r itself knows and holds, at the point its step leads to *)

\* A step that writes no table, seen from the requests that do not take it.
LEMMA StartControl ==
  ASSUME TypeOK, ControlInv, NEW r \in Request, Start(r)
  PROVE  ControlInv'
<1>1. /\ pc[r] = "idle" /\ UNCHANGED <<status, number, lock>>
      /\ OthersKept(r) /\ ControlOf(r)
  BY StartKeepsOthers
  DEF Start, StartCreate, StartOnSale, StartAdd, StartMovement, StartBatch,
      StartPrice, RefusePrice, Enter, ControlInv
<1>2. CASE StartCreate(r)
  <2>1. pc'[r] = "commit" /\ Task[r].kind = "create"
    BY <1>2 DEF StartCreate, Enter, TypeOK, RequestsOK
  <2>2. ControlOf(r)'
    BY <1>1, <2>1 DEF ControlOf, SaleKinds
  <2>3. QED
    BY <1>1, <2>2, OtherControlFrame
<1>3. CASE StartOnSale(r) \/ StartAdd(r)
  <2>1. /\ pc'[r] = "sale" /\ Task[r].kind \in SaleKinds
        /\ plan'[r] = <<SaleRow(Task[r].sale)>>
    BY <1>3 DEF StartOnSale, StartAdd, Enter, SaleKinds, TypeOK, RequestsOK
  <2>2. ControlOf(r)'
    BY <1>1, <2>1 DEF ControlOf, LocksFirst
  <2>3. QED
    BY <1>1, <2>2, OtherControlFrame
<1>4. CASE StartMovement(r) \/ StartBatch(r)
  <2>1. pc'[r] = "move" /\ Task[r].kind \in {"movement", "batch"}
    BY <1>4 DEF StartMovement, StartBatch, Enter, TypeOK, RequestsOK
  <2>2. ControlOf(r)'
    BY <1>1, <2>1 DEF ControlOf, SaleKinds
  <2>3. QED
    BY <1>1, <2>2, OtherControlFrame
<1>5. CASE StartPrice(r) \/ RefusePrice(r)
  <2>1. pc'[r] \in {"commit", "failed"} /\ Task[r].kind = "price"
    BY <1>5 DEF StartPrice, RefusePrice, Enter, TypeOK, RequestsOK
  <2>2. ControlOf(r)'
    BY <1>1, <2>1 DEF ControlOf, SaleKinds
  <2>3. QED
    BY <1>1, <2>2, OtherControlFrame
<1>6. QED
  BY <1>2, <1>3, <1>4, <1>5 DEF Start

\* Taking one more lock, and nothing else, keeps what r knows.
LEMMA KeepsOwnControl ==
  ASSUME TypeOK, NEW r \in Request, ControlOf(r), pc'[r] = pc[r],
         UNCHANGED <<status, number, memo>>,
         \A row \in Row : lock[row] = r => lock'[row] = r,
         \A row \in Row : LocksFirst(r, row) => LocksFirst(r, row)'
  PROVE  ControlOf(r)'
<1>1. Task[r].kind \in SaleKinds => SaleRow(Task[r].sale) \in Row
  BY TaskTypes, RowTypes
<1>2. Task[r].kind = "complete" => StoreRow(SaleStore[Task[r].sale]) \in Row
  BY TaskTypes, RowTypes, KeysAssumption DEF SaleKinds
<1>3. Task[r].kind \in SaleKinds /\ HoldsSale(r) => HoldsSale(r)'
  BY <1>1 DEF HoldsSale, ExpectedStatus
<1>4. Task[r].kind = "complete" /\ HoldsNumber(r) => HoldsNumber(r)'
  BY <1>2 DEF HoldsNumber
<1>5. QED
  BY <1>1, <1>2, <1>3, <1>4 DEF ControlOf

LEMMA AcquireControl ==
  ASSUME TypeOK, ControlInv, NEW r \in Request, Acquire(r)
  PROVE  ControlInv'
<1>1. /\ OthersKept(r) /\ \A row \in Row : lock[row] = r => lock'[row] = r
      /\ lock'[Head(plan[r])] = r
  BY AcquireKeepsLocks
<1>2. /\ UNCHANGED <<status, number, memo, pc>>
      /\ plan[r] # << >> /\ plan'[r] = Tail(plan[r])
  BY DEF Acquire, TypeOK, RequestsOK
<1>3. ASSUME NEW row \in Row, LocksFirst(r, row)
      PROVE  LocksFirst(r, row)'
  <2>1. plan[r] = <<row>>
    BY <1>2, <1>3 DEF LocksFirst
  <2>2. Head(plan[r]) = row /\ Tail(plan[r]) = << >>
    BY <2>1
  <2>3. QED
    BY <1>1, <1>2, <2>2 DEF LocksFirst
<1>4. ControlOf(r)'
  BY <1>1, <1>2, <1>3, KeepsOwnControl DEF ControlInv
<1>5. QED
  BY <1>1, <1>2, <1>4, OtherControlFrame

LEMMA RecordMovementControl ==
  ASSUME TypeOK, ControlInv, NEW r \in Request, RecordMovement(r)
  PROVE  ControlInv'
<1>1. /\ OthersKept(r) /\ \A row \in Row : lock[row] = r => lock'[row] = r
  BY RecordKeepsLocks
<1>2. UNCHANGED <<status, number, memo, pc, plan>>
  BY DEF RecordMovement
<1>3. \A row \in Row : LocksFirst(r, row) => LocksFirst(r, row)'
  BY <1>1, <1>2 DEF LocksFirst
<1>4. ControlOf(r)'
  BY <1>1, <1>2, <1>3, KeepsOwnControl DEF ControlInv
<1>5. QED
  BY <1>1, <1>2, <1>4, OtherControlFrame

LEMMA HandleControl ==
  ASSUME TypeOK, ControlInv, NEW r \in Request, Handle(r), ~ RecordMovement(r)
  PROVE  ControlInv'
<1>1. /\ OthersKept(r) /\ UNCHANGED <<status, number, lock>>
  <2>1. CASE Seal(r)
    BY <2>1 DEF Seal, OthersKept, TypeOK, RequestsOK
  <2>2. CASE ~ Seal(r)
    <3>1. PICK where, rs, ls : Proceed(r, where, rs, ls)
      BY <2>2 DEF Handle, Delete, EditItem, BeginCheckout, BeginCancel,
                  ValidateStock, AssignNumber
    <3>2. memo' = memo \/ \E m : memo' = [memo EXCEPT ![r] = m]
      BY <2>2 DEF Handle, Delete, EditItem, BeginCheckout, BeginCancel,
                  ValidateStock, AssignNumber
    <3>3. QED
      BY <3>1, <3>2, ProceedKeepsOthers DEF Proceed
  <2>3. QED
    BY <2>1, <2>2
<1>2. ControlOf(r)
  BY DEF ControlInv
<1>3. CASE Delete(r) \/ EditItem(r) \/ BeginCheckout(r) \/ BeginCancel(r)
  <2>1. /\ Reached(r, "sale") /\ Acceptable(r)
        /\ Task[r].kind # "complete" => pc'[r] \in {"commit", "move"}
        /\ Task[r].kind = "complete" => pc'[r] = "validate"
        /\ Task[r].kind # "cancel" => pc'[r] # "move"
    BY <1>3 DEF Delete, EditItem, BeginCheckout, BeginCancel, Proceed, TypeOK,
                RequestsOK
  <2>2. HoldsSale(r)' /\ Task[r].kind \in SaleKinds
    BY <1>1, <1>2, <2>1
    DEF Reached, ControlOf, LocksFirst, Acceptable, HoldsSale, ExpectedStatus
  <2>3. ControlOf(r)'
    BY <2>1, <2>2 DEF ControlOf, SaleKinds
  <2>4. QED
    BY <1>1, <2>3, OtherControlFrame
<1>4. CASE ValidateStock(r)
  <2>1. /\ pc[r] = "validate" /\ pc'[r] = "number"
        /\ plan'[r] = <<StoreRow(SaleStore[Task[r].sale])>>
    BY <1>4 DEF ValidateStock, Reached, Proceed, TypeOK, RequestsOK
  <2>2. HoldsSale(r)' /\ Task[r].kind = "complete"
    BY <1>1, <1>2, <2>1 DEF ControlOf, HoldsSale, ExpectedStatus, SaleKinds
  <2>3. ControlOf(r)'
    BY <2>1, <2>2 DEF ControlOf, LocksFirst
  <2>4. QED
    BY <1>1, <2>3, OtherControlFrame
<1>5. CASE AssignNumber(r)
  <2>1. pc[r] = "number" /\ plan[r] = << >> /\ pc'[r] = "move"
    BY <1>5 DEF AssignNumber, Reached, Proceed, TypeOK, RequestsOK
  <2>2. HoldsSale(r)' /\ Task[r].kind = "complete"
    BY <1>1, <1>2, <2>1 DEF ControlOf, HoldsSale, ExpectedStatus, SaleKinds
  <2>3. lock[StoreRow(SaleStore[Task[r].sale])] = r
    BY <1>2, <2>1 DEF ControlOf, LocksFirst
  <2>4. memo'[r].number = LatestNumber(number, SaleStore[Task[r].sale]) + 1
    BY <1>5 DEF AssignNumber, Memo, TypeOK, RequestsOK, MemoOK
  <2>5. HoldsNumber(r)'
    BY <1>1, <2>3, <2>4 DEF HoldsNumber
  <2>6. ControlOf(r)'
    BY <2>1, <2>2, <2>5 DEF ControlOf
  <2>7. QED
    BY <1>1, <2>6, OtherControlFrame
<1>6. CASE Seal(r)
  <2>1. pc[r] = "move" /\ pc'[r] = "commit" /\ UNCHANGED memo
    BY <1>6 DEF Seal, Reached, TypeOK, RequestsOK
  <2>2. Task[r].kind \in SaleKinds => HoldsSale(r)'
    BY <1>1, <1>2, <2>1 DEF ControlOf, HoldsSale, ExpectedStatus
  <2>3. Task[r].kind = "complete" => HoldsNumber(r)'
    BY <1>1, <1>2, <2>1 DEF ControlOf, HoldsNumber
  <2>4. Task[r].kind # "create"
    BY <1>2, <2>1 DEF ControlOf
  <2>5. ControlOf(r)'
    BY <2>1, <2>2, <2>3, <2>4 DEF ControlOf
  <2>6. QED
    BY <1>1, <2>5, OtherControlFrame
<1>7. QED
  BY <1>3, <1>4, <1>5, <1>6 DEF Handle

\* A request outside its handler knows nothing.
LEMMA OutsideControl ==
  ASSUME NEW r \in Request, pc'[r] \in {"hooks", "done", "failed"}
  PROVE  ControlOf(r)'
  BY DEF ControlOf

LEMMA EndControl ==
  ASSUME TypeOK, ControlInv, NEW r \in Request,
         Rollback(r) \/ RunHook(r) \/ CrashBeforeHook(r)
  PROVE  ControlInv'
<1>1. UNCHANGED <<status, number>>
  BY DEF Rollback, RunHook, CrashBeforeHook
<1>2. pc'[r] \in {"hooks", "done", "failed"}
  BY DEF Rollback, RunHook, CrashBeforeHook, TypeOK, RequestsOK
<1>3. OthersKept(r)
  <2>1. CASE Rollback(r)
    BY <2>1, ForgetKeepsOthers DEF Rollback
  <2>2. CASE RunHook(r) \/ CrashBeforeHook(r)
    BY <2>2 DEF RunHook, CrashBeforeHook, OthersKept, TypeOK, RequestsOK
  <2>3. QED
    BY <2>1, <2>2
<1>4. QED
  BY <1>1, <1>2, <1>3, OutsideControl, OtherControlFrame

-----------------------------------------------------------------------------
(* What a commit writes *)

LEMMA SaleCommitControl ==
  ASSUME TypeOK, ControlInv, NEW r \in Request, Committing(r),
         Task[r].kind \in SaleKinds \cup {"create"},
         NEW st \in Status, status' = [status EXCEPT ![Task[r].sale] = st],
         \/ UNCHANGED number
         \/ /\ Task[r].kind = "complete"
            /\ number' = [number EXCEPT ![Task[r].sale] = memo[r].number]
  PROVE  ControlInv'
<1> DEFINE s == Task[r].sale
<1>1. /\ OthersKept(r) /\ ControlOf(r)'
  <2>1. pc'[r] \in {"hooks", "done", "failed"}
    BY DEF Committing, TypeOK, RequestsOK
  <2>2. OthersKept(r)
    BY ForgetKeepsOthers DEF Committing
  <2>3. QED
    BY <2>1, <2>2, OutsideControl
<1>2. /\ Task[r].kind = "create" => status[s] = "none"
      /\ Task[r].kind # "create" => HoldsSale(r)
      /\ Task[r].kind = "complete" => HoldsNumber(r)
      /\ s \in Sale
  BY TaskTypes DEF Committing, Reached, ControlInv, ControlOf, SaleKinds
<1>3. ASSUME NEW q \in Request \ {r}
      PROVE  ControlOf(q)'
  <2> DEFINE t == Task[q].sale
  <2>1. ControlOf(q)
    BY DEF ControlInv
  <2>2. ASSUME Task[q].kind \in SaleKinds, HoldsSale(q)
        PROVE  status'[t] = status[t]
    <3>1. lock[SaleRow(t)] = q /\ status[t] # "none"
      BY <2>2 DEF HoldsSale, ExpectedStatus
    <3>2. t # s
      BY <1>2, <3>1 DEF HoldsSale
    <3>3. QED
      BY <3>2 DEF TypeOK, TablesOK
  <2>3. ASSUME Task[q].kind = "create", status[t] = "none"
        PROVE  status'[t] = status[t]
    <3>1. t # s
      <4>1. CASE Task[r].kind = "create"
        BY <2>3, <4>1, FreshKeys
      <4>2. CASE Task[r].kind # "create"
        BY <1>2, <2>3, <4>2 DEF HoldsSale, ExpectedStatus
      <4>3. QED
        BY <4>1, <4>2
    <3>2. QED
      BY <3>1 DEF TypeOK, TablesOK
  <2>4. ASSUME Task[q].kind = "complete", HoldsNumber(q)
        PROVE  LatestNumber(number', SaleStore[t]) = LatestNumber(number, SaleStore[t])
    <3>1. CASE UNCHANGED number
      BY <3>1
    <3>2. CASE /\ Task[r].kind = "complete"
               /\ number' = [number EXCEPT ![s] = memo[r].number]
      <4>1. SaleStore[t] # SaleStore[s]
        BY <1>2, <2>4, <3>2 DEF HoldsNumber
      <4>2. \A u \in Sale : SaleStore[u] = SaleStore[t] => number'[u] = number[u]
        BY <3>2, <4>1 DEF TypeOK, TablesOK
      <4>3. NumbersOf(number', SaleStore[t]) = NumbersOf(number, SaleStore[t])
        BY <4>2 DEF NumbersOf
      <4>4. QED
        BY <4>3 DEF LatestNumber
    <3>3. QED
      BY <3>1, <3>2
  <2>5. QED
    BY <1>1, <2>1, <2>2, <2>3, <2>4, OtherControl
<1>4. QED
  BY <1>1, <1>3 DEF ControlInv

LEMMA CommitControl ==
  ASSUME TypeOK, ControlInv, NEW r \in Request, Commit(r)
  PROVE  ControlInv'
<1>1. Committing(r)
  BY DEF Commit, CommitCreate, CommitDelete, CommitItem, CommitPrice,
         CommitStockIn, CommitCheckout, CommitCancel
<1>2. CASE CommitItem(r) \/ CommitPrice(r) \/ CommitStockIn(r)
  <2>1. pc'[r] \in {"hooks", "done", "failed"} /\ OthersKept(r)
    BY <1>1, ForgetKeepsOthers DEF Committing, TypeOK, RequestsOK
  <2>2. UNCHANGED <<status, number>>
    BY <1>2 DEF CommitItem, CommitPrice, CommitStockIn
  <2>3. QED
    BY <2>1, <2>2, OutsideControl, OtherControlFrame
<1>3. CASE CommitCreate(r)
  BY <1>1, <1>3, SaleCommitControl DEF CommitCreate, Status, SaleKinds
<1>4. CASE CommitDelete(r)
  BY <1>1, <1>4, SaleCommitControl DEF CommitDelete, Status, SaleKinds
<1>5. CASE CommitCheckout(r)
  BY <1>1, <1>5, SaleCommitControl DEF CommitCheckout, Status, SaleKinds
<1>6. CASE CommitCancel(r)
  BY <1>1, <1>6, SaleCommitControl DEF CommitCancel, Status, SaleKinds
<1>7. QED
  BY <1>2, <1>3, <1>4, <1>5, <1>6 DEF Commit

LEMMA ControlStep ==
  ASSUME TypeOK, ControlInv, [Next]_vars
  PROVE  ControlInv'
<1>1. CASE UNCHANGED vars
  BY <1>1 DEF ControlInv, ControlOf, LocksFirst, HoldsSale, HoldsNumber,
              ExpectedStatus
<1>2. ASSUME NEW r \in Request, Start(r) \/ Advance(r) \/ Crash(r)
      PROVE  ControlInv'
  <2>1. CASE Start(r) \/ Acquire(r) \/ Commit(r)
    BY <2>1, StartControl, AcquireControl, CommitControl
  <2>2. CASE Handle(r)
    BY <2>2, HandleControl, RecordMovementControl
  <2>3. CASE Refuse(r) \/ DeadlockAbort(r) \/ RunHook(r) \/ Crash(r)
    BY <2>3, EndControl
    DEF Refuse, DeadlockAbort, Crash, CrashInTransaction
  <2>4. QED
    BY <1>2, <2>1, <2>2, <2>3 DEF Advance
<1>3. QED
  BY <1>1, <1>2 DEF Next, Rest

-----------------------------------------------------------------------------
(* The numbers are preserved *)

LEMMA NumberFrame ==
  ASSUME NumberInv, UNCHANGED <<status, number>>
  PROVE  NumberInv'
  BY DEF NumberInv, NumbersOf

\* A sale without a number may take any status.
LEMMA NumberStatus ==
  ASSUME TypeOK, NumberInv, NEW s \in Sale, NEW st,
         number[s] = 0 \/ st \in {"completed", "cancelled"},
         status' = [status EXCEPT ![s] = st],
         UNCHANGED number
  PROVE  NumberInv'
<1>1. \A t \in Sale : number'[t] # 0 => status'[t] \in {"completed", "cancelled"}
  BY DEF NumberInv, TypeOK, TablesOK
<1>2. QED
  BY <1>1 DEF NumberInv, NumbersOf

\* A checkout gives a sale without a number the one after the latest.
LEMMA NextNumber ==
  ASSUME TypeOK, NumberInv, NEW s \in Sale, number[s] = 0,
         number' = [number EXCEPT ![s] = LatestNumber(number, SaleStore[s]) + 1],
         status' = [status EXCEPT ![s] = "completed"]
  PROVE  NumberInv'
<1> DEFINE st == SaleStore[s]
<1>1. st \in Store
  BY KeysAssumption
<1>2. PICK n \in Nat : NumbersOf(number, st) = 1 .. n
  BY <1>1 DEF NumberInv
<1>3. /\ number' = [number EXCEPT ![s] = n + 1]
      /\ number'[s] = n + 1
      /\ \A t \in Sale \ {s} : number'[t] = number[t]
  BY <1>2, LatestOfInterval DEF TypeOK, TablesOK
<1>4. NumbersOf(number', st) = 1 .. (n + 1)
  <2>1. ASSUME NEW x
        PROVE  x \in NumbersOf(number', st) <=> x \in NumbersOf(number, st) \cup {n + 1}
    <3>1. x \in NumbersOf(number', st)
            <=> x # 0 /\ \E t \in Sale : SaleStore[t] = st /\ x = number'[t]
      BY DEF NumbersOf
    <3>2. x \in NumbersOf(number, st)
            <=> x # 0 /\ \E t \in Sale : SaleStore[t] = st /\ x = number[t]
      BY DEF NumbersOf
    <3>3. n + 1 # 0
      BY <1>2
    <3>4. ASSUME NEW t \in Sale \ {s}
          PROVE  number'[t] = number[t]
      BY <1>3
    <3>5. ASSUME NEW t \in Sale, SaleStore[t] = st, x = number'[t], x # 0
          PROVE  x = n + 1 \/ x \in NumbersOf(number, st)
      <4>1. CASE t = s
        BY <1>3, <3>5, <4>1
      <4>2. CASE t # s
        BY <3>2, <3>4, <3>5, <4>2
      <4>3. QED
        BY <4>1, <4>2
    <3>6. ASSUME NEW t \in Sale, SaleStore[t] = st, x = number[t], x # 0
          PROVE  x \in NumbersOf(number', st)
      <4>1. t # s
        BY <3>6
      <4>2. QED
        BY <3>1, <3>4, <3>6, <4>1
    <3>7. n + 1 \in NumbersOf(number', st)
      BY <1>3, <3>3 DEF NumbersOf
    <3>8. x \in NumbersOf(number', st) => x \in NumbersOf(number, st) \cup {n + 1}
      BY <3>1, <3>5
    <3>9. x \in NumbersOf(number, st) => x \in NumbersOf(number', st)
      BY <3>2, <3>6
    <3>10. QED
      BY <3>7, <3>8, <3>9
  <2>2. NumbersOf(number', st) = NumbersOf(number, st) \cup {n + 1}
    BY <2>1, Zenon
  <2>3. (1 .. n) \cup {n + 1} = 1 .. (n + 1)
    OBVIOUS
  <2>4. QED
    BY <1>2, <2>2, <2>3
<1>5. ASSUME NEW u \in Store
      PROVE  \E m \in Nat : NumbersOf(number', u) = 1 .. m
  <2>1. CASE u = st
    BY <1>4, <2>1
  <2>2. CASE u # st
    <3>1. NumbersOf(number', u) = NumbersOf(number, u)
      BY <1>3, <2>2 DEF NumbersOf
    <3>2. QED
      BY <3>1 DEF NumberInv
  <2>3. QED
    BY <2>1, <2>2
<1>6. \A t \in Sale : t # s /\ SaleStore[t] = st => number[t] # n + 1
  <2>1. \A t \in Sale : SaleStore[t] = st /\ number[t] # 0 => number[t] \in 1 .. n
    BY <1>2 DEF NumbersOf
  <2>2. QED
    BY <2>1
<1>7. ASSUME NEW t \in Sale, NEW u \in Sale, t # u,
             SaleStore[t] = SaleStore[u], number'[t] # 0
      PROVE  number'[t] # number'[u]
  <2>1. CASE t = s
    BY <1>3, <1>6, <1>7, <2>1
  <2>2. CASE u = s
    BY <1>3, <1>6, <1>7, <2>2
  <2>3. CASE t # s /\ u # s
    BY <1>3, <1>7, <2>3 DEF NumberInv
  <2>4. QED
    BY <2>1, <2>2, <2>3
<1>8. \A t \in Sale : number'[t] # 0 => status'[t] \in {"completed", "cancelled"}
  BY <1>3 DEF NumberInv, TypeOK, TablesOK
<1>9. QED
  BY <1>5, <1>7, <1>8 DEF NumberInv

LEMMA NumberStep ==
  ASSUME TypeOK, ControlInv, NumberInv, [Next]_vars
  PROVE  NumberInv'
<1>1. CASE UNCHANGED vars
  BY <1>1, NumberFrame
<1>2. ASSUME NEW r \in Request, Commit(r)
      PROVE  NumberInv'
  <2>1. Reached(r, "commit") /\ ControlOf(r)
    BY <1>2
    DEF Commit, CommitCreate, CommitDelete, CommitItem, CommitPrice,
        CommitStockIn, CommitCheckout, CommitCancel, Committing, ControlInv
  <2>2. CASE CommitItem(r) \/ CommitPrice(r) \/ CommitStockIn(r)
    BY <2>2, NumberFrame DEF CommitItem, CommitPrice, CommitStockIn
  <2>3. CASE CommitCreate(r) \/ CommitDelete(r)
    <3>1. /\ Task[r].sale \in Sale
          /\ status[Task[r].sale] \in {"none", "draft"}
      BY <2>1, <2>3, TaskTypes
      DEF CommitCreate, CommitDelete, Reached, ControlOf, HoldsSale,
          ExpectedStatus, SaleKinds
    <3>2. number[Task[r].sale] = 0
      BY <3>1 DEF NumberInv
    <3>3. QED
      BY <2>3, <3>1, <3>2, NumberStatus DEF CommitCreate, CommitDelete
  <2>4. CASE CommitCancel(r)
    <3>1. Task[r].sale \in Sale
      BY <2>4, TaskTypes DEF CommitCancel, SaleKinds
    <3>2. QED
      BY <2>4, <3>1, NumberStatus DEF CommitCancel
  <2>5. CASE CommitCheckout(r)
    <3>1. /\ Task[r].sale \in Sale
          /\ status[Task[r].sale] = "draft"
          /\ memo[r].number = LatestNumber(number, SaleStore[Task[r].sale]) + 1
      BY <2>1, <2>5, TaskTypes
      DEF CommitCheckout, Reached, ControlOf, HoldsSale, HoldsNumber,
          ExpectedStatus, SaleKinds
    <3>2. number[Task[r].sale] = 0
      BY <3>1 DEF NumberInv
    <3>3. QED
      BY <2>5, <3>1, <3>2, NextNumber DEF CommitCheckout
  <2>6. QED
    BY <1>2, <2>2, <2>3, <2>4, <2>5 DEF Commit
<1>3. ASSUME NEW r \in Request, Start(r) \/ Advance(r) \/ Crash(r), ~ Commit(r)
      PROVE  UNCHANGED <<status, number>>
  <2>1. CASE Start(r)
    BY <2>1 DEF Start, StartCreate, StartOnSale, StartAdd, StartMovement,
                StartBatch, StartPrice, RefusePrice, Enter
  <2>2. CASE Acquire(r) \/ Handle(r) \/ RunHook(r)
    BY <2>2 DEF Acquire, RunHook, Handle, Delete, EditItem, BeginCheckout,
                BeginCancel, ValidateStock, AssignNumber, RecordMovement, Seal,
                Proceed
  <2>3. CASE Refuse(r) \/ DeadlockAbort(r) \/ Crash(r)
    BY <2>3 DEF Refuse, DeadlockAbort, Crash, CrashInTransaction,
                CrashBeforeHook, Rollback
  <2>4. QED
    BY <1>3, <2>1, <2>2, <2>3 DEF Advance
<1>4. QED
  BY <1>1, <1>2, <1>3, NumberFrame DEF Next, Rest

-----------------------------------------------------------------------------
(* The invariant holds initially and is preserved *)

LEMMA InitIInv ==
  ASSUME Init
  PROVE  IInv
<1>1. TablesOK
  BY DEF Init, Abs!Init, TablesOK, Status
<1>2. RequestsOK
  BY DEF Init, Idle, NoTransaction, RequestsOK, Point, MemoOK, NoMemo, Memo
<1>3. NumberInv
  <2>1. \A st \in Store : NumbersOf(number, st) = 1 .. 0
    BY DEF Init, Abs!Init, NumbersOf
  <2>2. QED
    BY <2>1 DEF Init, Abs!Init, NumberInv
<1>4. ControlInv
  BY TaskTypes DEF Init, Abs!Init, Idle, NoTransaction, ControlInv, ControlOf
<1>5. LedgerInv
  <2>1. \A v \in Variant : Balanced(movements[v], stock[v])
    BY BalanceEmpty DEF Init, Abs!Init, Balanced
  <2>2. \A r \in Request, v \in Variant : rows[r][v] = << >>
    BY DEF Init, Idle, NoTransaction
  <2>3. \A r \in Request, v \in Variant : lock[VariantRow(v)] # r
    BY RowTypes, TaskAssumption DEF Init, Idle, NoTransaction
  <2>4. QED
    BY <2>1, <2>2, <2>3 DEF LedgerInv
<1>6. QED
  BY <1>1, <1>2, <1>3, <1>4, <1>5 DEF IInv, TypeOK

LEMMA InductiveStep ==
  ASSUME IInv, [Next]_vars
  PROVE  IInv'
  BY TypeStep, ControlStep, NumberStep, LedgerStep DEF IInv

LEMMA Invariance == Spec => []IInv
  BY InitIInv, InductiveStep, PTL DEF Spec

-----------------------------------------------------------------------------
(* The theorems *)

\* Types, in particular that no stock level is ever negative, neither a
\* committed one nor one a transaction is about to commit.
THEOREM TypeCorrect == Spec => []TypeOK
<1>1. IInv => TypeOK
  BY DEF IInv
<1>2. QED
  BY <1>1, Invariance, PTL

\* The stock of every variant is the sum of its movements.
THEOREM LedgerAgrees == Spec => []StockIsLedger
<1>1. IInv => StockIsLedger
  BY DEF IInv, LedgerInv, Balanced, StockIsLedger
<1>2. QED
  BY <1>1, Invariance, PTL

\* The numbers of a store's sales are 1, 2, 3, ..., each given once.
THEOREM NumbersConsecutive == Spec => []NumbersSequential
<1>1. ASSUME NumberInv
      PROVE  NumbersSequential
  <2>1. ASSUME NEW st \in Store
        PROVE  NumbersOf(number, st) = 1 .. Cardinality(NumbersOf(number, st))
    <3>1. PICK n \in Nat : NumbersOf(number, st) = 1 .. n
      BY <1>1 DEF NumberInv
    <3>2. Cardinality(1 .. n) = n
      BY <3>1, FS_Interval
    <3>3. QED
      BY <3>1, <3>2
  <2>2. QED
    BY <1>1, <2>1 DEF NumberInv, NumbersSequential
<1>2. IInv => NumbersSequential
  BY <1>1 DEF IInv
<1>3. QED
  BY <1>2, Invariance, PTL

-----------------------------------------------------------------------------
(* Steps and tables *)

\* What a request does without a commit: Walks.
Walks(r) ==
  \/ Start(r) \/ Acquire(r) \/ Handle(r) \/ RunHook(r)
  \/ Rollback(r) \/ CrashBeforeHook(r)

LEMMA Steps ==
  ASSUME [Next]_vars
  PROVE  (\E r \in Request : Walks(r) \/ Commit(r)) \/ UNCHANGED vars
  BY DEF Next, Advance, Crash, Rest, Refuse, DeadlockAbort, CrashInTransaction,
    Walks

\* Only commits write tables.
LEMMA WalksKeepTables ==
  ASSUME NEW r \in Request, Walks(r)
  PROVE  UNCHANGED tables
<1>1. CASE Start(r)
  BY <1>1 DEF Start, StartCreate, StartOnSale, StartAdd, StartMovement,
              StartBatch, StartPrice, RefusePrice, Enter
<1>2. CASE Acquire(r) \/ Handle(r) \/ RunHook(r)
  BY <1>2 DEF Acquire, RunHook, Handle, Delete, EditItem, BeginCheckout,
              BeginCancel, ValidateStock, AssignNumber, RecordMovement, Seal,
              Proceed
<1>3. CASE Rollback(r) \/ CrashBeforeHook(r)
  BY <1>3 DEF CrashBeforeHook, Rollback
<1>4. QED
  BY <1>1, <1>2, <1>3 DEF Walks

\* Others stay where they are, whatever a request does.
LEMMA OthersStay ==
  ASSUME TypeOK, NEW r \in Request, Walks(r) \/ Commit(r)
  PROVE  \A q \in Request \ {r} :
           pc'[q] = pc[q] /\ memo'[q] = memo[q]
<1>1. OthersKept(r) => \A q \in Request \ {r} :
                         pc'[q] = pc[q] /\ memo'[q] = memo[q]
  BY DEF OthersKept
<1>2. CASE Start(r)
  BY <1>1, <1>2, StartKeepsOthers
<1>3. CASE Acquire(r)
  BY <1>1, <1>3, AcquireKeepsLocks
<1>4. CASE Handle(r)
  <2>1. CASE RecordMovement(r)
    BY <1>1, <2>1, RecordKeepsLocks
  <2>2. CASE Seal(r)
    BY <2>2 DEF Seal, TypeOK, RequestsOK
  <2>3. CASE ~ RecordMovement(r) /\ ~ Seal(r)
    <3>1. PICK where, rs, ls : Proceed(r, where, rs, ls)
      BY <1>4, <2>3 DEF Handle, Delete, EditItem, BeginCheckout, BeginCancel,
                  ValidateStock, AssignNumber
    <3>2. memo' = memo \/ \E m : memo' = [memo EXCEPT ![r] = m]
      BY <1>4, <2>3 DEF Handle, Delete, EditItem, BeginCheckout, BeginCancel,
                  ValidateStock, AssignNumber
    <3>3. QED
      BY <1>1, <3>1, <3>2, ProceedKeepsOthers
  <2>4. QED
    BY <2>1, <2>2, <2>3
<1>5. CASE RunHook(r) \/ CrashBeforeHook(r)
  BY <1>5 DEF RunHook, CrashBeforeHook, TypeOK, RequestsOK
<1>6. CASE Rollback(r)
  BY <1>1, <1>6, ForgetKeepsOthers DEF Rollback
<1>7. CASE Commit(r)
  <2>1. Committing(r)
    BY <1>7 DEF Commit, CommitCreate, CommitDelete, CommitItem, CommitPrice,
           CommitStockIn, CommitCheckout, CommitCancel
  <2>2. QED
    BY <1>1, <2>1, ForgetKeepsOthers DEF Committing
<1>8. QED
  BY <1>2, <1>3, <1>4, <1>5, <1>6, <1>7 DEF Walks

\* A commit by its kind, with what the request knows of its sale then.
LEMMA CommitKnows ==
  ASSUME TypeOK, ControlInv, NEW r \in Request, Commit(r)
  PROVE  /\ Committing(r) /\ pc[r] = "commit"
         /\ Task[r].kind \in SaleKinds => HoldsSale(r) /\ Task[r].sale \in Sale
         /\ Task[r].kind = "create" => /\ status[Task[r].sale] = "none"
                                       /\ Task[r].sale \in Sale
         /\ pc'[r] \in {"hooks", "done"}
<1>1. Committing(r)
  BY DEF Commit, CommitCreate, CommitDelete, CommitItem, CommitPrice,
         CommitStockIn, CommitCheckout, CommitCancel
<1>2. pc[r] = "commit" /\ pc'[r] \in {"hooks", "done"}
  BY <1>1 DEF Committing, Reached, TypeOK, RequestsOK
<1>3. QED
  BY <1>1, <1>2, TaskTypes DEF ControlInv, ControlOf

-----------------------------------------------------------------------------
(* Events and callbacks *)

Callback == ({"enqueue"} \X Sale) \cup ({"invalidate"} \X Store)

\* A task is going to be handed over only by the checkout of its sale, and
\* only after that has committed.
HooksInv ==
  /\ hooks \in [Request -> Seq(Callback)]
  /\ \A r \in Request : pc[r] = "idle" => hooks[r] = << >>
  /\ \A r \in Request, i \in Nat, s \in Sale :
       i \in DOMAIN hooks[r] /\ hooks[r][i] = <<"enqueue", s>> =>
         /\ Task[r].kind = "complete" /\ s = Task[r].sale
         /\ SaleStore[s] \in EmailStore
         /\ pc[r] \in {"commit", "hooks"}
         /\ pc[r] = "hooks" => s \in outbox

\* The two callbacks differ, and the checkout's enqueues the event of its sale.
LEMMA CallbacksOf ==
  ASSUME NEW r \in Request
  PROVE  /\ Callbacks(r) \in Seq(Callback)
         /\ \A i \in DOMAIN Callbacks(r), s \in Sale :
              Callbacks(r)[i] = <<"enqueue", s>> =>
                /\ Task[r].kind = "complete" /\ s = Task[r].sale
                /\ SaleStore[s] \in EmailStore
<1> DEFINE t == Task[r]
           told == <<"enqueue", t.sale>>
           drop == <<"invalidate", SaleStore[t.sale]>>
<1>1. \A s, st : <<"enqueue", s>> # <<"invalidate", st>>
  OBVIOUS
<1>2. CASE t.kind = "complete"
  <2>1. t.sale \in Sale /\ SaleStore[t.sale] \in Store
    BY <1>2, TaskTypes, KeysAssumption DEF SaleKinds
  <2>2. told \in Callback /\ drop \in Callback
    BY <2>1 DEF Callback
  <2> HIDE DEF told, drop
  <2>3. Callbacks(r) = (IF SaleStore[t.sale] \in EmailStore THEN <<told>> ELSE << >>)
                       \o <<drop>>
    BY <1>2 DEF Callbacks, told, drop
  <2>4. CASE SaleStore[t.sale] \in EmailStore
    <3>1. Callbacks(r) = <<told>> \o <<drop>>
      BY <2>3, <2>4
    <3>2. <<told>> \in Seq(Callback) /\ <<drop>> \in Seq(Callback)
      BY <2>2
    <3>3. /\ <<told>> \o <<drop>> \in Seq(Callback)
          /\ \A i \in DOMAIN (<<told>> \o <<drop>>) :
               (<<told>> \o <<drop>>)[i] \in {told, drop}
      BY <3>2
    <3>4. \A s \in Sale : /\ <<"enqueue", s>> = told => s = t.sale
                          /\ <<"enqueue", s>> # drop
      BY DEF told, drop
    <3>5. QED
      BY <1>2, <2>4, <3>1, <3>2, <3>3, <3>4, Zenon
  <2>5. CASE SaleStore[t.sale] \notin EmailStore
    <3>1. Callbacks(r) = <<drop>>
      BY <2>3, <2>5
    <3>2. Callbacks(r) \in Seq(Callback)
      BY <2>2, <3>1
    <3>3. \A i \in DOMAIN Callbacks(r) : Callbacks(r)[i] = drop
      BY <3>1
    <3>4. \A s \in Sale : <<"enqueue", s>> # drop
      BY DEF drop
    <3>5. QED
      BY <3>2, <3>3, <3>4
  <2>6. QED
    BY <2>4, <2>5
<1>3. ASSUME NEW st \in Store, Callbacks(r) = <<<<"invalidate", st>>>>
      PROVE  /\ Callbacks(r) \in Seq(Callback)
             /\ \A i \in DOMAIN Callbacks(r), s \in Sale :
                  Callbacks(r)[i] # <<"enqueue", s>>
  <2> DEFINE off == <<"invalidate", st>>
  <2>1. off \in Callback /\ \A s \in Sale : <<"enqueue", s>> # off
    BY DEF Callback
  <2> HIDE DEF off
  <2>2. Callbacks(r) = <<off>>
    BY <1>3 DEF off
  <2>3. QED
    BY <2>1, <2>2
<1>4. CASE t.kind = "cancel"
  BY <1>3, <1>4, TaskTypes, KeysAssumption DEF Callbacks, SaleKinds
<1>5. CASE t.kind = "movement"
  <2>1. StoreOfVariant(t.line.variant) \in Store
    BY <1>5, TaskTypes, LineRow, KeysAssumption DEF StoreOfVariant
  <2>2. QED
    BY <1>3, <1>5, <2>1 DEF Callbacks
<1>6. CASE t.kind = "batch"
  BY <1>3, <1>6, TaskTypes, KeysAssumption DEF Callbacks
<1>7. CASE t.kind \notin {"complete", "cancel", "movement", "batch"}
  <2>1. Callbacks(r) = << >>
    BY <1>7 DEF Callbacks
  <2>2. QED
    BY <2>1
<1>8. QED
  BY <1>2, <1>4, <1>5, <1>6, <1>7

\* What a step does to the callbacks.
LEMMA HooksStay ==
  ASSUME HooksInv, NEW r \in Request, Walks(r) \/ Commit(r)
  PROVE  /\ \A q \in Request \ {r} : hooks'[q] = hooks[q]
         /\ hooks'[r] = hooks[r] \/ hooks'[r] = << >>
            \/ (RunHook(r) /\ hooks'[r] = Tail(hooks[r]))
            \/ (Seal(r) /\ hooks'[r] = Callbacks(r))
         /\ hooks' \in [Request -> Seq(Callback)]
         /\ effects' \subseteq effects \cup {Head(hooks[r])}
         /\ RunHook(r) \/ effects' = effects
<1> hooks \in [Request -> Seq(Callback)]
  BY DEF HooksInv
<1>1. CASE UNCHANGED <<hooks, effects>>
  BY <1>1
<1>2. CASE hooks' = [hooks EXCEPT ![r] = << >>] /\ effects' = effects
  <2>1. << >> \in Seq(Callback)
    OBVIOUS
  <2>2. QED
    BY <1>2, <2>1
<1>3. CASE RunHook(r)
  <2>1. hooks[r] \in Seq(Callback) /\ hooks[r] # << >>
    BY <1>3 DEF RunHook
  <2>2. Tail(hooks[r]) \in Seq(Callback)
    BY <2>1
  <2>3. QED
    BY <1>3, <2>2 DEF RunHook
<1>4. CASE Seal(r)
  BY <1>4, CallbacksOf DEF Seal
<1>5. CASE Start(r)
  BY <1>1, <1>5 DEF Start, StartCreate, StartOnSale, StartAdd, StartMovement,
              StartBatch, StartPrice, RefusePrice, Enter
<1>6. CASE Acquire(r) \/ (Handle(r) /\ ~ Seal(r))
  BY <1>1, <1>6 DEF Acquire, Handle, Delete, EditItem, BeginCheckout,
              BeginCancel, ValidateStock, AssignNumber, RecordMovement, Proceed
<1>7. CASE Rollback(r) \/ CrashBeforeHook(r)
  BY <1>2, <1>7 DEF Rollback, CrashBeforeHook
<1>8. CASE Commit(r)
  BY <1>1, <1>8 DEF Commit, CommitCreate, CommitDelete, CommitItem, CommitPrice,
         CommitStockIn, CommitCheckout, CommitCancel, Committing
<1>9. QED
  BY <1>3, <1>4, <1>5, <1>6, <1>7, <1>8 DEF Walks

\* Events are never deleted, and a checkout leaves one if its store wants it.
LEMMA OutboxGrows ==
  ASSUME NEW r \in Request, Walks(r) \/ Commit(r)
  PROVE  /\ outbox \subseteq outbox'
         /\ Commit(r) /\ Task[r].kind = "complete"
              /\ SaleStore[Task[r].sale] \in EmailStore => Task[r].sale \in outbox'
<1>1. CASE Walks(r) /\ ~ Commit(r)
  BY <1>1, WalksKeepTables
<1>2. CASE Commit(r)
  BY <1>2 DEF Commit, CommitCreate, CommitDelete, CommitItem, CommitPrice,
         CommitStockIn, CommitCheckout, CommitCancel
<1>3. QED
  BY <1>1, <1>2

\* A callback that is left over by a step was registered before, or is
\* registered by the step.
LEMMA HookWas ==
  ASSUME HooksInv, NEW r \in Request, Walks(r) \/ Commit(r), NEW q \in Request,
         NEW i \in DOMAIN hooks'[q], NEW s \in Sale, hooks'[q][i] = <<"enqueue", s>>
  PROVE  \/ \E j \in DOMAIN hooks[q] : hooks[q][j] = <<"enqueue", s>>
         \/ q = r /\ Seal(r) /\ hooks'[r] = Callbacks(r)
<1>1. CASE hooks'[q] = hooks[q]
  BY <1>1
<1>2. CASE q = r /\ hooks'[r] = << >>
  BY <1>2
<1>3. CASE q = r /\ RunHook(r) /\ hooks'[r] = Tail(hooks[r])
  <2>1. hooks[r] \in Seq(Callback) /\ hooks[r] # << >>
    BY <1>3 DEF RunHook, HooksInv
  <2>2. /\ Len(Tail(hooks[r])) = Len(hooks[r]) - 1
        /\ \A k \in 1 .. Len(Tail(hooks[r])) : Tail(hooks[r])[k] = hooks[r][k + 1]
    BY <2>1
  <2>3. i + 1 \in DOMAIN hooks[r] /\ hooks[r][i + 1] = <<"enqueue", s>>
    BY <1>3, <2>1, <2>2
  <2>4. QED
    BY <1>3, <2>3
<1>4. QED
  BY <1>1, <1>2, <1>3, HooksStay

\* Who leaves its callbacks behind has left its point for good.
LEMMA HooksPoints ==
  ASSUME TypeOK, ControlInv, HooksInv, NEW r \in Request, Walks(r) \/ Commit(r),
         hooks'[r] # << >>, pc[r] \in {"commit", "hooks"}
  PROVE  \/ pc'[r] = pc[r] /\ ~ Commit(r)
         \/ Commit(r) /\ pc[r] = "commit" /\ pc'[r] = "hooks"
<1>1. CASE Commit(r)
  <2>1. hooks'[r] = hooks[r] /\ Committing(r)
    BY <1>1, CommitKnows DEF Committing
  <2>2. QED
    BY <1>1, <2>1 DEF Committing, Reached, TypeOK, RequestsOK
<1>2. CASE ~ Commit(r)
  <2>1. CASE Start(r)
    BY <2>1 DEF Start, StartCreate, StartOnSale, StartAdd, StartMovement,
              StartBatch, StartPrice, RefusePrice, Enter
  <2>2. CASE Acquire(r)
    BY <1>2, <2>2 DEF Acquire
  <2>3. CASE Handle(r)
    BY <2>3 DEF Handle, Delete, EditItem, BeginCheckout, BeginCancel, Seal,
                ValidateStock, AssignNumber, RecordMovement, Reached
  <2>4. CASE RunHook(r)
    <3>1. hooks[r] \in Seq(Callback) /\ hooks[r] # << >>
      BY <2>4 DEF RunHook, HooksInv
    <3>2. hooks'[r] = Tail(hooks[r])
      BY <2>4 DEF RunHook, HooksInv
    <3>3. Len(hooks[r]) # 1
      <4>1. Tail(hooks[r]) \in Seq(Callback) /\ Len(Tail(hooks[r])) = Len(hooks[r]) - 1
        BY <3>1
      <4>2. Len(Tail(hooks[r])) = 0 => Tail(hooks[r]) = << >>
        BY <4>1, EmptySeq
      <4>3. QED
        BY <3>1, <3>2, <4>1, <4>2
    <3>4. QED
      BY <1>2, <2>4, <3>3 DEF RunHook, TypeOK, RequestsOK
  <2>5. CASE Rollback(r) \/ CrashBeforeHook(r)
    BY <2>5 DEF Rollback, CrashBeforeHook, HooksInv
  <2>6. QED
    BY <1>2, <2>1, <2>2, <2>3, <2>4, <2>5 DEF Walks
<1>3. QED
  BY <1>1, <1>2

LEMMA HooksStep ==
  ASSUME TypeOK, ControlInv, HooksInv, [Next]_vars
  PROVE  HooksInv'
<1>1. CASE UNCHANGED vars
  BY <1>1 DEF HooksInv
<1>2. ASSUME NEW r \in Request, Walks(r) \/ Commit(r)
      PROVE  HooksInv'
  <2>1. ASSUME NEW q \in Request, NEW i \in Nat, NEW s \in Sale,
               i \in DOMAIN hooks'[q], hooks'[q][i] = <<"enqueue", s>>
        PROVE  /\ Task[q].kind = "complete" /\ s = Task[q].sale
               /\ SaleStore[s] \in EmailStore
               /\ pc'[q] \in {"commit", "hooks"}
               /\ pc'[q] = "hooks" => s \in outbox'
    <3>1. CASE q = r /\ Seal(r) /\ hooks'[r] = Callbacks(r)
      <4>1. pc'[q] = "commit"
        BY <3>1 DEF Seal, TypeOK, RequestsOK
      <4>2. QED
        BY <2>1, <3>1, <4>1, CallbacksOf
    <3>2. ASSUME NEW j \in DOMAIN hooks[q], hooks[q][j] = <<"enqueue", s>>
          PROVE  /\ Task[q].kind = "complete" /\ s = Task[q].sale
                 /\ SaleStore[s] \in EmailStore
                 /\ pc'[q] \in {"commit", "hooks"}
                 /\ pc'[q] = "hooks" => s \in outbox'
      <4>1. j \in Nat
        BY DEF HooksInv
      <4>2. /\ Task[q].kind = "complete" /\ s = Task[q].sale
            /\ SaleStore[s] \in EmailStore
            /\ pc[q] \in {"commit", "hooks"}
            /\ pc[q] = "hooks" => s \in outbox
        BY <3>2, <4>1 DEF HooksInv
      <4>3. CASE q # r
        BY <1>2, <4>2, <4>3, OthersStay, OutboxGrows
      <4>4. CASE q = r
        <5>1. hooks'[r] # << >>
          BY <2>1, <4>4
        <5>2. QED
          BY <1>2, <4>2, <4>4, <5>1, HooksPoints, OutboxGrows
      <4>5. QED
        BY <4>3, <4>4
    <3>3. QED
      BY <1>2, <2>1, <3>1, <3>2, HookWas
  <2>2. ASSUME NEW q \in Request, pc'[q] = "idle"
        PROVE  hooks'[q] = << >>
    <3>1. CASE q # r
      BY <1>2, <2>2, <3>1, OthersStay, HooksStay DEF HooksInv
    <3>2. CASE q = r
      <4>1. CASE Commit(r)
        BY <2>2, <3>2, <4>1, CommitKnows
      <4>2. CASE Rollback(r) \/ CrashBeforeHook(r)
        BY <3>2, <4>2 DEF Rollback, CrashBeforeHook, HooksInv
      <4>3. CASE RunHook(r)
        BY <2>2, <3>2, <4>3 DEF RunHook, TypeOK, RequestsOK
      <4>4. CASE Acquire(r)
        BY <2>2, <3>2, <4>4 DEF Acquire, HooksInv
      <4>5. CASE Handle(r)
        BY <2>2, <3>2, <4>5 DEF Handle, Delete, EditItem, BeginCheckout, BeginCancel,
          Seal, ValidateStock, AssignNumber, RecordMovement, Reached, Proceed,
          TypeOK, RequestsOK
      <4>6. CASE Start(r)
        BY <2>2, <3>2, <4>6 DEF Start, StartCreate, StartOnSale, StartAdd,
          StartMovement, StartBatch, StartPrice, RefusePrice, Enter, TypeOK, RequestsOK
      <4>7. QED
        BY <1>2, <4>1, <4>2, <4>3, <4>4, <4>5, <4>6 DEF Walks
    <3>3. QED
      BY <3>1, <3>2
  <2>3. hooks' \in [Request -> Seq(Callback)]
    BY <1>2, HooksStay
  <2>4. QED
    BY <2>1, <2>2, <2>3 DEF HooksInv
<1>3. QED
  BY <1>1, <1>2, Steps

\* The sales whose checkout leaves an event.
Told == {s \in Sale : /\ status[s] \in {"completed", "cancelled"}
                      /\ SaleStore[s] \in EmailStore}

LEMMA OutboxStep ==
  ASSUME TypeOK, ControlInv, HooksInv, OutboxIsCommitted, [Next]_vars
  PROVE  OutboxIsCommitted'
<1>0. outbox = Told /\ \A s \in Sale : <<"enqueue", s>> \in effects => s \in outbox
  BY DEF OutboxIsCommitted, Told
<1>1. CASE UNCHANGED vars
  BY <1>1 DEF OutboxIsCommitted
<1>2. ASSUME NEW r \in Request, Walks(r) \/ Commit(r)
      PROVE  OutboxIsCommitted'
  <2>1. ASSUME NEW s \in Sale, <<"enqueue", s>> \in effects'
        PROVE  s \in outbox'
    <3>1. CASE <<"enqueue", s>> \in effects
      BY <1>0, <1>2, <3>1, OutboxGrows
    <3>2. CASE <<"enqueue", s>> \notin effects
      <4>1. RunHook(r) /\ <<"enqueue", s>> = Head(hooks[r])
        BY <1>2, <2>1, <3>2, HooksStay
      <4>2. pc[r] = "hooks" /\ hooks[r] \in Seq(Callback) /\ hooks[r] # << >>
        BY <4>1 DEF RunHook, HooksInv
      <4>3. 1 \in DOMAIN hooks[r] /\ hooks[r][1] = <<"enqueue", s>>
        BY <4>1, <4>2
      <4>4. s \in outbox
        BY <4>2, <4>3 DEF HooksInv
      <4>5. QED
        BY <1>2, <4>4, OutboxGrows
    <3>3. QED
      BY <3>1, <3>2
  <2>2. outbox' = Told'
    <3>1. CASE ~ Commit(r)
      BY <1>0, <1>2, <3>1, WalksKeepTables DEF Told
    <3>2. CASE CommitCreate(r) \/ CommitDelete(r)
      <4>1. /\ Task[r].sale \in Sale
            /\ status[Task[r].sale] \in {"none", "draft"}
            /\ outbox' = outbox
            /\ \E st \in {"none", "draft"} : status' = [status EXCEPT ![Task[r].sale] = st]
        BY <3>2, CommitKnows DEF Commit, CommitCreate, CommitDelete, HoldsSale,
          ExpectedStatus, SaleKinds
      <4>2. QED
        BY <1>0, <4>1 DEF Told, TypeOK, TablesOK
    <3>3. CASE CommitItem(r) \/ CommitPrice(r) \/ CommitStockIn(r)
      BY <1>0, <3>3 DEF Told, CommitItem, CommitPrice, CommitStockIn
    <3>4. CASE CommitCheckout(r)
      <4>1. /\ Task[r].sale \in Sale
            /\ status' = [status EXCEPT ![Task[r].sale] = "completed"]
            /\ outbox' = IF SaleStore[Task[r].sale] \in EmailStore
                         THEN outbox \cup {Task[r].sale} ELSE outbox
            /\ status[Task[r].sale] = "draft"
        BY <3>4, CommitKnows DEF Commit, CommitCheckout, SaleKinds, HoldsSale,
          ExpectedStatus
      <4>2. QED
        BY <1>0, <4>1 DEF Told, TypeOK, TablesOK
    <3>5. CASE CommitCancel(r)
      <4>1. /\ Task[r].sale \in Sale /\ outbox' = outbox
            /\ status' = [status EXCEPT ![Task[r].sale] = "cancelled"]
            /\ status[Task[r].sale] = "completed"
        BY <3>5, CommitKnows DEF Commit, CommitCancel, SaleKinds, HoldsSale,
          ExpectedStatus
      <4>2. QED
        BY <1>0, <4>1 DEF Told, TypeOK, TablesOK
    <3>6. QED
      BY <1>2, <3>1, <3>2, <3>3, <3>4, <3>5 DEF Commit
  <2>3. QED
    BY <2>1, <2>2 DEF OutboxIsCommitted, Told
<1>3. QED
  BY <1>1, <1>2, Steps
-----------------------------------------------------------------------------

LEMMA OutboxInvariance == Spec => [](HooksInv /\ OutboxIsCommitted)
<1>1. Init => HooksInv /\ OutboxIsCommitted
  <2> SUFFICES ASSUME Init
               PROVE  HooksInv /\ OutboxIsCommitted
    OBVIOUS
  <2>1. hooks = [r \in Request |-> << >>] /\ effects = {}
    BY DEF Init, Idle, NoTransaction
  <2>2. << >> \in Seq(Callback)
    OBVIOUS
  <2>3. HooksInv
    BY <2>1, <2>2 DEF HooksInv
  <2>4. OutboxIsCommitted
    BY <2>1 DEF Init, Abs!Init, OutboxIsCommitted
  <2>5. QED
    BY <2>3, <2>4
<1>2. IInv /\ HooksInv /\ OutboxIsCommitted /\ [Next]_vars
        => (HooksInv /\ OutboxIsCommitted)'
  BY HooksStep, OutboxStep DEF IInv
<1>3. QED
  BY <1>1, <1>2, Invariance, PTL DEF Spec

\* A committed checkout of a store with an e-mail address has left its event,
\* nothing else has, and a task never reaches the broker before the event can
\* be seen.
THEOREM OutboxCommitted == Spec => []OutboxIsCommitted
  BY OutboxInvariance, PTL
-----------------------------------------------------------------------------
(* Items and totals *)

EditKinds == {"add", "update", "remove"}

\* A line that add_sale_item and update_sale_item may write for a sale.
PricedLine(row, s) ==
  /\ row \in ItemRow
  /\ row.sale = s
  /\ row.final = row.unit * row.quantity - row.discount

\* What a request about to commit has prepared still fits the items it has
\* read, those of the sale it has locked.
Prepared(r) ==
  LET t == Task[r]
      row == memo[r].row
  IN  /\ t.kind = "remove" => row = NoItem
      /\ t.kind \in {"add", "update"} => PricedLine(row, t.sale)
      /\ t.kind = "add" => StoreOfVariant(row.variant) = SaleStore[t.sale]
      /\ t.kind = "update" => /\ row.variant = item[t.item].variant
                              /\ row.unit = item[t.item].unit
      /\ t.kind # "add" => t.item \in ItemsOf(item, t.sale)
      /\ memo[r].total = Total([item EXCEPT ![t.item] = row], t.sale)

EditOf(r) ==
  /\ Task[r].kind = "add" /\ pc[r] \in {"idle", "sale", "commit"}
       => item[Task[r].item] = NoItem
  /\ Task[r].kind \in EditKinds /\ pc[r] = "commit" => Prepared(r)

EditInv == \A r \in Request : EditOf(r)

\* No item of sale s is added, changed or removed.
ItemsKept(s) ==
  \A i \in Item : item'[i] # item[i] =>
    /\ item[i] = NoItem \/ item[i].sale # s
    /\ item'[i] = NoItem \/ item'[i].sale # s

LEMMA KeptItems ==
  ASSUME NEW s \in Sale, ItemsKept(s)
  PROVE  /\ ItemsOf(item', s) = ItemsOf(item, s)
         /\ \A i \in ItemsOf(item, s) : item'[i] = item[i]
<1>1. \A i \in Item : (item'[i] # NoItem /\ item'[i].sale = s)
                        <=> (item[i] # NoItem /\ item[i].sale = s)
  BY DEF ItemsKept
<1>2. ItemsOf(item', s) = ItemsOf(item, s)
  BY <1>1 DEF ItemsOf
<1>3. ASSUME NEW i \in ItemsOf(item, s)
      PROVE  item'[i] = item[i]
  BY DEF ItemsOf, ItemsKept
<1>4. QED
  BY <1>2, <1>3

\* A total depends on nothing but the items of the sale.
LEMMA SameTotal ==
  ASSUME NEW a, NEW b, NEW s \in Sale, ItemsOf(a, s) = ItemsOf(b, s),
         \A i \in ItemsOf(a, s) : a[i] = b[i]
  PROVE  Total(a, s) = Total(b, s)
<1>1. [i \in ItemsOf(a, s) |-> a[i].final] = [i \in ItemsOf(b, s) |-> b[i].final]
  OBVIOUS
<1>2. QED
  BY <1>1, Zenon DEF Total

\* What a commit does to the items: only an edit or a deletion of the sale
\* touches any, and then items of that sale.
LEMMA CommitItemEffect ==
  ASSUME TypeOK, ControlInv, EditInv, NEW r \in Request, Commit(r)
  PROVE  /\ Task[r].kind \notin EditKinds \cup {"delete"} => item' = item
         /\ \A s \in Sale : s # Task[r].sale \/ Task[r].kind \notin SaleKinds
              => ItemsKept(s)
         /\ \A i \in Item : item[i] = NoItem /\ item'[i] # NoItem
              => Task[r].kind = "add" /\ i = Task[r].item
<1>1. CASE CommitItem(r)
  <2>1. /\ pc[r] = "commit" /\ Task[r].kind \in EditKinds
        /\ item' = [item EXCEPT ![Task[r].item] = memo[r].row]
    BY <1>1, CommitKnows DEF CommitItem, EditKinds
  <2>2. Task[r].item \in Item /\ DOMAIN item = Item /\ Task[r].kind \in SaleKinds
    BY <2>1, TaskTypes DEF TypeOK, TablesOK, EditKinds, SaleKinds
  <2>3. Prepared(r) /\ (Task[r].kind = "add" => item[Task[r].item] = NoItem)
    BY <2>1 DEF EditInv, EditOf
  <2>4. /\ item'[Task[r].item] = memo[r].row
        /\ \A i \in Item \ {Task[r].item} : item'[i] = item[i]
    BY <2>1, <2>2
  <2>5. /\ memo[r].row = NoItem \/ memo[r].row.sale = Task[r].sale
        /\ \/ item[Task[r].item] = NoItem
           \/ item[Task[r].item].sale = Task[r].sale
        /\ Task[r].kind # "add" => item[Task[r].item] # NoItem
    BY <2>1, <2>3 DEF Prepared, PricedLine, ItemsOf, EditKinds
  <2>6. \A s \in Sale : s # Task[r].sale => ItemsKept(s)
    BY <2>4, <2>5 DEF ItemsKept
  <2>7. \A i \in Item : item[i] = NoItem /\ item'[i] # NoItem
              => Task[r].kind = "add" /\ i = Task[r].item
    BY <2>4, <2>5
  <2>8. QED
    BY <2>1, <2>2, <2>6, <2>7
<1>2. CASE CommitDelete(r)
  <2>1. \A i \in Item : item'[i] = IF i \in ItemsOf(item, Task[r].sale)
                                   THEN NoItem ELSE item[i]
    BY <1>2 DEF CommitDelete
  <2>2. Task[r].kind = "delete"
    BY <1>2 DEF CommitDelete
  <2>3. \A s \in Sale : s # Task[r].sale => ItemsKept(s)
    BY <2>1 DEF ItemsKept, ItemsOf
  <2>4. QED
    BY <2>1, <2>2, <2>3 DEF SaleKinds
<1>3. CASE \/ CommitCreate(r) \/ CommitPrice(r) \/ CommitStockIn(r)
           \/ CommitCheckout(r) \/ CommitCancel(r)
  BY <1>3 DEF CommitCreate, CommitPrice, CommitStockIn, CommitCheckout,
         CommitCancel, ItemsKept
<1>4. QED
  BY <1>1, <1>2, <1>3 DEF Commit

\* Whoever is past its sale lock keeps the items of its sale when another
\* request commits.
LEMMA CommitsKeepSale ==
  ASSUME TypeOK, ControlInv, EditInv, NEW r \in Request, Commit(r),
         NEW q \in Request \ {r}, Task[q].kind \in SaleKinds,
         pc[q] \in {"validate", "number", "move", "commit"}
  PROVE  ItemsKept(Task[q].sale)
<1>1. HoldsSale(q) /\ Task[q].sale \in Sale
  BY TaskTypes DEF ControlInv, ControlOf
<1>2. Task[r].kind \in SaleKinds => HoldsSale(r)
  BY CommitKnows
<1>3. Task[r].kind \in SaleKinds => Task[q].sale # Task[r].sale
  BY <1>1, <1>2 DEF HoldsSale
<1>4. QED
  BY <1>1, <1>3, CommitItemEffect

\* Prepared(q) depends on the items of the sale, and on one new item at most.
LEMMA PreparedStays ==
  ASSUME TypeOK, NEW q \in Request, Task[q].kind \in EditKinds, Prepared(q),
         memo'[q] = memo[q], ItemsKept(Task[q].sale), DOMAIN item' = Item
  PROVE  Prepared(q)'
<1> DEFINE s == Task[q].sale
           j == Task[q].item
           row == memo[q].row
           old == [item EXCEPT ![j] = row]
           new == [item' EXCEPT ![j] = row]
<1>1. s \in Sale /\ j \in Item /\ DOMAIN item = Item
  BY TaskTypes DEF EditKinds, SaleKinds, TypeOK, TablesOK
<1>2. /\ ItemsOf(item', s) = ItemsOf(item, s)
      /\ \A i \in ItemsOf(item, s) : item'[i] = item[i]
  BY <1>1, KeptItems
<1>3. /\ old[j] = row /\ new[j] = row
      /\ \A i \in Item \ {j} : old[i] = item[i] /\ new[i] = item'[i]
  BY <1>1
<1> HIDE DEF old, new
<1>4. \A i \in Item : /\ i \in ItemsOf(new, s) <=> i \in ItemsOf(old, s)
                      /\ i \in ItemsOf(old, s) => old[i] = new[i]
  BY <1>2, <1>3 DEF ItemsOf
<1>5. ItemsOf(new, s) = ItemsOf(old, s)
  BY <1>4 DEF ItemsOf
<1>6. Total(new, s) = Total(old, s)
  <2>1. \A i \in ItemsOf(new, s) : new[i] = old[i]
    BY <1>4 DEF ItemsOf
  <2>2. QED
    BY <1>1, <1>5, <2>1, SameTotal, Zenon
<1>7. memo[q].total = Total(old, s)
  BY DEF Prepared, old
<1>8. memo'[q].total = Total([item' EXCEPT ![j] = memo'[q].row], s)
  BY <1>6, <1>7 DEF new
<1>9. Task[q].kind # "add" => j \in ItemsOf(item', s) /\ item'[j] = item[j]
  BY <1>2 DEF Prepared
<1>10. QED
  BY <1>8, <1>9 DEF Prepared

LEMMA EditStep ==
  ASSUME TypeOK, ControlInv, EditInv, [Next]_vars, TypeOK'
  PROVE  EditInv'
<1>1. CASE UNCHANGED vars
  BY <1>1 DEF EditInv, EditOf, Prepared
<1>2. ASSUME NEW r \in Request, Walks(r) \/ Commit(r), NEW q \in Request \ {r}
      PROVE  EditOf(q)'
  <2>0. pc'[q] = pc[q] /\ memo'[q] = memo[q] /\ EditOf(q)
    BY <1>2, OthersStay DEF EditInv
  <2>1. CASE ~ Commit(r)
    <3>1. item' = item
      BY <1>2, <2>1, WalksKeepTables
    <3>2. QED
      BY <2>0, <3>1 DEF EditOf, Prepared
  <2>2. CASE Commit(r)
    <3>1. ASSUME Task[q].kind = "add", pc[q] \in {"idle", "sale", "commit"}
          PROVE  item'[Task[q].item] = NoItem
      <4>1. item[Task[q].item] = NoItem /\ Task[q].item \in Item
        BY <2>0, <3>1, TaskTypes DEF EditOf
      <4>2. Task[r].kind = "add" => Task[r].item # Task[q].item
        BY <3>1, FreshKeys
      <4>3. QED
        BY <2>2, <4>1, <4>2, CommitItemEffect
    <3>2. ASSUME Task[q].kind \in EditKinds, pc[q] = "commit"
          PROVE  Prepared(q)'
      <4>1. ItemsKept(Task[q].sale)
        BY <2>2, <3>2, CommitsKeepSale DEF EditKinds, SaleKinds
      <4>2. DOMAIN item' = Item
        BY DEF TypeOK, TablesOK
      <4>3. QED
        BY <2>0, <3>2, <4>1, <4>2, PreparedStays DEF EditOf
    <3>3. QED
      BY <2>0, <3>1, <3>2 DEF EditOf
  <2>3. QED
    BY <2>1, <2>2
<1>3. ASSUME NEW r \in Request, Walks(r) \/ Commit(r)
      PROVE  EditOf(r)'
  <2>1. CASE Commit(r) \/ Rollback(r) \/ CrashBeforeHook(r) \/ RunHook(r)
    <3>1. pc'[r] \in {"hooks", "done", "failed"}
      BY <2>1, CommitKnows DEF Rollback, CrashBeforeHook, RunHook, TypeOK, RequestsOK
    <3>2. QED
      BY <3>1 DEF EditOf
  <2>2. CASE Start(r)
    <3>1. item' = item /\ pc[r] = "idle"
      BY <2>2 DEF Start, StartCreate, StartOnSale, StartAdd, StartMovement,
              StartBatch, StartPrice, RefusePrice, Enter
    <3>2. pc'[r] = "commit" => Task[r].kind \notin EditKinds
      BY <2>2 DEF Start, StartCreate, StartOnSale, StartAdd, StartMovement,
        StartBatch, StartPrice, RefusePrice, Enter, TypeOK, RequestsOK, EditKinds
    <3>3. QED
      BY <3>1, <3>2 DEF EditInv, EditOf
  <2>3. CASE Acquire(r)
    BY <2>3 DEF Acquire, EditInv, EditOf, Prepared
  <2>4. CASE EditItem(r)
    <3>1. pc[r] = "sale" /\ UNCHANGED tables /\ Task[r].kind \in EditKinds
          /\ Acceptable(r) /\ EditOf(r)
      BY <2>4 DEF EditItem, Reached, Proceed, EditKinds, EditInv
    <3>2. PICK row : /\ row = (IF Task[r].kind = "remove" THEN NoItem ELSE NewRow(r))
                     /\ memo'[r] = Memo(0, 0, row, Total([item EXCEPT ![Task[r].item] = row], Task[r].sale))
      BY <2>4 DEF EditItem, TypeOK, RequestsOK, MemoOK
    <3>3. Prepared(r)'
      <4>1. memo'[r].row = row
            /\ memo'[r].total = Total([item EXCEPT ![Task[r].item] = row], Task[r].sale)
        BY <3>2 DEF Memo
      <4>2. Task[r].kind \in {"add", "update"} => PricedLine(row, Task[r].sale)
        BY <3>1, <3>2, NewRowType DEF NewRow, Priced, PricedLine
      <4>3. Task[r].kind = "add" => StoreOfVariant(row.variant) = SaleStore[Task[r].sale]
        BY <3>1, <3>2 DEF NewRow, Priced, Acceptable
      <4>4. Task[r].kind = "update" => /\ row.variant = item[Task[r].item].variant
                                       /\ row.unit = item[Task[r].item].unit
        BY <3>1, <3>2 DEF NewRow, Priced
      <4>5. Task[r].kind # "add" => Task[r].item \in ItemsOf(item, Task[r].sale)
        BY <3>1 DEF Acceptable, EditKinds
      <4>6. UNCHANGED item
        BY <3>1
      <4>7. QED
        BY <3>2, <4>1, <4>2, <4>3, <4>4, <4>5, <4>6 DEF Prepared
    <3>4. QED
      BY <3>1, <3>3 DEF EditOf
  <2>5. CASE Handle(r) /\ ~ EditItem(r)
    <3>1. UNCHANGED item /\ Task[r].kind \notin EditKinds
      BY <2>5, <1>3 DEF Handle, Delete, BeginCheckout, BeginCancel, ValidateStock,
        AssignNumber, RecordMovement, Seal, Proceed, EditKinds, Reached, ControlInv,
        ControlOf
    <3>2. QED
      BY <3>1 DEF EditOf, EditKinds
  <2>6. QED
    BY <1>3, <2>1, <2>2, <2>3, <2>4, <2>5 DEF Walks
<1>4. QED
  BY <1>1, <1>2, <1>3, Steps DEF EditInv

\* The totals and the prices stay right.
LEMMA TotalsStep ==
  ASSUME TypeOK, ControlInv, EditInv, TotalsMatch, [Next]_vars, TypeOK'
  PROVE  TotalsMatch'
<1>1. CASE UNCHANGED <<status, item, total>>
  BY <1>1 DEF TotalsMatch
<1>2. ASSUME NEW r \in Request, Commit(r)
      PROVE  TotalsMatch'
  <2> DEFINE s == Task[r].sale
  <2>1. ASSUME NEW u \in Sale, ItemsKept(u), total'[u] = total[u]
        PROVE  total'[u] = Total(item', u)
    <3>1. /\ ItemsOf(item', u) = ItemsOf(item, u)
          /\ \A i \in ItemsOf(item', u) : item'[i] = item[i]
      BY <2>1, KeptItems
    <3>2. Total(item', u) = Total(item, u)
      BY <3>1, SameTotal, Zenon
    <3>3. QED
      BY <2>1, <3>2 DEF TotalsMatch
  <2>2. \A u \in Sale : u # s \/ Task[r].kind \notin SaleKinds => ItemsKept(u)
    BY <1>2, CommitItemEffect
  <2>3. CASE CommitItem(r)
    <3>1. /\ pc[r] = "commit" /\ Task[r].kind \in EditKinds
          /\ item' = [item EXCEPT ![Task[r].item] = memo[r].row]
          /\ total' = [total EXCEPT ![s] = memo[r].total]
          /\ status' = status
      BY <1>2, <2>3, CommitKnows DEF CommitItem, EditKinds
    <3>2. s \in Sale /\ status[s] = "draft" /\ Task[r].item \in Item
      BY <1>2, <3>1, CommitKnows, TaskTypes
      DEF EditKinds, SaleKinds, HoldsSale, ExpectedStatus
    <3>3. Prepared(r)
      BY <3>1 DEF EditInv, EditOf
    <3>4. /\ total'[s] = memo[r].total
          /\ \A u \in Sale \ {s} : total'[u] = total[u]
      BY <3>1, <3>2 DEF TypeOK, TablesOK
    <3>5. total'[s] = Total(item', s)
      BY <3>1, <3>3, <3>4 DEF Prepared
    <3>6. \A u \in Sale : total'[u] = Total(item', u)
      BY <2>1, <2>2, <3>4, <3>5
    <3>7. /\ item'[Task[r].item] = memo[r].row
          /\ \A i \in Item \ {Task[r].item} : item'[i] = item[i]
      BY <3>1, <3>2 DEF TypeOK, TablesOK
    <3>8. memo[r].row # NoItem => PricedLine(memo[r].row, s)
      BY <3>1, <3>3 DEF Prepared, EditKinds
    <3>9. \A i \in Item : item'[i] # NoItem =>
            /\ status'[item'[i].sale] # "none"
            /\ item'[i].final = item'[i].unit * item'[i].quantity - item'[i].discount
      BY <3>1, <3>2, <3>7, <3>8 DEF TotalsMatch, PricedLine
    <3>10. QED
      BY <3>6, <3>9 DEF TotalsMatch
  <2>4. CASE CommitDelete(r)
    <3>1. /\ \A i \in Item : item'[i] = IF i \in ItemsOf(item, s) THEN NoItem ELSE item[i]
          /\ s \in Sale
          /\ total'[s] = 0 /\ \A u \in Sale \ {s} : total'[u] = total[u]
          /\ \A u \in Sale \ {s} : status'[u] = status[u]
      BY <2>4, TaskTypes DEF CommitDelete, SaleKinds, TypeOK, TablesOK
    <3>2. ItemsOf(item', s) = {}
      BY <3>1 DEF ItemsOf
    <3>3. Total(item', s) = 0
      BY <3>2, SumOfNone DEF Total
    <3>4. \A u \in Sale : total'[u] = Total(item', u)
      BY <2>1, <2>2, <3>1, <3>3
    <3>5. \A i \in Item : item'[i] # NoItem =>
            item'[i] = item[i] /\ item[i].sale \in Sale \ {s}
      BY <3>1 DEF ItemsOf, TypeOK, TablesOK, ItemRow
    <3>6. \A i \in Item : item'[i] # NoItem =>
            /\ status'[item'[i].sale] # "none"
            /\ item'[i].final = item'[i].unit * item'[i].quantity - item'[i].discount
      BY <3>1, <3>5 DEF TotalsMatch
    <3>7. QED
      BY <3>4, <3>6 DEF TotalsMatch
  <2>5. CASE CommitPrice(r) \/ CommitStockIn(r)
    BY <1>1, <2>5 DEF CommitPrice, CommitStockIn
  <2>6. CASE CommitCreate(r) \/ CommitCheckout(r) \/ CommitCancel(r)
    <3>1. item' = item /\ total' = total /\ s \in Sale
          /\ \E st \in Status \ {"none"} : status' = [status EXCEPT ![s] = st]
      BY <2>6, TaskTypes DEF CommitCreate, CommitCheckout, CommitCancel, Status,
        SaleKinds
    <3>2. \A u \in Sale : status[u] # "none" => status'[u] # "none"
      BY <3>1 DEF TypeOK, TablesOK
    <3>3. \A i \in Item : item[i] # NoItem => item[i].sale \in Sale
      BY DEF TypeOK, TablesOK, ItemRow
    <3>4. QED
      BY <3>1, <3>2, <3>3 DEF TotalsMatch
  <2>7. QED
    BY <1>2, <2>3, <2>4, <2>5, <2>6 DEF Commit
<1>3. QED
  BY <1>1, <1>2, Steps, WalksKeepTables

LEMMA ItemsInvariance == Spec => [](EditInv /\ TotalsMatch)
<1>1. Init => EditInv /\ TotalsMatch
  <2> SUFFICES ASSUME Init
               PROVE  EditInv /\ TotalsMatch
    OBVIOUS
  <2>1. \A i \in Item : item[i] = NoItem
    BY DEF Init, Abs!Init
  <2>2. \A s \in Sale : ItemsOf(item, s) = {}
    BY <2>1 DEF ItemsOf
  <2>3. \A s \in Sale : Total(item, s) = 0
    BY <2>2, SumOfNone DEF Total
  <2>4. TotalsMatch
    BY <2>1, <2>3 DEF Init, Abs!Init, TotalsMatch
  <2>5. EditInv
    BY <2>1, TaskTypes DEF Init, Idle, EditInv, EditOf
  <2>6. QED
    BY <2>4, <2>5
<1>2. IInv /\ IInv' /\ EditInv /\ TotalsMatch /\ [Next]_vars
        => (EditInv /\ TotalsMatch)'
  BY EditStep, TotalsStep DEF IInv
<1>3. QED
  BY <1>1, <1>2, Invariance, PTL DEF Spec

\* The stored total of a sale is the sum over its items, and each item's
\* price follows from its quantity, its price snapshot and its discount.
THEOREM TotalsAgree == Spec => []TotalsMatch
  BY ItemsInvariance, PTL

\* A completed sale keeps its number, its total and its items for good, and
\* changes its status at most once, to cancelled.
THEOREM FinalizedStaysFrozen == Spec => FinalizedFrozen
<1> DEFINE Final(s) == status[s] \in {"completed", "cancelled"}
           Stays(s) == /\ status'[s] \in {status[s], "cancelled"}
                       /\ number'[s] = number[s]
                       /\ total'[s] = total[s]
                       /\ ItemsOf(item', s) = ItemsOf(item, s)
                       /\ \A i \in ItemsOf(item, s) : item'[i] = item[i]
<1>1. ASSUME TypeOK, ControlInv, EditInv, [Next]_vars, NEW s \in Sale, Final(s)
      PROVE  Stays(s)
  <2>1. CASE UNCHANGED tables
    BY <2>1
  <2>2. ASSUME NEW r \in Request, Commit(r)
        PROVE  Stays(s)
    <3>1. CASE CommitPrice(r) \/ CommitStockIn(r)
      BY <3>1 DEF CommitPrice, CommitStockIn
    <3>2. CASE CommitCreate(r) \/ CommitDelete(r) \/ CommitCheckout(r) \/ CommitItem(r)
      <4>1. /\ Task[r].kind \in SaleKinds \cup {"create"} /\ Task[r].kind # "cancel"
            /\ Task[r].sale \in Sale
        BY <3>2, TaskTypes DEF CommitCreate, CommitDelete, CommitCheckout, CommitItem,
          SaleKinds
      <4>2. s # Task[r].sale
        BY <1>1, <2>2, <4>1, CommitKnows DEF HoldsSale, ExpectedStatus
      <4>3. ItemsKept(s)
        BY <1>1, <2>2, <4>2, CommitItemEffect
      <4>4. status'[s] = status[s] /\ number'[s] = number[s] /\ total'[s] = total[s]
        BY <1>1, <3>2, <4>2 DEF CommitCreate, CommitDelete, CommitCheckout,
          CommitItem, TypeOK, TablesOK
      <4>5. QED
        BY <4>3, <4>4, KeptItems
    <3>3. CASE CommitCancel(r)
      BY <1>1, <3>3 DEF CommitCancel, TypeOK, TablesOK
    <3>4. QED
      BY <2>2, <3>1, <3>2, <3>3 DEF Commit
  <2>3. QED
    BY <1>1, <2>1, <2>2, Steps, WalksKeepTables
<1>2. IInv /\ EditInv /\ [Next]_vars => [\A s \in Sale : Final(s) => Stays(s)]_vars
  BY <1>1 DEF IInv
<1>3. QED
  BY <1>2, Invariance, ItemsInvariance, PTL DEF Spec, FinalizedFrozen
-----------------------------------------------------------------------------
(* What a transaction has recorded *)

StockKinds == {"complete", "cancel", "movement", "batch"}

\* ls is a list of lines that the service of r may be recording.
Meant(r, ls) ==
  \/ Task[r].kind = "movement" /\ ls = <<Task[r].line>>
  \/ Task[r].kind = "batch" /\ ls = Task[r].lines
  \/ /\ Task[r].kind = "complete"
     /\ \E o \in SetToSeqs(ItemsOf(item, Task[r].sale)) :
          ls = SaleLines(item, o, memo[r].number)
  \/ /\ Task[r].kind = "cancel"
     /\ \E o \in SetToSeqs(ItemsOf(item, Task[r].sale)) :
          ls = CancellationLines(item, o, number[Task[r].sale])

\* The movement rows of r are those of the lines it has dealt with, and these
\* are, with the lines still to come, one of the lists it may be recording.
Recorded(r) ==
  \E done \in Seq(Line), ls \in Seq(Line) :
    /\ Meant(r, ls)
    /\ ls = done \o todo[r]
    /\ \A v \in Variant : rows[r][v] = RowsFor(done, v)

RecordOf(r) ==
  /\ pc[r] \in {"move", "commit"} /\ Task[r].kind \in StockKinds => Recorded(r)
  /\ pc[r] \notin {"move", "commit"} \/ Task[r].kind \notin StockKinds
       => \A v \in Variant : rows[r][v] = << >>
  /\ pc[r] = "commit" => todo[r] = << >>
  /\ pc[r] \in {"validate", "number", "move", "commit"} /\ Task[r].kind = "complete"
       => ItemsOf(item, Task[r].sale) # {}
  /\ pc[r] = "commit" /\ Task[r].kind = "price"
       => VariantsOf(Task[r].product) # {}

RecordInv == \A r \in Request : RecordOf(r)

\* The first line still to come becomes the last one done.
LEMMA OneMoreDone ==
  ASSUME NEW S, NEW done \in Seq(S), NEW l \in S, NEW rest \in Seq(S)
  PROVE  done \o (<<l>> \o rest) = Append(done, l) \o rest
<1> DEFINE one == <<l>>
<1>1. one \in Seq(S)
  OBVIOUS
<1> HIDE DEF one
<1>2. (done \o one) \o rest = done \o (one \o rest)
  BY <1>1, ConcatAssociative
<1>3. Append(done, l) = done \o one
  BY AppendIsConcat DEF one
<1>4. QED
  BY <1>2, <1>3 DEF one

\* The lists and rows of the others stay, whatever a request does.
LEMMA OthersKeepRows ==
  ASSUME TypeOK, NEW r \in Request, Walks(r) \/ Commit(r)
  PROVE  \A q \in Request \ {r} : todo'[q] = todo[q] /\ rows'[q] = rows[q]
<1>0. DOMAIN todo = Request /\ DOMAIN rows = Request
  BY DEF TypeOK, RequestsOK
<1>1. ASSUME Forget(r)
      PROVE  \A q \in Request \ {r} : todo'[q] = todo[q] /\ rows'[q] = rows[q]
  <2>1. \E x, y : todo' = [todo EXCEPT ![r] = x] /\ rows' = [rows EXCEPT ![r] = y]
    BY <1>1 DEF Forget
  <2>2. QED
    BY <1>0, <2>1
<1>2. CASE Start(r)
  <2>1. PICK where, rs, ls : Enter(r, where, rs, ls)
    BY <1>2 DEF Start, StartCreate, StartOnSale, StartAdd, StartMovement, StartBatch,
         StartPrice, RefusePrice
  <2>2. todo' = [todo EXCEPT ![r] = ls] /\ rows' = rows
    BY <2>1 DEF Enter
  <2>3. QED
    BY <1>0, <2>2
<1>3. CASE Acquire(r) \/ RunHook(r) \/ CrashBeforeHook(r)
  BY <1>3 DEF Acquire, RunHook, CrashBeforeHook
<1>4. CASE Handle(r)
  <2>1. CASE RecordMovement(r)
    <3>1. /\ \E x : todo' = [todo EXCEPT ![r] = x]
          /\ rows' = [rows EXCEPT ![r][Head(todo[r]).variant] =
                        Append(@, RowOf(Head(todo[r])))]
      BY <2>1 DEF RecordMovement
    <3>2. QED
      BY <1>0, <3>1
  <2>2. CASE Seal(r)
    BY <2>2 DEF Seal
  <2>3. CASE ~ RecordMovement(r) /\ ~ Seal(r)
    <3>1. PICK where, rs, ls : Proceed(r, where, rs, ls)
      BY <1>4, <2>3 DEF Handle, Delete, EditItem, BeginCheckout, BeginCancel,
                  ValidateStock, AssignNumber
    <3>2. todo' = [todo EXCEPT ![r] = ls] /\ rows' = rows
      BY <3>1 DEF Proceed
    <3>3. QED
      BY <1>0, <3>2
  <2>4. QED
    BY <2>1, <2>2, <2>3
<1>5. CASE Rollback(r)
  BY <1>1, <1>5 DEF Rollback
<1>6. CASE Commit(r)
  <2>1. Committing(r)
    BY <1>6 DEF Commit, CommitCreate, CommitDelete, CommitItem, CommitPrice,
           CommitStockIn, CommitCheckout, CommitCancel
  <2>2. QED
    BY <1>1, <2>1 DEF Committing
<1>7. QED
  BY <1>2, <1>3, <1>4, <1>5, <1>6 DEF Walks

\* The lines of a sale depend on nothing but its items.
LEMMA SameLines ==
  ASSUME NEW s \in Sale, ItemsKept(s), IsFiniteSet(ItemsOf(item, s)), NEW n,
         NEW o \in SetToSeqs(ItemsOf(item, s))
  PROVE  /\ o \in SetToSeqs(ItemsOf(item', s))
         /\ SaleLines(item', o, n) = SaleLines(item, o, n)
         /\ CancellationLines(item', o, n) = CancellationLines(item, o, n)
<1>1. /\ ItemsOf(item', s) = ItemsOf(item, s)
      /\ \A i \in ItemsOf(item, s) : item'[i] = item[i]
  BY KeptItems
<1>2. o \in Seq(ItemsOf(item, s))
  BY ListingsAreSeqs
<1>3. \A k \in DOMAIN o : item'[o[k]] = item[o[k]]
  BY <1>1, <1>2
<1>4. SaleLines(item', o, n) = SaleLines(item, o, n)
  BY <1>3 DEF SaleLines
<1>5. CancellationLines(item', o, n) = CancellationLines(item, o, n)
  BY <1>3 DEF CancellationLines
<1>6. QED
  BY <1>1, <1>4, <1>5

LEMMA MeantStays ==
  ASSUME TypeOK, NEW q \in Request, memo'[q] = memo[q],
         Task[q].kind \in {"complete", "cancel"} =>
            ItemsKept(Task[q].sale) /\ number'[Task[q].sale] = number[Task[q].sale],
         NEW ls, Meant(q, ls)
  PROVE  Meant(q, ls)'
<1>1. CASE Task[q].kind \notin {"complete", "cancel"}
  BY <1>1 DEF Meant
<1>2. CASE Task[q].kind = "complete"
  <2>1. PICK o \in SetToSeqs(ItemsOf(item, Task[q].sale)) :
           ls = SaleLines(item, o, memo[q].number)
    BY <1>2 DEF Meant
  <2>2. Task[q].sale \in Sale /\ IsFiniteSet(ItemsOf(item, Task[q].sale))
    BY <1>2, TaskTypes, FiniteQueries DEF SaleKinds, TypeOK, TablesOK
  <2>3. /\ o \in SetToSeqs(ItemsOf(item', Task[q].sale))
        /\ SaleLines(item', o, memo[q].number) = ls
    BY <1>2, <2>1, <2>2, SameLines
  <2>4. ls = SaleLines(item', o, memo'[q].number)
    BY <2>3
  <2>5. QED
    BY <1>2, <2>3, <2>4 DEF Meant
<1>3. CASE Task[q].kind = "cancel"
  <2>1. PICK o \in SetToSeqs(ItemsOf(item, Task[q].sale)) :
           ls = CancellationLines(item, o, number[Task[q].sale])
    BY <1>3 DEF Meant
  <2>2. Task[q].sale \in Sale /\ IsFiniteSet(ItemsOf(item, Task[q].sale))
    BY <1>3, TaskTypes, FiniteQueries DEF SaleKinds, TypeOK, TablesOK
  <2>3. /\ o \in SetToSeqs(ItemsOf(item', Task[q].sale))
        /\ CancellationLines(item', o, number[Task[q].sale]) = ls
    BY <1>3, <2>1, <2>2, SameLines
  <2>4. ls = CancellationLines(item', o, number'[Task[q].sale])
    BY <1>3, <2>3
  <2>5. QED
    BY <1>3, <2>3, <2>4 DEF Meant
<1>4. QED
  BY <1>1, <1>2, <1>3

\* Whoever is past its sale lock keeps items and number of its sale.
LEMMA StepsKeepSale ==
  ASSUME TypeOK, ControlInv, EditInv, NEW r \in Request, Walks(r) \/ Commit(r),
         NEW q \in Request \ {r}, Task[q].kind \in SaleKinds,
         pc[q] \in {"validate", "number", "move", "commit"}
  PROVE  ItemsKept(Task[q].sale) /\ number'[Task[q].sale] = number[Task[q].sale]
<1>1. CASE ~ Commit(r)
  <2>1. item' = item /\ number' = number
    BY <1>1, WalksKeepTables
  <2>2. QED
    BY <2>1 DEF ItemsKept
<1>2. CASE Commit(r)
  <2>1. ItemsKept(Task[q].sale)
    BY <1>2, CommitsKeepSale
  <2>2. CASE ~ CommitCheckout(r)
    BY <1>2, <2>1, <2>2 DEF Commit, CommitCreate, CommitDelete, CommitItem,
      CommitPrice, CommitStockIn, CommitCancel
  <2>3. CASE CommitCheckout(r)
    <3>1. Task[r].kind \in SaleKinds /\ number' = [number EXCEPT ![Task[r].sale] = memo[r].number]
      BY <2>3 DEF CommitCheckout, SaleKinds
    <3>2. HoldsSale(r) /\ HoldsSale(q)
      BY <1>2, <3>1, CommitKnows DEF ControlInv, ControlOf
    <3>3. Task[r].sale # Task[q].sale
      BY <3>2 DEF HoldsSale
    <3>4. Task[q].sale \in Sale
      BY TaskTypes
    <3>5. QED
      BY <2>1, <3>1, <3>3, <3>4 DEF TypeOK, TablesOK
  <2>4. QED
    BY <2>2, <2>3
<1>3. QED
  BY <1>1, <1>2

LEMMA RecordOthers ==
  ASSUME TypeOK, ControlInv, EditInv, RecordInv, NEW r \in Request,
         Walks(r) \/ Commit(r), NEW q \in Request \ {r}
  PROVE  RecordOf(q)'
<1>1. /\ pc'[q] = pc[q] /\ memo'[q] = memo[q]
      /\ todo'[q] = todo[q] /\ rows'[q] = rows[q]
  BY OthersStay, OthersKeepRows
<1>2. RecordOf(q)
  BY DEF RecordInv
<1>3. ASSUME pc[q] \in {"validate", "number", "move", "commit"},
             Task[q].kind \in {"complete", "cancel"}
      PROVE  ItemsKept(Task[q].sale) /\ number'[Task[q].sale] = number[Task[q].sale]
  BY <1>3, StepsKeepSale DEF SaleKinds
<1>4. ASSUME pc[q] \in {"move", "commit"}, Task[q].kind \in StockKinds
      PROVE  Recorded(q)'
  <2>1. PICK done \in Seq(Line), ls \in Seq(Line) :
          /\ Meant(q, ls)
          /\ ls = done \o todo[q]
          /\ \A v \in Variant : rows[q][v] = RowsFor(done, v)
    BY <1>2, <1>4 DEF RecordOf, Recorded
  <2>2. Meant(q, ls)'
    BY <1>1, <1>3, <1>4, <2>1, MeantStays
  <2>3. QED
    BY <1>1, <2>1, <2>2 DEF Recorded
<1>5. ASSUME pc[q] \in {"validate", "number", "move", "commit"}, Task[q].kind = "complete"
      PROVE  ItemsOf(item', Task[q].sale) # {}
  <2>1. Task[q].sale \in Sale
    BY <1>5, TaskTypes DEF SaleKinds
  <2>2. ItemsOf(item', Task[q].sale) = ItemsOf(item, Task[q].sale)
    BY <1>3, <1>5, <2>1, KeptItems
  <2>3. QED
    BY <1>2, <1>5, <2>2 DEF RecordOf
<1>6. QED
  BY <1>1, <1>2, <1>4, <1>5 DEF RecordOf

\* A request begins to record.
LEMMA RecordBegins ==
  ASSUME NEW r \in Request, NEW ls \in Seq(Line), Meant(r, ls)', todo'[r] = ls,
         \A v \in Variant : rows'[r][v] = << >>
  PROVE  Recorded(r)'
<1>1. << >> \in Seq(Line) /\ ls = << >> \o ls
  OBVIOUS
<1>2. \A v \in Variant : rows'[r][v] = RowsFor(<< >>, v)
  BY KeptEmpty
<1>3. ls = << >> \o todo'[r]
  BY <1>1
<1>4. QED
  BY <1>1, <1>2, <1>3 DEF Recorded

\* It records the next line.
LEMMA RecordGoesOn ==
  ASSUME NEW r \in Request, Recorded(r), todo[r] \in Seq(Line), todo[r] # << >>,
         \A ls : Meant(r, ls) => Meant(r, ls)',
         todo'[r] = Tail(todo[r]),
         \A v \in Variant :
           rows'[r][v] = IF v = Head(todo[r]).variant
                         THEN Append(rows[r][v], RowOf(Head(todo[r]))) ELSE rows[r][v]
  PROVE  Recorded(r)'
<1> DEFINE l == Head(todo[r])
           rest == Tail(todo[r])
<1>1. PICK done \in Seq(Line), ls \in Seq(Line) :
        /\ Meant(r, ls)
        /\ ls = done \o todo[r]
        /\ \A v \in Variant : rows[r][v] = RowsFor(done, v)
  BY DEF Recorded
<1>2. l \in Line /\ rest \in Seq(Line) /\ todo'[r] = rest
  OBVIOUS
<1>3. todo[r] = <<l>> \o rest
  OBVIOUS
<1> HIDE DEF l, rest
<1>4. Append(done, l) \in Seq(Line) /\ <<l>> \in Seq(Line)
  BY <1>2
<1>5. ls = Append(done, l) \o todo'[r]
  <2>1. done \o (<<l>> \o rest) = Append(done, l) \o rest
    BY <1>2, OneMoreDone
  <2>2. ls = done \o (<<l>> \o rest)
    BY <1>1, <1>3
  <2>3. QED
    BY <1>2, <2>1, <2>2
<1>6. ASSUME NEW v \in Variant
      PROVE  rows'[r][v] = RowsFor(Append(done, l), v)
  <2>1. RowsFor(Append(done, l), v)
           = IF l.variant = v THEN Append(RowsFor(done, v), RowOf(l))
             ELSE RowsFor(done, v)
    BY <1>2, RowsForLines
  <2>2. rows[r][v] = RowsFor(done, v)
    BY <1>1
  <2>3. QED
    BY <2>1, <2>2 DEF l
<1>7. Meant(r, ls)'
  BY <1>1
<1>8. QED
  BY <1>4, <1>5, <1>6, <1>7 DEF Recorded

\* The records of a request that leaves, or has not reached, them.
LEMMA RecordNothing ==
  ASSUME NEW r \in Request, \A v \in Variant : rows'[r][v] = << >>,
         \/ pc'[r] \notin {"validate", "number", "move", "commit"}
         \/ /\ Task[r].kind \notin StockKinds
            /\ pc'[r] = "commit" => todo'[r] = << >>
            /\ Task[r].kind = "price" => VariantsOf(Task[r].product) # {}
         \/ /\ pc'[r] \in {"validate", "number"} /\ Task[r].kind = "complete"
            /\ ItemsOf(item', Task[r].sale) # {}
  PROVE  RecordOf(r)'
  BY DEF RecordOf, StockKinds

LEMMA RecordStart ==
  ASSUME TypeOK, NEW r \in Request, RecordOf(r), Start(r)
  PROVE  RecordOf(r)'
<1>1. pc[r] = "idle" /\ rows' = rows /\ item' = item
  BY DEF Start, StartCreate, StartOnSale, StartAdd, StartMovement, StartBatch,
         StartPrice, RefusePrice, Enter
<1>2. \A v \in Variant : rows'[r][v] = << >>
  BY <1>1 DEF RecordOf
<1>3. ASSUME NEW where, NEW rs, NEW ls, Enter(r, where, rs, ls)
      PROVE  pc'[r] = where /\ todo'[r] = ls
  BY <1>3 DEF Enter, TypeOK, RequestsOK
<1>4. CASE StartCreate(r)
  <2>1. Enter(r, "commit", << >>, << >>) /\ Task[r].kind = "create"
    BY <1>4 DEF StartCreate
  <2>2. pc'[r] = "commit" /\ todo'[r] = << >>
    BY <1>3, <2>1
  <2>3. QED
    BY <1>2, <2>1, <2>2, RecordNothing DEF StockKinds
<1>5. CASE StartOnSale(r) \/ StartAdd(r) \/ RefusePrice(r)
  <2>1. \E where \in {"sale", "failed"} : \E rs : Enter(r, where, rs, << >>)
    BY <1>5 DEF StartOnSale, StartAdd, RefusePrice
  <2>2. pc'[r] \in {"sale", "failed"}
    BY <1>3, <2>1
  <2>3. QED
    BY <1>2, <2>2, RecordNothing
<1>6. CASE StartPrice(r)
  <2>1. PICK order : Enter(r, "commit", VariantRows(order), << >>)
    BY <1>6 DEF StartPrice
  <2>2. Task[r].kind = "price" /\ VariantsOf(Task[r].product) # {}
    BY <1>6 DEF StartPrice
  <2>3. pc'[r] = "commit" /\ todo'[r] = << >>
    BY <1>3, <2>1
  <2>4. QED
    BY <1>2, <2>2, <2>3, RecordNothing DEF StockKinds
<1>7. CASE StartMovement(r)
  <2>1. Task[r].kind = "movement" /\ Enter(r, "move", << >>, <<Task[r].line>>)
    BY <1>7 DEF StartMovement
  <2>2. pc'[r] = "move" /\ todo'[r] = <<Task[r].line>>
    BY <1>3, <2>1
  <2>3. Task[r].line \in Line
    BY <2>1, TaskTypes
  <2>4. <<Task[r].line>> \in Seq(Line)
    BY <2>3
  <2>5. Meant(r, <<Task[r].line>>)'
    BY <2>1 DEF Meant
  <2>6. Recorded(r)'
    BY <1>2, <2>2, <2>4, <2>5, RecordBegins
  <2>7. QED
    BY <2>1, <2>2, <2>6 DEF RecordOf, StockKinds
<1>8. CASE StartBatch(r)
  <2>1. PICK order : Enter(r, "move", <<ProductRow(Task[r].product)>> \o VariantRows(order),
             Task[r].lines)
    BY <1>8 DEF StartBatch
  <2>2. Task[r].kind = "batch" /\ Task[r].lines \in Seq(Line)
    BY <1>8, TaskTypes DEF StartBatch
  <2>3. pc'[r] = "move" /\ todo'[r] = Task[r].lines
    BY <1>3, <2>1
  <2>4. Meant(r, Task[r].lines)'
    BY <2>2 DEF Meant
  <2>5. Recorded(r)'
    BY <1>2, <2>2, <2>3, <2>4, RecordBegins
  <2>6. QED
    BY <2>2, <2>3, <2>5 DEF RecordOf, StockKinds
<1>9. QED
  BY <1>4, <1>5, <1>6, <1>7, <1>8 DEF Start

LEMMA RecordHandle ==
  ASSUME TypeOK, ControlInv, NumberInv, TypeOK', NEW r \in Request, RecordOf(r),
         Handle(r)
  PROVE  RecordOf(r)'
<1>1. item' = item /\ number' = number
  BY WalksKeepTables DEF Walks
<1>2. ASSUME NEW where, NEW rs, NEW ls, Proceed(r, where, rs, ls)
      PROVE  pc'[r] = where /\ todo'[r] = ls /\ rows' = rows
  BY <1>2 DEF Proceed, TypeOK, RequestsOK
<1>3. ASSUME pc[r] \in {"sale", "validate", "number"}
      PROVE  \A v \in Variant : rows[r][v] = << >>
  BY <1>3 DEF RecordOf
<1>4. CASE Delete(r) \/ EditItem(r)
  <2>1. Proceed(r, "commit", << >>, << >>) /\ pc[r] = "sale"
        /\ Task[r].kind \in {"delete"} \cup EditKinds
    BY <1>4 DEF Delete, EditItem, Reached, EditKinds
  <2>2. pc'[r] = "commit" /\ todo'[r] = << >> /\ \A v \in Variant : rows'[r][v] = << >>
    BY <1>2, <1>3, <2>1
  <2>3. QED
    BY <2>1, <2>2, RecordNothing DEF StockKinds, EditKinds
<1>5. CASE BeginCheckout(r)
  <2>1. /\ pc[r] = "sale" /\ Task[r].kind = "complete"
        /\ ItemsOf(item, Task[r].sale) # {}
        /\ \E rs : Proceed(r, "validate", rs, << >>)
    BY <1>5 DEF BeginCheckout, Reached, Acceptable
  <2>2. pc'[r] = "validate" /\ \A v \in Variant : rows'[r][v] = << >>
    BY <1>2, <1>3, <2>1
  <2>3. QED
    BY <1>1, <2>1, <2>2, RecordNothing
<1>6. CASE ValidateStock(r)
  <2>1. /\ pc[r] = "validate" /\ \E rs : Proceed(r, "number", rs, << >>)
    BY <1>6 DEF ValidateStock, Reached
  <2>2. pc'[r] = "number" /\ \A v \in Variant : rows'[r][v] = << >>
    BY <1>2, <1>3, <2>1
  <2>3. Task[r].kind = "complete"
    BY <2>1 DEF ControlInv, ControlOf
  <2>4. ItemsOf(item, Task[r].sale) # {}
    BY <2>1, <2>3 DEF RecordOf
  <2>5. QED
    BY <1>1, <2>2, <2>3, <2>4, RecordNothing
<1>7. CASE BeginCancel(r)
  <2>1. /\ pc[r] = "sale" /\ Task[r].kind = "cancel"
    BY <1>7 DEF BeginCancel, Reached
  <2>2. PICK o \in SetToSeqs(ItemsOf(item, Task[r].sale)) :
          Proceed(r, "move", << >>, CancellationLines(item, o, number[Task[r].sale]))
    BY <1>7 DEF BeginCancel
  <2>3. /\ pc'[r] = "move" /\ \A v \in Variant : rows'[r][v] = << >>
        /\ todo'[r] = CancellationLines(item, o, number[Task[r].sale])
    BY <1>2, <1>3, <2>1, <2>2
  <2>4. todo'[r] \in Seq(Line)
    BY DEF TypeOK, RequestsOK
  <2>5. \A ls : ls = CancellationLines(item, o, number[Task[r].sale]) => Meant(r, ls)'
    BY <1>1, <2>1, <2>2 DEF Meant
  <2>6. Recorded(r)'
    BY <2>3, <2>4, <2>5, RecordBegins
  <2>7. QED
    BY <2>1, <2>3, <2>6 DEF RecordOf, StockKinds
<1>8. CASE AssignNumber(r)
  <2> DEFINE n == LatestNumber(number, SaleStore[Task[r].sale]) + 1
  <2>1. /\ pc[r] = "number" /\ Task[r].kind = "complete"
    BY <1>8 DEF AssignNumber, Reached, ControlInv, ControlOf
  <2>2. PICK o \in SetToSeqs(ItemsOf(item, Task[r].sale)) :
          Proceed(r, "move", << >>, SaleLines(item, o, n))
    BY <1>8 DEF AssignNumber
  <2>3. /\ pc'[r] = "move" /\ \A v \in Variant : rows'[r][v] = << >>
        /\ todo'[r] = SaleLines(item, o, n)
    BY <1>2, <1>3, <2>1, <2>2
  <2>4. todo'[r] \in Seq(Line)
    BY DEF TypeOK, RequestsOK
  <2>5. memo'[r].number = n
    <3>1. memo' = [memo EXCEPT ![r] = Memo(0, n, NoItem, 0)]
      BY <1>8 DEF AssignNumber
    <3>2. memo'[r] = Memo(0, n, NoItem, 0)
      BY <3>1 DEF TypeOK, RequestsOK, MemoOK
    <3>3. QED
      BY <3>2 DEF Memo
  <2> HIDE DEF n
  <2>6. \A ls : ls = SaleLines(item, o, n) => Meant(r, ls)'
    BY <1>1, <2>1, <2>2, <2>5 DEF Meant
  <2>7. Recorded(r)'
    BY <2>3, <2>4, <2>6, RecordBegins
  <2>8. ItemsOf(item', Task[r].sale) # {}
    BY <1>1, <2>1 DEF RecordOf
  <2>9. QED
    BY <2>1, <2>3, <2>7, <2>8 DEF RecordOf, StockKinds
<1>9. CASE RecordMovement(r)
  <2> DEFINE l == Head(todo[r])
  <2>1. /\ pc[r] = "move" /\ todo[r] # << >> /\ todo[r] \in Seq(Line)
        /\ pc' = pc /\ memo' = memo
    BY <1>9 DEF RecordMovement, Reached, TypeOK, RequestsOK
  <2>2. Task[r].kind \in StockKinds
    BY <2>1 DEF ControlInv, ControlOf, StockKinds
  <2>3. todo'[r] = Tail(todo[r])
    BY <1>9 DEF RecordMovement, TypeOK, RequestsOK
  <2>4. rows' = [rows EXCEPT ![r][l.variant] = Append(@, RowOf(l))]
    BY <1>9 DEF RecordMovement
  <2>5. rows \in [Request -> [Variant -> Seq(Movement)]]
    BY DEF TypeOK, RequestsOK
  <2> HIDE DEF l
  <2>6. \A v \in Variant :
           rows'[r][v] = IF v = l.variant
                         THEN Append(rows[r][v], RowOf(l)) ELSE rows[r][v]
    BY <2>4, <2>5
  <2>7. \A ls : Meant(r, ls) => Meant(r, ls)'
    BY <1>1, <2>1 DEF Meant
  <2>8. Recorded(r)
    BY <2>1, <2>2 DEF RecordOf
  <2>9. Recorded(r)'
    BY <2>1, <2>3, <2>6, <2>7, <2>8, RecordGoesOn DEF l
  <2>10. QED
    BY <1>1, <2>1, <2>2, <2>9 DEF RecordOf, StockKinds
<1>10. CASE Seal(r)
  <2>1. /\ pc[r] = "move" /\ pc'[r] = "commit" /\ todo[r] = << >>
        /\ UNCHANGED <<todo, rows, memo>>
    BY <1>10 DEF Seal, Reached, TypeOK, RequestsOK
  <2>2. Task[r].kind \in StockKinds
    BY <2>1 DEF ControlInv, ControlOf, StockKinds
  <2>3. \A ls : Meant(r, ls) => Meant(r, ls)'
    BY <1>1, <2>1 DEF Meant
  <2>4. Recorded(r)
    BY <2>1, <2>2 DEF RecordOf
  <2>5. Recorded(r)'
    BY <2>1, <2>3, <2>4 DEF Recorded
  <2>6. QED
    BY <1>1, <2>1, <2>2, <2>5 DEF RecordOf, StockKinds
<1>11. QED
  BY <1>4, <1>5, <1>6, <1>7, <1>8, <1>9, <1>10 DEF Handle

LEMMA RecordStep ==
  ASSUME IInv, EditInv, RecordInv, [Next]_vars, TypeOK'
  PROVE  RecordInv'
<1>0. TypeOK /\ ControlInv /\ NumberInv
  BY DEF IInv
<1>1. CASE UNCHANGED vars
  BY <1>1 DEF RecordInv, RecordOf, Recorded, Meant
<1>2. ASSUME NEW r \in Request, Walks(r) \/ Commit(r)
      PROVE  RecordOf(r)'
  <2>1. RecordOf(r)
    BY DEF RecordInv
  <2>2. CASE Start(r)
    BY <1>0, <2>1, <2>2, RecordStart
  <2>3. CASE Handle(r)
    BY <1>0, <2>1, <2>3, RecordHandle
  <2>4. CASE Acquire(r)
    <3>1. UNCHANGED <<tables, pc, todo, rows, memo>>
      BY <2>4 DEF Acquire
    <3>2. Recorded(r) => Recorded(r)'
      BY <3>1 DEF Recorded, Meant
    <3>3. QED
      BY <2>1, <3>1, <3>2 DEF RecordOf
  <2>5. CASE RunHook(r) \/ CrashBeforeHook(r)
    <3>1. pc[r] = "hooks" /\ pc'[r] \in {"hooks", "done", "failed"} /\ rows' = rows
      BY <1>0, <2>5 DEF RunHook, CrashBeforeHook, TypeOK, RequestsOK
    <3>2. \A v \in Variant : rows'[r][v] = << >>
      BY <2>1, <3>1 DEF RecordOf
    <3>3. QED
      BY <3>1, <3>2, RecordNothing
  <2>6. CASE Rollback(r) \/ Commit(r)
    <3>1. Forget(r) /\ pc'[r] \in {"hooks", "done", "failed"}
      BY <1>0, <2>6, CommitKnows DEF Rollback, Committing, TypeOK, RequestsOK
    <3>2. \A v \in Variant : rows'[r][v] = << >>
      BY <1>0, <3>1, ForgetHoldings
    <3>3. QED
      BY <3>1, <3>2, RecordNothing
  <2>7. QED
    BY <1>2, <2>2, <2>3, <2>4, <2>5, <2>6 DEF Walks
<1>3. ASSUME NEW r \in Request, Walks(r) \/ Commit(r), NEW q \in Request \ {r}
      PROVE  RecordOf(q)'
  BY <1>0, <1>3, RecordOthers
<1>4. QED
  BY <1>1, <1>2, <1>3, Steps DEF RecordInv

LEMMA RecordInvariance == Spec => []RecordInv
<1>1. Init => RecordInv
  BY DEF Init, Idle, NoTransaction, RecordInv, RecordOf
<1>2. IInv /\ IInv' /\ EditInv /\ RecordInv /\ [Next]_vars => RecordInv'
  BY RecordStep DEF IInv
<1>3. QED
  BY <1>1, <1>2, Invariance, ItemsInvariance, PTL DEF Spec
-----------------------------------------------------------------------------
(* Each commit is one service call *)

\* The queries of the abstract specification are the ones of ShopData.
LEMMA AbsSum == \A f : Abs!SumFunction(f) = SumFunction(f)
  BY Zenon DEF Abs!SumFunction, SumFunction, SumFunctionOnSet, FoldFunctionOnSet,
    MapThenFoldSet, Abs!SumFunctionOnSet, Abs!FoldFunctionOnSet, Abs!MapThenFoldSet

LEMMA AbsRows ==
  /\ Abs!ItemRow = ItemRow
  /\ \A t, s : Abs!ItemsOf(t, s) = ItemsOf(t, s)
  /\ \A t, s : Abs!VariantsSold(t, s) = VariantsSold(t, s)
  /\ \A v : Abs!StoreOfVariant(v) = StoreOfVariant(v)
  /\ \A p : Abs!VariantsOf(p) = VariantsOf(p)
  /\ \A s, v, q, u, d : Abs!Priced(s, v, q, u, d) = Priced(s, v, q, u, d)
<1>1. Abs!ItemRow = ItemRow
  BY DEF Abs!ItemRow, ItemRow
<1>2. \A t, s : Abs!ItemsOf(t, s) = ItemsOf(t, s)
  BY DEF Abs!ItemsOf, ItemsOf
<1>3. \A t, s : Abs!VariantsSold(t, s) = VariantsSold(t, s)
  BY <1>2 DEF Abs!VariantsSold, VariantsSold
<1>4. \A v : Abs!StoreOfVariant(v) = StoreOfVariant(v)
  BY DEF Abs!StoreOfVariant, StoreOfVariant
<1>5. \A p : Abs!VariantsOf(p) = VariantsOf(p)
  BY DEF Abs!VariantsOf, VariantsOf
<1>6. \A s, v, q, u, d : Abs!Priced(s, v, q, u, d) = Priced(s, v, q, u, d)
  BY DEF Abs!Priced, Priced
<1>7. QED
  BY <1>1, <1>2, <1>3, <1>4, <1>5, <1>6

LEMMA AbsTotals ==
  /\ \A t, s : Abs!Total(t, s) = Total(t, s)
  /\ \A t, s, v : Abs!Required(t, s, v) = Required(t, s, v)
  /\ \A ms : Abs!Balance(ms) = Balance(ms)
<1>1. \A t, s : Abs!ItemsOf(t, s) = ItemsOf(t, s)
  BY AbsRows
<1>2. \A t, s : Abs!Total(t, s) = Total(t, s)
  BY <1>1, AbsSum DEF Abs!Total, Total
<1>3. \A t, s, v : Abs!Required(t, s, v) = Required(t, s, v)
  BY <1>1, AbsSum DEF Abs!Required, Required
<1>4. \A ms : Abs!Balance(ms) = Balance(ms)
  BY AbsSum DEF Abs!Balance, Balance, Abs!SumAt, SumAt
<1>5. QED
  BY <1>2, <1>3, <1>4

LEMMA AbsLines ==
  /\ \A t, o, n : Abs!SaleLines(t, o, n) = SaleLines(t, o, n)
  /\ \A t, o, n : Abs!CancellationLines(t, o, n) = CancellationLines(t, o, n)
  /\ \A ls, v : Abs!RowsFor(ls, v) = RowsFor(ls, v)
  /\ \A S : Abs!SetToSeqs(S) = SetToSeqs(S)
  /\ \A ns, st : Abs!LatestNumber(ns, st) = LatestNumber(ns, st)
  /\ \A ms : Abs!Last(ms) = Last(ms)
<1>1. \A t, o, n : Abs!SaleLines(t, o, n) = SaleLines(t, o, n)
  BY DEF Abs!SaleLines, SaleLines
<1>2. \A t, o, n : Abs!CancellationLines(t, o, n) = CancellationLines(t, o, n)
  BY DEF Abs!CancellationLines, CancellationLines
<1>3. \A l : Abs!RowOf(l) = RowOf(l)
  BY DEF Abs!RowOf, RowOf
<1>4. \A ls, v : Abs!RowsFor(ls, v) = RowsFor(ls, v)
  BY <1>3, ZenonT(60) DEF Abs!RowsFor, RowsFor
<1>5. \A S : Abs!Cardinality(S) = Cardinality(S)
  BY DEF Abs!Cardinality, Cardinality
<1>6. \A S : Abs!SetToSeqs(S) = SetToSeqs(S)
  BY <1>5, Zenon DEF Abs!SetToSeqs, SetToSeqs
<1>7. \A ns, st : Abs!NumbersOf(ns, st) = NumbersOf(ns, st)
  BY DEF Abs!NumbersOf, NumbersOf
<1>8. \A S : Abs!Max(S) = Max(S)
  BY Zenon DEF Abs!Max, Max
<1>9. \A ns, st : Abs!LatestNumber(ns, st) = LatestNumber(ns, st)
  BY <1>7, <1>8 DEF Abs!LatestNumber, LatestNumber
<1>10. \A ms : Abs!Last(ms) = Last(ms)
  BY DEF Abs!Last, Last
<1>11. QED
  BY <1>1, <1>2, <1>4, <1>6, <1>9, <1>10

\* At its commit a request has recorded the whole of one list it may record,
\* and writing its stock levels and movements records that list in the tables.
LEMMA CommitRecords ==
  ASSUME IInv, RecordInv, NEW r \in Request, Committing(r), WriteStock(r),
         Task[r].kind \in StockKinds
  PROVE  \E ls \in Seq(Line) :
           /\ Meant(r, ls)
           /\ Abs!Record(ls)
           /\ \A v \in Variant : rows[r][v] = RowsFor(ls, v)
           /\ \A v \in Variant : stock'[v] = stock[v] + Balance(RowsFor(ls, v))
<1>1. pc[r] = "commit" /\ todo[r] = << >> /\ Recorded(r)
  BY DEF Committing, Reached, RecordInv, RecordOf
<1>2. PICK done \in Seq(Line), ls \in Seq(Line) :
        /\ Meant(r, ls)
        /\ ls = done \o todo[r]
        /\ \A v \in Variant : rows[r][v] = RowsFor(done, v)
  BY <1>1 DEF Recorded
<1>3. ls = done
  BY <1>1, <1>2
<1>4. /\ movements \in [Variant -> Seq(Movement)] /\ stock \in [Variant -> Nat]
      /\ rows[r] \in [Variant -> Seq(Movement)]
  BY DEF IInv, TypeOK, TablesOK, RequestsOK
<1>5. ASSUME NEW v \in Variant
      PROVE  (IF rows[r][v] = << >> THEN stock[v] ELSE cur[r][v])
               = stock[v] + Balance(rows[r][v])
  <2>1. CASE rows[r][v] = << >>
    <3>1. Balance(rows[r][v]) = 0
      BY <2>1, BalanceEmpty
    <3>2. QED
      BY <1>4, <2>1, <3>1
  <2>2. CASE rows[r][v] # << >>
    <3>1. cur[r][v] = Balance(movements[v] \o rows[r][v])
      BY <2>2 DEF IInv, LedgerInv, Balanced
    <3>2. stock[v] = Balance(movements[v])
      BY DEF IInv, LedgerInv, Balanced
    <3>3. Balance(movements[v] \o rows[r][v])
            = Balance(movements[v]) + Balance(rows[r][v])
      BY <1>4, BalanceConcat
    <3>4. QED
      BY <2>2, <3>1, <3>2, <3>3
  <2>3. QED
    BY <2>1, <2>2
<1>6. \A v \in Variant : rows[r][v] = RowsFor(ls, v)
  BY <1>2, <1>3
<1>7. movements' = [v \in Variant |-> movements[v] \o RowsFor(ls, v)]
  BY <1>6 DEF WriteStock
<1>8. \A v \in Variant : (IF rows[r][v] = << >> THEN stock[v] ELSE cur[r][v])
               = stock[v] + Balance(RowsFor(ls, v))
  BY <1>5, <1>6
<1>9. stock' = [v \in Variant |-> stock[v] + Balance(RowsFor(ls, v))]
  BY <1>8 DEF WriteStock
<1>10. Abs!Record(ls)
  BY <1>7, <1>9, AbsLines, AbsTotals DEF Abs!Record
<1>11. QED
  BY <1>2, <1>6, <1>9, <1>10

LEMMA CreateIsOneCall ==
  ASSUME IInv, NEW r \in Request, CommitCreate(r)
  PROVE  Abs!Next
<1>1. Task[r].kind = "create" /\ pc[r] = "commit" /\ Task[r].sale \in Sale
  BY TaskTypes DEF CommitCreate, Committing, Reached
<1>2. status[Task[r].sale] = "none"
  BY <1>1 DEF IInv, ControlInv, ControlOf
<1>3. Abs!CreateSale(Task[r].sale)
  BY <1>2 DEF CommitCreate, Abs!CreateSale
<1>4. QED
  BY <1>1, <1>3 DEF Abs!Next

LEMMA DeleteIsOneCall ==
  ASSUME IInv, NEW r \in Request, CommitDelete(r)
  PROVE  Abs!Next
<1>1. Task[r].kind = "delete" /\ pc[r] = "commit" /\ Task[r].sale \in Sale
  BY TaskTypes DEF CommitDelete, Committing, Reached, SaleKinds
<1>2. status[Task[r].sale] = "draft"
  BY <1>1 DEF IInv, ControlInv, ControlOf, SaleKinds, HoldsSale, ExpectedStatus
<1>3. Abs!DeleteDraftSale(Task[r].sale)
  BY <1>2, AbsRows DEF CommitDelete, Abs!DeleteDraftSale
<1>4. QED
  BY <1>1, <1>3 DEF Abs!Next

LEMMA PriceIsOneCall ==
  ASSUME IInv, RecordInv, NEW r \in Request, CommitPrice(r)
  PROVE  Abs!Next
<1> DEFINE p == Task[r].product
<1>1. Task[r].kind = "price" /\ pc[r] = "commit" /\ p \in Product
  BY TaskTypes DEF CommitPrice, Committing, Reached
<1>2. PICK v : v \in VariantsOf(p)
  BY <1>1 DEF RecordInv, RecordOf
<1>3. price' = [w \in Variant |-> IF ProductOf[w] = p THEN Task[r].amount ELSE price[w]]
  BY DEF CommitPrice
<1>4. price'[v] = Task[r].amount
  BY <1>2, <1>3 DEF VariantsOf
<1>5. Abs!UpdateProductSalePrice(p, price'[v])
  BY <1>2, <1>3, <1>4, AbsRows DEF CommitPrice, Abs!UpdateProductSalePrice
<1>6. QED
  BY <1>1, <1>2, <1>5, AbsRows DEF Abs!Next

LEMMA EditIsOneCall ==
  ASSUME IInv, EditInv, NEW r \in Request, CommitItem(r), TypeOK'
  PROVE  Abs!Next
<1> DEFINE s == Task[r].sale
           i == Task[r].item
           row == memo[r].row
<1>1. Task[r].kind \in EditKinds /\ pc[r] = "commit" /\ s \in Sale /\ i \in Item
  BY TaskTypes DEF CommitItem, Committing, Reached, SaleKinds, EditKinds
<1>2. status[s] = "draft"
  BY <1>1 DEF IInv, ControlInv, ControlOf, SaleKinds, EditKinds, HoldsSale,
    ExpectedStatus
<1>3. Prepared(r) /\ (Task[r].kind = "add" => item[i] = NoItem)
  BY <1>1 DEF EditInv, EditOf
<1>4. /\ item' = [item EXCEPT ![i] = row] /\ DOMAIN item = Item
      /\ total' = [total EXCEPT ![s] = memo[r].total]
      /\ UNCHANGED <<status, number, stock, movements, price, outbox>>
  BY DEF CommitItem, IInv, TypeOK, TablesOK
<1>5. memo[r].total = Total(item', s)
  BY <1>3, <1>4 DEF Prepared
<1>6. item'[i] = row
  BY <1>1, <1>4
<1>7. Abs!PutItem(s, i, row)
  BY <1>2, <1>4, <1>5, AbsTotals DEF Abs!PutItem
<1>8. CASE Task[r].kind = "add"
  <2>1. PricedLine(row, s) /\ StoreOfVariant(row.variant) = SaleStore[s]
    BY <1>3, <1>8 DEF Prepared
  <2>2. Abs!AddSaleItem(s, i)
    BY <1>3, <1>6, <1>7, <1>8, <2>1, AbsRows DEF Abs!AddSaleItem, PricedLine
  <2>3. QED
    BY <1>1, <2>2 DEF Abs!Next
<1>9. CASE Task[r].kind = "update"
  <2>1. /\ PricedLine(row, s) /\ row.variant = item[i].variant
        /\ row.unit = item[i].unit /\ i \in ItemsOf(item, s)
    BY <1>3, <1>9 DEF Prepared
  <2>2. row = Priced(s, item[i].variant, row.quantity, item[i].unit, row.discount)
    <3>1. row = [sale |-> row.sale, variant |-> row.variant, quantity |-> row.quantity,
                 unit |-> row.unit, discount |-> row.discount, final |-> row.final]
      BY <2>1 DEF PricedLine, ItemRow
    <3>2. QED
      BY <2>1, <3>1 DEF PricedLine, Priced
  <2>3. Abs!UpdateSaleItem(s, i)
    BY <1>6, <1>7, <2>1, <2>2, AbsRows DEF Abs!UpdateSaleItem, PricedLine
  <2>4. QED
    BY <1>1, <2>3 DEF Abs!Next
<1>10. CASE Task[r].kind = "remove"
  <2>1. row = NoItem /\ i \in ItemsOf(item, s)
    BY <1>3, <1>10 DEF Prepared
  <2>2. Abs!DeleteSaleItem(s, i)
    BY <1>7, <2>1, AbsRows DEF Abs!DeleteSaleItem
  <2>3. QED
    BY <1>1, <2>2 DEF Abs!Next
<1>11. QED
  BY <1>1, <1>8, <1>9, <1>10 DEF EditKinds

\* What one line adds to a variant.
LEMMA RowsOfOneLine ==
  ASSUME NEW l \in Line, NEW v
  PROVE  RowsFor(<<l>>, v) = IF l.variant = v THEN <<RowOf(l)>> ELSE << >>
<1>1. << >> \in Seq(Line) /\ Append(<< >>, l) = <<l>>
  OBVIOUS
<1>2. RowsFor(Append(<< >>, l), v)
        = IF l.variant = v THEN Append(RowsFor(<< >>, v), RowOf(l))
          ELSE RowsFor(<< >>, v)
  BY <1>1, RowsForLines
<1>3. RowsFor(<< >>, v) = << >>
  BY KeptEmpty
<1>4. Append(<< >>, RowOf(l)) = <<RowOf(l)>>
  OBVIOUS
<1>5. QED
  BY <1>1, <1>2, <1>3, <1>4

LEMMA MovementIsOneCall ==
  ASSUME IInv, RecordInv, TypeOK', NEW r \in Request, CommitStockIn(r),
         Task[r].kind = "movement"
  PROVE  Abs!Next
<1> DEFINE l == Task[r].line
           v == l.variant
<1>1. /\ l \in Line /\ WellFormed(Task[r])
  BY TaskTypes, TaskAssumption
<1>2. /\ v \in Variant /\ l.quantity \in Int \ {0} /\ l.note = 0
      /\ l.type \in {"purchase", "adjustment"}
      /\ l.type = "purchase" => l.quantity > 0
      /\ l = [variant |-> v, quantity |-> l.quantity, type |-> l.type, note |-> 0]
  BY <1>1 DEF Line, WellFormed
<1>3. PICK ls \in Seq(Line) :
        /\ Meant(r, ls) /\ Abs!Record(ls)
        /\ \A w \in Variant : stock'[w] = stock[w] + Balance(RowsFor(ls, w))
  BY CommitRecords DEF CommitStockIn, StockKinds
<1>4. ls = <<l>>
  BY <1>3 DEF Meant
<1>5. RowsFor(<<l>>, v) = <<RowOf(l)>>
  BY <1>1, RowsOfOneLine
<1>6. movements[v] \in Seq(Movement) /\ RowOf(l) \in Movement
      /\ stock[v] \in Nat /\ stock'[v] \in Nat
  BY <1>1, <1>2, LineRow DEF IInv, TypeOK, TablesOK
<1>7. movements'[v] = movements[v] \o <<RowOf(l)>>
  <2>1. movements' = [w \in Variant |-> movements[w] \o RowsFor(<<l>>, w)]
    BY <1>3, <1>4, AbsLines DEF Abs!Record
  <2>2. QED
    BY <1>2, <1>5, <2>1
<1>8. /\ Len(movements'[v]) = Len(movements[v]) + 1
      /\ Last(movements'[v]) = RowOf(l)
  <2> DEFINE m == RowOf(l)
             one == <<m>>
             old == movements[v]
             new == movements'[v]
  <2>1. m \in Movement /\ old \in Seq(Movement) /\ new = old \o one
    BY <1>6, <1>7
  <2> HIDE DEF m, old, new
  <2>2. new = Append(old, m)
    BY <2>1, AppendIsConcat
  <2> HIDE DEF one
  <2>3. Len(new) = Len(old) + 1 /\ new[Len(old) + 1] = m /\ Len(old) \in Nat
    BY <2>1, <2>2
  <2>4. Len(new) = Len(old) + 1 /\ Last(new) = m
    BY <2>3 DEF Last
  <2>5. QED
    BY <2>4 DEF m, old, new
<1>9. stock[v] + l.quantity >= 0
  <2>1. Balance(<<RowOf(l)>>) = l.quantity
    <3>1. Append(<< >>, RowOf(l)) = <<RowOf(l)>> /\ << >> \in Seq(Movement)
      OBVIOUS
    <3>2. Balance(Append(<< >>, RowOf(l))) = Balance(<< >>) + RowOf(l).quantity
      BY <1>6, <3>1, BalanceAppend
    <3>3. RowOf(l).quantity = l.quantity
      BY DEF RowOf
    <3>4. QED
      BY <1>2, <3>1, <3>2, <3>3, BalanceEmpty
  <2>2. stock'[v] = stock[v] + Balance(RowsFor(<<l>>, v))
    BY <1>2, <1>3, <1>4
  <2>3. QED
    BY <1>2, <1>5, <1>6, <2>1, <2>2
<1>10. Abs!Record(<<[variant |-> v, quantity |-> l.quantity, type |-> l.type, note |-> 0]>>)
  BY <1>2, <1>3, <1>4
<1>11. /\ RowOf(l).quantity = l.quantity /\ RowOf(l).type = l.type
       /\ RowOf(l).note = l.note
  BY DEF RowOf
<1> HIDE DEF l, v
<1>12. Abs!Last(movements'[v]) = RowOf(l)
  BY <1>8, AbsLines
<1>13. UNCHANGED <<status, number, total, item, price, outbox>>
  BY DEF CommitStockIn
<1>14. Abs!CreateInventoryMovement(v)
  BY <1>2, <1>8, <1>9, <1>10, <1>11, <1>12, <1>13 DEF Abs!CreateInventoryMovement
<1>15. QED
  BY <1>2, <1>14 DEF Abs!Next

LEMMA BatchIsOneCall ==
  ASSUME IInv, RecordInv, NEW r \in Request, CommitStockIn(r),
         Task[r].kind = "batch"
  PROVE  Abs!Next
<1> DEFINE p == Task[r].product
           ls == Task[r].lines
<1>1. /\ p \in Product /\ ls \in Seq(Line)
      /\ \A k \in DOMAIN ls :
            /\ ls[k].note = 0 /\ ls[k].type = "purchase" /\ ls[k].quantity > 0
            /\ ProductOf[ls[k].variant] = p
            /\ \A j \in DOMAIN ls \ {k} : ls[j].variant # ls[k].variant
  BY TaskTypes, TaskAssumption DEF WellFormed
<1>2. PICK rec \in Seq(Line) :
        /\ Meant(r, rec) /\ Abs!Record(rec)
        /\ \A w \in Variant : stock'[w] = stock[w] + Balance(RowsFor(rec, w))
  BY CommitRecords DEF CommitStockIn, StockKinds
<1>3. rec = ls
  BY <1>2 DEF Meant
<1>4. movements' = [w \in Variant |-> movements[w] \o RowsFor(ls, w)]
  BY <1>2, <1>3, AbsLines DEF Abs!Record
<1> HIDE DEF p, ls
<1>5. ASSUME NEW v \in Variant
      PROVE  LET n == Len(movements[v])
                 added == SubSeq(movements'[v], n + 1, Len(movements'[v]))
             IN  /\ movements'[v] = movements[v] \o added
                 /\ Len(added) <= 1
                 /\ v \notin VariantsOf(p) => added = << >>
                 /\ \A k \in DOMAIN added : /\ added[k].type = "purchase"
                                            /\ added[k].quantity > 0
                                            /\ added[k].note = 0
                 /\ stock'[v] = stock[v] + Balance(added)
  <2> DEFINE old == movements[v]
             new == movements'[v]
             ms == RowsFor(ls, v)
  <2>1. old \in Seq(Movement) /\ new = old \o ms
    BY <1>4 DEF IInv, TypeOK, TablesOK
  <2>2. Gathered(ls, v)
    BY <1>1, RowsForLines
  <2>3. ms \in Seq(Movement)
    BY <2>2 DEF Gathered
  <2>4. ASSUME NEW k \in DOMAIN ms
        PROVE  /\ ms[k].type = "purchase" /\ ms[k].quantity > 0 /\ ms[k].note = 0
               /\ ProductOf[v] = p
    <3>1. PICK j \in LinesOf(ls, v) : ms[k] = RowOf(ls[j])
      BY <2>2 DEF Gathered
    <3>2. j \in DOMAIN ls /\ ls[j].variant = v
      BY DEF LinesOf
    <3>3. QED
      BY <1>1, <3>1, <3>2 DEF RowOf
  <2>5. ~ (Len(ms) > 1)
    <3> SUFFICES ASSUME Len(ms) > 1
                 PROVE  FALSE
      OBVIOUS
    <3>1. PICK i \in LinesOf(ls, v), j \in LinesOf(ls, v) : i # j
      BY <2>2 DEF Gathered
    <3>2. /\ i \in DOMAIN ls /\ ls[i].variant = v
          /\ j \in DOMAIN ls /\ ls[j].variant = v
      BY DEF LinesOf
    <3>3. QED
      BY <1>1, <3>1, <3>2
  <2>6. stock'[v] = stock[v] + Balance(ms)
    BY <1>2, <1>3
  <2> HIDE DEF old, new, ms
  <2>7. /\ Len(ms) \in Nat /\ Len(old) \in Nat /\ Len(new) = Len(old) + Len(ms)
    BY <2>1, <2>3
  <2>8. SubSeq(new, Len(old) + 1, Len(new)) = ms
    <3>1. CASE ms = << >>
      BY <2>7, <3>1, SubSeqEmpty
    <3>2. CASE ms # << >>
      <4>1. Len(ms) > 0
        BY <2>3, <3>2, EmptySeq
      <4>2. /\ Len(old) + 1 \in Len(old) + 1 .. Len(old) + Len(ms)
            /\ Len(new) \in Len(old) + 1 .. Len(old) + Len(ms)
            /\ Len(old) + 1 - Len(old) = 1 /\ Len(new) - Len(old) = Len(ms)
        BY <2>7, <4>1
      <4>3. SubSeq(old \o ms, Len(old) + 1, Len(new))
              = SubSeq(ms, Len(old) + 1 - Len(old), Len(new) - Len(old))
        BY <2>1, <2>3, <4>2, SubSeqOfConcat2
      <4>4. SubSeq(ms, 1, Len(ms)) = ms
        BY <2>3, SubSeqFull
      <4>5. QED
        BY <2>1, <4>2, <4>3, <4>4
    <3>3. QED
      BY <3>1, <3>2
  <2>9. v \notin VariantsOf(p) => ms = << >>
    <3>1. v \notin VariantsOf(p) => ProductOf[v] # p
      BY DEF VariantsOf
    <3>2. ms # << >> => 1 \in DOMAIN ms
      BY <2>3
    <3>3. QED
      BY <2>4, <3>1, <3>2
  <2>10. /\ new = old \o ms /\ Len(ms) <= 1
         /\ \A k \in DOMAIN ms : /\ ms[k].type = "purchase"
                                 /\ ms[k].quantity > 0 /\ ms[k].note = 0
    BY <2>1, <2>4, <2>5, <2>7
  <2>11. QED
    BY <2>6, <2>8, <2>9, <2>10 DEF old, new
<1>6. UNCHANGED <<status, number, total, item, price, outbox>>
  BY DEF CommitStockIn
<1>7. Abs!CreateBatchPurchase(p)
  BY <1>5, <1>6, AbsRows, AbsTotals DEF Abs!CreateBatchPurchase
<1>8. QED
  BY <1>1, <1>7 DEF Abs!Next

LEMMA CheckoutIsOneCall ==
  ASSUME IInv, RecordInv, TypeOK', NEW r \in Request, CommitCheckout(r)
  PROVE  Abs!Next
<1> DEFINE s == Task[r].sale
           n == memo[r].number
<1>1. Task[r].kind = "complete" /\ pc[r] = "commit" /\ s \in Sale
  BY TaskTypes DEF CommitCheckout, Committing, Reached, SaleKinds
<1>2. /\ status[s] = "draft" /\ n = LatestNumber(number, SaleStore[s]) + 1
      /\ ItemsOf(item, s) # {}
  BY <1>1 DEF IInv, ControlInv, ControlOf, SaleKinds, HoldsSale, ExpectedStatus,
     HoldsNumber, RecordInv, RecordOf
<1>3. PICK ls \in Seq(Line) :
        /\ Meant(r, ls) /\ Abs!Record(ls)
        /\ \A w \in Variant : stock'[w] = stock[w] + Balance(RowsFor(ls, w))
  BY <1>1, CommitRecords DEF CommitCheckout, StockKinds
<1>4. PICK o \in SetToSeqs(ItemsOf(item, s)) : ls = SaleLines(item, o, n)
  BY <1>1, <1>3 DEF Meant
<1>5. number' = [number EXCEPT ![s] = n] /\ number'[s] = n
  BY <1>1 DEF CommitCheckout, IInv, TypeOK, TablesOK
<1>6. /\ stock \in [Variant -> Nat] /\ stock' \in [Variant -> Nat]
      /\ item \in [Item -> ItemRow \cup {NoItem}]
  BY DEF IInv, TypeOK, TablesOK
<1> HIDE DEF s, n
<1>7. ASSUME NEW v \in VariantsSold(item, s)
      PROVE  stock[v] >= Required(item, s, v)
  <2>1. v \in Variant
    BY <1>1, <1>6, FiniteQueries
  <2>4. /\ LineSum(ls, v) = - Required(item, s, v)
        /\ Required(item, s, v) \in Int
    BY <1>1, <1>4, <1>6, SaleLinesSum
  <2>5. Balance(RowsFor(ls, v)) = LineSum(ls, v)
    BY RowsForLines DEF Gathered
  <2>6. stock'[v] = stock[v] + Balance(RowsFor(ls, v))
    BY <1>3, <2>1
  <2>7. stock[v] \in Nat /\ stock'[v] \in Nat
    BY <1>6, <2>1
  <2>8. QED
    BY <2>4, <2>5, <2>6, <2>7
<1>8. \A v \in Abs!VariantsSold(item, s) : stock[v] >= Abs!Required(item, s, v)
  BY <1>7, AbsRows, AbsTotals
<1>9. \E order \in Abs!SetToSeqs(Abs!ItemsOf(item, s)) :
         Abs!Record(Abs!SaleLines(item, order, number'[s]))
  BY <1>3, <1>4, <1>5, AbsRows, AbsLines
<1>10. number' = [number EXCEPT ![s] = Abs!LatestNumber(number, SaleStore[s]) + 1]
  BY <1>2, <1>5, AbsLines
<1>11. /\ status' = [status EXCEPT ![s] = "completed"]
       /\ outbox' = IF SaleStore[s] \in EmailStore THEN outbox \cup {s} ELSE outbox
       /\ UNCHANGED <<total, item, price>>
  BY DEF CommitCheckout, s
<1>12. Abs!ItemsOf(item, s) # {}
  BY <1>2, AbsRows
<1>13. Abs!CompleteSale(s)
  BY <1>2, <1>8, <1>9, <1>10, <1>11, <1>12 DEF Abs!CompleteSale
<1>14. QED
  BY <1>1, <1>13 DEF Abs!Next

LEMMA CancelIsOneCall ==
  ASSUME IInv, RecordInv, NEW r \in Request, CommitCancel(r)
  PROVE  Abs!Next
<1> DEFINE s == Task[r].sale
<1>1. Task[r].kind = "cancel" /\ pc[r] = "commit" /\ s \in Sale
  BY TaskTypes DEF CommitCancel, Committing, Reached, SaleKinds
<1>2. status[s] = "completed"
  BY <1>1 DEF IInv, ControlInv, ControlOf, SaleKinds, HoldsSale, ExpectedStatus
<1>3. PICK ls \in Seq(Line) : Meant(r, ls) /\ Abs!Record(ls)
  BY <1>1, CommitRecords DEF CommitCancel, StockKinds
<1>4. PICK o \in SetToSeqs(ItemsOf(item, s)) :
        ls = CancellationLines(item, o, number[s])
  BY <1>1, <1>3 DEF Meant
<1>5. \E order \in Abs!SetToSeqs(Abs!ItemsOf(item, s)) :
         Abs!Record(Abs!CancellationLines(item, order, number[s]))
  BY <1>3, <1>4, AbsRows, AbsLines
<1>6. /\ status' = [status EXCEPT ![s] = "cancelled"]
      /\ UNCHANGED <<number, total, item, price, outbox>>
  BY DEF CommitCancel
<1> HIDE DEF s
<1>7. Abs!CancelSale(s)
  BY <1>2, <1>5, <1>6 DEF Abs!CancelSale
<1>8. QED
  BY <1>1, <1>7 DEF Abs!Next

\* Every step is one service call on the tables, or leaves them alone.
LEMMA StepIsOneCall ==
  ASSUME IInv, EditInv, RecordInv, [Next]_vars, TypeOK'
  PROVE  [Abs!Next]_tables
<1>1. CASE UNCHANGED vars
  BY <1>1
<1>2. ASSUME NEW r \in Request, Walks(r)
      PROVE  UNCHANGED tables
  BY <1>2, WalksKeepTables
<1>3. ASSUME NEW r \in Request, Commit(r)
      PROVE  Abs!Next
  <2>1. CASE CommitStockIn(r)
    BY <2>1, MovementIsOneCall, BatchIsOneCall DEF CommitStockIn
  <2>2. QED
    BY <1>3, <2>1, CreateIsOneCall, DeleteIsOneCall, EditIsOneCall, PriceIsOneCall,
      CheckoutIsOneCall, CancelIsOneCall DEF Commit
<1>4. QED
  BY <1>1, <1>2, <1>3, Steps

\* Whatever the requests lock, read, buffer, lose and repeat: on the committed
\* tables each transaction is one whole service call taking effect, or nothing.
THEOREM ServicesAreAtomic == Spec => AtomicServices
<1>1. IInv /\ IInv' /\ EditInv /\ RecordInv /\ [Next]_vars => [Abs!Next]_tables
  BY StepIsOneCall DEF IInv
<1>2. QED
  BY <1>1, Invariance, ItemsInvariance, RecordInvariance, PTL DEF Spec, AtomicServices

\* The transactions and row locks of the code implement the abstract services.
THEOREM ServicesAreImplemented == Spec => ImplementsServices
<1>1. Init => Abs!Init
  BY DEF Init
<1>2. IInv /\ IInv' /\ EditInv /\ RecordInv /\ [Next]_vars => [Abs!Next]_(Abs!tables)
  BY StepIsOneCall DEF IInv, Abs!tables
<1>3. QED
  BY <1>1, <1>2, Invariance, ItemsInvariance, RecordInvariance, PTL
  DEF Spec, ImplementsServices, Abs!Spec
-----------------------------------------------------------------------------
(* What quotes a sale number *)

\* Movements quote numbers that a sale of their store has got.
NotesInv ==
  \A v \in Variant : \A k \in DOMAIN movements[v] :
    movements[v][k].note \in {0} \cup NumbersOf(number, StoreOfVariant(v))

\* A sale sells variants of its own store.
ItemsInStore ==
  \A i \in Item : item[i] # NoItem =>
    StoreOfVariant(item[i].variant) = SaleStore[item[i].sale]

\* The movements of a list of lines, as one number sees them.
LEMMA LinesQuoted ==
  ASSUME NEW old \in Seq(Movement), NEW ls \in Seq(Line), NEW v, NEW n
  PROVE  /\ (\A j \in LinesOf(ls, v) : ls[j].note # n)
              => Quoted(old \o RowsFor(ls, v), n) = Quoted(old, n)
         /\ (\A j \in LinesOf(ls, v) : ls[j].note = n)
              => Quoted(old \o RowsFor(ls, v), n) = Quoted(old, n) + LineSum(ls, v)
<1> DEFINE ms == RowsFor(ls, v)
<1>1. /\ ms \in Seq(Movement) /\ Balance(ms) = LineSum(ls, v)
      /\ \A k \in DOMAIN ms : \E j \in LinesOf(ls, v) : ms[k] = RowOf(ls[j])
  BY RowsForLines DEF Gathered
<1> HIDE DEF ms
<1>2. /\ Quoted(old \o ms, n) = Quoted(old, n) + Quoted(ms, n)
      /\ Quoted(old, n) \in Int
  BY <1>1, QuotedConcat
<1>3. ASSUME \A j \in LinesOf(ls, v) : ls[j].note # n
      PROVE  Quoted(ms, n) = 0
  <2>1. \A k \in DOMAIN ms : ms[k].note # n
    BY <1>1, <1>3 DEF RowOf
  <2>2. QED
    BY <1>1, <2>1, QuotedAllOrNone
<1>4. ASSUME \A j \in LinesOf(ls, v) : ls[j].note = n
      PROVE  Quoted(ms, n) = LineSum(ls, v)
  <2>1. \A k \in DOMAIN ms : ms[k].note = n
    BY <1>1, <1>4 DEF RowOf
  <2>2. QED
    BY <1>1, <2>1, QuotedAllOrNone
<1>5. QED
  BY <1>2, <1>3, <1>4 DEF ms

\* Old and new notes of a variant whose lines are recorded.
LEMMA LinesNoted ==
  ASSUME NEW old \in Seq(Movement), NEW ls \in Seq(Line), NEW v, NEW N,
         \A k \in DOMAIN old : old[k].note \in N,
         \A j \in LinesOf(ls, v) : ls[j].note \in N
  PROVE  \A k \in DOMAIN (old \o RowsFor(ls, v)) : (old \o RowsFor(ls, v))[k].note \in N
<1> DEFINE ms == RowsFor(ls, v)
           new == old \o ms
<1>1. /\ ms \in Seq(Movement)
      /\ \A k \in DOMAIN ms : \E j \in LinesOf(ls, v) : ms[k] = RowOf(ls[j])
  BY RowsForLines DEF Gathered
<1>2. \A k \in DOMAIN ms : ms[k].note \in N
  BY <1>1 DEF RowOf
<1> HIDE DEF ms
<1>3. /\ Len(old) \in Nat /\ Len(ms) \in Nat
      /\ DOMAIN old = 1 .. Len(old) /\ DOMAIN ms = 1 .. Len(ms)
      /\ DOMAIN new = 1 .. Len(old) + Len(ms)
      /\ \A k \in 1 .. Len(old) + Len(ms) :
           new[k] = IF k <= Len(old) THEN old[k] ELSE ms[k - Len(old)]
  <2>1. new \in Seq(Movement) /\ Len(new) = Len(old) + Len(ms)
    BY <1>1
  <2>2. \A k \in 1 .. Len(old) + Len(ms) :
           new[k] = IF k <= Len(old) THEN old[k] ELSE ms[k - Len(old)]
    BY <1>1
  <2>3. QED
    BY <1>1, <2>1, <2>2
<1> HIDE DEF new
<1>4. ASSUME NEW k \in DOMAIN new
      PROVE  new[k].note \in N
  <2>1. CASE k <= Len(old)
    <3>1. k \in DOMAIN old /\ new[k] = old[k]
      BY <1>3, <2>1
    <3>2. QED
      BY <3>1
  <2>2. CASE ~ (k <= Len(old))
    <3>1. k - Len(old) \in DOMAIN ms /\ new[k] = ms[k - Len(old)]
      BY <1>3, <2>2
    <3>2. QED
      BY <1>2, <3>1
  <2>3. QED
    BY <2>1, <2>2
<1>5. QED
  BY <1>4 DEF new, ms

\* What a sale requires depends on nothing but its items.
LEMMA RequiredKept ==
  ASSUME NEW s \in Sale, ItemsKept(s), NEW v
  PROVE  Required(item', s, v) = Required(item, s, v)
<1>1. /\ ItemsOf(item', s) = ItemsOf(item, s)
      /\ \A i \in ItemsOf(item, s) : item'[i] = item[i]
  BY KeptItems
<1>2. {k \in ItemsOf(item', s) : item'[k].variant = v}
        = {k \in ItemsOf(item, s) : item[k].variant = v}
  BY <1>1
<1>3. [i \in {k \in ItemsOf(item', s) : item'[k].variant = v} |-> item'[i].quantity]
        = [i \in {k \in ItemsOf(item, s) : item[k].variant = v} |-> item[i].quantity]
  BY <1>1, <1>2
<1>4. QED
  BY <1>3, Zenon DEF Required

\* What SaleCountsOnce says of one sale.
CountedOf(s) ==
  /\ number[s] # 0 <=> status[s] \in {"completed", "cancelled"}
  /\ number[s] # 0 =>
       \A v \in {w \in Variant : StoreOfVariant(w) = SaleStore[s]} :
          NetEffect(s, v) = IF status[s] = "completed"
                            THEN - Required(item, s, v) ELSE 0

CountsInv == NotesInv /\ ItemsInStore /\ \A s \in Sale : CountedOf(s)

\* A sale that a step does not touch, and whose number no new movement of its
\* store quotes, still counts once.
LEMMA CountStays ==
  ASSUME NEW u \in Sale, CountedOf(u),
         status'[u] = status[u], number'[u] = number[u],
         number[u] # 0 => ItemsKept(u),
         \A v \in Variant : number[u] # 0 /\ StoreOfVariant(v) = SaleStore[u]
           => Quoted(movements'[v], number[u]) = Quoted(movements[v], number[u])
  PROVE  CountedOf(u)'
<1>1. ASSUME number[u] # 0, NEW v \in Variant, StoreOfVariant(v) = SaleStore[u]
      PROVE  NetEffect(u, v)' = IF status'[u] = "completed"
                                THEN - Required(item', u, v) ELSE 0
  <2>1. Required(item', u, v) = Required(item, u, v)
    BY <1>1, RequiredKept
  <2>2. NetEffect(u, v) = IF status[u] = "completed" THEN - Required(item, u, v) ELSE 0
    BY <1>1 DEF CountedOf
  <2>3. NetEffect(u, v)' = NetEffect(u, v)
    BY <1>1 DEF NetEffect
  <2>4. QED
    BY <2>1, <2>2, <2>3
<1>2. QED
  BY <1>1 DEF CountedOf

\* The movements of a commit all quote n, which is 0 or the number of a sale
\* of store st, and are then movements of variants of that store.
QuotesOnly(ls, n, st) ==
  \A j \in DOMAIN ls :
    ls[j].note = n /\ (n # 0 => StoreOfVariant(ls[j].variant) = st)

LEMMA OtherQuotes ==
  ASSUME TypeOK, NEW ls \in Seq(Line), NEW n, NEW st, QuotesOnly(ls, n, st),
         \A w \in Variant : movements'[w] = movements[w] \o RowsFor(ls, w),
         NEW u \in Sale, number[u] # 0,
         n # number[u] \/ SaleStore[u] # st,
         NEW v \in Variant, StoreOfVariant(v) = SaleStore[u]
  PROVE  Quoted(movements'[v], number[u]) = Quoted(movements[v], number[u])
<1>1. \A j \in LinesOf(ls, v) : ls[j].note # number[u]
  BY DEF LinesOf, QuotesOnly
<1>2. movements[v] \in Seq(Movement)
  BY DEF TypeOK, TablesOK
<1>3. Quoted(movements[v] \o RowsFor(ls, v), number[u]) = Quoted(movements[v], number[u])
  BY <1>1, <1>2, LinesQuoted
<1>4. QED
  BY <1>3

LEMMA NotesAfter ==
  ASSUME TypeOK, NotesInv, NEW ls \in Seq(Line), NEW n, NEW st,
         QuotesOnly(ls, n, st),
         \A w \in Variant : movements'[w] = movements[w] \o RowsFor(ls, w),
         n = 0 \/ n \in NumbersOf(number', st),
         \A w : NumbersOf(number, w) \subseteq NumbersOf(number', w)
  PROVE  NotesInv'
<1>1. ASSUME NEW v \in Variant
      PROVE  \A k \in DOMAIN movements'[v] :
               movements'[v][k].note \in {0} \cup NumbersOf(number', StoreOfVariant(v))
  <2> DEFINE N == {0} \cup NumbersOf(number', StoreOfVariant(v))
  <2>1. movements[v] \in Seq(Movement)
    BY DEF TypeOK, TablesOK
  <2>2. \A k \in DOMAIN movements[v] : movements[v][k].note \in N
    BY DEF NotesInv
  <2>3. \A j \in LinesOf(ls, v) : ls[j].note \in N
    BY DEF LinesOf, QuotesOnly
  <2> HIDE DEF N
  <2>4. \A k \in DOMAIN (movements[v] \o RowsFor(ls, v)) :
           (movements[v] \o RowsFor(ls, v))[k].note \in N
    BY <2>1, <2>2, <2>3, LinesNoted
  <2>5. movements'[v] = movements[v] \o RowsFor(ls, v)
    OBVIOUS
  <2>6. \A k \in DOMAIN movements'[v] : movements'[v][k].note \in N
    BY <2>4, <2>5
  <2>7. QED
    BY <2>6 DEF N
<1>2. QED
  BY <1>1 DEF NotesInv

\* Commits that record no movements.
LEMMA CountsDraft ==
  ASSUME IInv, EditInv, CountsInv, TypeOK', NEW r \in Request,
         CommitCreate(r) \/ CommitDelete(r) \/ CommitItem(r) \/ CommitPrice(r)
  PROVE  CountsInv'
<1>0. TypeOK /\ ControlInv /\ Commit(r)
  BY DEF IInv, Commit
<1>1. number' = number /\ movements' = movements
  BY DEF CommitCreate, CommitDelete, CommitItem, CommitPrice
<1>2. NotesInv'
  BY <1>1 DEF CountsInv, NotesInv
<1>3. ItemsInStore'
  <2>1. CASE CommitItem(r)
    <3> DEFINE i == Task[r].item
               row == memo[r].row
    <3>1. /\ Task[r].kind \in EditKinds /\ pc[r] = "commit" /\ i \in Item
          /\ item' = [item EXCEPT ![i] = row] /\ DOMAIN item = Item
      BY <2>1, TaskTypes DEF CommitItem, Committing, Reached, SaleKinds, EditKinds,
        IInv, TypeOK, TablesOK
    <3>2. Prepared(r)
      BY <3>1 DEF EditInv, EditOf
    <3>3. row # NoItem => StoreOfVariant(row.variant) = SaleStore[row.sale]
      <4>1. CASE Task[r].kind = "add"
        BY <3>2, <4>1 DEF Prepared, PricedLine
      <4>2. CASE Task[r].kind = "update"
        <5>1. /\ row.sale = Task[r].sale /\ row.variant = item[i].variant
              /\ i \in ItemsOf(item, Task[r].sale)
          BY <3>2, <4>2 DEF Prepared, PricedLine
        <5>2. item[i] # NoItem /\ item[i].sale = Task[r].sale
          BY <5>1 DEF ItemsOf
        <5>3. StoreOfVariant(item[i].variant) = SaleStore[item[i].sale]
          BY <3>1, <5>2 DEF CountsInv, ItemsInStore
        <5>4. QED
          BY <5>1, <5>2, <5>3
      <4>3. CASE Task[r].kind = "remove"
        BY <3>2, <4>3 DEF Prepared
      <4>4. QED
        BY <3>1, <4>1, <4>2, <4>3 DEF EditKinds
    <3> HIDE DEF i, row
    <3>4. \A j \in Item : item'[j] = IF j = i THEN row ELSE item[j]
      BY <3>1
    <3>5. QED
      BY <3>3, <3>4 DEF CountsInv, ItemsInStore
  <2>2. CASE CommitDelete(r)
    <3>1. \A j \in Item : item'[j] \in {item[j], NoItem}
      BY <2>2 DEF CommitDelete
    <3>2. QED
      BY <3>1 DEF CountsInv, ItemsInStore
  <2>3. CASE CommitCreate(r) \/ CommitPrice(r)
    <3>1. item' = item
      BY <2>3 DEF CommitCreate, CommitPrice
    <3>2. QED
      BY <3>1 DEF CountsInv, ItemsInStore
  <2>4. QED
    BY <2>1, <2>2, <2>3
<1>4. ASSUME NEW u \in Sale
      PROVE  CountedOf(u)'
  <2>1. CASE status'[u] = status[u] /\ (number[u] # 0 => ItemsKept(u))
    BY <1>1, <2>1, CountStays DEF CountsInv
  <2>2. CASE ~ (status'[u] = status[u] /\ (number[u] # 0 => ItemsKept(u)))
    <3>1. Task[r].sale = u /\ Task[r].kind \in SaleKinds \cup {"create"}
      <4>1. CASE CommitCreate(r)
        BY <2>2, <4>1, <1>0 DEF CommitCreate, TypeOK, TablesOK, ItemsKept
      <4>2. CASE CommitDelete(r)
        <5>1. status' = [status EXCEPT ![Task[r].sale] = "none"]
              /\ Task[r].kind = "delete"
          BY <4>2 DEF CommitDelete
        <5>2. u # Task[r].sale => status'[u] = status[u]
          BY <1>0, <5>1 DEF TypeOK, TablesOK
        <5>3. u # Task[r].sale => ItemsKept(u)
          BY <1>0, CommitItemEffect
        <5>4. QED
          BY <2>2, <5>1, <5>2, <5>3 DEF SaleKinds
      <4>3. CASE CommitItem(r) \/ CommitPrice(r)
        <5>1. status' = status
          BY <4>3 DEF CommitItem, CommitPrice
        <5>2. ~ ItemsKept(u)
          BY <2>2, <5>1
        <5>3. QED
          BY <1>0, <5>2, CommitItemEffect
      <4>4. QED
        BY <4>1, <4>2, <4>3
    <3>2. Task[r].kind \notin {"complete", "cancel"}
      BY DEF CommitCreate, CommitDelete, CommitItem, CommitPrice
    <3>3. status[u] \in {"none", "draft"}
      BY <1>0, <3>1, <3>2, CommitKnows DEF HoldsSale, ExpectedStatus
    <3>4. status'[u] \in {"none", "draft"}
      <4>1. status'[u] = status[u] \/ status'[u] \in {"none", "draft"}
        BY <1>0 DEF CommitCreate, CommitDelete, CommitItem, CommitPrice, TypeOK, TablesOK
      <4>2. QED
        BY <3>3, <4>1
    <3>5. number[u] = 0
      BY <3>3 DEF CountsInv, CountedOf
    <3>6. QED
      BY <1>1, <3>4, <3>5 DEF CountedOf
  <2>3. QED
    BY <2>1, <2>2
<1>5. QED
  BY <1>2, <1>3, <1>4 DEF CountsInv

\* Commits that record movements append the rows of one list of lines.
LEMMA CommitAppends ==
  ASSUME IInv, RecordInv, NEW r \in Request, Committing(r), WriteStock(r),
         Task[r].kind \in StockKinds
  PROVE  \E ls \in Seq(Line) :
           /\ Meant(r, ls)
           /\ \A w \in Variant : movements'[w] = movements[w] \o RowsFor(ls, w)
<1>1. PICK ls \in Seq(Line) :
        Meant(r, ls) /\ \A v \in Variant : rows[r][v] = RowsFor(ls, v)
  BY CommitRecords
<1>2. \A w \in Variant : movements'[w] = movements[w] \o rows[r][w]
  BY DEF WriteStock
<1>3. \A w \in Variant : movements'[w] = movements[w] \o RowsFor(ls, w)
  BY <1>1, <1>2
<1>4. QED
  BY <1>1, <1>3

\* Purchases and adjustments quote no sale.
LEMMA CountsStockIn ==
  ASSUME IInv, RecordInv, CountsInv, NEW r \in Request, CommitStockIn(r)
  PROVE  CountsInv'
<1>1. /\ Task[r].kind \in {"movement", "batch"}
      /\ Committing(r) /\ WriteStock(r)
      /\ status' = status /\ number' = number /\ item' = item
  BY DEF CommitStockIn
<1>2. PICK ls \in Seq(Line) :
        /\ Meant(r, ls)
        /\ \A w \in Variant : movements'[w] = movements[w] \o RowsFor(ls, w)
  BY <1>1, CommitAppends DEF StockKinds
<1>3. \A j \in DOMAIN ls : ls[j].note = 0
  <2>1. WellFormed(Task[r])
    BY TaskAssumption
  <2>2. CASE Task[r].kind = "movement"
    <3>1. ls = <<Task[r].line>> /\ Task[r].line.note = 0
      BY <1>2, <2>1, <2>2 DEF Meant, WellFormed
    <3>2. QED
      BY <3>1
  <2>3. CASE Task[r].kind = "batch"
    <3>1. ls = Task[r].lines /\ \A j \in DOMAIN Task[r].lines : Task[r].lines[j].note = 0
      BY <1>2, <2>1, <2>3 DEF Meant, WellFormed
    <3>2. QED
      BY <3>1
  <2>4. QED
    BY <1>1, <2>2, <2>3
<1>4. \A st : QuotesOnly(ls, 0, st)
  BY <1>3 DEF QuotesOnly
<1>5. TypeOK /\ NotesInv /\ ItemsInStore /\ \A u \in Sale : CountedOf(u)
  BY DEF IInv, CountsInv
<1>6. NotesInv'
  <2>1. \A w : NumbersOf(number, w) \subseteq NumbersOf(number', w)
    BY <1>1
  <2>2. QED
    BY <1>2, <1>4, <1>5, <2>1, NotesAfter
<1>7. ItemsInStore'
  BY <1>1, <1>5 DEF ItemsInStore
<1>8. ASSUME NEW u \in Sale
      PROVE  CountedOf(u)'
  <2>1. ItemsKept(u)
    BY <1>1 DEF ItemsKept
  <2>2. ASSUME NEW v \in Variant, number[u] # 0, StoreOfVariant(v) = SaleStore[u]
        PROVE  Quoted(movements'[v], number[u]) = Quoted(movements[v], number[u])
    BY <1>2, <1>4, <1>5, <2>2, OtherQuotes
  <2>3. QED
    BY <1>1, <1>5, <2>1, <2>2, CountStays
<1>9. QED
  BY <1>6, <1>7, <1>8 DEF CountsInv

\* The lines of a sale quote its number and are about variants of its store.
LEMMA SaleQuotes ==
  ASSUME TypeOK, ItemsInStore, NEW s \in Sale, NEW n,
         NEW o \in SetToSeqs(ItemsOf(item, s))
  PROVE  /\ QuotesOnly(SaleLines(item, o, n), n, SaleStore[s])
         /\ QuotesOnly(CancellationLines(item, o, n), n, SaleStore[s])
<1> DEFINE S == ItemsOf(item, s)
           a == SaleLines(item, o, n)
           b == CancellationLines(item, o, n)
<1>1. \A k \in DOMAIN o : o[k] \in S
  <2>1. IsFiniteSet(S)
    BY FiniteQueries DEF TypeOK, TablesOK
  <2> HIDE DEF S
  <2>2. o \in SetToSeqs(S)
    BY DEF S
  <2>3. o \in Bijection(DOMAIN o, S)
    BY <2>1, <2>2, ListingsListAll
  <2>4. QED
    BY <2>3 DEF Bijection, Injection
<1>2. \A i \in S : StoreOfVariant(item[i].variant) = SaleStore[s]
  BY DEF ItemsOf, ItemsInStore
<1>3. /\ DOMAIN a = DOMAIN o
      /\ \A k \in DOMAIN o : a[k].variant = item[o[k]].variant /\ a[k].note = n
  BY DEF SaleLines
<1>4. /\ DOMAIN b = DOMAIN o
      /\ \A k \in DOMAIN o : b[k].variant = item[o[k]].variant /\ b[k].note = n
  BY DEF CancellationLines
<1> HIDE DEF S, a, b
<1>5. QuotesOnly(a, n, SaleStore[s])
  BY <1>1, <1>2, <1>3 DEF QuotesOnly
<1>6. QuotesOnly(b, n, SaleStore[s])
  BY <1>1, <1>2, <1>4 DEF QuotesOnly
<1>7. QED
  BY <1>5, <1>6 DEF a, b

\* A checkout: the number is new to its store, so nothing quotes it yet.
LEMMA CountsCheckout ==
  ASSUME IInv, IInv', RecordInv, CountsInv, NEW r \in Request, CommitCheckout(r)
  PROVE  CountsInv'
<1> DEFINE s == Task[r].sale
           n == memo[r].number
           st == SaleStore[s]
<1>1. /\ Task[r].kind = "complete" /\ pc[r] = "commit" /\ s \in Sale /\ st \in Store
      /\ Committing(r) /\ WriteStock(r)
      /\ item' = item
      /\ status' = [status EXCEPT ![s] = "completed"]
      /\ number' = [number EXCEPT ![s] = n]
  BY TaskTypes, KeysAssumption DEF CommitCheckout, Committing, Reached, SaleKinds
<1>2. status[s] = "draft" /\ n = LatestNumber(number, st) + 1
  BY <1>1 DEF IInv, ControlInv, ControlOf, SaleKinds, HoldsSale, ExpectedStatus,
     HoldsNumber
<1>3. PICK ls \in Seq(Line) :
        /\ Meant(r, ls)
        /\ \A w \in Variant : movements'[w] = movements[w] \o RowsFor(ls, w)
  BY <1>1, CommitAppends DEF StockKinds
<1>4. PICK o \in SetToSeqs(ItemsOf(item, s)) : ls = SaleLines(item, o, n)
  BY <1>1, <1>3 DEF Meant
<1>5. /\ TypeOK /\ NotesInv /\ ItemsInStore /\ \A u \in Sale : CountedOf(u)
      /\ item \in [Item -> ItemRow \cup {NoItem}]
      /\ \A v \in Variant : movements[v] \in Seq(Movement)
      /\ DOMAIN number = Sale /\ DOMAIN status = Sale
  BY DEF IInv, CountsInv, TypeOK, TablesOK
<1>6. n # 0 /\ n \notin NumbersOf(number, st)
  <2>1. PICK m \in Nat : NumbersOf(number, st) = 1 .. m
    BY <1>1 DEF IInv, NumberInv
  <2>2. n = m + 1
    BY <1>2, <2>1, LatestOfInterval
  <2>3. QED
    BY <2>1, <2>2
<1>7. number[s] = 0
  BY <1>1, <1>2, <1>5 DEF CountedOf
<1> HIDE DEF s, n, st
<1>8. /\ number'[s] = n /\ status'[s] = "completed"
      /\ \A u \in Sale : u # s => number'[u] = number[u] /\ status'[u] = status[u]
  BY <1>1, <1>5
<1>9. QuotesOnly(ls, n, st)
  BY <1>1, <1>4, <1>5, SaleQuotes DEF st
<1>10. NotesInv'
  <2>1. n \in NumbersOf(number', st)
    BY <1>1, <1>6, <1>8 DEF NumbersOf, st
  <2>2. \A w : NumbersOf(number, w) \subseteq NumbersOf(number', w)
    BY <1>7, <1>8 DEF NumbersOf
  <2>3. QED
    BY <1>3, <1>5, <1>9, <2>1, <2>2, NotesAfter
<1>11. ItemsInStore'
  BY <1>1, <1>5 DEF ItemsInStore
<1>12. ASSUME NEW v \in Variant, StoreOfVariant(v) = st
       PROVE  NetEffect(s, v)' = - Required(item', s, v)
  <2>1. \A k \in DOMAIN movements[v] : movements[v][k].note # n
    BY <1>5, <1>6, <1>12 DEF NotesInv
  <2>2. Quoted(movements[v], n) = 0
    BY <1>5, <2>1, QuotedAllOrNone
  <2>3. \A j \in LinesOf(ls, v) : ls[j].note = n
    BY <1>9 DEF QuotesOnly, LinesOf
  <2>4. Quoted(movements[v] \o RowsFor(ls, v), n)
          = Quoted(movements[v], n) + LineSum(ls, v)
    BY <1>5, <2>3, LinesQuoted
  <2>5. LineSum(ls, v) = - Required(item, s, v) /\ Required(item, s, v) \in Int
    BY <1>1, <1>4, <1>5, SaleLinesSum
  <2>6. NetEffect(s, v)' = Quoted(movements[v] \o RowsFor(ls, v), n)
    BY <1>3, <1>8 DEF NetEffect
  <2>7. Required(item', s, v) = Required(item, s, v)
    BY <1>1
  <2>8. QED
    BY <2>2, <2>4, <2>5, <2>6, <2>7
<1>13. CountedOf(s)'
  <2>1. ASSUME NEW v \in {w \in Variant : StoreOfVariant(w) = SaleStore[s]}
        PROVE  NetEffect(s, v)' = IF status'[s] = "completed"
                                  THEN - Required(item', s, v) ELSE 0
    BY <1>8, <1>12 DEF st
  <2>2. QED
    BY <1>6, <1>8, <2>1 DEF CountedOf
<1>14. ASSUME NEW u \in Sale, u # s
       PROVE  CountedOf(u)'
  <2>1. ItemsKept(u)
    BY <1>1 DEF ItemsKept
  <2>2. number[u] # 0 => n # number[u] \/ SaleStore[u] # st
    BY <1>6, <1>14 DEF NumbersOf
  <2>3. ASSUME NEW v \in Variant, number[u] # 0, StoreOfVariant(v) = SaleStore[u]
        PROVE  Quoted(movements'[v], number[u]) = Quoted(movements[v], number[u])
    BY <1>3, <1>5, <1>9, <2>2, <2>3, OtherQuotes
  <2>4. QED
    BY <1>5, <1>8, <1>14, <2>1, <2>3, CountStays
<1>15. QED
  BY <1>10, <1>11, <1>13, <1>14 DEF CountsInv

\* A cancellation puts back what the sale requires, under the same number.
LEMMA CountsCancel ==
  ASSUME IInv, RecordInv, CountsInv, NEW r \in Request, CommitCancel(r)
  PROVE  CountsInv'
<1> DEFINE s == Task[r].sale
           n == number[s]
           st == SaleStore[s]
<1>1. /\ Task[r].kind = "cancel" /\ pc[r] = "commit" /\ s \in Sale /\ st \in Store
      /\ Committing(r) /\ WriteStock(r)
      /\ item' = item /\ number' = number
      /\ status' = [status EXCEPT ![s] = "cancelled"]
  BY TaskTypes, KeysAssumption DEF CommitCancel, Committing, Reached, SaleKinds
<1>2. status[s] = "completed"
  BY <1>1 DEF IInv, ControlInv, ControlOf, SaleKinds, HoldsSale, ExpectedStatus
<1>3. PICK ls \in Seq(Line) :
        /\ Meant(r, ls)
        /\ \A w \in Variant : movements'[w] = movements[w] \o RowsFor(ls, w)
  BY <1>1, CommitAppends DEF StockKinds
<1>4. PICK o \in SetToSeqs(ItemsOf(item, s)) : ls = CancellationLines(item, o, n)
  BY <1>1, <1>3 DEF Meant
<1>5. /\ TypeOK /\ NotesInv /\ ItemsInStore /\ \A u \in Sale : CountedOf(u)
      /\ item \in [Item -> ItemRow \cup {NoItem}]
      /\ \A v \in Variant : movements[v] \in Seq(Movement)
      /\ DOMAIN status = Sale
  BY DEF IInv, CountsInv, TypeOK, TablesOK
<1>6. n # 0
  BY <1>1, <1>2, <1>5 DEF CountedOf
<1>7. \A u \in Sale : u # s /\ number[u] # 0 => n # number[u] \/ SaleStore[u] # st
  BY <1>1, <1>6 DEF IInv, NumberInv
<1>8. \A v \in Variant : StoreOfVariant(v) = st
         => Quoted(movements[v], n) = - Required(item, s, v)
  BY <1>1, <1>2, <1>5, <1>6 DEF CountedOf, NetEffect
<1>9. n \in NumbersOf(number, st)
  BY <1>1, <1>6 DEF NumbersOf
<1>10. number[s] = n
  OBVIOUS
<1> HIDE DEF s, n, st
<1>11. /\ status'[s] = "cancelled"
       /\ \A u \in Sale : u # s => status'[u] = status[u]
  BY <1>1, <1>5
<1>12. QuotesOnly(ls, n, st)
  BY <1>1, <1>4, <1>5, SaleQuotes DEF st
<1>13. NotesInv'
  <2>1. n \in NumbersOf(number', st)
    BY <1>1, <1>9
  <2>2. \A w : NumbersOf(number, w) \subseteq NumbersOf(number', w)
    BY <1>1
  <2>3. QED
    BY <1>3, <1>5, <1>12, <2>1, <2>2, NotesAfter
<1>14. ItemsInStore'
  BY <1>1, <1>5 DEF ItemsInStore
<1>15. ASSUME NEW v \in Variant, StoreOfVariant(v) = st
       PROVE  NetEffect(s, v)' = 0
  <2>1. \A j \in LinesOf(ls, v) : ls[j].note = n
    BY <1>12 DEF QuotesOnly, LinesOf
  <2>2. Quoted(movements[v] \o RowsFor(ls, v), n)
          = Quoted(movements[v], n) + LineSum(ls, v)
    BY <1>5, <2>1, LinesQuoted
  <2>3. LineSum(ls, v) = Required(item, s, v) /\ Required(item, s, v) \in Int
    BY <1>1, <1>4, <1>5, SaleLinesSum
  <2>4. NetEffect(s, v)' = Quoted(movements[v] \o RowsFor(ls, v), n)
    BY <1>1, <1>3, <1>10 DEF NetEffect
  <2>5. QED
    BY <1>8, <1>15, <2>2, <2>3, <2>4
<1>16. CountedOf(s)'
  <2>1. ASSUME NEW v \in {w \in Variant : StoreOfVariant(w) = SaleStore[s]}
        PROVE  NetEffect(s, v)' = IF status'[s] = "completed"
                                  THEN - Required(item', s, v) ELSE 0
    BY <1>11, <1>15 DEF st
  <2>2. QED
    BY <1>1, <1>6, <1>10, <1>11, <2>1 DEF CountedOf
<1>17. ASSUME NEW u \in Sale, u # s
       PROVE  CountedOf(u)'
  <2>1. ItemsKept(u)
    BY <1>1 DEF ItemsKept
  <2>2. number[u] # 0 => n # number[u] \/ SaleStore[u] # st
    BY <1>7, <1>17
  <2>3. ASSUME NEW v \in Variant, number[u] # 0, StoreOfVariant(v) = SaleStore[u]
        PROVE  Quoted(movements'[v], number[u]) = Quoted(movements[v], number[u])
    BY <1>3, <1>5, <1>12, <2>2, <2>3, OtherQuotes
  <2>4. QED
    BY <1>1, <1>5, <1>11, <1>17, <2>1, <2>3, CountStays
<1>18. QED
  BY <1>13, <1>14, <1>16, <1>17 DEF CountsInv

LEMMA CountsStep ==
  ASSUME IInv, IInv', EditInv, RecordInv, CountsInv, [Next]_vars
  PROVE  CountsInv'
<1>1. ASSUME UNCHANGED tables
      PROVE  CountsInv'
  BY <1>1 DEF CountsInv, NotesInv, ItemsInStore, CountedOf, NetEffect
<1>2. CASE UNCHANGED vars
  BY <1>1, <1>2
<1>3. ASSUME NEW r \in Request, Walks(r)
      PROVE  CountsInv'
  BY <1>1, <1>3, WalksKeepTables
<1>4. ASSUME NEW r \in Request, Commit(r)
      PROVE  CountsInv'
  <2>1. TypeOK'
    BY DEF IInv
  <2>2. QED
    BY <1>4, <2>1, CountsDraft, CountsStockIn, CountsCheckout, CountsCancel
    DEF Commit
<1>5. QED
  BY <1>2, <1>3, <1>4, Steps

LEMMA CountsInvariance == Spec => []CountsInv
<1>1. Init => CountsInv
  BY DEF Init, Abs!Init, CountsInv, NotesInv, ItemsInStore, CountedOf
<1>2. IInv /\ IInv' /\ EditInv /\ RecordInv /\ CountsInv /\ [Next]_vars => CountsInv'
  BY CountsStep
<1>3. QED
  BY <1>1, <1>2, Invariance, ItemsInvariance, RecordInvariance, PTL DEF Spec

\* Checkouts, cancellations and edits of the same sales, submitted twice,
\* overlapping, failing or dying, count every completed sale once, every
\* cancelled one not at all, and nothing else under a sale number.
THEOREM SalesCountOnce == Spec => []SaleCountsOnce
<1>1. CountsInv => SaleCountsOnce
  BY DEF CountsInv, CountedOf, SaleCountsOnce
<1>2. QED
  BY <1>1, CountsInvariance, PTL
=============================================================================
